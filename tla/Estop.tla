-------------------------------- MODULE Estop --------------------------------
(***************************************************************************)
(* The E-stop latch: estop, estop_confirmed, reset_latch and the merged    *)
(* telemetry of RemoteTeleop (src/src/nori_sdk/teleop.py) over an          *)
(* unreliable, unordered control channel, against the latch of the robot   *)
(* (mock/robot.py).                                                        *)
(*                                                                         *)
(* The robot reports its safety block in one telemetry frame of three: a   *)
(* frame is known here by that block, "latched" or "clear" (ok or          *)
(* safe_hold), or is "bare", without it.                                   *)
(***************************************************************************)
EXTENDS Naturals

CONSTANT MaxCmds   \* command frames of a kind in flight at once (bound)

ASSUME CmdsAssumption == MaxCmds \in Nat

Commands == {"estop", "reset_latch"}
Reports  == {"latched", "clear"}
Frames   == Reports \cup {"bare"}
\* "resolved": the future has its result, and the caller has not been resumed yet.
Calls    == {"idle", "waiting", "resolved", "confirmed", "timeout", "refused"}

VARIABLES
  view,      \* _telemetry: "none" before the first frame, else its safety block
  call,      \* the estop_confirmed() call
  up,        \* _control is there and open
  cmds,      \* command frames in flight
  frames,    \* telemetry frames in flight
  latch,        \* MockRobot.estopped
  reported,     \* history: the robot's report of a latch was received in the wait
  everLatched,  \* history: the robot has latched
  resetSince    \* history: reset_latch was called after the last estop

hist == <<reported, everLatched, resetSince>>
vars == <<view, call, up, cmds, frames, latch, hist>>

TypeOK ==
  /\ view \in Frames \cup {"none"}
  /\ call \in Calls
  /\ cmds \in [Commands -> 0 .. MaxCmds] /\ frames \subseteq Frames
  /\ up \in BOOLEAN /\ latch \in BOOLEAN
  /\ reported \in BOOLEAN /\ everLatched \in BOOLEAN /\ resetSince \in BOOLEAN

Init ==
  /\ view = "none" /\ call = "idle" /\ up = FALSE
  /\ cmds = [c \in Commands |-> 0] /\ frames = {}
  /\ latch = FALSE /\ reported = FALSE /\ everLatched = FALSE /\ resetSince = FALSE

-----------------------------------------------------------------------------
(* The client *)

\* _send of a command frame, into an open channel.
Send(c) ==
  /\ up /\ cmds[c] < MaxCmds
  /\ cmds' = [cmds EXCEPT ![c] = @ + 1]
  /\ resetSince' = (c = "reset_latch")

\* estop() when the channel is open, and reset_latch(); on a closed channel the
\* one raises and the other drops its frame, and neither changes anything.
Command(c) ==
  /\ Send(c)
  /\ UNCHANGED <<view, call, up, frames, latch, reported, everLatched>>

\* estop_confirmed(): it subscribes, then sends.
ConfirmBegins ==
  /\ call \notin {"waiting", "resolved"}
  /\ reported' = FALSE
  /\ \/ Send("estop") /\ call' = "waiting"
     \/ ~up /\ call' = "refused" /\ UNCHANGED <<cmds, resetSince>>
  /\ UNCHANGED <<view, up, frames, latch, everLatched>>

ConfirmReturns ==
  /\ call = "resolved"
  /\ call' = "confirmed"
  /\ UNCHANGED <<view, up, cmds, frames, latch, hist>>

\* The timer of wait_for may also fire after the future is resolved, before the
\* caller is resumed: the TimeoutError is raised all the same.
ConfirmTimesOut ==
  /\ call \in {"waiting", "resolved"}
  /\ call' = "timeout"
  /\ UNCHANGED <<view, up, cmds, frames, latch, hist>>

\* _merge_telemetry: the safety block is carried over a frame without it.
MergedFirst(f) == IF view = "none" THEN f ELSE view  \* mutant: the first block stays
Merged(f) == IF view = "none" \/ f # "bare" THEN f ELSE view

\* The listener _check, to which _handle_frame gives the merged frame.
ConfirmsKnown(safety) == safety # "bare"           \* mutant: any safety block will do
Confirms(safety) == safety = "latched"

\* _handle_frame of a telemetry frame.
HandleTelemetry(f) ==
  /\ up /\ f \in frames
  /\ frames' = frames \ {f}
  /\ view' = Merged(f)
  /\ call' = IF call = "waiting" /\ Confirms(Merged(f)) THEN "resolved" ELSE call
  /\ reported' = (reported \/ (call = "waiting" /\ f = "latched"))
  /\ UNCHANGED <<up, cmds, latch, everLatched, resetSince>>

-----------------------------------------------------------------------------
(* The channel and the robot *)

\* MockRobot.handle of a command frame, in whatever order frames arrive.
Obey(c) ==
  /\ cmds[c] > 0
  /\ cmds' = [cmds EXCEPT ![c] = @ - 1]
  /\ latch' = (c = "estop")
  /\ everLatched' = (everLatched \/ c = "estop")
  /\ UNCHANGED <<view, call, up, frames, reported, resetSince>>

\* MockRobot.telemetry, with or without the status block.
Report(withStatus) ==
  /\ up
  /\ frames' = frames \cup {IF ~withStatus THEN "bare" ELSE IF latch THEN "latched" ELSE "clear"}
  /\ UNCHANGED <<view, call, up, cmds, latch, hist>>

LoseCommand(c) ==
  /\ cmds[c] > 0
  /\ cmds' = [cmds EXCEPT ![c] = @ - 1]
  /\ UNCHANGED <<view, call, up, frames, latch, hist>>

LoseFrame(f) ==
  /\ f \in frames
  /\ frames' = frames \ {f}
  /\ UNCHANGED <<view, call, up, cmds, latch, hist>>

\* The channel opens, or closes with all that is in flight; _telemetry and the
\* latch outlive it.
ChannelOpens ==
  /\ ~up /\ up' = TRUE
  /\ UNCHANGED <<view, call, cmds, frames, latch, hist>>

ChannelCloses ==
  /\ up /\ up' = FALSE
  /\ cmds' = [c \in Commands |-> 0] /\ frames' = {}
  /\ UNCHANGED <<view, call, latch, hist>>

-----------------------------------------------------------------------------
Next ==
  \/ \E c \in Commands : Command(c) \/ Obey(c) \/ LoseCommand(c)
  \/ ConfirmBegins \/ ConfirmReturns \/ ConfirmTimesOut
  \/ \E f \in Frames : HandleTelemetry(f) \/ LoseFrame(f)
  \/ \E withStatus \in BOOLEAN : Report(withStatus)
  \/ ChannelOpens \/ ChannelCloses

Spec == Init /\ [][Next]_vars

\* The robot keeps reporting, and the channel does not lose every report.
Fairness ==
  /\ WF_vars(Report(TRUE))
  /\ SF_vars(HandleTelemetry("latched"))

FairSpec == Spec /\ Fairness

-----------------------------------------------------------------------------
(* Properties *)

\* Whatever is lost, late or carried over, a confirmation is never invented: the
\* robot has latched (teleop.py:736).
ConfirmedLatched == call = "confirmed" => everLatched

\* The first report of a latch ends the wait, whatever frames came before it: a
\* timeout overlooks no report but one that beats its timer by a loop turn.
ReportEndsWait == call = "waiting" => ~reported

\* The safety block the client shows does not flicker: once known it changes
\* only to what a report it has just received says (teleop.py:1752).
SafetySteady ==
  [][view # "none" /\ view' # view => view' \in Reports /\ view' \in frames]_vars

\* A latch that lasts is confirmed: while the channel is up and the robot stays
\* latched, a waiting estop_confirmed gets its report.
LatchConfirmed == (call = "waiting" /\ latch) ~> (call # "waiting" \/ ~latch \/ ~up)

(* Claims of the code that the code does not keep.                            *)

\* "Only a report observed AFTER the send counts" (teleop.py:724): a report of a
\* latch is received during the wait that it confirms.
ConfirmedByReport == call = "confirmed" => reported

\* "Raises TeleopError when no latch is seen in time" (teleop.py:721): a timeout
\* means that no report of a latch was received in the wait.
TimeoutUnreported == call = "timeout" => ~reported

\* "Motion stays blocked until reset_latch()" (teleop.py:697): a latch is cleared
\* only if reset_latch was called after the last estop.
LatchHolds == [][latch /\ ~latch' => resetSince]_vars
====
