------------------------------- MODULE Motion -------------------------------
(***************************************************************************)
(* Jog streaming and the dead-man: the motion verbs of RemoteTeleop        *)
(* (src/src/nori_sdk/teleop.py: jog, hold, set_jog, stop_jog, action and   *)
(* pose) against the robot's control watchdog (mock/robot.py).             *)
(*                                                                         *)
(* Three sorts of task repeat control frames: the background loop that     *)
(* set_jog spawns, jog(duration) scripts in their callers' tasks, and the  *)
(* keep-alive feeder of action(wait=True) and pose(wait=True).  They, and  *)
(* the callers of stop_jog, interleave at their awaits.                    *)
(*                                                                         *)
(* Time: one Tick is one repetition interval (1/JOG_HZ).  The control      *)
(* channel is unreliable and unordered; a frame that is not lost arrives   *)
(* within the Tick it was sent in, in any order.                           *)
(***************************************************************************)
EXTENDS Naturals, FiniteSets

CONSTANTS
  Drives,    \* the jog payloads that move something
  Loops,     \* identities of _jog_loop tasks (bound on those alive at once)
  Scripts,   \* tasks that call jog(duration=...) or hold()
  Halters,   \* tasks that call stop_jog(); stop() is one more
  Duration,  \* the duration of a script, in ticks
  TStop,     \* the watchdog's t_stop_ms, in ticks
  MaxDrops,  \* frames the channel may lose in a row (bound)
  Strict,    \* the strict flag of the constructor
  Targets    \* TRUE: callers use action and pose

ASSUME MotionAssumption ==
  /\ Duration \in Nat \ {0} /\ TStop \in Nat \ {0} /\ MaxDrops \in Nat
  /\ Strict \in BOOLEAN /\ Targets \in BOOLEAN

Zero   == "zero"     \* an all-zero or empty jog
None   == "none"
Target == "target"   \* a control frame with an action or pose, and no jog
Jogs   == Drives \cup {Zero}
Stop   == "stop"     \* the stop() caller of stop_jog

ASSUME NamesAssumption ==
  /\ {Zero, None, Target} \cap Drives = {}
  /\ Stop \notin Halters
  /\ None \notin Loops

VARIABLES
  payload, jogTask, loop,   \* _jog_payload, _jog_task, the _jog_loop tasks
  halt,                     \* the stop_jog calls: are they awaiting, and `last`
  script,                   \* the jog(duration) calls
  feed,                     \* the feeder of action(wait=True), if one awaits
  stopped, up,              \* _stopped; the control channel is open
  wire, drops,              \* frames in flight; losses in a row
  rjog, silence, target,    \* the robot: its jog, its silence, its latched target
  drove, parked, quiet, fed  \* history: see the properties

client == <<payload, jogTask, loop, halt, script, feed>>
radio  == <<wire, drops, drove, quiet, fed>>
robot  == <<rjog, silence, target>>
vars   == <<client, stopped, up, radio, robot, parked>>

Idle(s) == script[s].at = "idle"
NobodyDrives == payload = None /\ \A s \in Scripts : Idle(s)
Running == {"due", "asleep"}
\* _jog_task is a task that has not finished (one being cancelled has not).
Streaming == jogTask # None /\ loop[jogTask] # "done"

TypeOK ==
  /\ payload \in Jogs \cup {None}
  /\ jogTask \in Loops \cup {None}
  /\ loop \in [Loops -> {"due", "asleep", "cancelled", "done"}]
  /\ halt \in [Halters \cup {Stop} -> [at : {"idle", "await"}, last : Jogs \cup {None}]]
  /\ script \in [Scripts -> [at : {"idle", "due", "asleep"}, jog : Jogs, left : 0 .. Duration]]
  /\ feed \in {"none", "due", "asleep"}
  /\ stopped \in BOOLEAN /\ up \in BOOLEAN
  /\ wire \subseteq Jogs \cup {Target} /\ drops \in 0 .. MaxDrops
  /\ rjog \in Jogs /\ silence \in 0 .. TStop + 1
  /\ target \in {"none", "latched", "dropped"}
  /\ drove \in BOOLEAN /\ parked \in BOOLEAN
  /\ quiet \in 0 .. TStop + 2 /\ fed \in BOOLEAN

Init ==
  /\ payload = None /\ jogTask = None
  /\ loop = [l \in Loops |-> "done"]
  /\ halt = [h \in Halters \cup {Stop} |-> [at |-> "idle", last |-> None]]
  /\ script = [s \in Scripts |-> [at |-> "idle", jog |-> Zero, left |-> 0]]
  /\ feed = "none"
  /\ stopped = FALSE /\ up = TRUE
  /\ wire = {} /\ drops = 0
  /\ rjog = Zero /\ silence = 0 /\ target = "none"
  /\ drove = FALSE /\ parked = FALSE /\ quiet = TStop + 2 /\ fed = FALSE

-----------------------------------------------------------------------------
(* _send: a frame into a closed channel is dropped, silently.  drove tells   *)
(* whether the last frame handed to the channel was a driving jog, quiet the *)
(* ticks since the last such jog, fed whether a target was sent since.       *)
Send(f) ==
  /\ wire' = IF up THEN wire \cup {f} ELSE wire
  /\ drove' = IF up THEN f \in Drives ELSE drove
  /\ quiet' = IF up /\ f \in Drives THEN 0 ELSE quiet
  /\ fed' = IF ~up THEN fed ELSE f \notin Drives /\ (fed \/ f = Target)
  /\ UNCHANGED drops

NoSend == UNCHANGED radio

\* _require_live: in strict mode a motion verb raises on a dead session.
Live == Strict => up /\ ~stopped

-----------------------------------------------------------------------------
(* set_jog and its loop *)

SetJog(p) ==
  /\ Live
  /\ payload' = p
  /\ parked' = FALSE
  /\ \/ /\ Streaming
        /\ UNCHANGED <<jogTask, loop>>
     \/ /\ ~Streaming
        /\ \E l \in Loops :
             /\ loop[l] = "done"
             /\ jogTask' = l
             /\ loop' = [loop EXCEPT ![l] = "due"]
  /\ NoSend /\ UNCHANGED <<halt, script, feed, stopped, up, robot>>

ClearJog ==
  /\ payload # None
  /\ payload' = None
  /\ NoSend /\ UNCHANGED <<jogTask, loop, halt, script, feed, stopped, up, robot, parked>>

\* The condition of _jog_loop.
GoesOnUntilStop == ~stopped                        \* mutant: a cleared payload is sent
GoesOn == ~stopped /\ payload # None

LoopTurn(l) ==
  /\ loop[l] = "due"
  /\ \/ /\ GoesOn
        /\ Send(payload)
        /\ loop' = [loop EXCEPT ![l] = "asleep"]
     \/ /\ ~GoesOn
        /\ loop' = [loop EXCEPT ![l] = "done"]
        /\ NoSend
  /\ UNCHANGED <<payload, jogTask, halt, script, feed, stopped, up, robot, parked>>

\* A cancelled loop gets its CancelledError.
LoopDies(l) ==
  /\ loop[l] = "cancelled"
  /\ loop' = [loop EXCEPT ![l] = "done"]
  /\ NoSend
  /\ UNCHANGED <<payload, jogTask, halt, script, feed, stopped, up, robot, parked>>

-----------------------------------------------------------------------------
(* stop_jog, and stop() up to the same point *)

Cancelled(ls) == [l \in Loops |-> IF l \in ls /\ loop[l] \in Running THEN "cancelled" ELSE loop[l]]

\* Mutant of HaltEnds: the last payload is sent again, not its zero.
HaltEndsRepeating(h, last) ==
  /\ jogTask' = None
  /\ halt' = [halt EXCEPT ![h] = [at |-> "idle", last |-> None]]
  /\ IF last # None THEN Send(last) ELSE NoSend
  /\ parked' = (parked \/ (last # None /\ up /\ NobodyDrives'))

\* The lines after the await: forget the task and send a zero frame.
HaltEnds(h, last) ==
  /\ jogTask' = None
  /\ halt' = [halt EXCEPT ![h] = [at |-> "idle", last |-> None]]
  /\ IF last # None THEN Send(Zero) ELSE NoSend
  /\ parked' = (parked \/ (last # None /\ up /\ NobodyDrives'))

\* Up to `await self._jog_task`; a task that is done does not suspend it.
HaltBegins(h) ==
  /\ halt[h].at = "idle"
  /\ payload' = None
  /\ \/ /\ Streaming
        /\ loop' = Cancelled({jogTask})
        /\ halt' = [halt EXCEPT ![h] = [at |-> "await", last |-> payload]]
        /\ NoSend /\ UNCHANGED <<jogTask, parked>>
     \/ /\ ~Streaming
        /\ HaltEnds(h, payload)
        /\ UNCHANGED loop

StopJog(h) ==
  /\ h \in Halters
  /\ UNCHANGED <<script, feed, stopped, up, robot>>
  /\ HaltBegins(h)

\* The awaited task is done.  (Loops end before time passes; which task was
\* awaited is the one that is being cancelled.)
StopJogEnds(h) ==
  /\ halt[h].at = "await"
  /\ \A l \in Loops : loop[l] # "cancelled"
  /\ UNCHANGED <<payload, loop, script, feed, stopped, up, robot>>
  /\ HaltEnds(h, halt[h].last)

\* stop(): _stopped first, then stop_jog.
SessionStops ==
  /\ ~stopped /\ stopped' = TRUE
  /\ UNCHANGED <<script, feed, up, robot>>
  /\ HaltBegins(Stop)

\* The rest of stop(): the tasks of self._tasks are cancelled, and the channel
\* goes down with the session.
SessionCloses ==
  /\ stopped /\ up /\ halt[Stop].at = "idle"
  /\ loop' = Cancelled(Loops)
  /\ feed' = "none"
  /\ up' = FALSE
  /\ NoSend /\ UNCHANGED <<payload, jogTask, halt, script, stopped, robot, parked>>

-----------------------------------------------------------------------------
(* jog(duration), hold, one-shot jog, action and pose *)

JogStarts(s, p) ==
  /\ Idle(s) /\ Live
  /\ script' = [script EXCEPT ![s] = [at |-> "due", jog |-> p, left |-> Duration]]
  /\ parked' = FALSE
  /\ NoSend /\ UNCHANGED <<payload, jogTask, loop, halt, feed, stopped, up, robot>>

JogTurn(s) ==
  /\ script[s].at = "due"
  /\ \/ /\ script[s].left > 0 /\ ~stopped
        /\ Send(script[s].jog)
        /\ script' = [script EXCEPT ![s].at = "asleep"]
     \/ /\ script[s].left = 0 \/ stopped
        /\ Send(Zero)
        /\ script' = [script EXCEPT ![s].at = "idle"]
  /\ UNCHANGED <<payload, jogTask, loop, halt, feed, stopped, up, robot, parked>>

\* The caller's task is cancelled in the sleep: no zero frame follows.
JogCancelled(s) ==
  /\ script[s].at = "asleep"
  /\ script' = [script EXCEPT ![s].at = "idle"]
  /\ NoSend /\ UNCHANGED <<payload, jogTask, loop, halt, feed, stopped, up, robot, parked>>

JogOnce(p) ==
  /\ Live
  /\ Send(p)
  /\ parked' = FALSE
  /\ UNCHANGED <<client, stopped, up, robot>>

\* action() or pose() without wait: one frame.
CommandTarget ==
  /\ Live /\ Targets
  /\ Send(Target)
  /\ UNCHANGED <<client, stopped, up, robot, parked>>

\* action(wait=True) or pose(wait=True): the frame, then a feeder that sleeps
\* first.  target is then the target of this call.
ActionStarts ==
  /\ Live /\ Targets /\ feed = "none"
  /\ Send(Target)
  /\ feed' = "asleep"
  /\ target' = "none"
  /\ UNCHANGED <<payload, jogTask, loop, halt, script, stopped, up, rjog, silence, parked>>

\* Mutant of FeederTurn: the feeder sleeps and sends nothing.
FeederTurnMute ==
  /\ feed = "due"
  /\ feed' = "asleep"
  /\ NoSend /\ UNCHANGED <<payload, jogTask, loop, halt, script, stopped, up, robot, parked>>

FeederTurn ==
  /\ feed = "due"
  /\ Send(Zero)
  /\ feed' = "asleep"
  /\ UNCHANGED <<payload, jogTask, loop, halt, script, stopped, up, robot, parked>>

\* A verdict, the timeout or a cancellation: the feeder is cancelled.
ActionEnds ==
  /\ feed # "none"
  /\ feed' = "none"
  /\ NoSend /\ UNCHANGED <<payload, jogTask, loop, halt, script, stopped, up, robot, parked>>

-----------------------------------------------------------------------------
(* The channel and the robot *)

\* Any control frame feeds the dead-man clock; only one with a jog replaces
\* the jog, and a jog leaves a latched target alone.
Deliver(f) ==
  /\ f \in wire
  /\ wire' = wire \ {f} /\ drops' = 0
  /\ silence' = 0
  /\ rjog' = IF f \in Jogs THEN f ELSE rjog
  /\ target' = IF f = Target THEN "latched" ELSE target
  /\ UNCHANGED <<client, stopped, up, drove, quiet, fed, parked>>

Lose(f) ==
  /\ f \in wire /\ drops < MaxDrops
  /\ wire' = wire \ {f} /\ drops' = drops + 1
  /\ UNCHANGED <<client, stopped, up, drove, quiet, fed, robot, parked>>

\* The connection is lost.
ChannelCloses ==
  /\ up /\ up' = FALSE
  /\ wire' = {}
  /\ UNCHANGED <<client, stopped, drops, drove, quiet, fed, robot, parked>>

\* The watchdog after a silence: past TStop the jog is zero.
NoWatchdog(s) == rjog                              \* mutant: the last jog goes on
Watchdog(s) == IF s > TStop THEN Zero ELSE rjog

\* The robot lets a latched target go when it has heard nothing for TStop.  The
\* mock robot keeps it: this is the robot that action() feeds (teleop.py:588-601).
HeldTarget(s) == IF s > TStop /\ target = "latched" THEN "dropped" ELSE target

Woken(at) == IF at = "asleep" THEN "due" ELSE at

\* A repetition interval passes: sleepers wake, and the robot, after TStop of
\* silence, stops its motion and lets its target go.
Tick ==
  /\ wire = {}
  /\ feed # "due"
  /\ \A l \in Loops : loop[l] \notin {"due", "cancelled"}
  /\ \A h \in Halters \cup {Stop} : halt[h].at = "idle"
  /\ \A s \in Scripts : script[s].at # "due"
  /\ loop' = [l \in Loops |-> Woken(loop[l])]
  /\ script' = [s \in Scripts |-> IF Idle(s) THEN script[s]
                  ELSE [script[s] EXCEPT !.at = "due", !.left = @ - 1]]
  /\ feed' = Woken(feed)
  /\ silence' = IF silence > TStop THEN silence ELSE silence + 1
  /\ rjog' = Watchdog(silence')
  /\ target' = HeldTarget(silence')
  /\ quiet' = IF quiet > TStop + 1 THEN quiet ELSE quiet + 1
  /\ UNCHANGED <<payload, jogTask, halt, stopped, up, wire, drops, drove, fed, parked>>

-----------------------------------------------------------------------------
Next ==
  \/ \E p \in Jogs : SetJog(p) \/ JogOnce(p) \/ \E s \in Scripts : JogStarts(s, p)
  \/ ClearJog
  \/ \E l \in Loops : LoopTurn(l) \/ LoopDies(l)
  \/ \E h \in Halters \cup {Stop} : StopJog(h) \/ StopJogEnds(h)
  \/ SessionStops \/ SessionCloses
  \/ \E s \in Scripts : JogTurn(s) \/ JogCancelled(s)
  \/ CommandTarget \/ ActionStarts \/ FeederTurn \/ ActionEnds
  \/ \E f \in Jogs \cup {Target} : Deliver(f) \/ Lose(f)
  \/ ChannelCloses \/ Tick

Spec == Init /\ [][Next]_vars

\* Tasks run, frames arrive or are lost, time passes, and stop() ends: its
\* awaits are bounded by timeouts.  No caller is obliged to do anything.
Fairness ==
  /\ \A l \in Loops : WF_vars(LoopTurn(l)) /\ WF_vars(LoopDies(l))
  /\ \A h \in Halters \cup {Stop} : WF_vars(StopJogEnds(h))
  /\ \A s \in Scripts : WF_vars(JogTurn(s))
  /\ WF_vars(FeederTurn) /\ WF_vars(SessionCloses) /\ WF_vars(Tick)
  /\ \A f \in Jogs \cup {Target} : WF_vars(Deliver(f))

FairSpec == Spec /\ Fairness

-----------------------------------------------------------------------------
(* Properties *)

\* While action(wait=True) awaits its verdict, the watchdog does not drop its
\* target, though the channel may lose MaxDrops frames in a row: the empty
\* jogs of the feeder keep the dead-man fed (teleop.py:588-594).
KeepAlive == feed # "none" /\ up /\ ~stopped => target # "dropped"

\* Once stop_jog has sent its zero frame no driving frame follows it, whatever
\* the loop it cancelled was doing, until a verb drives again.  parked is TRUE
\* from such a zero frame to the next verb that drives.
StopJogSilences == parked /\ NobodyDrives => ~drove

\* A robot that has been sent no driving frame for a watchdog window, and no
\* target either, is at rest: lost zero frames and late jogs cannot keep it going.
AtRestUnfed == quiet > TStop /\ ~fed => rjog \notin Drives

\* After stop() the robot comes to rest for good.
StopRests == stopped ~> [](rjog \notin Drives)

(* Claims of the code that the code does not keep.                            *)

\* One jog frame is acted on "for one watchdog window" (teleop.py:450).
OneWindow == quiet > TStop + 1 => rjog \notin Drives

\* set_jog(None) "sends one explicit zero frame" (teleop.py:520): the loop does
\* not end on a cleared payload with a driving frame as its last.
ClearSendsZero ==
  [][\A l \in Loops : loop[l] = "due" /\ loop'[l] = "done" /\ ~stopped /\ up
        => ~drove']_vars

\* "A background task repeats the payload at JOG_HZ until you change it or clear
\* it" (teleop.py:519): a payload that is set has a task that sends it.
StreamAlive ==
  payload # None /\ ~stopped /\ (\A h \in Halters \cup {Stop} : halt[h].at = "idle")
    => \E l \in Loops : loop[l] \in Running
====
