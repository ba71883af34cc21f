------------------------------ MODULE EstopProofs ------------------------------
(***************************************************************************)
(* Theorems about the E-stop latch and its report, for any number of       *)
(* commands in flight.                                                     *)
(***************************************************************************)
EXTENDS Estop, TLAPS

-----------------------------------------------------------------------------
(* Type correctness *)

\* The switches, which every step sets to Boolean values.
SwitchesOK ==
  /\ up \in BOOLEAN /\ latch \in BOOLEAN
  /\ reported \in BOOLEAN /\ everLatched \in BOOLEAN /\ resetSince \in BOOLEAN

\* What is in flight, and what the client shows and says.
DataOK ==
  /\ view \in Frames \cup {"none"}
  /\ call \in Calls
  /\ cmds \in [Commands -> 0 .. MaxCmds] /\ frames \subseteq Frames

\* The initial state has the types.
LEMMA InitTypeOK == Init => TypeOK
<1>1. Init => SwitchesOK
  BY DEF Init, SwitchesOK
<1>2. Init => DataOK
  BY CmdsAssumption DEF Init, DataOK, Calls, Commands
<1> QED
  BY <1>1, <1>2 DEF SwitchesOK, DataOK, TypeOK

\* Every step keeps the switches Boolean.
LEMMA SwitchesStep ==
  ASSUME SwitchesOK, [Next]_vars
  PROVE  SwitchesOK'
<1> USE DEF SwitchesOK
<1>1. ASSUME NEW c \in Commands, Command(c) \/ Obey(c) \/ LoseCommand(c) PROVE SwitchesOK'
  BY <1>1 DEF Command, Send, Obey, LoseCommand, hist
<1>2. CASE ConfirmBegins \/ ConfirmReturns \/ ConfirmTimesOut
  BY <1>2 DEF ConfirmBegins, Send, ConfirmReturns, ConfirmTimesOut, hist
<1>3. ASSUME NEW f \in Frames, HandleTelemetry(f) \/ LoseFrame(f) PROVE SwitchesOK'
  BY <1>3 DEF HandleTelemetry, LoseFrame, hist
<1>4. ASSUME NEW withStatus \in BOOLEAN, Report(withStatus) PROVE SwitchesOK'
  BY <1>4 DEF Report, hist
<1>5. CASE ChannelOpens \/ ChannelCloses
  BY <1>5 DEF ChannelOpens, ChannelCloses, hist
<1>6. CASE UNCHANGED vars
  BY <1>6 DEF vars, hist
<1> QED
  BY <1>1, <1>2, <1>3, <1>4, <1>5, <1>6 DEF Next

\* A command is sent within the bound, and leaves it with the others in flight.
LEMMA SendTypes ==
  ASSUME NEW c \in Commands, cmds \in [Commands -> 0 .. MaxCmds], Send(c)
  PROVE  cmds' \in [Commands -> 0 .. MaxCmds]
  BY CmdsAssumption DEF Send

\* A command that arrives or is lost was in flight.
LEMMA TakeTypes ==
  ASSUME NEW c \in Commands, cmds \in [Commands -> 0 .. MaxCmds], Obey(c) \/ LoseCommand(c)
  PROVE  cmds' \in [Commands -> 0 .. MaxCmds]
  BY CmdsAssumption DEF Obey, LoseCommand

\* Every step keeps the types of the rest.
LEMMA DataStep ==
  ASSUME DataOK, [Next]_vars
  PROVE  DataOK'
<1> USE DEF DataOK
<1>1. ASSUME NEW c \in Commands, Command(c) \/ Obey(c) \/ LoseCommand(c) PROVE DataOK'
  <2>1. cmds' \in [Commands -> 0 .. MaxCmds]
    BY <1>1, SendTypes, TakeTypes DEF Command
  <2> QED
    BY <1>1, <2>1 DEF Command, Obey, LoseCommand
<1>2. CASE ConfirmBegins \/ ConfirmReturns \/ ConfirmTimesOut
  <2>1. cmds' \in [Commands -> 0 .. MaxCmds]
    BY <1>2, SendTypes DEF ConfirmBegins, ConfirmReturns, ConfirmTimesOut, Commands
  <2> QED
    BY <1>2, <2>1 DEF ConfirmBegins, ConfirmReturns, ConfirmTimesOut, Calls
<1>3. ASSUME NEW f \in Frames, HandleTelemetry(f) \/ LoseFrame(f) PROVE DataOK'
  BY <1>3 DEF HandleTelemetry, LoseFrame, Merged, Calls
<1>4. ASSUME NEW withStatus \in BOOLEAN, Report(withStatus) PROVE DataOK'
  BY <1>4 DEF Report, Frames, Reports
<1>5. CASE ChannelOpens \/ ChannelCloses
  BY <1>5, CmdsAssumption DEF ChannelOpens, ChannelCloses
<1>6. CASE UNCHANGED vars
  BY <1>6 DEF vars
<1> QED
  BY <1>1, <1>2, <1>3, <1>4, <1>5, <1>6 DEF Next

\* The latch, the reports and the calls keep their types, and no more than MaxCmds
\* commands of a kind are in flight.
THEOREM TypeCorrect == Spec => []TypeOK
<1>1. TypeOK <=> SwitchesOK /\ DataOK
  BY DEF TypeOK, SwitchesOK, DataOK
<1>2. TypeOK' <=> SwitchesOK' /\ DataOK'
  BY DEF TypeOK, SwitchesOK, DataOK
<1>3. TypeOK /\ [Next]_vars => TypeOK'
  BY <1>1, <1>2, SwitchesStep, DataStep
<1> QED
  BY <1>3, InitTypeOK, PTL DEF Spec

-----------------------------------------------------------------------------
(* Confirmations *)

\* Whatever says that the robot has latched, wherever it is, says it after the latch.
LatchInv ==
  latch \/ "latched" \in frames \/ view = "latched" \/ call \in {"resolved", "confirmed"}
    => everLatched

\* A confirmation is never invented: whatever is lost, late or carried over from an
\* older frame, the robot has latched.
THEOREM NeverInvented == Spec => []ConfirmedLatched
<1>1. Init => LatchInv
  BY DEF Init, LatchInv
<1>2. LatchInv /\ [Next]_vars => LatchInv'
  <2> SUFFICES ASSUME LatchInv, [Next]_vars PROVE LatchInv'
    OBVIOUS
  <2> USE DEF LatchInv
  <2>1. ASSUME NEW c \in Commands, Command(c) \/ Obey(c) \/ LoseCommand(c) PROVE LatchInv'
    BY <2>1 DEF Command, Obey, LoseCommand, hist
  <2>2. CASE ConfirmBegins \/ ConfirmReturns \/ ConfirmTimesOut
    BY <2>2 DEF ConfirmBegins, ConfirmReturns, ConfirmTimesOut, hist
  <2>3. ASSUME NEW f \in Frames, HandleTelemetry(f) \/ LoseFrame(f) PROVE LatchInv'
    BY <2>3 DEF HandleTelemetry, LoseFrame, Merged, Confirms, hist
  <2>4. ASSUME NEW withStatus \in BOOLEAN, Report(withStatus) PROVE LatchInv'
    BY <2>4 DEF Report, hist
  <2>5. CASE ChannelOpens \/ ChannelCloses
    BY <2>5 DEF ChannelOpens, ChannelCloses, hist
  <2>6. CASE UNCHANGED vars
    BY <2>6 DEF vars, hist
  <2> QED
    BY <2>1, <2>2, <2>3, <2>4, <2>5, <2>6 DEF Next
<1>3. LatchInv => ConfirmedLatched
  BY DEF LatchInv, ConfirmedLatched
<1> QED
  BY <1>1, <1>2, <1>3, PTL DEF Spec

\* The first report of a latch that is received ends the wait of estop_confirmed, whatever was
\* lost, late or carried over before it: ReportEndsWait (teleop.py 728-747).
THEOREM NeverOverlooked == Spec => []ReportEndsWait
<1>1. Init => ReportEndsWait
  BY DEF Init, ReportEndsWait
<1>2. ReportEndsWait /\ [Next]_vars => ReportEndsWait'
  <2> SUFFICES ASSUME ReportEndsWait, [Next]_vars PROVE ReportEndsWait'
    OBVIOUS
  <2> USE DEF ReportEndsWait
  <2>1. ASSUME NEW c \in Commands, Command(c) \/ Obey(c) \/ LoseCommand(c) PROVE ReportEndsWait'
    BY <2>1 DEF Command, Obey, LoseCommand, hist
  <2>2. CASE ConfirmBegins \/ ConfirmReturns \/ ConfirmTimesOut
    BY <2>2 DEF ConfirmBegins, ConfirmReturns, ConfirmTimesOut, hist
  <2>3. ASSUME NEW f \in Frames, HandleTelemetry(f) \/ LoseFrame(f) PROVE ReportEndsWait'
    BY <2>3 DEF HandleTelemetry, LoseFrame, Merged, Confirms, hist
  <2>4. ASSUME NEW withStatus \in BOOLEAN, Report(withStatus) PROVE ReportEndsWait'
    BY <2>4 DEF Report, hist
  <2>5. CASE ChannelOpens \/ ChannelCloses
    BY <2>5 DEF ChannelOpens, ChannelCloses, hist
  <2>6. CASE UNCHANGED vars
    BY <2>6 DEF vars, hist
  <2> QED
    BY <2>1, <2>2, <2>3, <2>4, <2>5, <2>6 DEF Next
<1> QED
  BY <1>1, <1>2, PTL DEF Spec

-----------------------------------------------------------------------------
(* The merged safety block *)

\* Once there is a safety block, it changes only to that of a report just received:
\* frames without one do not make it flicker.
THEOREM SteadySafety == Spec => SafetySteady
<1>1. ASSUME [Next]_vars, view # "none", view' # view
      PROVE  view' \in Reports /\ view' \in frames
  <2>1. PICK f \in Frames : HandleTelemetry(f)
    BY <1>1 DEF Next, vars, Command, Obey, LoseCommand, ConfirmBegins, ConfirmReturns, ConfirmTimesOut,
      LoseFrame, Report, ChannelOpens, ChannelCloses
  <2>2. f \in frames /\ view' = f /\ f # "bare"
    BY <1>1, <2>1 DEF HandleTelemetry, Merged
  <2> QED
    BY <2>2 DEF Frames
<1>2. [Next]_vars
        => [view # "none" /\ view' # view => view' \in Reports /\ view' \in frames]_vars
  BY <1>1
<1> QED
  BY <1>2, PTL DEF Spec, SafetySteady
=============================================================================
