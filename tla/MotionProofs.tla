---------------------------- MODULE MotionProofs ----------------------------
(***************************************************************************)
(* What Motion promises for any number of loops, scripts, callers and      *)
(* losses: stop_jog silences, the watchdog brings an unfed robot to rest,  *)
(* and the keep-alive holds a target.                                      *)
(***************************************************************************)
EXTENDS Motion, TLAPS

-----------------------------------------------------------------------------
(* Types *)

ClientTypes ==
  /\ payload \in Jogs \cup {None}
  /\ jogTask \in Loops \cup {None}
  /\ loop \in [Loops -> {"due", "asleep", "cancelled", "done"}]
  /\ feed \in {"none", "due", "asleep"}
HaltTypes == halt \in [Halters \cup {Stop} -> [at : {"idle", "await"}, last : Jogs \cup {None}]]
ScriptTypes ==
  script \in [Scripts -> [at : {"idle", "due", "asleep"}, jog : Jogs, left : 0 .. Duration]]
RadioTypes ==
  /\ wire \subseteq Jogs \cup {Target} /\ drops \in 0 .. MaxDrops /\ quiet \in 0 .. TStop + 2
RobotTypes ==
  /\ rjog \in Jogs /\ silence \in 0 .. TStop + 1 /\ target \in {"none", "latched", "dropped"}
SwitchTypes ==
  /\ stopped \in BOOLEAN /\ up \in BOOLEAN /\ drove \in BOOLEAN
  /\ parked \in BOOLEAN /\ fed \in BOOLEAN

\* The parts are the type invariant.
LEMMA TypesSplit ==
  TypeOK <=> /\ ClientTypes /\ HaltTypes /\ ScriptTypes
             /\ RadioTypes /\ RobotTypes /\ SwitchTypes
BY DEF TypeOK, ClientTypes, HaltTypes, ScriptTypes, RadioTypes, RobotTypes, SwitchTypes

\* A frame handed to the channel is a jog or a target, and leaves the radio its types.
LEMMA SendTyped ==
  ASSUME MotionAssumption, RadioTypes, SwitchTypes, NEW f \in Jogs \cup {Target}, Send(f)
  PROVE  RadioTypes' /\ drove' \in BOOLEAN /\ fed' \in BOOLEAN
<1>1. RadioTypes'
  BY DEF Send, RadioTypes, MotionAssumption
<1>2. drove' \in BOOLEAN
  <2>1. CASE up
    <3>1. drove' = (f \in Drives)
      BY <2>1, Zenon DEF Send
    <3> QED
      BY <3>1
  <2>2. CASE ~up
    BY <2>2, Zenon DEF Send, SwitchTypes
  <2> QED
    BY <2>1, <2>2
<1>3. fed' \in BOOLEAN
  <2>1. CASE up
    <3>1. fed' = (f \notin Drives /\ (fed \/ f = Target))
      BY <2>1, Zenon DEF Send
    <3> QED
      BY <3>1
  <2>2. CASE ~up
    BY <2>2, Zenon DEF Send, SwitchTypes
  <2> QED
    BY <2>1, <2>2
<1> QED
  BY <1>1, <1>2, <1>3

\* The steps of a stop_jog call after its await keep the types.
LEMMA HaltEndsTyped ==
  ASSUME MotionAssumption, TypeOK, NEW h \in Halters \cup {Stop}, NEW last, HaltEnds(h, last)
  PROVE  /\ jogTask' = None /\ HaltTypes' /\ RadioTypes'
         /\ drove' \in BOOLEAN /\ fed' \in BOOLEAN /\ parked' \in BOOLEAN
<1> USE TypesSplit
<1>1. jogTask' = None /\ HaltTypes'
  BY DEF HaltEnds, HaltTypes
<1>2. RadioTypes' /\ drove' \in BOOLEAN /\ fed' \in BOOLEAN
  <2>1. CASE last # None
    BY <2>1, SendTyped DEF HaltEnds, Jogs
  <2>2. CASE last = None
    BY <2>2 DEF HaltEnds, NoSend, radio, RadioTypes, SwitchTypes
  <2> QED
    BY <2>1, <2>2
<1>3. parked' \in BOOLEAN
  <2>1. parked' = (parked \/ (last # None /\ up /\ NobodyDrives'))
    BY DEF HaltEnds
  <2> QED
    BY <2>1 DEF SwitchTypes
<1> QED
  BY <1>1, <1>2, <1>3

\* A script asleep has time left.
Counted == \A s \in Scripts : script[s].at = "asleep" => script[s].left > 0
Typed == TypeOK /\ Counted

\* The client's types are kept by every step.
LEMMA ClientStep ==
  ASSUME MotionAssumption, Typed, [Next]_vars
  PROVE  ClientTypes'
<1> USE TypesSplit DEF Typed
<1>1. ASSUME NEW p \in Jogs, SetJog(p) PROVE ClientTypes'
  BY <1>1 DEF SetJog, ClientTypes
<1>2. CASE ClearJog
  BY <1>2 DEF ClearJog, ClientTypes
<1>3. ASSUME NEW l \in Loops, LoopTurn(l) \/ LoopDies(l) PROVE ClientTypes'
  BY <1>3 DEF LoopTurn, LoopDies, ClientTypes
<1>4. ASSUME NEW h \in Halters \cup {Stop}, HaltBegins(h), UNCHANGED feed PROVE ClientTypes'
  <2>1. payload' = None
    BY <1>4 DEF HaltBegins
  <2>2. jogTask' = jogTask \/ jogTask' = None
    BY <1>4, HaltEndsTyped DEF HaltBegins
  <2>3. loop' = loop \/ loop' = Cancelled({jogTask})
    BY <1>4 DEF HaltBegins
  <2>4. loop' \in [Loops -> {"due", "asleep", "cancelled", "done"}]
    BY <2>3 DEF ClientTypes, Cancelled
  <2> QED
    BY <1>4, <2>1, <2>2, <2>4 DEF ClientTypes
<1>5. ASSUME NEW h \in Halters \cup {Stop}, StopJog(h) PROVE ClientTypes'
  BY <1>4, <1>5 DEF StopJog
<1>6. ASSUME NEW h \in Halters \cup {Stop}, StopJogEnds(h) PROVE ClientTypes'
  BY <1>6, HaltEndsTyped DEF StopJogEnds, ClientTypes
<1>7. CASE SessionStops
  BY <1>4, <1>7 DEF SessionStops
<1>8. CASE SessionCloses
  BY <1>8 DEF SessionCloses, ClientTypes, Cancelled
<1>9. ASSUME NEW s \in Scripts, NEW p \in Jogs, JogStarts(s, p) PROVE ClientTypes'
  BY <1>9 DEF JogStarts, ClientTypes
<1>10. ASSUME NEW s \in Scripts, JogTurn(s) \/ JogCancelled(s) PROVE ClientTypes'
  BY <1>10 DEF JogTurn, JogCancelled, ClientTypes
<1>11. ASSUME NEW p \in Jogs, JogOnce(p) PROVE ClientTypes'
  BY <1>11 DEF JogOnce, client, ClientTypes
<1>12. CASE CommandTarget \/ ActionStarts \/ FeederTurn \/ ActionEnds
  BY <1>12 DEF CommandTarget, ActionStarts, FeederTurn, ActionEnds, client, ClientTypes
<1>13. ASSUME NEW f \in Jogs \cup {Target}, Deliver(f) \/ Lose(f) PROVE ClientTypes'
  BY <1>13 DEF Deliver, Lose, client, ClientTypes
<1>14. CASE ChannelCloses
  BY <1>14 DEF ChannelCloses, client, ClientTypes
<1>15. CASE Tick
  BY <1>15 DEF Tick, Woken, ClientTypes
<1>16. CASE UNCHANGED vars
  BY <1>16 DEF vars, client, ClientTypes
<1> QED
  BY <1>1, <1>2, <1>3, <1>5, <1>6, <1>7, <1>8, <1>9, <1>10, <1>11, <1>12, <1>13, <1>14,
     <1>15, <1>16 DEF Next

\* The types of the stop_jog calls are kept by every step.
LEMMA HaltStep ==
  ASSUME MotionAssumption, Typed, [Next]_vars
  PROVE  HaltTypes'
<1> USE TypesSplit DEF Typed
<1>1. ASSUME NEW h \in Halters \cup {Stop}, HaltBegins(h) PROVE HaltTypes'
  <2>1. CASE halt' = [halt EXCEPT ![h] = [at |-> "await", last |-> payload]]
    BY <2>1 DEF HaltTypes, ClientTypes
  <2> QED
    BY <1>1, <2>1, HaltEndsTyped DEF HaltBegins
<1>2. ASSUME NEW h \in Halters \cup {Stop}, StopJogEnds(h) PROVE HaltTypes'
  BY <1>2, HaltEndsTyped DEF StopJogEnds
<1>3. ASSUME UNCHANGED halt PROVE HaltTypes'
  BY <1>3 DEF HaltTypes
<1>4. \/ UNCHANGED halt
      \/ \E h \in Halters \cup {Stop} : HaltBegins(h) \/ StopJogEnds(h)
  BY DEF Next, SetJog, JogOnce, JogStarts, ClearJog, LoopTurn, LoopDies, StopJog, SessionStops,
         SessionCloses, JogTurn, JogCancelled, CommandTarget, ActionStarts, FeederTurn, ActionEnds,
         Deliver, Lose, ChannelCloses, Tick, client, vars
<1> QED
  BY <1>1, <1>2, <1>3, <1>4

\* The scripts keep their types, and count down no further than to zero.
LEMMA ScriptStep ==
  ASSUME MotionAssumption, Typed, [Next]_vars
  PROVE  ScriptTypes' /\ Counted'
<1> USE TypesSplit DEF Typed
<1>1. ASSUME NEW s \in Scripts, NEW p \in Jogs, JogStarts(s, p) PROVE ScriptTypes' /\ Counted'
  BY <1>1 DEF JogStarts, ScriptTypes, Counted, MotionAssumption
<1>2. ASSUME NEW s \in Scripts, JogTurn(s) PROVE ScriptTypes' /\ Counted'
  BY <1>2 DEF JogTurn, ScriptTypes, Counted
<1>3. ASSUME NEW s \in Scripts, JogCancelled(s) PROVE ScriptTypes' /\ Counted'
  BY <1>3 DEF JogCancelled, ScriptTypes, Counted
<1>4. CASE Tick
  <2>1. ASSUME NEW s \in Scripts
        PROVE  /\ script'[s] \in [at : {"idle", "due", "asleep"}, jog : Jogs, left : 0 .. Duration]
               /\ script'[s].at # "asleep"
    <3>1. CASE Idle(s)
      BY <1>4, <3>1 DEF Tick, Idle, ScriptTypes
    <3>2. CASE ~Idle(s)
      <4>0. script[s] \in [at : {"idle", "due", "asleep"}, jog : Jogs, left : 0 .. Duration]
        BY DEF ScriptTypes
      <4>1. script[s].at = "asleep" /\ script[s].left - 1 \in 0 .. Duration
        <5>1. script[s].at = "asleep"
          BY <1>4, <3>2, <4>0 DEF Tick, Idle
        <5> QED
          BY <4>0, <5>1 DEF Counted, MotionAssumption
      <4>2. script'[s] = [script[s] EXCEPT !.at = "due", !.left = @ - 1]
        BY <1>4, <3>2 DEF Tick
      <4> QED
        BY <4>0, <4>1, <4>2
    <3> QED
      BY <3>1, <3>2
  <2>2. script' = [s \in Scripts |-> script'[s]]
    BY <1>4 DEF Tick
  <2> QED
    BY <2>1, <2>2 DEF ScriptTypes, Counted
<1>5. ASSUME UNCHANGED script PROVE ScriptTypes' /\ Counted'
  BY <1>5 DEF ScriptTypes, Counted
<1>6. \/ UNCHANGED script \/ Tick
      \/ \E s \in Scripts : JogTurn(s) \/ JogCancelled(s) \/ \E p \in Jogs : JogStarts(s, p)
  BY DEF Next, SetJog, JogOnce, ClearJog, LoopTurn, LoopDies, StopJog, StopJogEnds, SessionStops,
         SessionCloses, CommandTarget, ActionStarts, FeederTurn, ActionEnds, Deliver, Lose,
         ChannelCloses, client, vars
<1> QED
  BY <1>1, <1>2, <1>3, <1>4, <1>5, <1>6

\* What a step does to the radio: a frame is handed to the channel, or none is, or it is a
\* step of the channel or of time.
LEMMA RadioCases ==
  ASSUME Typed, [Next]_vars
  PROVE  \/ \E f \in Jogs \cup {Target} : Send(f)
         \/ UNCHANGED radio
         \/ \E f \in Jogs \cup {Target} : Deliver(f) \/ Lose(f)
         \/ ChannelCloses \/ Tick
<1> USE TypesSplit DEF Typed
<1>1. ASSUME NEW h \in Halters \cup {Stop}, NEW last, HaltEnds(h, last)
      PROVE  (\E f \in Jogs \cup {Target} : Send(f)) \/ UNCHANGED radio
  BY <1>1 DEF HaltEnds, Jogs, NoSend
<1>2. ASSUME NEW h \in Halters \cup {Stop}, HaltBegins(h) \/ StopJogEnds(h)
      PROVE  (\E f \in Jogs \cup {Target} : Send(f)) \/ UNCHANGED radio
  BY <1>1, <1>2 DEF HaltBegins, StopJogEnds, NoSend
<1>3. ASSUME NEW l \in Loops, LoopTurn(l) \/ LoopDies(l)
      PROVE  (\E f \in Jogs \cup {Target} : Send(f)) \/ UNCHANGED radio
  <2>1. payload # None => payload \in Jogs
    BY DEF ClientTypes
  <2> QED
    BY <1>3, <2>1 DEF LoopTurn, LoopDies, GoesOn, NoSend
<1>4. ASSUME NEW s \in Scripts, JogTurn(s) \/ JogCancelled(s)
      PROVE  (\E f \in Jogs \cup {Target} : Send(f)) \/ UNCHANGED radio
  <2>1. script[s].jog \in Jogs
    BY DEF ScriptTypes
  <2> QED
    BY <1>4, <2>1 DEF JogTurn, JogCancelled, NoSend, Jogs
<1>5. CASE CommandTarget \/ ActionStarts \/ FeederTurn \/ ActionEnds
  BY <1>5 DEF CommandTarget, ActionStarts, FeederTurn, ActionEnds, NoSend, Jogs
<1> QED
  BY <1>2, <1>3, <1>4, <1>5
     DEF Next, SetJog, JogOnce, JogStarts, ClearJog, StopJog, SessionStops, SessionCloses, NoSend,
         vars

\* The radio's types are kept by every step.
LEMMA RadioStep ==
  ASSUME MotionAssumption, Typed, [Next]_vars
  PROVE  RadioTypes' /\ drove' \in BOOLEAN /\ fed' \in BOOLEAN
<1> USE TypesSplit DEF Typed
<1>1. ASSUME NEW f \in Jogs \cup {Target}, Send(f)
      PROVE  RadioTypes' /\ drove' \in BOOLEAN /\ fed' \in BOOLEAN
  BY <1>1, SendTyped
<1>2. CASE UNCHANGED radio
  <2>1. UNCHANGED drove /\ UNCHANGED fed /\ UNCHANGED <<wire, drops, quiet>>
    BY <1>2 DEF radio
  <2> QED
    BY <2>1 DEF RadioTypes, SwitchTypes
<1>3. ASSUME UNCHANGED drove, UNCHANGED fed PROVE drove' \in BOOLEAN /\ fed' \in BOOLEAN
  BY <1>3, Zenon DEF SwitchTypes
<1>4. ASSUME NEW f \in Jogs \cup {Target}, Deliver(f) \/ Lose(f)
      PROVE  RadioTypes' /\ UNCHANGED drove /\ UNCHANGED fed
  BY <1>4 DEF Deliver, Lose, RadioTypes, MotionAssumption
<1>5. ASSUME ChannelCloses \/ Tick PROVE RadioTypes' /\ UNCHANGED drove /\ UNCHANGED fed
  <2>1. quiet' \in 0 .. TStop + 2
    <3>1. TStop \in Nat /\ quiet \in 0 .. TStop + 2
      BY DEF RadioTypes, MotionAssumption
    <3>2. quiet' = quiet \/ quiet' = IF quiet > TStop + 1 THEN quiet ELSE quiet + 1
      BY <1>5 DEF ChannelCloses, Tick
    <3> QED
      BY <3>1, <3>2
  <2>2. UNCHANGED drove /\ UNCHANGED fed /\ UNCHANGED drops /\ wire' \subseteq wire
    BY <1>5 DEF ChannelCloses, Tick
  <2> QED
    BY <2>1, <2>2 DEF RadioTypes
<1> QED
  BY <1>1, <1>2, <1>3, <1>4, <1>5, RadioCases

\* The robot's types are kept by every step.
LEMMA RobotStep ==
  ASSUME MotionAssumption, Typed, [Next]_vars
  PROVE  RobotTypes'
<1> USE TypesSplit DEF Typed
<1>1. ASSUME NEW f \in Jogs \cup {Target}, Deliver(f) PROVE RobotTypes'
  BY <1>1 DEF Deliver, RobotTypes, MotionAssumption
<1>2. CASE Tick
  <2>1. silence' \in 0 .. TStop + 1
    <3>1. TStop \in Nat /\ silence \in 0 .. TStop + 1
      BY DEF RobotTypes, MotionAssumption
    <3>2. silence' = IF silence > TStop THEN silence ELSE silence + 1
      BY <1>2 DEF Tick
    <3> QED
      BY <3>1, <3>2
  <2>2. rjog' \in Jogs
    BY <1>2 DEF Tick, RobotTypes, Watchdog, Jogs
  <2>3. target' = target \/ target' = "dropped"
    BY <1>2 DEF Tick, HeldTarget
  <2> QED
    BY <2>1, <2>2, <2>3 DEF RobotTypes
<1>3. CASE ActionStarts
  BY <1>3 DEF ActionStarts, RobotTypes
<1>4. CASE UNCHANGED robot
  BY <1>4 DEF robot, RobotTypes
<1>5. \/ UNCHANGED robot \/ Tick \/ ActionStarts
      \/ \E f \in Jogs \cup {Target} : Deliver(f)
  BY DEF Next, SetJog, JogOnce, JogStarts, ClearJog, LoopTurn, LoopDies, StopJog, StopJogEnds,
         SessionStops, SessionCloses, JogTurn, JogCancelled, CommandTarget, FeederTurn, ActionEnds,
         Lose, ChannelCloses, vars
<1> QED
  BY <1>1, <1>2, <1>3, <1>4, <1>5

\* The switches keep their types.
LEMMA SwitchStep ==
  ASSUME MotionAssumption, Typed, [Next]_vars
  PROVE  SwitchTypes'
<1> USE TypesSplit DEF Typed
<1>1. drove' \in BOOLEAN /\ fed' \in BOOLEAN
  BY RadioStep
<1>2. stopped' \in BOOLEAN
  <2>1. UNCHANGED stopped \/ stopped' = TRUE
    BY DEF Next, SetJog, JogOnce, JogStarts, ClearJog, LoopTurn, LoopDies, StopJog, StopJogEnds,
           SessionStops, SessionCloses, JogTurn, JogCancelled, CommandTarget, ActionStarts,
           FeederTurn, ActionEnds, Deliver, Lose, ChannelCloses, Tick, client, vars
  <2> QED
    BY <2>1 DEF SwitchTypes
<1>3. up' \in BOOLEAN
  <2>1. UNCHANGED up \/ up' = FALSE
    BY DEF Next, SetJog, JogOnce, JogStarts, ClearJog, LoopTurn, LoopDies, StopJog, StopJogEnds,
           SessionStops, SessionCloses, JogTurn, JogCancelled, CommandTarget, ActionStarts,
           FeederTurn, ActionEnds, Deliver, Lose, ChannelCloses, Tick, client, vars
  <2> QED
    BY <2>1 DEF SwitchTypes
<1>4. parked' \in BOOLEAN
  <2>1. ASSUME NEW h \in Halters \cup {Stop}, HaltBegins(h) \/ StopJogEnds(h)
        PROVE  UNCHANGED parked \/ parked' \in BOOLEAN
    <3>1. CASE UNCHANGED parked
      BY <3>1
    <3>2. ASSUME NEW last, HaltEnds(h, last) PROVE parked' \in BOOLEAN
      BY <3>2, HaltEndsTyped
    <3> QED
      BY <2>1, <3>1, <3>2 DEF HaltBegins, StopJogEnds
  <2>2. UNCHANGED parked \/ parked' \in BOOLEAN
    <3>1. \/ UNCHANGED parked \/ parked' = FALSE
          \/ \E h \in Halters \cup {Stop} : HaltBegins(h) \/ StopJogEnds(h)
      BY DEF Next, SetJog, JogOnce, JogStarts, ClearJog, LoopTurn, LoopDies, StopJog, SessionStops,
             SessionCloses, JogTurn, JogCancelled, CommandTarget, ActionStarts, FeederTurn,
             ActionEnds, Deliver, Lose, ChannelCloses, Tick, client, vars
    <3>2. FALSE \in BOOLEAN
      OBVIOUS
    <3> QED
      BY <2>1, <3>1, <3>2
  <2> QED
    BY <2>2 DEF SwitchTypes
<1> QED
  BY <1>1, <1>2, <1>3, <1>4 DEF SwitchTypes

\* The types, with the countdown of the scripts, are an invariant.
LEMMA TypedAlways == Spec => []Typed
<1>1. ASSUME Init PROVE Typed
  <2>1. ClientTypes /\ HaltTypes
    BY <1>1 DEF Init, ClientTypes, HaltTypes
  <2>2. ScriptTypes /\ Counted
    BY <1>1, MotionAssumption DEF Init, ScriptTypes, Counted, MotionAssumption, Jogs
  <2>3. RadioTypes /\ RobotTypes
    BY <1>1, MotionAssumption DEF Init, RadioTypes, RobotTypes, MotionAssumption, Jogs
  <2>4. SwitchTypes
    BY <1>1 DEF Init, SwitchTypes
  <2> QED
    BY <2>1, <2>2, <2>3, <2>4, TypesSplit DEF Typed
<1>2. ASSUME Typed, [Next]_vars PROVE Typed'
  BY <1>2, MotionAssumption, TypesSplit, ClientStep, HaltStep, ScriptStep, RadioStep, RobotStep,
     SwitchStep DEF Typed, TypeOK, ClientTypes, HaltTypes, ScriptTypes, RadioTypes, RobotTypes,
     SwitchTypes
<1> QED
  BY <1>1, <1>2, PTL DEF Spec

\* Every variable keeps its type, for any number of tasks, scripts, callers and losses.
THEOREM TypeCorrect == Spec => []TypeOK
<1>1. Typed => TypeOK
  BY DEF Typed
<1> QED
  BY <1>1, TypedAlways, PTL

-----------------------------------------------------------------------------
(* stop_jog *)

\* Why stop_jog silences: the zero frame was sent when nobody drives any more, and no verb
\* has begun to since.
Parking == parked => NobodyDrives /\ ~drove

\* No frame of the zero of a jog drives.
LEMMA ZeroRests ==
  ASSUME NamesAssumption, NEW f \in {Zero, Target}, Send(f), ~drove PROVE ~drove'
BY DEF Send, NamesAssumption

\* Once stop_jog has sent its zero frame no driving frame follows it until a verb drives
\* again, for any number of loops, scripts and callers: StopJogSilences (teleop.py 530-556).
THEOREM StopSilences == Spec => []StopJogSilences
<1>1. ASSUME Init PROVE Parking
  BY <1>1 DEF Init, Parking
<1>2. ASSUME NamesAssumption, Typed, Parking, [Next]_vars PROVE Parking'
  <2> USE <1>2 DEF Parking
  <2>1. ASSUME NEW h \in Halters \cup {Stop}, NEW last, HaltEnds(h, last), payload' = None,
               UNCHANGED script
        PROVE  Parking'
    <3>1. CASE last # None /\ up /\ NobodyDrives'
      BY <2>1, <3>1 DEF HaltEnds, Send, NamesAssumption
    <3>2. CASE ~(last # None /\ up /\ NobodyDrives')
      <4>1. parked' = parked
        BY <2>1, <3>2, Zenon DEF HaltEnds, Typed, TypeOK
      <4>2. ~drove => ~drove'
        BY <2>1, ZeroRests DEF HaltEnds, NoSend, radio
      <4>3. NobodyDrives => NobodyDrives'
        BY <2>1 DEF NobodyDrives, Idle
      <4> QED
        BY <4>1, <4>2, <4>3
    <3> QED
      BY <3>1, <3>2
  <2>2. ASSUME UNCHANGED <<parked, drove, payload, script>> PROVE Parking'
    BY <2>2 DEF NobodyDrives, Idle
  <2>3. ASSUME NEW h \in Halters \cup {Stop}, HaltBegins(h), UNCHANGED script PROVE Parking'
    <3>1. CASE NoSend /\ UNCHANGED parked
      BY <2>3, <3>1 DEF HaltBegins, NoSend, radio, NobodyDrives, Idle
    <3> QED
      BY <2>1, <2>3, <3>1 DEF HaltBegins
  <2>4. ASSUME NEW h \in Halters \cup {Stop}, StopJog(h) PROVE Parking'
    BY <2>3, <2>4 DEF StopJog
  <2>5. ASSUME NEW h \in Halters \cup {Stop}, StopJogEnds(h) PROVE Parking'
    <3>1. CASE payload = None
      BY <2>1, <2>5, <3>1 DEF StopJogEnds
    <3>2. CASE payload # None
      BY <2>5, <3>2 DEF StopJogEnds, HaltEnds, NobodyDrives
    <3> QED
      BY <3>1, <3>2
  <2>6. CASE SessionStops
    BY <2>3, <2>6 DEF SessionStops
  <2>7. ASSUME NEW p \in Jogs,
               SetJog(p) \/ JogOnce(p) \/ \E s \in Scripts : JogStarts(s, p)
        PROVE  Parking'
    BY <2>7 DEF SetJog, JogOnce, JogStarts
  <2>8. CASE ClearJog
    BY <2>8 DEF ClearJog, NoSend, radio, NobodyDrives, Idle
  <2>9. ASSUME NEW l \in Loops, LoopTurn(l) \/ LoopDies(l) PROVE Parking'
    BY <2>9 DEF LoopTurn, LoopDies, GoesOn, NoSend, radio, NobodyDrives, Idle
  <2>10. CASE SessionCloses
    BY <2>2, <2>10 DEF SessionCloses, NoSend, radio
  <2>11. ASSUME NEW s \in Scripts, JogTurn(s) \/ JogCancelled(s) PROVE Parking'
    <3>1. ~NobodyDrives
      BY <2>11 DEF JogTurn, JogCancelled, NobodyDrives, Idle
    <3> QED
      BY <2>11, <3>1 DEF JogTurn, JogCancelled
  <2>12. CASE CommandTarget \/ ActionStarts \/ FeederTurn \/ ActionEnds
    <3>1. ~drove => ~drove'
      BY <2>12, ZeroRests DEF CommandTarget, ActionStarts, FeederTurn, ActionEnds, NoSend, radio
    <3>2. UNCHANGED <<parked, payload, script>>
      BY <2>12 DEF CommandTarget, ActionStarts, FeederTurn, ActionEnds, client
    <3> QED
      BY <3>1, <3>2 DEF NobodyDrives, Idle
  <2>13. ASSUME NEW f \in Jogs \cup {Target}, Deliver(f) \/ Lose(f) PROVE Parking'
    BY <2>2, <2>13 DEF Deliver, Lose, client
  <2>14. CASE ChannelCloses
    BY <2>2, <2>14 DEF ChannelCloses, client
  <2>15. CASE Tick
    <3>1. \A s \in Scripts : Idle(s) => script'[s] = script[s]
      BY <2>15 DEF Tick
    <3> QED
      BY <2>15, <3>1 DEF Tick, NobodyDrives, Idle
  <2>16. CASE UNCHANGED vars
    BY <2>2, <2>16 DEF vars, client, radio
  <2> QED
    BY <2>4, <2>5, <2>6, <2>7, <2>8, <2>9, <2>10, <2>11, <2>12, <2>13, <2>14, <2>15, <2>16 DEF Next
<1>3. Parking => StopJogSilences
  BY DEF Parking, StopJogSilences
<1>4. Spec => []Typed
  BY TypedAlways
<1> QED
  BY <1>1, <1>2, <1>3, <1>4, NamesAssumption, PTL DEF Spec

-----------------------------------------------------------------------------
(* The watchdog *)

\* What a step does to the robot's jog, with what it does to the radio.
LEMMA RobotCases ==
  ASSUME Typed, [Next]_vars
  PROVE  \/ /\ UNCHANGED <<rjog, silence>>
            /\ UNCHANGED radio \/ \E f \in Jogs \cup {Target} : Send(f)
         \/ \E f \in Jogs \cup {Target} : Deliver(f) \/ Lose(f)
         \/ ChannelCloses \/ Tick
<1>1. \/ UNCHANGED <<rjog, silence>> \/ Tick
      \/ \E f \in Jogs \cup {Target} : Deliver(f)
  BY DEF Next, SetJog, JogOnce, JogStarts, ClearJog, LoopTurn, LoopDies, StopJog, StopJogEnds,
         SessionStops, SessionCloses, JogTurn, JogCancelled, CommandTarget, ActionStarts,
         FeederTurn, ActionEnds, Lose, ChannelCloses, vars, robot
<1> QED
  BY <1>1, RadioCases

\* Why an unfed robot rests.  A driving frame in flight was sent in this very tick, and so
\* was a target that is older than the last driving frame; and a robot that drives has been
\* silent no less long than no driving frame was sent, unless a target has fed its watchdog.
Resting ==
  /\ wire \cap Drives # {} => quiet = 0
  /\ Target \in wire /\ ~fed => quiet = 0
  /\ rjog \in Drives => silence <= TStop /\ (fed \/ quiet <= silence)

\* A robot that was sent no driving frame for a watchdog window, and no target, rests, for
\* every window and whatever is lost or reordered: AtRestUnfed (mock/robot.py's watchdog).
THEOREM UnfedRests == Spec => []AtRestUnfed
<1>1. ASSUME Init PROVE Resting
  BY <1>1, NamesAssumption DEF Init, Resting, NamesAssumption
<1>2. ASSUME MotionAssumption, NamesAssumption, Typed, Resting, [Next]_vars PROVE Resting'
  <2>0. /\ wire \subseteq Jogs \cup {Target} /\ quiet \in 0 .. TStop + 2
        /\ silence \in 0 .. TStop + 1 /\ TStop \in Nat \ {0}
    BY <1>2 DEF Typed, TypeOK, MotionAssumption
  <2> USE <1>2 DEF Resting
  <2>1. CASE UNCHANGED <<rjog, silence>> /\ UNCHANGED radio
    BY <2>1 DEF radio
  <2>2. ASSUME NEW f \in Jogs \cup {Target}, Send(f), UNCHANGED <<rjog, silence>> PROVE Resting'
    <3>1. CASE ~up
      BY <2>2, <3>1 DEF Send
    <3>2. CASE up /\ f \in Drives
      BY <2>0, <2>2, <3>2 DEF Send
    <3>3. CASE up /\ f \notin Drives
      <4>1. wire' = wire \cup {f} /\ quiet' = quiet /\ (fed' <=> fed \/ f = Target)
        BY <2>2, <3>3 DEF Send
      <4> QED
        BY <2>2, <3>3, <4>1
    <3> QED
      BY <3>1, <3>2, <3>3
  <2>3. ASSUME NEW f \in Jogs \cup {Target}, Deliver(f) PROVE Resting'
    <3>1. f \in wire /\ wire' = wire \ {f} /\ silence' = 0 /\ UNCHANGED <<quiet, fed>>
      BY <2>3 DEF Deliver
    <3>2. CASE f \in Drives
      BY <2>0, <3>1, <3>2
    <3>3. CASE f = Target
      <4>1. rjog' = rjog
        BY <2>3, <3>3, NamesAssumption DEF Deliver, Jogs, NamesAssumption, Target, Zero
      <4> QED
        BY <2>0, <3>1, <3>3, <4>1
    <3>4. CASE f \in Jogs /\ f \notin Drives
      BY <2>0, <2>3, <3>1, <3>4 DEF Deliver
    <3> QED
      BY <3>2, <3>3, <3>4
  <2>4. ASSUME NEW f \in Jogs \cup {Target}, Lose(f) PROVE Resting'
    BY <2>4 DEF Lose, robot
  <2>5. CASE ChannelCloses
    BY <2>5 DEF ChannelCloses, robot
  <2>6. CASE Tick
    <3>1. wire' = {} /\ fed' = fed
      BY <2>6 DEF Tick
    <3>2. /\ silence' = IF silence > TStop THEN silence ELSE silence + 1
          /\ quiet' = IF quiet > TStop + 1 THEN quiet ELSE quiet + 1
          /\ rjog' = IF silence' > TStop THEN Zero ELSE rjog
      BY <2>6 DEF Tick, Watchdog
    <3>3. ASSUME rjog' \in Drives PROVE silence' <= TStop /\ (fed' \/ quiet' <= silence')
      <4>1. silence' <= TStop /\ rjog \in Drives
        BY <2>0, <3>2, <3>3 DEF NamesAssumption
      <4>2. silence <= TStop /\ silence' = silence + 1
        BY <2>0, <3>2, <4>1
      <4>3. fed \/ quiet' <= silence'
        BY <2>0, <3>2, <4>1, <4>2
      <4> QED
        BY <3>1, <4>1, <4>3
    <3> QED
      BY <3>1, <3>3
  <2> QED
    BY <2>1, <2>2, <2>3, <2>4, <2>5, <2>6, RobotCases
<1>3. ASSUME MotionAssumption, Typed, Resting PROVE AtRestUnfed
  BY <1>3 DEF Resting, AtRestUnfed, Typed, TypeOK, MotionAssumption
<1> QED
  BY <1>1, <1>2, <1>3, TypedAlways, MotionAssumption, NamesAssumption, PTL DEF Spec

-----------------------------------------------------------------------------
(* The keep-alive *)

\* A frame of the feeder is due or in flight.
Owed == IF feed = "due" \/ wire # {} THEN 1 ELSE 0

\* Why the keep-alive holds a target: while it runs, the robot has been silent for no more
\* ticks than frames were lost in a row, but for the one that is due.
Kept ==
  feed # "none" /\ up /\ ~stopped =>
    target # "dropped" /\ (target = "latched" => silence <= drops + Owed)

\* While action(wait=True) awaits its verdict the watchdog does not drop its target, if the
\* channel loses fewer frames in a row than its window is ticks long: KeepAlive
\* (teleop.py 588-594).
THEOREM TargetIsKept ==
  ASSUME MaxDrops < TStop
  PROVE  Spec => []KeepAlive
<1>1. ASSUME Init PROVE Kept
  BY <1>1 DEF Init, Kept
<1>2. ASSUME MotionAssumption, Typed, Kept, [Next]_vars PROVE Kept'
  <2>0. /\ silence \in 0 .. TStop + 1 /\ drops \in 0 .. MaxDrops
        /\ TStop \in Nat /\ MaxDrops \in Nat /\ target \in {"none", "latched", "dropped"}
    BY <1>2 DEF Typed, TypeOK, MotionAssumption
  <2> USE <1>2 DEF Kept
  <2>1. ASSUME UNCHANGED <<feed, target, silence, drops>>, up' => up, stopped => stopped',
               up => wire \subseteq wire'
        PROVE  Kept'
    BY <2>0, <2>1 DEF Owed
  <2>2. ASSUME NEW f, Send(f) PROVE drops' = drops /\ wire \subseteq wire'
    BY <2>2 DEF Send
  <2>3. ASSUME NEW h \in Halters \cup {Stop}, HaltBegins(h) \/ StopJogEnds(h)
        PROVE  drops' = drops /\ wire \subseteq wire'
    BY <2>2, <2>3 DEF HaltBegins, StopJogEnds, HaltEnds, NoSend, radio
  <2>4. ASSUME NEW h \in Halters \cup {Stop}, StopJog(h) \/ StopJogEnds(h) PROVE Kept'
    BY <2>1, <2>3, <2>4 DEF StopJog, StopJogEnds, robot
  <2>5. CASE SessionStops
    BY <2>5 DEF SessionStops
  <2>6. CASE SessionCloses \/ ActionEnds
    BY <2>6 DEF SessionCloses, ActionEnds
  <2>7. ASSUME NEW p \in Jogs, SetJog(p) \/ JogOnce(p) \/ \E s \in Scripts : JogStarts(s, p)
        PROVE  Kept'
    BY <2>1, <2>2, <2>7 DEF SetJog, JogOnce, JogStarts, NoSend, radio, robot, client
  <2>8. CASE ClearJog
    BY <2>1, <2>8 DEF ClearJog, NoSend, radio, robot
  <2>9. ASSUME NEW l \in Loops, LoopTurn(l) \/ LoopDies(l) PROVE Kept'
    BY <2>1, <2>2, <2>9 DEF LoopTurn, LoopDies, NoSend, radio, robot
  <2>10. ASSUME NEW s \in Scripts, JogTurn(s) \/ JogCancelled(s) PROVE Kept'
    BY <2>1, <2>2, <2>10 DEF JogTurn, JogCancelled, NoSend, radio, robot
  <2>11. CASE CommandTarget
    BY <2>1, <2>2, <2>11 DEF CommandTarget, robot, client
  <2>12. CASE ActionStarts
    BY <2>12 DEF ActionStarts
  <2>13. CASE FeederTurn
    <3>1. UNCHANGED <<target, silence, drops, up, stopped>> /\ feed = "due"
      BY <2>13 DEF FeederTurn, Send, robot
    <3>2. up => Owed' = 1 /\ Owed = 1
      BY <2>13 DEF FeederTurn, Send, Owed
    <3> QED
      BY <3>1, <3>2
  <2>14. ASSUME NEW f \in Jogs \cup {Target}, Deliver(f) PROVE Kept'
    <3>1. silence' = 0 /\ drops' = 0 /\ UNCHANGED <<feed, up, stopped>>
      BY <2>14 DEF Deliver, client
    <3>2. target' = target \/ target' = "latched"
      BY <2>14 DEF Deliver
    <3>3. Owed' = 0 \/ Owed' = 1
      BY DEF Owed
    <3> QED
      BY <3>1, <3>2, <3>3
  <2>15. ASSUME NEW f \in Jogs \cup {Target}, Lose(f) PROVE Kept'
    <3>1. drops' = drops + 1 /\ Owed = 1 /\ UNCHANGED <<feed, up, stopped, target, silence>>
      BY <2>15 DEF Lose, client, robot, Owed
    <3>2. Owed' = 0 \/ Owed' = 1
      BY DEF Owed
    <3> QED
      BY <2>0, <3>1, <3>2
  <2>16. CASE ChannelCloses
    BY <2>16 DEF ChannelCloses
  <2>17. CASE Tick
    <3>1. /\ wire = {} /\ feed # "due" /\ UNCHANGED <<up, stopped, drops, wire>>
          /\ feed' = IF feed = "asleep" THEN "due" ELSE feed
      BY <2>17 DEF Tick, Woken
    <3>2. /\ silence' = IF silence > TStop THEN silence ELSE silence + 1
          /\ target' = IF silence' > TStop /\ target = "latched" THEN "dropped" ELSE target
      BY <2>17 DEF Tick, HeldTarget
    <3>3. Owed = 0
      BY <3>1 DEF Owed
    <3>4. ASSUME feed' # "none", up', ~stopped'
          PROVE  target' # "dropped" /\ (target' = "latched" => silence' <= drops' + Owed')
      <4>1. feed # "none" /\ up /\ ~stopped /\ Owed' = 1
        <5>1. feed \in {"none", "due", "asleep"}
          BY <1>2 DEF Typed, TypeOK
        <5>2. feed # "none" /\ feed' = "due"
          BY <3>1, <3>4, <5>1
        <5> QED
          BY <3>1, <3>4, <5>2 DEF Owed
      <4>2. CASE target = "latched"
        <5>1. silence <= drops /\ silence' = silence + 1
          BY <2>0, <3>2, <3>3, <4>1, <4>2, MaxDrops < TStop
        <5>2. ~(silence' > TStop)
          BY <2>0, <5>1, MaxDrops < TStop
        <5> QED
          BY <2>0, <3>1, <3>2, <4>1, <4>2, <5>1, <5>2
      <4>3. CASE target # "latched"
        BY <3>2, <4>1, <4>3
      <4> QED
        BY <4>2, <4>3
    <3> QED
      BY <3>4
  <2>18. CASE UNCHANGED vars
    BY <2>1, <2>18 DEF vars, client, radio, robot
  <2> QED
    BY <2>4, <2>5, <2>6, <2>7, <2>8, <2>9, <2>10, <2>11, <2>12, <2>13, <2>14, <2>15, <2>16, <2>17,
       <2>18 DEF Next
<1>3. Kept => KeepAlive
  BY DEF Kept, KeepAlive
<1> QED
  BY <1>1, <1>2, <1>3, TypedAlways, MotionAssumption, PTL DEF Spec
=============================================================================
