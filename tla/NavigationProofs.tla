-------------------------- MODULE NavigationProofs --------------------------
(***************************************************************************)
(* Theorems about named navigation, for any requests, awaits and bounds:   *)
(* its types, that the requests implement Goals, and that no await is      *)
(* passed by or told of another goal's end.                                *)
(***************************************************************************)
EXTENDS Navigation, FiniteSetTheorems, SequenceTheorems, TLAPS

Fates == {"none", "active", "succeeded", "canceled"}

-----------------------------------------------------------------------------
(* Type correctness *)

\* The frames sent and in flight, the requests and their answers.
RequestsOK ==
  /\ open \in BOOLEAN /\ stopped \in BOOLEAN
  /\ called \subseteq Requests
  /\ answer \in [Requests -> Answers] /\ aim \in [Requests -> Goal]
  /\ sends \in 0 .. MaxSends /\ up \in [Requests -> 0 .. MaxSends]
  /\ \A r \in Requests : up[r] <= sends

\* The snapshots, in flight and cached.
SnapshotsOK ==
  /\ cache \in Snapshot \cup {None}
  /\ down \subseteq Snapshot /\ IsFiniteSet(down) /\ Cardinality(down) <= MaxDown

\* The awaits.
AwaitsOK ==
  /\ returned \subseteq Awaits /\ seenOver \subseteq Starts
  /\ waiter \in [Starts -> Awaits \cup {None}]
  /\ future \in [Awaits -> Futures] /\ goal \in [Awaits -> Goal]
  /\ result \in [Awaits -> Terminal \cup {"none"}]

\* The robot and its history.
RobotOK ==
  /\ active \in Goal /\ presses \in 0 .. MaxPresses
  /\ saved \in BOOLEAN /\ estopped \in BOOLEAN
  /\ replies \in Seq(Snapshot) /\ Len(replies) <= History
  /\ outcome \in [Requests -> {"none", "ok", "refused"}]
  /\ fate \in [Starts -> Fates]

Types == RequestsOK /\ SnapshotsOK /\ AwaitsOK /\ RobotOK

\* The parts give the type invariant.
LEMMA TypesSuffice == Types => TypeOK
  BY DEF Types, RequestsOK, SnapshotsOK, AwaitsOK, RobotOK, TypeOK, Fates

\* The initial state has the types.
LEMMA InitTypes == Init => Types
<1> SUFFICES ASSUME Init PROVE Types
  OBVIOUS
<1>1. RequestsOK
  <2>1. open \in BOOLEAN /\ stopped \in BOOLEAN
    BY DEF Init
  <2>2. /\ sends \in 0 .. MaxSends /\ up \in [Requests -> 0 .. MaxSends]
        /\ \A r \in Requests : up[r] <= sends
    BY NavigationAssumption DEF Init
  <2>3. called \subseteq Requests /\ answer \in [Requests -> Answers] /\ aim \in [Requests -> Goal]
    BY DEF Init, Answers, Goal
  <2> QED
    BY <2>1, <2>2, <2>3 DEF RequestsOK
<1>2. SnapshotsOK
  BY FS_EmptySet, NavigationAssumption DEF Init, SnapshotsOK
<1>3. AwaitsOK
  BY DEF Init, AwaitsOK, Futures, Goal
<1>4. RobotOK
  <2>1. saved \in BOOLEAN /\ estopped \in BOOLEAN
    BY DEF Init
  <2>2. presses \in 0 .. MaxPresses /\ replies \in Seq(Snapshot) /\ Len(replies) <= History
    BY NavigationAssumption, EmptySeq DEF Init
  <2>3. /\ active \in Goal /\ fate \in [Starts -> Fates]
        /\ outcome \in [Requests -> {"none", "ok", "refused"}]
    BY DEF Init, Goal, Fates
  <2> QED
    BY <2>1, <2>2, <2>3 DEF RobotOK
<1> QED
  BY <1>1, <1>2, <1>3, <1>4 DEF Types

\* A frame of a request that is sent counts for the bound, and is in flight.
LEMMA SendTypes ==
  ASSUME NEW r \in Requests, RequestsOK, SendFrame(r)
  PROVE  /\ sends' \in 0 .. MaxSends /\ up' \in [Requests -> 0 .. MaxSends]
         /\ \A q \in Requests : up'[q] <= sends'
<1>1. CASE open
  BY <1>1, NavigationAssumption DEF RequestsOK, SendFrame
<1>2. CASE ~open
  BY <1>2 DEF RequestsOK, SendFrame
<1> QED
  BY <1>1, <1>2

\* A snapshot of the robot that the channel takes is in flight.
LEMMA EmitTypes ==
  ASSUME SnapshotsOK, NEW s \in Snapshot, Emit(s)
  PROVE  down' \subseteq Snapshot /\ IsFiniteSet(down') /\ Cardinality(down') <= MaxDown
<1>1. Cardinality(down) \in Nat
  BY FS_CardinalityType DEF SnapshotsOK
<1> QED
  <2>1. CASE Cardinality(down) < MaxDown
    <3>1. down' = down \cup {s}
      BY <2>1 DEF Emit
    <3>2. IsFiniteSet(down \cup {s}) /\ Cardinality(down \cup {s}) <= Cardinality(down) + 1
      BY <1>1, FS_AddElement DEF SnapshotsOK
    <3>3. Cardinality(down \cup {s}) \in Nat
      BY <3>2, FS_CardinalityType
    <3> QED
      BY <1>1, <2>1, <3>1, <3>2, <3>3, NavigationAssumption DEF SnapshotsOK
  <2>2. CASE ~(Cardinality(down) < MaxDown)
    BY <2>2 DEF SnapshotsOK, Emit
  <2> QED
    BY <2>1, <2>2

\* A snapshot that arrives or is lost was in flight.
LEMMA TakeTypes ==
  ASSUME SnapshotsOK, NEW s \in down, down' = down \ {s}
  PROVE  down' \subseteq Snapshot /\ IsFiniteSet(down') /\ Cardinality(down') <= MaxDown
<1>1. Cardinality(down) \in Nat /\ Cardinality(down \ {s}) \in Nat /\ IsFiniteSet(down \ {s})
  BY FS_CardinalityType, FS_RemoveElement DEF SnapshotsOK
<1>2. Cardinality(down \ {s}) <= Cardinality(down)
  BY <1>1, FS_RemoveElement DEF SnapshotsOK
<1> QED
  BY <1>1, <1>2, NavigationAssumption DEF SnapshotsOK

\* What the robot answers is a snapshot of it, with the id of the request.
LEMMA ReplyTypes ==
  ASSUME RobotOK, NEW r \in Requests
  PROVE  Reply(r) \in Snapshot /\ Reply(r).id = r /\ Reply(r).ok = Grants(r)
<1>0. Grants(r) \in BOOLEAN
  BY DEF Grants
<1>1. CASE Grants(r)
  <2>1. CASE r \in Starts
    <3>1. Reply(r) = [id |-> r, ok |-> TRUE, goal |-> r, state |-> "navigating"]
      <4>1. Reply(r) = [Base(r) EXCEPT !.state = "navigating", !.goal = r]
        BY <1>1, <2>1, NavigationAssumption DEF Reply
      <4> QED
        BY <4>1 DEF Base
    <3> QED
      BY <1>1, <2>1, <3>1 DEF Snapshot, States, Goal
  <2>2. CASE r \in Cancels \ Starts
    <3>1. Reply(r) = [id |-> r, ok |-> TRUE, goal |-> active, state |-> "canceled"]
      BY <1>1, <2>2 DEF Reply, Base
    <3> QED
      BY <1>1, <3>1 DEF Snapshot, States, RobotOK
  <2>3. CASE r \notin Starts \cup Cancels
    <3>1. Reply(r) = Base(r)
      BY <1>1, <2>3 DEF Reply
    <3> QED
      BY <1>1, <3>1 DEF Base, Snapshot, States, RobotOK
  <2> QED
    BY <2>1, <2>2, <2>3
<1>2. CASE ~Grants(r)
  <2>1. PICK st \in States : Reply(r) = [id |-> r, ok |-> FALSE, goal |-> active, state |-> st]
    <3>1. CASE r \in Starts /\ estopped
      BY <1>2, <3>1 DEF Reply, Base, States
    <3>2. CASE ~(r \in Starts /\ estopped)
      BY <1>2, <3>2 DEF Reply, Base, States
    <3> QED
      BY <3>1, <3>2
  <2>2. active \in Goal /\ r \in Requests \cup {None} /\ FALSE \in BOOLEAN
    BY DEF RobotOK
  <2>3. Reply(r) \in Snapshot
    BY <2>1, <2>2 DEF Snapshot
  <2>4. Reply(r).id = r /\ Reply(r).ok = FALSE
    BY <2>1
  <2>5. Grants(r) = FALSE
    BY <1>0, <1>2
  <2> QED
    BY <2>3, <2>4, <2>5
<1> QED
  BY <1>0, <1>1, <1>2

\* The robot remembers no more than History of its replies.
LEMMA RememberTypes ==
  ASSUME RobotOK, NEW s \in Snapshot, Remember(s)
  PROVE  replies' \in Seq(Snapshot) /\ Len(replies') <= History
<1>1. Append(replies, s) \in Seq(Snapshot) /\ Len(Append(replies, s)) = Len(replies) + 1
  BY DEF RobotOK
<1> QED
  BY <1>1, NavigationAssumption DEF RobotOK, Remember

\* What the robot is doing after a request that it grants.
LEMMA EffectTypes ==
  ASSUME RobotOK, NEW r \in Requests, Effect(r)
  PROVE  active' \in Goal /\ saved' \in BOOLEAN /\ fate' \in [Starts -> Fates]
<1>1. active' \in Goal
  BY DEF RobotOK, Effect, Goal
<1>2. saved' \in BOOLEAN
  BY DEF RobotOK, Effect
<1>3. fate' \in [Starts -> Fates]
  BY DEF RobotOK, Effect, Fates
<1> QED
  BY <1>1, <1>2, <1>3

\* An await's future keeps its types, whoever resolves, replaces or leaves it.
LEMMA AwaitTypes ==
  ASSUME AwaitsOK, SnapshotsOK, NEW a \in Awaits,
         \/ \E g \in Starts : AwaitBegins(a, g)
         \/ AwaitTimesOut(a) \/ AwaitReturns(a)
  PROVE  AwaitsOK'
<1>1. ASSUME NEW g \in Starts, AwaitBegins(a, g) PROVE AwaitsOK'
  <2>1. goal' \in [Awaits -> Goal]
    BY <1>1 DEF AwaitBegins, AwaitsOK, Goal
  <2>2. CASE cache # None /\ cache.goal = g /\ Over(cache)
    BY <1>1, <2>1, <2>2 DEF AwaitBegins, AwaitsOK, Over, Futures
  <2>3. CASE ~(cache # None /\ cache.goal = g /\ Over(cache))
    <3>1. future' \in [Awaits -> Futures]
      BY <1>1, <2>3 DEF AwaitBegins, AwaitsOK, Futures
    <3>2. waiter' \in [Starts -> Awaits \cup {None}]
      BY <1>1, <2>3 DEF AwaitBegins, AwaitsOK
    <3> QED
      BY <1>1, <2>1, <2>3, <3>1, <3>2 DEF AwaitBegins, AwaitsOK
  <2> QED
    BY <2>2, <2>3
<1>2. CASE AwaitTimesOut(a)
  BY <1>2 DEF AwaitTimesOut, AwaitsOK, Futures
<1>3. CASE AwaitReturns(a)
  BY <1>3 DEF AwaitReturns, AwaitsOK, Unregistered
<1> QED
  BY <1>1, <1>2, <1>3

\* A snapshot that is handled keeps the types of what it touches.
LEMMA HandleTypes ==
  ASSUME Types, NEW s \in down, HandleStatus(s)
  PROVE  Types'
<1>1. s \in Snapshot
  BY DEF Types, SnapshotsOK
<1>2. SnapshotsOK'
  <2>1. down' \subseteq Snapshot /\ IsFiniteSet(down') /\ Cardinality(down') <= MaxDown
    BY TakeTypes DEF HandleStatus, Types
  <2> QED
    BY <1>1, <2>1 DEF HandleStatus, SnapshotsOK, Types
<1>3. RequestsOK'
  <2>1. answer' \in [Requests -> Answers]
    BY <1>1 DEF HandleStatus, RequestsOK, Types, Answers
  <2> QED
    BY <2>1 DEF HandleStatus, RequestsOK, Types
<1>4. AwaitsOK'
  <2>1. waiter' \in [Starts -> Awaits \cup {None}]
    BY <1>1 DEF HandleStatus, AwaitsOK, Types, Popped
  <2>2. future' \in [Awaits -> Futures]
    BY DEF HandleStatus, AwaitsOK, Types, Futures
  <2>3. result' \in [Awaits -> Terminal \cup {"none"}]
    BY DEF HandleStatus, AwaitsOK, Types, Resolves, Over
  <2>4. seenOver' \subseteq Starts
    BY <1>1 DEF HandleStatus, AwaitsOK, Types, Snapshot, Goal
  <2> QED
    BY <2>1, <2>2, <2>3, <2>4 DEF HandleStatus, AwaitsOK, Types
<1>5. RobotOK'
  BY DEF HandleStatus, robot, RobotOK, Types
<1> QED
  BY <1>2, <1>3, <1>4, <1>5 DEF Types

\* A request that reaches the robot keeps the types.
LEMMA NavigationTypes ==
  ASSUME Types, NEW r \in Requests, Navigation(r)
  PROVE  Types'
<1>1. Reply(r) \in Snapshot
  BY ReplyTypes DEF Types
<1>2. RequestsOK'
  <2>1. up' \in [Requests -> 0 .. MaxSends] /\ \A q \in Requests : up'[q] <= sends
    BY NavigationAssumption DEF Navigation, RequestsOK, Types
  <2>2. UNCHANGED <<open, stopped, called, answer, aim, sends>>
    BY DEF Navigation, client
  <2> QED
    BY <2>1, <2>2 DEF RequestsOK, Types
<1>3. AwaitsOK'
  BY DEF Navigation, AwaitsOK, Types, awaits
<1>4. SnapshotsOK'
  <2>1. PICK s \in Snapshot : Emit(s)
    <3>1. CASE Known(r) # {}
      <4>1. PICK s \in Known(r) : Emit(s)
        BY <3>1 DEF Navigation
      <4>2. s \in Snapshot
        BY <4>1, ElementOfSeq, LenProperties DEF Known, Range, Types, RobotOK
      <4> QED
        BY <4>1, <4>2
    <3>2. CASE Known(r) = {}
      BY <1>1, <3>2 DEF Navigation
    <3> QED
      BY <3>1, <3>2
  <2>2. cache' = cache
    BY DEF Navigation, client
  <2> QED
    BY <2>1, <2>2, EmitTypes DEF SnapshotsOK, Types
<1>5. RobotOK'
  <2>1. presses' = presses /\ estopped' = estopped
    BY DEF Navigation
  <2>2. CASE Known(r) # {}
    BY <2>1, <2>2 DEF Navigation, RobotOK, Types
  <2>3. CASE Known(r) = {}
    <3>1. replies' \in Seq(Snapshot) /\ Len(replies') <= History
      BY <1>1, <2>3, RememberTypes DEF Navigation, Types
    <3>2. active' \in Goal /\ saved' \in BOOLEAN /\ fate' \in [Starts -> Fates]
      BY <2>3, EffectTypes DEF Navigation, Types, RobotOK
    <3>3. outcome' \in [Requests -> {"none", "ok", "refused"}]
      BY <2>3 DEF Navigation, Types, RobotOK
    <3> QED
      BY <2>1, <3>1, <3>2, <3>3 DEF RobotOK, Types
  <2> QED
    BY <2>2, <2>3
<1> QED
  BY <1>2, <1>3, <1>4, <1>5 DEF Types

\* A step of the robot's goal keeps the types.
LEMMA GoalStepTypes ==
  ASSUME Types, NEW state \in Terminal \cup {"navigating"}, GoalStep(state)
  PROVE  Types'
<1>1. active \in Starts /\ state \in {"navigating", "succeeded", "canceled"}
  BY DEF GoalStep, Steps, Types, RobotOK, Goal
<1>2. SnapshotsOK'
  <2>1. [id |-> None, ok |-> TRUE, state |-> state, goal |-> active] \in Snapshot
    BY <1>1 DEF Snapshot, States, Goal
  <2>2. cache' = cache
    BY DEF GoalStep, client
  <2> QED
    BY <2>1, <2>2, EmitTypes DEF GoalStep, SnapshotsOK, Types
<1>3. RobotOK'
  <2>1. UNCHANGED <<presses, saved, estopped, replies, outcome>>
    BY DEF GoalStep
  <2>2. active' \in Goal
    BY <1>1 DEF GoalStep, Goal
  <2>3. fate' \in [Starts -> Fates]
    BY <1>1 DEF GoalStep, RobotOK, Types, Fates
  <2> QED
    BY <2>1, <2>2, <2>3 DEF RobotOK, Types
<1>4. RequestsOK' /\ AwaitsOK'
  BY DEF GoalStep, RequestsOK, AwaitsOK, Types, client, awaits
<1> QED
  BY <1>2, <1>3, <1>4 DEF Types

\* Every step keeps the types.
LEMMA TypeStep ==
  ASSUME Types, [Next]_vars
  PROVE  Types'
<1>1. ASSUME NEW r \in Requests, Request(r) PROVE Types'
  <2>1. Aims(r) \subseteq Goal
    BY DEF Aims, Told, Goal
  <2>2. aim' \in [Requests -> Goal] /\ called' \subseteq Requests
    BY <1>1, <2>1 DEF Request, Types, RequestsOK
  <2>3. RequestsOK'
    BY <1>1, <2>2, SendTypes DEF Request, Types, RequestsOK
  <2> QED
    BY <1>1, <2>3 DEF Request, Types, SnapshotsOK, AwaitsOK, RobotOK, awaits, robot
<1>2. ASSUME NEW r \in Requests, Resend(r) PROVE Types'
  <2>1. RequestsOK'
    BY <1>2, SendTypes DEF Resend, Types, RequestsOK
  <2> QED
    BY <1>2, <2>1 DEF Resend, Types, SnapshotsOK, AwaitsOK, RobotOK, awaits, robot
<1>3. ASSUME NEW r \in Requests, RequestTimesOut(r) PROVE Types'
  <2>1. RequestsOK'
    BY <1>3 DEF RequestTimesOut, Types, RequestsOK, Answers
  <2> QED
    BY <1>3, <2>1 DEF RequestTimesOut, Types, SnapshotsOK, AwaitsOK, RobotOK, awaits, robot
<1>4. ASSUME NEW r \in Requests, Navigation(r) PROVE Types'
  BY <1>4, NavigationTypes
<1>5. ASSUME NEW s \in down, HandleStatus(s) PROVE Types'
  BY <1>5, HandleTypes
<1>6. ASSUME NEW s \in down, LoseStatus(s) PROVE Types'
  <2>1. SnapshotsOK'
    BY <1>6, TakeTypes DEF LoseStatus, Types, SnapshotsOK, client
  <2> QED
    BY <1>6, <2>1 DEF LoseStatus, Types, RequestsOK, AwaitsOK, RobotOK, client, awaits, robot
<1>7. ASSUME NEW a \in Awaits,
             AwaitTimesOut(a) \/ AwaitReturns(a) \/ \E g \in Starts : AwaitBegins(a, g)
      PROVE  Types'
  <2>1. AwaitsOK'
    BY <1>7, AwaitTypes DEF Types
  <2>2. UNCHANGED <<open, stopped, client, up, down, robot>>
    BY <1>7 DEF AwaitTimesOut, AwaitReturns, AwaitBegins
  <2> QED
    BY <2>1, <2>2 DEF Types, RequestsOK, SnapshotsOK, RobotOK, client, robot
<1>8. ASSUME NEW state \in Terminal \cup {"navigating"}, GoalStep(state) PROVE Types'
  BY <1>8, GoalStepTypes
<1>9. CASE Stop
  <2>1. RequestsOK'
    BY <1>9 DEF Stop, Types, RequestsOK, Answers
  <2>2. AwaitsOK'
    BY <1>9 DEF Stop, Types, AwaitsOK, Futures
  <2> QED
    BY <1>9, <2>1, <2>2 DEF Stop, Types, SnapshotsOK, RobotOK, robot
<1>10. CASE ChannelCloses
  BY <1>10 DEF ChannelCloses, Types, RequestsOK, SnapshotsOK, AwaitsOK, RobotOK, client, awaits, robot
<1>11. CASE PressEstop \/ ResetEstop
  <2>1. presses' \in 0 .. MaxPresses
    BY <1>11, NavigationAssumption DEF PressEstop, ResetEstop, Types, RobotOK
  <2>3. estopped' \in BOOLEAN
    BY <1>11 DEF PressEstop, ResetEstop
  <2>2. RobotOK'
    BY <1>11, <2>1, <2>3 DEF PressEstop, ResetEstop, Types, RobotOK
  <2> QED
    BY <1>11, <2>2 DEF PressEstop, ResetEstop, Types, RequestsOK, SnapshotsOK, AwaitsOK, client, awaits
<1>12. CASE UNCHANGED vars
  BY <1>12 DEF vars, Types, RequestsOK, SnapshotsOK, AwaitsOK, RobotOK, client, awaits, robot
<1> QED
  BY <1>1, <1>2, <1>3, <1>4, <1>5, <1>6, <1>7, <1>8, <1>9, <1>10, <1>11, <1>12 DEF Next

\* Every variable of the requests, the awaits and the robot keeps its type, and what is
\* bounded keeps its bound: the snapshots in flight, and the replies that the robot
\* remembers (teleop.py 936-1070; mock/robot.py 646-770).
THEOREM TypeCorrect == Spec => []TypeOK
<1>1. Init => Types
  BY InitTypes
<1>2. Types /\ [Next]_vars => Types'
  BY TypeStep
<1>3. Types => TypeOK
  BY TypesSuffice
<1> QED
  BY <1>1, <1>2, <1>3, PTL DEF Spec

-----------------------------------------------------------------------------
(* The requests implement Goals, if the robot's memory holds the requests of a *)
(* session: a reply that is forgotten would be worked out again.               *)

HistoryIsEnough == IsFiniteSet(Requests) /\ Cardinality(Requests) <= History

\* Nothing is known of a request that was not made.
Untouched ==
  \A r \in Requests \ called :
    up[r] = 0 /\ outcome[r] = "none" /\ answer[r] = "none" /\ aim[r] = None

\* A snapshot that answers a request says what the robot did with it.
Says(s) == s.id # None => outcome[s.id] = IF s.ok THEN "ok" ELSE "refused"

\* The robot's replies, remembered and in flight, say so, one remembered of each request.
Honest   == \A s \in down \cup Range(replies) : Says(s)
Distinct ==
  \A i \in 1 .. Len(replies) :
    /\ replies[i].id \in Requests
    /\ \A j \in 1 .. Len(replies) : replies[i].id = replies[j].id => i = j
Remembered == \A r \in Requests : outcome[r] # "none" => Known(r) # {}

\* The active goal is the one whose fate is open; a start that was not run has no goal.
OneGoal ==
  \A g \in Starts :
    /\ fate[g] = "active" <=> active = g
    /\ outcome[g] = "none" => fate[g] = "none"

Promising == Untouched /\ Honest /\ Distinct /\ Remembered /\ OneGoal

\* A robot that remembers no reply to r has room for it.
LEMMA RoomForReply ==
  ASSUME HistoryIsEnough, RobotOK, Distinct, NEW r \in Requests, Known(r) = {}
  PROVE  Len(replies) + 1 <= History
<1> DEFINE n == Len(replies)
           f == [i \in 1 .. n |-> replies[i].id]
<1>1. n \in Nat /\ DOMAIN replies = 1 .. n
  BY LenProperties DEF RobotOK
<1>2. \A i \in 1 .. n : replies[i].id # r
  BY <1>1 DEF Known, Range
<1>3. f \in Injection(1 .. n, Requests \ {r})
  BY <1>2 DEF Injection, IsInjective, Distinct
<1>4. /\ IsFiniteSet(Requests \ {r}) /\ Cardinality(Requests \ {r}) = Cardinality(Requests) - 1
      /\ Cardinality(Requests) \in Nat
  BY FS_RemoveElement, FS_CardinalityType DEF HistoryIsEnough
<1>5. Cardinality(1 .. n) <= Cardinality(Requests \ {r})
  BY <1>3, <1>4, FS_Injection
<1>6. Cardinality(1 .. n) = n
  <2>1. 1 \in Int /\ n \in Int
    BY <1>1
  <2>2. Cardinality(1 .. n) = IF 1 > n THEN 0 ELSE n - 1 + 1
    BY <2>1, FS_Interval
  <2> QED
    BY <1>1, <2>2
<1> QED
  BY <1>1, <1>4, <1>5, <1>6, NavigationAssumption DEF HistoryIsEnough

\* A reply that there is room for is remembered after the others.
LEMMA RememberedNext ==
  ASSUME RobotOK, NEW s \in Snapshot, Len(replies) + 1 <= History, Remember(s)
  PROVE  /\ Len(replies') = Len(replies) + 1
         /\ \A i \in 1 .. Len(replies) : replies'[i] = replies[i]
         /\ replies'[Len(replies) + 1] = s
         /\ Range(replies') = Range(replies) \cup {s}
<1>1. replies \in Seq(Snapshot) /\ Len(replies) \in Nat
  BY DEF RobotOK
<1>2. replies' = Append(replies, s)
  BY <1>1, NavigationAssumption DEF Remember
<1>3. /\ Len(replies') = Len(replies) + 1
      /\ \A i \in 1 .. Len(replies) : replies'[i] = replies[i]
      /\ replies'[Len(replies) + 1] = s
  BY <1>1, <1>2
<1>4. DOMAIN replies = 1 .. Len(replies) /\ DOMAIN replies' = 1 .. Len(replies) + 1
  BY <1>1, <1>2
<1>5. Range(replies') = Range(replies) \cup {s}
  <2>1. ASSUME NEW x \in Range(replies') PROVE x \in Range(replies) \cup {s}
    <3>1. PICK i \in 1 .. Len(replies) + 1 : x = replies'[i]
      BY <1>4 DEF Range
    <3>2. CASE i = Len(replies) + 1
      BY <1>3, <3>1, <3>2
    <3>3. CASE i # Len(replies) + 1
      <4>1. i \in 1 .. Len(replies)
        BY <1>1, <3>3
      <4> QED
        BY <1>3, <1>4, <3>1, <4>1 DEF Range
    <3> QED
      BY <3>2, <3>3
  <2>2. ASSUME NEW x \in Range(replies) \cup {s} PROVE x \in Range(replies')
    <3>1. CASE x = s
      BY <1>1, <1>3, <1>4, <3>1 DEF Range
    <3>2. CASE x \in Range(replies)
      <4>1. PICK i \in 1 .. Len(replies) : x = replies[i]
        BY <1>4, <3>2 DEF Range
      <4>2. i \in 1 .. Len(replies) + 1
        BY <1>1
      <4> QED
        BY <1>3, <1>4, <4>1, <4>2 DEF Range
    <3> QED
      BY <3>1, <3>2
  <2> QED
    BY <2>1, <2>2
<1> QED
  BY <1>3, <1>5

\* The goals at the robot after a request that it grants.
LEMMA EffectGoals ==
  ASSUME RobotOK, OneGoal, NEW r \in Requests, outcome[r] = "none", Grants(r), Effect(r)
  PROVE  \A g \in Starts :
           /\ fate'[g] = "active" <=> active' = g
           /\ fate[g] = "none" /\ g # r => fate'[g] = "none"
<1>1. CASE r \in Starts
  <2>1. active = None /\ r \notin Cancels
    BY <1>1, NavigationAssumption DEF Grants
  <2>2. active' = r /\ fate' = [fate EXCEPT ![r] = "active"]
    BY <1>1, <2>1 DEF Effect
  <2> QED
    BY <1>1, <2>1, <2>2, NavigationAssumption DEF OneGoal, RobotOK, Requests
<1>2. CASE r \in Cancels
  <2>1. active \in Starts /\ r \notin Starts
    BY <1>2, NavigationAssumption DEF Grants, RobotOK, Goal
  <2>2. active' = None /\ fate' = [fate EXCEPT ![active] = "canceled"]
    BY <1>2, <2>1 DEF Effect
  <2> QED
    BY <2>1, <2>2, NavigationAssumption DEF OneGoal, RobotOK, Requests
<1>3. CASE r \notin Starts \cup Cancels
  BY <1>3 DEF Effect, OneGoal
<1> QED
  BY <1>1, <1>2, <1>3
\* Nothing was promised in the initial state.
LEMMA InitPromising == Init => Promising
<1> SUFFICES ASSUME Init PROVE Promising
  OBVIOUS
<1>1. Range(replies) = {} /\ Len(replies) = 0 /\ down = {}
  BY DEF Init, Range
<1>2. Untouched /\ Remembered
  BY DEF Init, Untouched, Remembered
<1>3. Honest /\ Distinct
  BY <1>1 DEF Honest, Distinct
<1>4. OneGoal
  BY NavigationAssumption DEF Init, OneGoal, Requests
<1> QED
  BY <1>2, <1>3, <1>4 DEF Promising

\* A request that the robot runs: it is the first time, and what is remembered of it
\* is what was done.
LEMMA RunPromising ==
  ASSUME HistoryIsEnough, Types, Promising, NEW r \in Requests, Navigation(r), Known(r) = {}
  PROVE  /\ outcome[r] = "none"
         /\ outcome' = [outcome EXCEPT ![r] = IF Grants(r) THEN "ok" ELSE "refused"]
         /\ Honest' /\ Distinct' /\ Remembered' /\ OneGoal'
<1>0. PICK s \in Snapshot : s = Reply(r)
  BY ReplyTypes DEF Types
<1>1. s \in Snapshot /\ s.id = r /\ s.ok = Grants(r)
  BY <1>0, ReplyTypes DEF Types
<1>2. outcome[r] = "none"
  BY DEF Promising, Remembered
<1>3. outcome' = [outcome EXCEPT ![r] = IF Grants(r) THEN "ok" ELSE "refused"]
  BY <1>2 DEF Navigation
<1>4. outcome \in [Requests -> {"none", "ok", "refused"}]
  BY DEF Types, RobotOK
<1>5. Remember(s) /\ Emit(s)
  BY <1>0 DEF Navigation
<1>6. Len(replies) + 1 <= History
  BY RoomForReply DEF Types, Promising
<1>7. /\ Len(replies') = Len(replies) + 1
      /\ \A i \in 1 .. Len(replies) : replies'[i] = replies[i]
      /\ replies'[Len(replies) + 1] = s
      /\ Range(replies') = Range(replies) \cup {s}
  BY <1>1, <1>5, <1>6, RememberedNext DEF Types
<1>8. replies \in Seq(Snapshot) /\ Len(replies) \in Nat /\ DOMAIN replies = 1 .. Len(replies)
  BY DEF Types, RobotOK
<1>9. None \notin Requests
  BY NavigationAssumption
<1>10. Honest'
  <2>1. down' \subseteq down \cup {s}
    BY <1>5 DEF Emit
  <2>2. ASSUME NEW t \in down \cup Range(replies) PROVE Says(t)'
    <3>1. Says(t)
      BY DEF Promising, Honest
    <3>2. t \in Snapshot
      BY <1>8 DEF Types, SnapshotsOK, Range
    <3>3. t.id # r
      BY <1>2, <1>9, <3>1 DEF Says
    <3> QED
      BY <1>3, <1>4, <3>1, <3>2, <3>3 DEF Says, Snapshot
  <2>3. Says(s)'
    BY <1>1, <1>3, <1>4 DEF Says
  <2> QED
    BY <1>7, <2>1, <2>2, <2>3 DEF Honest
<1>11. Distinct'
  <2>1. \A i \in 1 .. Len(replies) : replies[i].id # r
    BY <1>8 DEF Known, Range
  <2>2. \A i \in 1 .. Len(replies) + 1 : i \in 1 .. Len(replies) \/ i = Len(replies) + 1
    BY <1>8
  <2>3. ASSUME NEW i \in 1 .. Len(replies) + 1
        PROVE  /\ replies'[i].id \in Requests
               /\ \A j \in 1 .. Len(replies) + 1 : replies'[i].id = replies'[j].id => i = j
    BY <1>1, <1>7, <2>1, <2>2 DEF Promising, Distinct
  <2> QED
    BY <1>7, <2>3 DEF Distinct
<1>12. Remembered'
  <2>1. ASSUME NEW q \in Requests, outcome'[q] # "none" PROVE Known(q)' # {}
    <3>1. CASE q = r
      <4>1. s \in Range(replies') /\ s.id = q
        BY <1>1, <1>7, <3>1
      <4> QED
        BY <4>1 DEF Known
    <3>2. CASE q # r
      <4>1. outcome[q] # "none"
        BY <1>3, <1>4, <2>1, <3>2
      <4>2. PICK t \in Range(replies) : t.id = q
        BY <4>1 DEF Known, Promising, Remembered
      <4> QED
        BY <1>7, <4>2 DEF Known
    <3> QED
      BY <3>1, <3>2
  <2> QED
    BY <2>1 DEF Remembered
<1>13. OneGoal'
  <2>1. CASE Grants(r)
    <3>1. Effect(r)
      BY <2>1 DEF Navigation
    <3>2. \A g \in Starts :
            /\ fate'[g] = "active" <=> active' = g
            /\ fate[g] = "none" /\ g # r => fate'[g] = "none"
      BY <1>2, <2>1, <3>1, EffectGoals DEF Types, Promising
    <3> QED
      BY <1>3, <1>4, <3>2 DEF Promising, OneGoal, Requests
  <2>2. CASE ~Grants(r)
    BY <1>3, <1>4, <2>2 DEF Navigation, Promising, OneGoal, Requests
  <2> QED
    BY <2>1, <2>2
<1> QED
  BY <1>2, <1>3, <1>10, <1>11, <1>12, <1>13

\* A request that the robot knows is answered as before.
LEMMA RepeatPromising ==
  ASSUME Types, Promising, NEW r \in Requests, Navigation(r), Known(r) # {}
  PROVE  Honest' /\ Distinct' /\ Remembered' /\ OneGoal'
<1>1. UNCHANGED <<active, saved, fate, replies, outcome>>
  BY DEF Navigation
<1>2. PICK s \in Known(r) : Emit(s)
  BY DEF Navigation
<1>3. down' \subseteq down \cup Range(replies)
  BY <1>2 DEF Emit, Known
<1>4. Honest'
  BY <1>1, <1>3 DEF Honest, Promising, Says
<1> QED
  BY <1>1, <1>4 DEF Promising, Distinct, Remembered, OneGoal, Known

\* Every step keeps what the promise rests on.
LEMMA PromisingStep ==
  ASSUME HistoryIsEnough, Types, Promising, [Next]_vars
  PROVE  Promising'
<1> USE DEF Promising
<1>1. ASSUME NEW r \in Requests, Request(r) PROVE Promising'
  <2>1. Untouched'
    BY <1>1 DEF Request, SendFrame, Untouched, Types, RequestsOK, robot
  <2> QED
    BY <1>1, <2>1 DEF Request, Honest, Says, Distinct, Remembered, Known, OneGoal, robot
<1>2. ASSUME NEW r \in Requests, Resend(r) PROVE Promising'
  <2>1. Untouched'
    BY <1>2 DEF Resend, Waiting, SendFrame, Untouched, Types, RequestsOK, robot
  <2> QED
    BY <1>2, <2>1 DEF Resend, Honest, Says, Distinct, Remembered, Known, OneGoal, robot
<1>3. ASSUME NEW r \in Requests, RequestTimesOut(r) PROVE Promising'
  <2>1. Untouched'
    BY <1>3 DEF RequestTimesOut, Waiting, Untouched, Types, RequestsOK, robot
  <2> QED
    BY <1>3, <2>1 DEF RequestTimesOut, Honest, Says, Distinct, Remembered, Known, OneGoal, robot
<1>4. ASSUME NEW r \in Requests, Navigation(r) PROVE Promising'
  <2>1. r \in called
    BY <1>4 DEF Navigation, Untouched
  <2>2. Honest' /\ Distinct' /\ Remembered' /\ OneGoal'
    BY <1>4, RunPromising, RepeatPromising
  <2>3. \A q \in Requests \ called : up'[q] = up[q]
    BY <1>4, <2>1 DEF Navigation, Types, RequestsOK
  <2>4. \A q \in Requests \ called : outcome'[q] = outcome[q]
    BY <1>4, <2>1 DEF Navigation, Types, RobotOK
  <2>5. UNCHANGED <<called, answer, aim>>
    BY <1>4 DEF Navigation, client
  <2> QED
    BY <2>2, <2>3, <2>4, <2>5 DEF Untouched
<1>5. ASSUME NEW s \in down, HandleStatus(s) PROVE Promising'
  <2>1. Untouched'
    BY <1>5 DEF HandleStatus, Waiting, Untouched, Types, RequestsOK, robot
  <2>2. down' \subseteq down /\ UNCHANGED robot
    BY <1>5 DEF HandleStatus
  <2> QED
    BY <2>1, <2>2 DEF Honest, Says, Distinct, Remembered, Known, OneGoal, robot
<1>6. ASSUME NEW s \in down, LoseStatus(s) PROVE Promising'
  BY <1>6 DEF LoseStatus, Untouched, Honest, Says, Distinct, Remembered, Known, OneGoal, client, robot
<1>7. ASSUME NEW a \in Awaits,
             AwaitTimesOut(a) \/ AwaitReturns(a) \/ \E g \in Starts : AwaitBegins(a, g)
      PROVE  Promising'
  <2>1. UNCHANGED <<client, up, down, robot>>
    BY <1>7 DEF AwaitTimesOut, AwaitReturns, AwaitBegins
  <2> QED
    BY <2>1 DEF Untouched, Honest, Says, Distinct, Remembered, Known, OneGoal, client, robot
<1>8. ASSUME NEW state \in Terminal \cup {"navigating"}, GoalStep(state) PROVE Promising'
  <2>1. active \in Starts /\ active \in Requests /\ fate \in [Starts -> Fates]
    BY <1>8 DEF GoalStep, Types, RobotOK, Goal, Requests
  <2>2. UNCHANGED <<client, up, replies, outcome>>
    BY <1>8 DEF GoalStep
  <2>3. Honest'
    <3>0. PICK s : s = [id |-> None, ok |-> TRUE, state |-> state, goal |-> active]
      OBVIOUS
    <3>1. down' \subseteq down \cup {s}
      BY <1>8, <3>0 DEF GoalStep, Emit
    <3>2. s.id = None
      BY <3>0
    <3> QED
      BY <2>2, <3>1, <3>2 DEF Honest, Says
  <2>4. OneGoal'
    <3>1. state = "navigating" \/ state \in {"succeeded", "canceled"}
      BY <1>8 DEF GoalStep, Steps
    <3>2. CASE state = "navigating"
      BY <1>8, <2>2, <3>2 DEF GoalStep, OneGoal
    <3>3. CASE state \in {"succeeded", "canceled"}
      <4>1. active' = None /\ fate' = [fate EXCEPT ![active] = state]
        BY <1>8, <3>3 DEF GoalStep
      <4> QED
        BY <2>1, <2>2, <3>3, <4>1, NavigationAssumption DEF OneGoal, Requests
    <3> QED
      BY <3>1, <3>2, <3>3
  <2> QED
    BY <2>2, <2>3, <2>4 DEF Untouched, Distinct, Remembered, Known, client
<1>9. CASE Stop
  <2>1. Untouched'
    BY <1>9 DEF Stop, Waiting, Untouched, robot
  <2> QED
    BY <1>9, <2>1 DEF Stop, Honest, Says, Distinct, Remembered, Known, OneGoal, robot
<1>10. CASE ChannelCloses
  BY <1>10 DEF ChannelCloses, Untouched, Honest, Says, Distinct, Remembered, Known, OneGoal, client,
    robot
<1>11. CASE PressEstop \/ ResetEstop
  BY <1>11 DEF PressEstop, ResetEstop, Untouched, Honest, Says, Distinct, Remembered, Known, OneGoal,
    client
<1>12. CASE UNCHANGED vars
  BY <1>12 DEF vars, Untouched, Honest, Says, Distinct, Remembered, Known, OneGoal, client, robot
<1> QED
  BY <1>1, <1>2, <1>3, <1>4, <1>5, <1>6, <1>7, <1>8, <1>9, <1>10, <1>11, <1>12 DEF Next
\* What a first run grants is what Goals lets a request do.
LEMMA GrantPromised ==
  ASSUME Types, Promising, NEW r \in Requests, outcome[r] = "none", Grants(r), Effect(r)
  PROVE  PromisedGoals!Grant(r)
<1>1. /\ (r \in Starts => r \notin Cancels \cup Polls \cup Remembers \cup Deletes)
      /\ (r \in Cancels => r \notin Polls \cup Remembers \cup Deletes)
      /\ (r \in Polls => r \notin Remembers \cup Deletes)
      /\ (r \in Remembers => r \notin Deletes)
      /\ None \notin Starts
  BY NavigationAssumption DEF Requests
<1>2. active = None => PromisedGoals!NoGoal
  BY <1>1 DEF Promising, OneGoal, PromisedGoals!NoGoal
<1>3. CASE r \in Starts
  <2>1. active = None /\ saved
    BY <1>1, <1>3 DEF Grants
  <2>2. fate[r] = "none"
    BY <1>3 DEF Promising, OneGoal
  <2>3. fate' = [fate EXCEPT ![r] = "active"] /\ saved' = saved
    BY <1>1, <1>3 DEF Effect
  <2> QED
    BY <1>2, <1>3, <2>1, <2>2, <2>3 DEF PromisedGoals!Grant
<1>4. CASE r \in Cancels
  <2>1. active # None /\ aim[r] \in {None, active} /\ active \in Starts
    BY <1>1, <1>4 DEF Grants, Types, RobotOK, Goal
  <2>2. fate[active] = "active"
    BY <2>1 DEF Promising, OneGoal
  <2>3. fate' = [fate EXCEPT ![active] = "canceled"] /\ saved' = saved
    BY <1>1, <1>4 DEF Effect
  <2> QED
    BY <1>4, <2>1, <2>2, <2>3 DEF PromisedGoals!Grant
<1>5. CASE r \in Polls
  <2>1. fate' = fate /\ saved' = saved
    BY <1>1, <1>5 DEF Effect
  <2> QED
    BY <1>5, <2>1 DEF PromisedGoals!Grant
<1>6. CASE r \in Remembers
  <2>1. active = None /\ fate' = fate /\ saved' = TRUE
    BY <1>1, <1>6 DEF Grants, Effect
  <2> QED
    BY <1>2, <1>6, <2>1 DEF PromisedGoals!Grant
<1>7. CASE r \in Deletes
  <2>1. active = None /\ saved /\ fate' = fate /\ saved' = FALSE
    BY <1>1, <1>7 DEF Grants, Effect
  <2> QED
    BY <1>2, <1>7, <2>1 DEF PromisedGoals!Grant
<1> QED
  BY <1>3, <1>4, <1>5, <1>6, <1>7 DEF Requests

\* Every step is a step of Goals or leaves what Goals speaks of alone.
LEMMA StepPromised ==
  ASSUME HistoryIsEnough, Types, Promising, [Next]_vars
  PROVE  [PromisedGoals!Next]_(PromisedGoals!vars)
<1> USE DEF PromisedGoals!vars
<1>0. PromisedGoals!Requests = Requests
  BY DEF PromisedGoals!Requests, Requests
<1>1. ASSUME NEW r \in Requests, Request(r) PROVE [PromisedGoals!Next]_(PromisedGoals!vars)
  <2>1. PICK g \in Aims(r) : aim' = [aim EXCEPT ![r] = g]
    BY <1>1 DEF Request
  <2>2. g \in Goal
    BY DEF Aims, Told, Goal
  <2>3. outcome[r] = "none" /\ answer[r] = "none" /\ aim[r] = None
    BY <1>1 DEF Request, Promising, Untouched
  <2>4. UNCHANGED <<outcome, answer, fate, saved>>
    BY <1>1 DEF Request, robot
  <2>5. CASE g = None
    <3>1. aim' = aim
      BY <2>1, <2>3, <2>5 DEF Types, RequestsOK
    <3> QED
      BY <2>4, <3>1
  <2>6. CASE g # None
    <3>1. PromisedGoals!Name(r)
      BY <2>1, <2>2, <2>3, <2>4, <2>6 DEF PromisedGoals!Name, Goal
    <3> QED
      BY <1>0, <3>1 DEF PromisedGoals!Next
  <2> QED
    BY <2>5, <2>6
<1>2. ASSUME NEW r \in Requests, Resend(r) PROVE [PromisedGoals!Next]_(PromisedGoals!vars)
  BY <1>2 DEF Resend, robot
<1>3. ASSUME NEW r \in Requests, RequestTimesOut(r) PROVE [PromisedGoals!Next]_(PromisedGoals!vars)
  <2>1. answer' = [q \in Requests |-> IF q \in {r} THEN "unreachable" ELSE answer[q]]
    BY <1>3 DEF RequestTimesOut, Types, RequestsOK
  <2>2. \A q \in {r} : answer[q] = "none"
    BY <1>3 DEF RequestTimesOut, Waiting
  <2>3. UNCHANGED <<aim, outcome, fate, saved>>
    BY <1>3 DEF RequestTimesOut, robot
  <2>4. PromisedGoals!GiveUp({r})
    BY <1>0, <2>1, <2>2, <2>3 DEF PromisedGoals!GiveUp
  <2> QED
    BY <1>0, <2>4 DEF PromisedGoals!Next
<1>4. ASSUME NEW r \in Requests, Navigation(r) PROVE [PromisedGoals!Next]_(PromisedGoals!vars)
  <2>1. UNCHANGED <<aim, answer>>
    BY <1>4 DEF Navigation, client
  <2>2. CASE Known(r) # {}
    BY <1>4, <2>1, <2>2 DEF Navigation
  <2>3. CASE Known(r) = {}
    <3>1. /\ outcome[r] = "none"
          /\ outcome' = [outcome EXCEPT ![r] = IF Grants(r) THEN "ok" ELSE "refused"]
      BY <1>4, <2>3, RunPromising
    <3>2. CASE Grants(r)
      <4>1. PromisedGoals!Grant(r)
        BY <1>4, <2>3, <3>1, <3>2, GrantPromised DEF Navigation
      <4>2. PromisedGoals!Execute(r)
        BY <2>1, <3>1, <3>2, <4>1 DEF PromisedGoals!Execute
      <4> QED
        BY <1>0, <4>2 DEF PromisedGoals!Next
    <3>3. CASE ~Grants(r)
      <4>1. PromisedGoals!Execute(r)
        BY <1>4, <2>1, <2>3, <3>1, <3>3 DEF Navigation, PromisedGoals!Execute
      <4> QED
        BY <1>0, <4>1 DEF PromisedGoals!Next
    <3> QED
      BY <3>2, <3>3
  <2> QED
    BY <2>2, <2>3
<1>5. ASSUME NEW s \in down, HandleStatus(s) PROVE [PromisedGoals!Next]_(PromisedGoals!vars)
  <2>1. UNCHANGED <<aim, outcome, fate, saved>>
    BY <1>5 DEF HandleStatus, robot
  <2>2. CASE s.id # None /\ Waiting(s.id)
    <3>1. s.id \in Requests
      BY <2>2 DEF Types, SnapshotsOK, Snapshot
    <3>2. outcome[s.id] = IF s.ok THEN "ok" ELSE "refused"
      BY <2>2 DEF Promising, Honest, Says
    <3>3. answer[s.id] = "none" /\ answer' = [answer EXCEPT ![s.id] = outcome[s.id]]
      BY <1>5, <2>2, <3>2 DEF HandleStatus, Waiting
    <3>4. PromisedGoals!Answer(s.id)
      BY <2>1, <3>2, <3>3 DEF PromisedGoals!Answer
    <3> QED
      BY <1>0, <3>1, <3>4 DEF PromisedGoals!Next
  <2>3. CASE ~(s.id # None /\ Waiting(s.id))
    BY <1>5, <2>1, <2>3 DEF HandleStatus
  <2> QED
    BY <2>2, <2>3
<1>6. ASSUME NEW s \in down, LoseStatus(s) PROVE [PromisedGoals!Next]_(PromisedGoals!vars)
  BY <1>6 DEF LoseStatus, client, robot
<1>7. ASSUME NEW a \in Awaits,
             AwaitTimesOut(a) \/ AwaitReturns(a) \/ \E g \in Starts : AwaitBegins(a, g)
      PROVE  [PromisedGoals!Next]_(PromisedGoals!vars)
  BY <1>7 DEF AwaitTimesOut, AwaitReturns, AwaitBegins, client, robot
<1>8. ASSUME NEW state \in Terminal \cup {"navigating"}, GoalStep(state)
      PROVE  [PromisedGoals!Next]_(PromisedGoals!vars)
  <2>1. UNCHANGED <<aim, outcome, answer, saved>>
    BY <1>8 DEF GoalStep, client
  <2>2. CASE state = "navigating"
    BY <1>8, <2>1, <2>2 DEF GoalStep
  <2>3. CASE state # "navigating"
    <3>1. active \in Starts /\ fate[active] = "active"
      BY <1>8 DEF GoalStep, Types, RobotOK, Goal, Promising, OneGoal
    <3>2. state \in {"succeeded", "canceled"} /\ fate' = [fate EXCEPT ![active] = state]
      BY <1>8, <2>3 DEF GoalStep, Steps
    <3>3. PromisedGoals!Finish(active)
      BY <2>1, <3>1, <3>2 DEF PromisedGoals!Finish
    <3> QED
      BY <3>1, <3>3 DEF PromisedGoals!Next
  <2> QED
    BY <2>2, <2>3
<1>9. CASE Stop
  <2> DEFINE S == {r \in Requests : Waiting(r)}
  <2>1. answer' = [r \in Requests |-> IF r \in S THEN "unreachable" ELSE answer[r]]
    BY <1>9 DEF Stop
  <2>2. \A r \in S : answer[r] = "none"
    BY DEF Waiting
  <2>3. UNCHANGED <<aim, outcome, fate, saved>>
    BY <1>9 DEF Stop, robot
  <2>4. PromisedGoals!GiveUp(S)
    BY <1>0, <2>1, <2>2, <2>3 DEF PromisedGoals!GiveUp
  <2>5. S \in SUBSET Requests
    OBVIOUS
  <2> HIDE DEF S
  <2> QED
    BY <1>0, <2>4, <2>5 DEF PromisedGoals!Next
<1>10. CASE ChannelCloses
  BY <1>10 DEF ChannelCloses, client, robot
<1>11. CASE PressEstop \/ ResetEstop
  BY <1>11 DEF PressEstop, ResetEstop, client
<1>12. CASE UNCHANGED vars
  BY <1>12 DEF vars, client, robot
<1> QED
  BY <1>1, <1>2, <1>3, <1>4, <1>5, <1>6, <1>7, <1>8, <1>9, <1>10, <1>11, <1>12 DEF Next

\* Navigation implements Goals: whatever the channel loses or reorders and whatever
\* is sent again, a request runs once, its caller is told that outcome, and a goal
\* ends once, by no cancel that names another (teleop.py 82-87, 970-991, 1014-1017;
\* mock/robot.py 657-770).
THEOREM RequestsKeepPromise == ASSUME HistoryIsEnough PROVE Spec => Promise
<1>1. Init => Types /\ Promising
  BY InitTypes, InitPromising
<1>2. Types /\ Promising /\ [Next]_vars => (Types /\ Promising)'
  BY TypeStep, PromisingStep
<1>3. Init => PromisedGoals!Init
  BY DEF Init, PromisedGoals!Init, PromisedGoals!Requests, Requests
<1>4. Types /\ Promising /\ [Next]_vars => [PromisedGoals!Next]_(PromisedGoals!vars)
  BY StepPromised
<1> QED
  BY <1>1, <1>2, <1>3, <1>4, PTL DEF Spec, Promise, PromisedGoals!Spec
-----------------------------------------------------------------------------
(* The awaits *)

\* The await that a goal's end would wake is one that waits for that goal; a pending
\* one is registered; and only a finished one has a result.
Registered ==
  /\ \A g \in Starts : \A a \in Awaits : waiter[g] = a => goal[a] = g /\ future[a] # "none"
  /\ \A a \in Awaits : future[a] = "pending" => goal[a] \in Starts /\ waiter[goal[a]] = a
  /\ \A a \in Awaits : result[a] # "none" => future[a] = "finished"

\* Every step keeps the awaits registered.
LEMMA RegisteredStep ==
  ASSUME Types, Registered, [Next]_vars
  PROVE  Registered'
<1> None \notin Requests /\ None \notin Awaits
  BY NavigationAssumption
<1>0. /\ waiter \in [Starts -> Awaits \cup {None}] /\ goal \in [Awaits -> Goal]
      /\ future \in [Awaits -> Futures] /\ result \in [Awaits -> Terminal \cup {"none"}]
  BY DEF Types, AwaitsOK
<1>1. ASSUME NEW s \in down, HandleStatus(s) PROVE Registered'
  <2>1. s.goal \in Goal
    BY DEF Types, SnapshotsOK, Snapshot
  <2>2. UNCHANGED goal /\ waiter' = Popped(s)
    BY <1>1 DEF HandleStatus
  <2> DEFINE woken == {a \in Resolves(s) : future[a] = "pending"}
  <2>3. /\ future' = [a \in Awaits |-> IF a \in woken THEN "finished" ELSE future[a]]
        /\ result' = [a \in Awaits |-> IF a \in woken THEN s.state ELSE result[a]]
    BY <1>1 DEF HandleStatus
  <2>4. \A a \in Awaits : a \in woken \/ future'[a] = future[a]
    BY <2>3
  <2>5. \A a \in woken : future[a] = "pending"
    OBVIOUS
  <2>6. \A g \in Starts : waiter'[g] \in {waiter[g], None}
    BY <1>0, <2>2 DEF Popped
  <2>7. \A g \in Starts : \A a \in Awaits : waiter'[g] = a => goal'[a] = g /\ future'[a] # "none"
    BY <1>0, <2>2, <2>3, <2>6 DEF Registered
  <2>8. ASSUME NEW a \in Awaits, future'[a] = "pending"
        PROVE  goal'[a] \in Starts /\ waiter'[goal'[a]] = a
    <3>1. a \notin woken /\ future[a] = "pending"
      BY <2>3, <2>8
    <3>2. goal[a] \in Starts /\ waiter[goal[a]] = a
      BY <3>1 DEF Registered
    <3>3. ~(Over(s) /\ s.goal = goal[a])
      <4>1. goal[a] # None
        BY <3>2 DEF Requests
      <4>2. Over(s) /\ s.goal = goal[a] => a \in Resolves(s)
        BY <3>2, <4>1 DEF Resolves
      <4> QED
        BY <3>1, <4>2
    <3> QED
      BY <1>0, <2>2, <3>2, <3>3 DEF Popped
  <2>9. \A a \in Awaits : result'[a] # "none" => future'[a] = "finished"
    BY <2>3 DEF Registered
  <2> QED
    BY <2>7, <2>8, <2>9 DEF Registered
<1>2. ASSUME NEW a \in Awaits, NEW g \in Starts, AwaitBegins(a, g) PROVE Registered'
  <2>1. future[a] = "none" /\ goal' = [goal EXCEPT ![a] = g] /\ \A h \in Starts : waiter[h] # a
    BY <1>2 DEF AwaitBegins, Registered
  <2>2. CASE cache # None /\ cache.goal = g /\ Over(cache)
    <3>1. /\ future' = [future EXCEPT ![a] = "finished"]
          /\ result' = [result EXCEPT ![a] = cache.state] /\ waiter' = waiter
      BY <1>2, <2>2 DEF AwaitBegins
    <3> QED
      BY <1>0, <2>1, <3>1 DEF Registered
  <2>3. CASE ~(cache # None /\ cache.goal = g /\ Over(cache))
    <3>1. /\ future' = [b \in Awaits |->
               IF b = a THEN "pending"
               ELSE IF b = waiter[g] /\ future[b] = "pending" THEN "replaced" ELSE future[b]]
          /\ waiter' = [waiter EXCEPT ![g] = a] /\ result' = result
      BY <1>2, <2>3 DEF AwaitBegins
    <3>2. \A h \in Starts : \A b \in Awaits : waiter'[h] = b => goal'[b] = h /\ future'[b] # "none"
      BY <1>0, <2>1, <3>1 DEF Registered
    <3>3. ASSUME NEW b \in Awaits, future'[b] = "pending"
          PROVE  goal'[b] \in Starts /\ waiter'[goal'[b]] = b
      <4>1. CASE b = a
        BY <1>0, <2>1, <3>1, <4>1
      <4>2. CASE b # a
        <5>1. future[b] = "pending" /\ waiter[g] # b /\ goal'[b] = goal[b]
          BY <1>0, <2>1, <3>1, <3>3, <4>2
        <5>2. goal[b] \in Starts /\ waiter[goal[b]] = b
          BY <5>1 DEF Registered
        <5> QED
          BY <1>0, <3>1, <5>1, <5>2
      <4> QED
        BY <4>1, <4>2
    <3>4. \A b \in Awaits : result'[b] # "none" => future'[b] = "finished"
      BY <1>0, <2>1, <3>1 DEF Registered
    <3> QED
      BY <3>2, <3>3, <3>4 DEF Registered
  <2> QED
    BY <2>2, <2>3
<1>3. ASSUME NEW a \in Awaits, AwaitTimesOut(a) PROVE Registered'
  <2>1. /\ future[a] = "pending" /\ future' = [future EXCEPT ![a] = "cancelled"]
        /\ UNCHANGED <<waiter, goal, result>>
    BY <1>3 DEF AwaitTimesOut
  <2> QED
    BY <1>0, <2>1 DEF Registered
<1>4. ASSUME NEW a \in Awaits, AwaitReturns(a) PROVE Registered'
  <2>1. future[a] # "pending" /\ waiter' = Unregistered(a) /\ UNCHANGED <<future, goal, result>>
    BY <1>4 DEF AwaitReturns
  <2>2. \A h \in Starts : waiter'[h] = waiter[h] \/ (waiter[h] = a /\ waiter'[h] = None)
    BY <1>0, <2>1 DEF Unregistered
  <2> QED
    BY <1>0, <2>1, <2>2 DEF Registered
<1>5. CASE Stop
  <2>1. /\ UNCHANGED <<goal, result>> /\ waiter' = [g \in Starts |-> None]
        /\ future' = [a \in Awaits |->
             IF future[a] = "pending" /\ \E g \in Starts : waiter[g] = a THEN "closed" ELSE future[a]]
    BY <1>5 DEF Stop
  <2> QED
    BY <1>0, <2>1 DEF Registered
<1>6. CASE UNCHANGED awaits
  BY <1>6 DEF awaits, Registered
<1>7. ASSUME NEW r \in Requests, Request(r) \/ Resend(r) \/ RequestTimesOut(r) \/ Navigation(r)
      PROVE  UNCHANGED awaits
  BY <1>7 DEF Request, Resend, RequestTimesOut, Navigation
<1>8. ASSUME NEW s \in down, LoseStatus(s) PROVE UNCHANGED awaits
  BY <1>8 DEF LoseStatus
<1>9. ASSUME NEW state \in Terminal \cup {"navigating"}, GoalStep(state) PROVE UNCHANGED awaits
  BY <1>9 DEF GoalStep
<1>10. CASE ChannelCloses \/ PressEstop \/ ResetEstop \/ UNCHANGED vars
  <2>1. UNCHANGED awaits
    BY <1>10 DEF ChannelCloses, PressEstop, ResetEstop, vars
  <2> QED
    BY <1>6, <2>1
<1> QED
  BY <1>1, <1>2, <1>3, <1>4, <1>5, <1>6, <1>7, <1>8, <1>9, <1>10 DEF Next

\* No await is registered in the initial state.
LEMMA InitRegistered == Init => Registered
  BY NavigationAssumption DEF Init, Registered

\* A pending await is the one that the end of its goal wakes, for any number of
\* awaits that replace each other, time out and leave late (teleop.py 1048-1070).
THEOREM NoAwaitIsOrphaned == Spec => []NoOrphan
<1>1. Init => Types /\ Registered
  BY InitTypes, InitRegistered
<1>2. Types /\ Registered /\ [Next]_vars => (Types /\ Registered)'
  BY TypeStep, RegisteredStep
<1>3. Registered => NoOrphan
  BY DEF Registered, NoOrphan
<1> QED
  BY <1>1, <1>2, <1>3, PTL DEF Spec

\* A snapshot of a goal's end tells how it ended.
Ends(s) == s.goal # None /\ s.state \in {"succeeded", "canceled"} => fate[s.goal] = s.state

\* So do those in flight, remembered and cached, and so do the awaits that saw one.
Truthful ==
  /\ \A s \in down \cup Range(replies) : Ends(s)
  /\ cache # None => Ends(cache)
  /\ \A a \in Awaits : result[a] \in {"succeeded", "canceled"} =>
       goal[a] \in Starts /\ fate[goal[a]] = result[a]

\* A goal that has ended has ended for good.
LEMMA EndsForGood ==
  ASSUME HistoryIsEnough, Types, Promising, [Next]_vars, NEW g \in Starts,
         fate[g] \in {"succeeded", "canceled"}
  PROVE  fate'[g] = fate[g]
<1>1. CASE UNCHANGED fate
  BY <1>1
<1>2. CASE PromisedGoals!Next
  <2>1. ASSUME NEW r, PromisedGoals!Execute(r) PROVE fate'[g] = fate[g]
    <3>1. CASE PromisedGoals!Grant(r)
      BY <3>1 DEF PromisedGoals!Grant, Types, RobotOK
    <3>2. CASE UNCHANGED fate
      BY <3>2
    <3> QED
      BY <2>1, <3>1, <3>2 DEF PromisedGoals!Execute
  <2>2. ASSUME NEW h \in Starts, PromisedGoals!Finish(h) PROVE fate'[g] = fate[g]
    BY <2>2 DEF PromisedGoals!Finish, Types, RobotOK
  <2>3. ASSUME NEW r, PromisedGoals!Name(r) \/ PromisedGoals!Answer(r) PROVE fate'[g] = fate[g]
    BY <2>3 DEF PromisedGoals!Name, PromisedGoals!Answer
  <2>4. ASSUME NEW S, PromisedGoals!GiveUp(S) PROVE fate'[g] = fate[g]
    BY <2>4 DEF PromisedGoals!GiveUp
  <2> QED
    BY <1>2, <2>1, <2>2, <2>3, <2>4 DEF PromisedGoals!Next
<1> QED
  BY <1>1, <1>2, StepPromised DEF PromisedGoals!vars

\* What the robot says of the end of a goal is true when it says it.
LEMMA SaysTruly ==
  ASSUME HistoryIsEnough, Types, Promising, Truthful, [Next]_vars
  PROVE  \A s \in down' \cup Range(replies') : Ends(s)'
<1>1. ASSUME NEW s \in Snapshot, Ends(s) PROVE Ends(s)'
  <2>1. SUFFICES ASSUME s.goal # None, s.state \in {"succeeded", "canceled"}
                 PROVE  fate'[s.goal] = s.state
    BY DEF Ends
  <2>2. s.goal \in Starts /\ fate[s.goal] = s.state
    BY <1>1, <2>1 DEF Ends, Snapshot, Goal
  <2> QED
    BY <2>1, <2>2, EndsForGood
<1>2. ASSUME NEW s \in down \cup Range(replies) PROVE Ends(s)'
  <2>1. s \in Snapshot
    BY DEF Types, SnapshotsOK, RobotOK, Range
  <2>2. Ends(s)
    BY DEF Truthful
  <2> QED
    BY <1>1, <2>1, <2>2
<1>3. ASSUME NEW r \in Requests, Navigation(r) PROVE \A s \in down' \cup Range(replies') : Ends(s)'
  <2>1. CASE Known(r) # {}
    <3>1. PICK t \in Known(r) : Emit(t)
      BY <1>3, <2>1 DEF Navigation
    <3>2. down' \subseteq down \cup Range(replies) /\ replies' = replies
      BY <1>3, <2>1, <3>1 DEF Navigation, Emit, Known
    <3> QED
      BY <1>2, <3>2
  <2>2. CASE Known(r) = {}
    <3>1. PICK t \in Snapshot : t = Reply(r)
      BY ReplyTypes DEF Types
    <3>2. Emit(t) /\ Remember(t)
      BY <1>3, <2>2, <3>1 DEF Navigation
    <3>3. Len(replies) + 1 <= History
      BY <2>2, RoomForReply DEF Types, Promising
    <3>4. Range(replies') = Range(replies) \cup {t}
      BY <3>2, <3>3, RememberedNext DEF Types
    <3>5. down' \subseteq down \cup {t}
      BY <3>2 DEF Emit
    <3>6. CASE Grants(r) /\ r \in Cancels
      <4>1. r \notin Starts /\ active \in Starts
        BY <3>6, NavigationAssumption DEF Grants, Types, RobotOK, Goal
      <4>2. t = [Base(r) EXCEPT !.state = "canceled"]
        BY <3>1, <3>6, <4>1 DEF Reply
      <4>3. t.goal = active /\ t.state = "canceled"
        BY <4>2 DEF Base
      <4>4. fate' = [fate EXCEPT ![active] = "canceled"]
        BY <1>3, <2>2, <3>6, <4>1 DEF Navigation, Effect
      <4>5. fate'[active] = "canceled"
        BY <4>1, <4>4 DEF Types, RobotOK
      <4>6. Ends(t)'
        BY <4>3, <4>5 DEF Ends
      <4> QED
        BY <1>2, <3>4, <3>5, <4>6
    <3>7. CASE ~(Grants(r) /\ r \in Cancels)
      <4>1. t.state \notin {"succeeded", "canceled"}
        BY <3>1, <3>7 DEF Reply, Base
      <4>2. Ends(t)'
        BY <4>1 DEF Ends
      <4> QED
        BY <1>2, <3>4, <3>5, <4>2
    <3> QED
      BY <3>6, <3>7
  <2> QED
    BY <2>1, <2>2
<1>4. ASSUME NEW state \in Terminal \cup {"navigating"}, GoalStep(state)
      PROVE  \A s \in down' \cup Range(replies') : Ends(s)'
  <2>1. PICK t : t = [id |-> None, ok |-> TRUE, state |-> state, goal |-> active]
    OBVIOUS
  <2>2. down' \subseteq down \cup {t} /\ replies' = replies
    BY <1>4, <2>1 DEF GoalStep, Emit
  <2>3. active \in Starts
    BY <1>4 DEF GoalStep, Types, RobotOK, Goal
  <2>4. state # "navigating" => fate'[active] = state
    BY <1>4, <2>3 DEF GoalStep, Types, RobotOK
  <2>5. Ends(t)'
    BY <2>1, <2>4 DEF Ends
  <2> QED
    BY <1>2, <2>2, <2>5
<1>5. CASE down' \subseteq down /\ replies' = replies
  BY <1>2, <1>5
<1>6. ASSUME NEW r \in Requests, Request(r) \/ Resend(r) \/ RequestTimesOut(r)
      PROVE  down' \subseteq down /\ replies' = replies
  BY <1>6 DEF Request, Resend, RequestTimesOut, robot
<1>7. ASSUME NEW s \in down, HandleStatus(s) \/ LoseStatus(s)
      PROVE  down' \subseteq down /\ replies' = replies
  BY <1>7 DEF HandleStatus, LoseStatus, robot
<1>8. ASSUME NEW a \in Awaits,
             AwaitTimesOut(a) \/ AwaitReturns(a) \/ \E g \in Starts : AwaitBegins(a, g)
      PROVE  down' \subseteq down /\ replies' = replies
  BY <1>8 DEF AwaitTimesOut, AwaitReturns, AwaitBegins, robot
<1>9. ASSUME Stop \/ ChannelCloses \/ PressEstop \/ ResetEstop \/ UNCHANGED vars
      PROVE  down' \subseteq down /\ replies' = replies
  BY <1>9 DEF Stop, ChannelCloses, PressEstop, ResetEstop, vars, robot
<1> QED
  BY <1>3, <1>4, <1>5, <1>6, <1>7, <1>8, <1>9 DEF Next

\* Every step keeps the session's word about the goals' ends.
LEMMA TruthfulStep ==
  ASSUME HistoryIsEnough, Types, Promising, Registered, Truthful, [Next]_vars
  PROVE  Truthful'
<1> None \notin Requests /\ None \notin Awaits
  BY NavigationAssumption
<1>0. /\ goal \in [Awaits -> Goal] /\ result \in [Awaits -> Terminal \cup {"none"}]
      /\ cache \in Snapshot \cup {None}
  BY DEF Types, AwaitsOK, SnapshotsOK
<1>1. \A s \in down' \cup Range(replies') : Ends(s)'
  BY SaysTruly
<1>2. ASSUME NEW s \in Snapshot, Ends(s) PROVE Ends(s)'
  <2>1. SUFFICES ASSUME s.goal # None, s.state \in {"succeeded", "canceled"}
                 PROVE  fate'[s.goal] = s.state
    BY DEF Ends
  <2>2. s.goal \in Starts /\ fate[s.goal] = s.state
    BY <1>2, <2>1 DEF Ends, Snapshot, Goal
  <2> QED
    BY <2>1, <2>2, EndsForGood
<1>3. ASSUME NEW a \in Awaits, result[a] \in {"succeeded", "canceled"}
      PROVE  goal[a] \in Starts /\ fate'[goal[a]] = result[a]
  BY <1>3, EndsForGood DEF Truthful
<1>4. ASSUME NEW s \in down, HandleStatus(s) PROVE Truthful'
  <2>1. s \in Snapshot /\ Ends(s)
    BY DEF Types, SnapshotsOK, Truthful
  <2>2. cache' # None => Ends(cache)'
    <3>1. cache' = cache \/ cache' = s
      BY <1>4 DEF HandleStatus
    <3>2. PICK c : c = cache'
      OBVIOUS
    <3>3. c # None => c \in Snapshot /\ Ends(c)
      BY <1>0, <2>1, <3>1, <3>2 DEF Truthful
    <3>4. c # None => Ends(c)'
      BY <1>2, <3>3
    <3> QED
      BY <3>2, <3>4 DEF Ends
  <2>3. ASSUME NEW a \in Awaits, result'[a] \in {"succeeded", "canceled"}
        PROVE  goal'[a] \in Starts /\ fate'[goal'[a]] = result'[a]
    <3>1. goal' = goal /\ fate' = fate
      BY <1>4 DEF HandleStatus, robot
    <3>2. \/ result'[a] = result[a]
          \/ a \in Resolves(s) /\ result'[a] = s.state
      BY <1>4 DEF HandleStatus
    <3>3. CASE result'[a] = result[a]
      BY <1>3, <2>3, <3>1, <3>3
    <3>4. CASE a \in Resolves(s) /\ result'[a] = s.state
      <4>1. s.goal \in Starts /\ waiter[s.goal] = a
        BY <2>1, <3>4 DEF Resolves, Snapshot, Goal
      <4>2. goal[a] = s.goal
        BY <4>1 DEF Registered
      <4>3. s.goal # None
        BY <4>1 DEF Requests
      <4> QED
        BY <2>1, <2>3, <3>1, <3>4, <4>1, <4>2, <4>3 DEF Ends
    <3> QED
      BY <3>2, <3>3, <3>4
  <2> QED
    BY <1>1, <2>2, <2>3 DEF Truthful
<1>5. ASSUME NEW a \in Awaits, NEW g \in Starts, AwaitBegins(a, g) PROVE Truthful'
  <2>1. /\ future[a] = "none" /\ goal' = [goal EXCEPT ![a] = g]
        /\ cache' = cache /\ fate' = fate
    BY <1>5 DEF AwaitBegins, client, robot
  <2>2. result[a] = "none"
    BY <2>1 DEF Registered
  <2>3. \/ result' = result
        \/ cache # None /\ cache.goal = g /\ result' = [result EXCEPT ![a] = cache.state]
    BY <1>5 DEF AwaitBegins
  <2>4. g # None
    BY DEF Requests
  <2>5. ASSUME NEW b \in Awaits, result'[b] \in {"succeeded", "canceled"}
        PROVE  goal'[b] \in Starts /\ fate'[goal'[b]] = result'[b]
    <3>1. CASE b = a
      BY <1>0, <2>1, <2>2, <2>3, <2>4, <2>5, <3>1 DEF Truthful, Ends
    <3>2. CASE b # a
      BY <1>0, <1>3, <2>1, <2>3, <2>5, <3>2
    <3> QED
      BY <3>1, <3>2
  <2>6. cache' # None => Ends(cache)'
    BY <2>1 DEF Truthful, Ends
  <2> QED
    BY <1>1, <2>5, <2>6 DEF Truthful
<1>6. CASE UNCHANGED <<cache, goal, result>>
  <2>1. cache' # None => Ends(cache)'
    <3>1. PICK c : c = cache
      OBVIOUS
    <3>2. c # None => Ends(c)'
      BY <1>0, <1>2, <3>1 DEF Truthful
    <3> QED
      BY <1>6, <3>1, <3>2 DEF Ends
  <2> QED
    BY <1>1, <1>3, <1>6, <2>1 DEF Truthful
<1>7. ASSUME NEW r \in Requests, Request(r) \/ Resend(r) \/ RequestTimesOut(r) \/ Navigation(r)
      PROVE  UNCHANGED <<cache, goal, result>>
  BY <1>7 DEF Request, Resend, RequestTimesOut, Navigation, client, awaits
<1>8. ASSUME NEW s \in down, LoseStatus(s) PROVE UNCHANGED <<cache, goal, result>>
  BY <1>8 DEF LoseStatus, client, awaits
<1>9. ASSUME NEW a \in Awaits, AwaitTimesOut(a) \/ AwaitReturns(a)
      PROVE  UNCHANGED <<cache, goal, result>>
  BY <1>9 DEF AwaitTimesOut, AwaitReturns, client
<1>10. ASSUME NEW state \in Terminal \cup {"navigating"}, GoalStep(state)
       PROVE  UNCHANGED <<cache, goal, result>>
  BY <1>10 DEF GoalStep, client, awaits
<1>11. CASE Stop \/ ChannelCloses \/ PressEstop \/ ResetEstop \/ UNCHANGED vars
  <2>1. UNCHANGED <<cache, goal, result>>
    BY <1>11 DEF Stop, ChannelCloses, PressEstop, ResetEstop, vars, client, awaits
  <2> QED
    BY <1>6, <2>1
<1> QED
  BY <1>4, <1>5, <1>6, <1>7, <1>8, <1>9, <1>10, <1>11 DEF Next

\* No end has been told in the initial state.
LEMMA InitTruthful == Init => Truthful
<1> SUFFICES ASSUME Init PROVE Truthful
  OBVIOUS
<1>1. down \cup Range(replies) = {}
  BY DEF Init, Range
<1> QED
  BY <1>1 DEF Init, Truthful

\* An await that reports a goal succeeded or canceled reports how that goal ended at
\* the robot, however its frames were repeated, reordered or lost (teleop.py 1048-1070,
\* 1653-1657).
THEOREM AwaitsAreTruthful == ASSUME HistoryIsEnough PROVE Spec => []AwaitTruthful
<1>1. Init => Types /\ Promising /\ Registered /\ Truthful
  BY InitTypes, InitPromising, InitRegistered, InitTruthful
<1>2. Types /\ Promising /\ Registered /\ Truthful /\ [Next]_vars
        => (Types /\ Promising /\ Registered /\ Truthful)'
  BY TypeStep, PromisingStep, RegisteredStep, TruthfulStep
<1>3. Truthful => AwaitTruthful
  BY DEF Truthful, AwaitTruthful
<1> QED
  BY <1>1, <1>2, <1>3, PTL DEF Spec
=============================================================================
