---------------------------- MODULE RepliesProofs ----------------------------
(***************************************************************************)
(* What Replies promises, for every set of calls: the verdict of an action *)
(* is its own and final, its keep-alive runs while it is awaited, and the  *)
(* next record or policy reply is a waiting caller's.                      *)
(***************************************************************************)
EXTENDS Replies, FiniteSetTheorems, SequenceTheorems, TLAPS

\* A set of naturals has a least element: its initial segments are well-founded.
LEMMA LeastOf ==
  ASSUME NEW T, T \subseteq Nat, T # {}
  PROVE  Min(T) \in T
<1> DEFINE F == {1 .. x : x \in T}
<1>1. F \subseteq FiniteSubsetsOf(Nat)
  <2>1. ASSUME NEW x \in T PROVE 1 .. x \subseteq Nat /\ IsFiniteSet(1 .. x)
    BY FS_Interval
  <2> QED
    BY <2>1 DEF FiniteSubsetsOf
<1>2. PICK x \in T : \A U \in F : <<U, 1 .. x>> \notin StrictSubsetOrdering(Nat)
  <2>1. F # {}
    OBVIOUS
  <2>2. PICK V \in F : \A U \in F : <<U, V>> \notin StrictSubsetOrdering(Nat)
    BY <1>1, <2>1, FS_StrictSubsetOrderingWellFounded, WFMin
  <2> QED
    BY <2>2
<1>3. ASSUME NEW y \in T, ~(x <= y) PROVE FALSE
  <2>1. 1 .. y \subseteq 1 .. x /\ x \in 1 .. x /\ x \notin 1 .. y
    BY <1>3
  <2>2. <<1 .. y, 1 .. x>> \in StrictSubsetOrdering(Nat)
    BY <1>1, <2>1 DEF StrictSubsetOrdering, FiniteSubsetsOf
  <2> QED
    BY <1>2, <2>2
<1> QED
  BY <1>3 DEF Min

\* Removing an element leaves a sequence of the others.
LEMMA RemoveFirstFrom ==
  ASSUME NEW S, NEW s \in Seq(S), NEW e
  PROVE  RemoveFirst(s, e) \in Seq(S)
<1> DEFINE I == {i \in 1 .. Len(s) : s[i] = e}
<1>1. CASE I # {}
  <2>1. Min(I) \in I
    <3>1. I \subseteq Nat
      OBVIOUS
    <3> HIDE DEF I
    <3> QED
      BY <1>1, <3>1, LeastOf
  <2>2. RemoveFirst(s, e) = RemoveAt(s, Min(I))
    BY <1>1 DEF RemoveFirst, SelectInSeq
  <2>3. PICK i \in 1 .. Len(s) : i = Min(I)
    BY <2>1
  <2>4. /\ SubSeq(s, 1, i - 1) \in Seq(S)
        /\ SubSeq(s, i + 1, Len(s)) \in Seq(S)
    BY SubSeqProperties
  <2>5. SubSeq(s, 1, i - 1) \o SubSeq(s, i + 1, Len(s)) \in Seq(S)
    BY <2>4, ConcatProperties
  <2> QED
    BY <2>2, <2>3, <2>5 DEF RemoveAt
<1>2. CASE I = {}
  BY <1>2 DEF RemoveFirst
<1> QED
  BY <1>1, <1>2

-----------------------------------------------------------------------------
(* Types *)

Lists == waiters \in [Kinds -> Seq(Fifo)]
Frames == up \subseteq Request /\ down \subseteq Message
Calling ==
  /\ called \subseteq Calls /\ left \subseteq called /\ feeding \subseteq Actions
  /\ future \in [Calls -> Futures] /\ got \in [Calls -> Message \cup {None}]
  /\ \A c \in Calls \ called : future[c] = "none"
Types == Calling /\ Lists /\ Frames /\ progress \in [Actions -> Progress]

\* What is said of a call is a message when its bodies are.
LEMMA SaysTyped ==
  ASSUME NEW c \in Calls, NEW bodies, bodies \subseteq Bodies
  PROVE  Says(c, bodies) \subseteq Message
BY DEF Says, Message

\* The kind of a call whose replies name no request.
LEMMA KindTyped ==
  ASSUME NEW c PROVE Kind(c) \in Kinds
BY DEF Kind, Kinds

\* Every step keeps the futures, the frames each was resolved by and the sets of calls
\* what they are.
LEMMA CallingKept ==
  ASSUME Types, [Next]_vars PROVE Calling'
<1> USE DEF Types, Calling
<1>1. ASSUME NEW c \in Calls, Begin(c) PROVE Calling'
  BY <1>1 DEF Begin, Futures
<1>2. ASSUME NEW c \in Calls, Again(c) PROVE Calling'
  BY <1>2 DEF Again
<1>3. ASSUME NEW c \in Calls, Leaves(c) PROVE Calling'
  BY <1>3 DEF Leaves, Starved
<1>4. ASSUME NEW c \in Calls, NEW how \in {"timedout", "abandoned"}, Expires(c, how)
      PROVE  Calling'
  <2>1. c \in called /\ how \in Futures
    BY <1>4 DEF Expires, Pending, Futures
  <2> QED
    BY <1>4, <2>1 DEF Expires
<1>5. ASSUME NEW f \in Stills, StillEnds(f) PROVE Calling'
  <2>1. f \in called /\ f \in Calls /\ "set" \in Futures
    BY <1>5 DEF StillEnds, Pending, Futures, Calls
  <2> QED
    BY <1>5, <2>1 DEF StillEnds
<1>6. ASSUME NEW m \in down, HandleFrame(m) PROVE Calling'
  <2>1. m \in Message /\ m \in Message \cup {None} /\ "set" \in Futures
    BY DEF Frames, Futures
  <2>2. ASSUME NEW c \in Calls, Resolve(c, m)
        PROVE  /\ future' \in [Calls -> Futures] /\ got' \in [Calls -> Message \cup {None}]
               /\ \A d \in Calls \ called : future'[d] = "none"
    BY <2>1, <2>2 DEF Resolve, Pending
  <2>3. (\E c \in Calls : Resolve(c, m)) \/ UNCHANGED <<future, got>>
    <3>1. CASE HandleAction(m)
      BY <3>1 DEF HandleAction, Calls
    <3>2. CASE HandleReply(m)
      <4>1. CASE waiters[Kind(m.call)] # <<>>
        <5>1. Head(waiters[Kind(m.call)]) \in Fifo
          BY <4>1, KindTyped, HeadTailProperties DEF Lists
        <5> QED
          BY <3>2, <4>1, <5>1 DEF HandleReply, Calls
      <4>2. CASE waiters[Kind(m.call)] = <<>>
        BY <3>2, <4>2 DEF HandleReply
      <4> QED
        BY <4>1, <4>2
    <3>3. CASE HandleSensor(m)
      BY <3>3 DEF HandleSensor, Calls
    <3>4. CASE HandleChunk(m)
      BY <3>4 DEF HandleChunk
    <3> QED
      BY <1>6, <3>1, <3>2, <3>3, <3>4 DEF HandleFrame
  <2>4. UNCHANGED <<called, left, feeding>>
    BY <1>6 DEF HandleFrame, HandleAction, HandleReply, HandleSensor, HandleChunk
  <2> QED
    BY <2>2, <2>3, <2>4
<1>7. ASSUME NEW r \in up, RobotHandles(r) PROVE Calling'
  BY <1>7 DEF RobotHandles, client
<1>8. ASSUME NEW a \in Actions, Advance(a) PROVE Calling'
  BY <1>8 DEF Advance, client
<1>9. CASE Stop
  <2>1. future' \in [Calls -> Futures] /\ \A c \in Calls \ called : future'[c] = "none"
    BY <1>9 DEF Stop, Futures, Pending
  <2> QED
    BY <1>9, <2>1 DEF Stop
<1>10. CASE ChannelCloses
  BY <1>10 DEF ChannelCloses, client
<1>11. CASE UNCHANGED vars
  BY <1>11 DEF vars, client
<1> QED
  BY <1>1, <1>2, <1>3, <1>4, <1>5, <1>6, <1>7, <1>8, <1>9, <1>10, <1>11 DEF Next

\* Every step keeps the lists of waiters what they are.
LEMMA ListsKept ==
  ASSUME Types, [Next]_vars PROVE Lists'
<1> USE DEF Types, Lists
<1>1. ASSUME NEW c \in Calls, Begin(c) PROVE Lists'
  <2>1. CASE c \in Fifo
    <3>1. Append(waiters[Kind(c)], c) \in Seq(Fifo)
      BY <2>1, KindTyped, AppendProperties
    <3> QED
      BY <1>1, <2>1, <3>1 DEF Begin
  <2>2. CASE c \notin Fifo
    BY <1>1, <2>2 DEF Begin
  <2> QED
    BY <2>1, <2>2
<1>2. ASSUME NEW c \in Calls, Leaves(c) PROVE Lists'
  <2>1. RemoveFirst(waiters[Kind(c)], c) \in Seq(Fifo)
    BY KindTyped, RemoveFirstFrom
  <2> QED
    BY <1>2, <2>1 DEF Leaves, Unlisted
<1>3. ASSUME NEW m \in down, HandleFrame(m) PROVE Lists'
  <2>1. CASE HandleReply(m) /\ waiters[Kind(m.call)] # <<>>
    <3>1. Tail(waiters[Kind(m.call)]) \in Seq(Fifo)
      BY <2>1, KindTyped, HeadTailProperties
    <3> QED
      BY <2>1, <3>1 DEF HandleReply
  <2> QED
    BY <1>3, <2>1 DEF HandleFrame, HandleAction, HandleReply, HandleSensor, HandleChunk
<1>4. ASSUME UNCHANGED waiters PROVE Lists'
  BY <1>4
<1>5. ASSUME NEW c \in Calls,
             Again(c) \/ \E how \in {"timedout", "abandoned"} : Expires(c, how)
      PROVE  UNCHANGED waiters
  BY <1>5 DEF Again, Expires
<1>6. ASSUME NEW f \in Stills, StillEnds(f) PROVE UNCHANGED waiters
  BY <1>6 DEF StillEnds
<1>7. ASSUME NEW r \in up, RobotHandles(r) PROVE UNCHANGED waiters
  BY <1>7 DEF RobotHandles, client
<1>8. ASSUME NEW a \in Actions, Advance(a) PROVE UNCHANGED waiters
  BY <1>8 DEF Advance, client
<1>9. ASSUME Stop \/ ChannelCloses \/ UNCHANGED vars PROVE UNCHANGED waiters
  BY <1>9 DEF Stop, ChannelCloses, vars, client
<1> HIDE DEF Types, Lists
<1> QED
  BY <1>1, <1>2, <1>3, <1>4, <1>5, <1>6, <1>7, <1>8, <1>9 DEF Next

\* Every step keeps the frames in flight and what the robot is doing what they are.
LEMMA FramesKept ==
  ASSUME RepliesAssumption, Types, [Next]_vars
  PROVE  Frames' /\ (progress \in [Actions -> Progress])'
<1> USE DEF Types, Frames
<1>1. ASSUME NEW c \in Calls, Begin(c) \/ Again(c) PROVE Frames' /\ UNCHANGED progress
  <2>1. PICK want \in SUBSET Chunks : SendFrame(c, want)
    BY <1>1 DEF Begin, Again, Wanted
  <2>2. [call |-> c, want |-> want] \in Request
    BY DEF Request
  <2> QED
    BY <1>1, <2>1, <2>2 DEF Begin, Again, SendFrame, robot
<1>2. ASSUME NEW m \in down, HandleFrame(m) PROVE Frames' /\ UNCHANGED progress
  BY <1>2 DEF HandleFrame, robot
<1>3. ASSUME NEW r \in up, RobotHandles(r)
      PROVE  Frames' /\ progress' \in [Actions -> Progress]
  <2>0. r.call \in Calls /\ r.want \subseteq Chunks
    BY DEF Request
  <2>1. CASE r.call \in Actions /\ TakeAction(r.call)
    <3>1. PICK state \in {"accepted", "blocked"} :
            /\ progress' = [progress EXCEPT ![r.call] = state]
            /\ down' = down \cup Says(r.call, {state})
      BY <2>1 DEF TakeAction
    <3>2. state \in Progress /\ {state} \subseteq Bodies
      BY DEF Progress, Bodies, Verdicts
    <3> QED
      BY <1>3, <2>0, <3>1, <3>2, SaysTyped DEF RobotHandles
  <2>2. CASE r.call \in Sensors /\ SetRate(r.call)
    <3>1. {"ok"} \subseteq Bodies
      BY DEF Bodies
    <3> QED
      BY <1>3, <2>0, <2>2, <3>1, SaysTyped DEF RobotHandles, SetRate
  <2>3. CASE r.call \in Fifo /\ Obey(r.call)
    <3>1. PICK body \in {"ok", "refused"} : down' = down \cup Says(r.call, {body})
      BY <2>3 DEF Obey
    <3>2. {body} \subseteq Bodies
      BY DEF Bodies
    <3> QED
      BY <1>3, <2>0, <2>3, <3>1, <3>2, SaysTyped DEF RobotHandles, Obey, robot
  <2>4. CASE r.call \in Stills /\ Serve(r.call, r.want)
    <3>1. PICK bodies \in {r.want, {"refused"}} : down' = down \cup Says(r.call, bodies)
      BY <2>4 DEF Serve
    <3>2. bodies \subseteq Bodies
      BY <2>0, <3>1 DEF Bodies
    <3> QED
      BY <1>3, <2>0, <2>4, <3>1, <3>2, SaysTyped DEF RobotHandles, Serve, robot
  <2> QED
    BY <1>3, <2>1, <2>2, <2>3, <2>4 DEF RobotHandles
<1>4. ASSUME NEW a \in Actions, Advance(a)
      PROVE  Frames' /\ progress' \in [Actions -> Progress]
  <2>1. PICK state \in {"active"} \cup Verdicts :
          /\ progress' = [progress EXCEPT ![a] = state]
          /\ down' = down \cup Says(a, {state})
    BY <1>4 DEF Advance
  <2>2. state \in Progress /\ {state} \subseteq Bodies /\ a \in Calls
    BY DEF Progress, Bodies, Verdicts, Calls
  <2> QED
    BY <1>4, <2>1, <2>2, SaysTyped DEF Advance
<1>5. ASSUME NEW c \in Calls,
             Leaves(c) \/ \E how \in {"timedout", "abandoned"} : Expires(c, how)
      PROVE  UNCHANGED <<up, down, progress>>
  BY <1>5 DEF Leaves, Expires, robot
<1>6. ASSUME NEW f \in Stills, StillEnds(f) PROVE UNCHANGED <<up, down, progress>>
  BY <1>6 DEF StillEnds, robot
<1>7. ASSUME Stop \/ ChannelCloses \/ UNCHANGED vars PROVE UNCHANGED <<up, down, progress>>
  BY <1>7 DEF Stop, ChannelCloses, vars, robot
<1> QED
  BY <1>1, <1>2, <1>3, <1>4, <1>5, <1>6, <1>7 DEF Next

\* Types is an invariant.
LEMMA TypesAlways == Spec => []Types
<1>1. ASSUME Init PROVE Types
  BY <1>1 DEF Init, Types, Calling, Lists, Frames, Futures, Progress
<1>2. ASSUME Types, [Next]_vars PROVE Types'
  BY <1>2, RepliesAssumption, CallingKept, ListsKept, FramesKept DEF Types
<1> QED
  BY <1>1, <1>2, PTL DEF Spec

-----------------------------------------------------------------------------
(* The keep-alive *)

\* The keep-alive of an action runs from the call to its return, for every set of calls,
\* whatever is lost, however many time out: FedWhileAwaited (teleop.py 589-611).
THEOREM FedWhileTheyWait == Spec => []FedWhileAwaited
<1>1. ASSUME Init PROVE FedWhileAwaited
  BY <1>1 DEF Init, FedWhileAwaited, Pending, Calls
<1>2. ASSUME Types, FedWhileAwaited, [Next]_vars PROVE FedWhileAwaited'
  <2> USE <1>2 DEF Types, Calling, FedWhileAwaited, Pending
  <2>1. ASSUME NEW c \in Calls, Begin(c) PROVE FedWhileAwaited'
    BY <2>1 DEF Begin, Calls
  <2>2. ASSUME NEW c \in Calls, Again(c) PROVE FedWhileAwaited'
    BY <2>2 DEF Again
  <2>3. ASSUME NEW c \in Calls, Leaves(c) PROVE FedWhileAwaited'
    BY <2>3 DEF Leaves, Starved
  <2>4. ASSUME NEW c \in Calls, NEW how \in {"timedout", "abandoned"}, Expires(c, how)
        PROVE  FedWhileAwaited'
    BY <2>4, RepliesAssumption DEF Expires, Calls
  <2>5. ASSUME NEW f \in Stills, StillEnds(f) PROVE FedWhileAwaited'
    BY <2>5, RepliesAssumption DEF StillEnds, Calls
  <2>6. ASSUME NEW m \in down, HandleFrame(m) PROVE FedWhileAwaited'
    BY <2>6 DEF HandleFrame, HandleAction, HandleReply, HandleSensor, HandleChunk, Calls, Resolve
  <2>7. ASSUME NEW r \in up, RobotHandles(r) PROVE FedWhileAwaited'
    BY <2>7 DEF RobotHandles, client
  <2>8. ASSUME NEW a \in Actions, Advance(a) PROVE FedWhileAwaited'
    BY <2>8 DEF Advance, client
  <2>9. CASE Stop
    BY <2>9 DEF Stop
  <2>10. CASE ChannelCloses
    BY <2>10 DEF ChannelCloses, client
  <2>11. CASE UNCHANGED vars
    BY <2>11 DEF vars, client
  <2> QED
    BY <2>1, <2>2, <2>3, <2>4, <2>5, <2>6, <2>7, <2>8, <2>9, <2>10, <2>11 DEF Next
<1> QED
  BY <1>1, <1>2, TypesAlways, PTL DEF Spec

-----------------------------------------------------------------------------
(* The verdict *)

\* A request of an action is in flight once, and is not yet taken on; a verdict in flight
\* is the robot's; and an action is resolved by a verdict of its own.
SentOnce == \A r \in up :
  r.call \in Actions => r.want = Chunks /\ progress[r.call] = "none"
Unsent == \A a \in Actions \ called : progress[a] = "none" /\ \A r \in up : r.call # a
Sincere == \A m \in down :
  m.call \in Actions /\ m.body \in Verdicts => progress[m.call] = m.body
Deciding == SentOnce /\ Unsent /\ Sincere /\ VerdictIsFinal

\* One thing said of a call is one message.
LEMMA SaysOne ==
  ASSUME NEW c, NEW b PROVE Says(c, {b}) = {[call |-> c, body |-> b]}
BY DEF Says

\* A call resolves an action only by a verdict of the action itself.
LEMMA ResolvedByItself ==
  ASSUME RepliesAssumption, Types, Deciding, NEW m \in down, HandleFrame(m)
  PROVE  VerdictIsFinal'
<1> USE DEF Types
<1>0. UNCHANGED progress /\ m \in Message
  BY DEF HandleFrame, robot, Frames
<1>1. CASE HandleAction(m)
  <2>1. CASE Resolve(m.call, m) /\ Ends(m.body)
    <3>1. m.call \in Actions /\ m.call \in Calls /\ m.body = progress[m.call] /\ m.body \in Verdicts
      BY <1>1, <2>1 DEF HandleAction, Deciding, Sincere, Ends, Calls
    <3>2. ASSUME NEW a \in Actions, future'[a] = "set"
          PROVE  got'[a].call = a /\ got'[a].body = progress[a] /\ progress[a] \in Verdicts
      <4>1. CASE a = m.call /\ Pending(a)
        BY <2>1, <3>1, <4>1 DEF Resolve, Calling
      <4>2. CASE ~(a = m.call /\ Pending(a))
        <5>1. future[a] = "set" /\ got'[a] = got[a]
          BY <2>1, <3>1, <3>2, <4>2 DEF Resolve, Calling, Calls
        <5> QED
          BY <5>1 DEF Deciding, VerdictIsFinal
      <4> QED
        BY <4>1, <4>2
    <3> QED
      BY <1>0, <3>2 DEF VerdictIsFinal
  <2>2. CASE UNCHANGED <<future, got>>
    BY <1>0, <2>2 DEF Deciding, VerdictIsFinal
  <2> QED
    BY <1>1, <2>1, <2>2 DEF HandleAction
<1>2. ASSUME NEW c \in Calls \ Actions, Resolve(c, m) PROVE VerdictIsFinal'
  <2>1. ASSUME NEW a \in Actions PROVE future'[a] = future[a] /\ got'[a] = got[a]
    BY <1>2 DEF Resolve, Calling, Calls
  <2> QED
    BY <1>0, <2>1 DEF Deciding, VerdictIsFinal
<1>3. CASE HandleReply(m)
  <2>1. CASE waiters[Kind(m.call)] # <<>>
    <3>1. Head(waiters[Kind(m.call)]) \in Fifo
      BY <2>1, KindTyped, HeadTailProperties DEF Lists
    <3>2. Head(waiters[Kind(m.call)]) \in Calls \ Actions
      BY <3>1, RepliesAssumption DEF Fifo, Calls
    <3> QED
      BY <1>2, <1>3, <2>1, <3>2 DEF HandleReply
  <2>2. CASE waiters[Kind(m.call)] = <<>>
    BY <1>0, <1>3, <2>2 DEF HandleReply, Deciding, VerdictIsFinal
  <2> QED
    BY <2>1, <2>2
<1>4. CASE HandleSensor(m)
  <2>1. m.call \in Calls \ Actions
    BY <1>4, RepliesAssumption DEF HandleSensor, Calls
  <2> QED
    BY <1>0, <1>2, <1>4, <2>1 DEF HandleSensor, Deciding, VerdictIsFinal
<1>5. CASE HandleChunk(m)
  BY <1>0, <1>5 DEF HandleChunk, Deciding, VerdictIsFinal
<1> QED
  BY <1>1, <1>3, <1>4, <1>5 DEF HandleFrame

\* What the robot does of a request leaves the verdicts sincere.
LEMMA TakenOnce ==
  ASSUME RepliesAssumption, Types, Deciding, NEW r \in up, RobotHandles(r)
  PROVE  Deciding'
<1> USE DEF Types, Frames
<1>0. r.call \in Calls /\ r = [call |-> r.call, want |-> r.want]
  BY DEF Request
<1>1. CASE r.call \in Actions /\ TakeAction(r.call)
  <2>0. r.want = Chunks /\ progress[r.call] = "none" /\ r.call \in called
    BY <1>1 DEF Deciding, SentOnce, Unsent
  <2>1. PICK state \in {"accepted", "blocked"} :
          /\ progress' = [progress EXCEPT ![r.call] = state]
          /\ down' = down \cup {[call |-> r.call, body |-> state]}
    BY <1>1, SaysOne DEF TakeAction
  <2>2. \A s \in up' : s.call # r.call \/ s.call \notin Actions
    <3>1. ASSUME NEW s \in up, s.call = r.call PROVE s = r
      BY <1>0, <1>1, <2>0, <3>1 DEF Deciding, SentOnce, Request
    <3> QED
      BY <3>1 DEF RobotHandles
  <2>3. \A a \in Actions : a # r.call => progress'[a] = progress[a]
    BY <2>1
  <2>4. progress'[r.call] = state
    BY <1>1, <2>1
  <2>5. UNCHANGED <<future, got, called>> /\ up' = up \ {r}
    BY DEF RobotHandles, client
  <2>6. SentOnce' /\ Unsent'
    BY <2>0, <2>2, <2>3, <2>5 DEF Deciding, SentOnce, Unsent
  <2>7. Sincere'
    BY <2>0, <2>1, <2>3, <2>4 DEF Deciding, Sincere, Verdicts
  <2>8. VerdictIsFinal'
    BY <2>0, <2>3, <2>5 DEF Deciding, VerdictIsFinal, Verdicts
  <2> QED
    BY <2>6, <2>7, <2>8 DEF Deciding
<1>2. CASE r.call \notin Actions
  <2>1. PICK bodies : down' = down \cup Says(r.call, bodies)
    BY <1>2 DEF RobotHandles, SetRate, Obey, Serve
  <2>2. \A m \in down' : m \in down \/ m.call \notin Actions
    BY <1>2, <2>1 DEF Says
  <2>3. UNCHANGED <<future, got, called, progress>> /\ up' = up \ {r}
    BY <1>2 DEF RobotHandles, client, SetRate, Obey, Serve, robot
  <2> QED
    BY <2>2, <2>3 DEF Deciding, SentOnce, Unsent, Sincere, VerdictIsFinal
<1> QED
  BY <1>1, <1>2, RepliesAssumption DEF RobotHandles, Fifo

\* action(wait=True) returns the verdict of its own action once the robot has finished
\* with it, for every set of calls, in any order of the frames: VerdictIsFinal
\* (teleop.py 1604-1619).
THEOREM VerdictsAreFinal == Spec => []VerdictIsFinal
<1>1. ASSUME Init PROVE Deciding
  BY <1>1 DEF Init, Deciding, SentOnce, Unsent, Sincere, VerdictIsFinal, Calls
<1>2. ASSUME Types, Deciding, [Next]_vars PROVE Deciding'
  <2> USE <1>2 DEF Types, Calling, Frames
  <2>1. ASSUME NEW c \in Calls, Begin(c) PROVE Deciding'
    <3>1. up' \subseteq up \cup {[call |-> c, want |-> Chunks]}
      BY <2>1 DEF Begin, SendFrame
    <3>2. \A a \in Actions : future'[a] = "set" => future[a] = "set"
      BY <2>1 DEF Begin, Calls
    <3>3. UNCHANGED <<down, progress, got>> /\ c \notin called /\ called' = called \cup {c}
      BY <2>1 DEF Begin, robot
    <3> QED
      BY <3>1, <3>2, <3>3 DEF Deciding, SentOnce, Unsent, Sincere, VerdictIsFinal
  <2>2. ASSUME NEW c \in Calls, Again(c) PROVE Deciding'
    <3>1. c \notin Actions
      BY <2>2, RepliesAssumption DEF Again
    <3>2. \A r \in up' : r \in up \/ r.call = c
      BY <2>2 DEF Again, SendFrame
    <3>3. UNCHANGED <<down, progress, got, future, called>>
      BY <2>2 DEF Again, robot
    <3> QED
      BY <3>1, <3>2, <3>3 DEF Deciding, SentOnce, Unsent, Sincere, VerdictIsFinal
  <2>3. ASSUME UNCHANGED <<up, down, progress, got, called>>,
               \A a \in Actions : future'[a] = "set" => future[a] = "set"
        PROVE  Deciding'
    BY <2>3 DEF Deciding, SentOnce, Unsent, Sincere, VerdictIsFinal
  <2>4. ASSUME NEW c \in Calls, Leaves(c) PROVE Deciding'
    BY <2>3, <2>4 DEF Leaves, robot
  <2>5. ASSUME NEW c \in Calls, NEW how \in {"timedout", "abandoned"}, Expires(c, how)
        PROVE  Deciding'
    <3>1. \A a \in Actions : future'[a] = "set" => future[a] = "set"
      BY <2>5 DEF Expires, Calls
    <3> QED
      BY <2>3, <2>5, <3>1 DEF Expires, robot
  <2>6. ASSUME NEW f \in Stills, StillEnds(f) PROVE Deciding'
    <3>1. \A a \in Actions : future'[a] = "set" => future[a] = "set"
      BY <2>6, RepliesAssumption DEF StillEnds, Calls
    <3> QED
      BY <2>3, <2>6, <3>1 DEF StillEnds, robot
  <2>7. ASSUME NEW m \in down, HandleFrame(m) PROVE Deciding'
    <3>1. UNCHANGED <<called, up, progress>> /\ down' \subseteq down
      BY <2>7 DEF HandleFrame, robot
    <3>2. SentOnce' /\ Unsent' /\ Sincere'
      BY <3>1 DEF Deciding, SentOnce, Unsent, Sincere
    <3> QED
      BY <2>7, <3>2, RepliesAssumption, ResolvedByItself DEF Deciding
  <2>8. ASSUME NEW r \in up, RobotHandles(r) PROVE Deciding'
    BY <2>8, RepliesAssumption, TakenOnce
  <2>9. ASSUME NEW a \in Actions, Advance(a) PROVE Deciding'
    <3>1. PICK state \in {"active"} \cup Verdicts :
            /\ progress' = [progress EXCEPT ![a] = state]
            /\ down' = down \cup {[call |-> a, body |-> state]}
      BY <2>9, SaysOne DEF Advance
    <3>2. progress[a] # "none" /\ progress[a] \notin Verdicts
      BY <2>9 DEF Advance, Verdicts
    <3>3. progress'[a] = state /\ \A b \in Actions : b # a => progress'[b] = progress[b]
      BY <3>1
    <3>4. UNCHANGED <<future, got, called, up>>
      BY <2>9 DEF Advance, client
    <3>5. SentOnce' /\ Unsent'
      BY <3>2, <3>3, <3>4 DEF Deciding, SentOnce, Unsent
    <3>6. Sincere'
      BY <3>1, <3>2, <3>3 DEF Deciding, Sincere
    <3>7. VerdictIsFinal'
      BY <3>2, <3>3, <3>4 DEF Deciding, VerdictIsFinal
    <3> QED
      BY <3>5, <3>6, <3>7 DEF Deciding
  <2>10. CASE Stop
    <3>1. \A a \in Actions : future'[a] = "set" => future[a] = "set"
      BY <2>10, RepliesAssumption DEF Stop, Calls
    <3> QED
      BY <2>3, <2>10, <3>1 DEF Stop, robot
  <2>11. CASE ChannelCloses
    BY <2>3, <2>11 DEF ChannelCloses, client, robot
  <2>12. CASE UNCHANGED vars
    BY <2>3, <2>12 DEF vars, client, robot
  <2> QED
    BY <2>1, <2>2, <2>4, <2>5, <2>6, <2>7, <2>8, <2>9, <2>10, <2>11, <2>12 DEF Next
<1>3. Deciding => VerdictIsFinal
  BY DEF Deciding
<1> QED
  BY <1>1, <1>2, <1>3, TypesAlways, PTL DEF Spec

-----------------------------------------------------------------------------
(* The rates *)

\* A sensor request that is answered, or whose answer is in flight, has been carried out.
Answered ==
  /\ \A m \in down : m.call \in Sensors => m.call \in ran
  /\ \A q \in Sensors : future[q] = "set" => q \in ran

\* Only its own answer resolves a sensor request.
LEMMA AnsweredByItself ==
  ASSUME RepliesAssumption, Types, Answered, NEW m \in down, HandleFrame(m)
  PROVE  Answered'
<1> USE DEF Types, Answered
<1>0. UNCHANGED ran /\ down' \subseteq down
  BY DEF HandleFrame, robot
<1>1. ASSUME NEW c \in Calls \ Sensors, Resolve(c, m) PROVE Answered'
  BY <1>0, <1>1 DEF Resolve, Calling, Calls
<1>2. CASE UNCHANGED future
  BY <1>0, <1>2
<1>3. CASE HandleAction(m)
  <2>1. m.call \in Calls \ Sensors
    BY <1>3, RepliesAssumption DEF HandleAction, Calls
  <2> QED
    BY <1>1, <1>2, <1>3, <2>1 DEF HandleAction
<1>4. CASE HandleReply(m)
  <2>1. CASE waiters[Kind(m.call)] # <<>>
    <3>1. Head(waiters[Kind(m.call)]) \in Fifo
      BY <2>1, KindTyped, HeadTailProperties DEF Lists
    <3>2. Head(waiters[Kind(m.call)]) \in Calls \ Sensors
      BY <3>1, RepliesAssumption DEF Fifo, Calls
    <3> QED
      BY <1>1, <1>4, <2>1, <3>2 DEF HandleReply
  <2> QED
    BY <1>2, <1>4, <2>1 DEF HandleReply
<1>5. CASE HandleSensor(m)
  <2>1. CASE Resolve(m.call, m)
    <3>1. m.call \in ran
      BY <1>5 DEF HandleSensor
    <3>2. \A q \in Sensors : future'[q] = "set" => future[q] = "set" \/ q = m.call
      BY <2>1 DEF Resolve, Calling, Calls
    <3> QED
      BY <1>0, <3>1, <3>2
  <2> QED
    BY <1>2, <1>5, <2>1 DEF HandleSensor
<1>6. CASE HandleChunk(m)
  BY <1>2, <1>6 DEF HandleChunk
<1> QED
  BY <1>3, <1>4, <1>5, <1>6 DEF HandleFrame

\* The retries of an answered sensor request change nothing, for every set of calls and
\* any number of retries: RatesStand (teleop.py 83-86).
THEOREM RatesAlwaysStand == Spec => RatesStand
<1>1. ASSUME Init PROVE Answered
  BY <1>1 DEF Init, Answered, Calls
<1>2. ASSUME Types, Answered, [Next]_vars PROVE Answered'
  <2> USE <1>2 DEF Types, Calling, Answered
  <2>1. ASSUME ran \subseteq ran', down' \subseteq down,
               \A q \in Sensors : future'[q] = "set" => future[q] = "set"
        PROVE  Answered'
    BY <2>1
  <2>2. ASSUME NEW c \in Calls, Begin(c) \/ Again(c) \/ Leaves(c) PROVE Answered'
    <3>1. \A q \in Sensors : future'[q] = "set" => future[q] = "set"
      BY <2>2 DEF Begin, Again, Leaves, Calls
    <3>2. UNCHANGED <<ran, down>>
      BY <2>2 DEF Begin, Again, Leaves, robot
    <3> QED
      BY <2>1, <3>1, <3>2
  <2>3. ASSUME NEW c \in Calls, NEW how \in {"timedout", "abandoned"}, Expires(c, how)
        PROVE  Answered'
    <3>1. \A q \in Sensors : future'[q] = "set" => future[q] = "set"
      BY <2>3 DEF Expires, Calls
    <3> QED
      BY <2>1, <2>3, <3>1 DEF Expires, robot
  <2>4. ASSUME NEW f \in Stills, StillEnds(f) PROVE Answered'
    <3>1. \A q \in Sensors : future'[q] = "set" => future[q] = "set"
      BY <2>4, RepliesAssumption DEF StillEnds, Calls
    <3> QED
      BY <2>1, <2>4, <3>1 DEF StillEnds, robot
  <2>5. ASSUME NEW m \in down, HandleFrame(m) PROVE Answered'
    BY <2>5, RepliesAssumption, AnsweredByItself
  <2>6. ASSUME NEW r \in up, RobotHandles(r) PROVE Answered'
    <3>1. UNCHANGED future
      BY <2>6 DEF RobotHandles, client
    <3>2. CASE r.call \in Sensors /\ SetRate(r.call)
      BY <3>1, <3>2 DEF SetRate, Says
    <3>3. CASE r.call \notin Sensors
      <4>1. PICK bodies : down' = down \cup Says(r.call, bodies)
        BY <2>6, <3>3 DEF RobotHandles, TakeAction, Obey, Serve
      <4>2. UNCHANGED ran
        BY <2>6, <3>3 DEF RobotHandles, TakeAction, Obey, Serve, robot
      <4> QED
        BY <3>1, <3>3, <4>1, <4>2 DEF Says
    <3> QED
      BY <2>6, <3>2, <3>3, RepliesAssumption DEF RobotHandles, Fifo
  <2>7. ASSUME NEW a \in Actions, Advance(a) PROVE Answered'
    <3>1. PICK state : down' = down \cup Says(a, {state})
      BY <2>7 DEF Advance
    <3>2. a \notin Sensors /\ UNCHANGED <<future, ran>>
      BY <2>7, RepliesAssumption DEF Advance, client
    <3> QED
      BY <3>1, <3>2 DEF Says
  <2>8. CASE Stop
    <3>1. \A q \in Sensors : future'[q] = "set" => future[q] = "set"
      BY <2>8, RepliesAssumption DEF Stop, Calls
    <3> QED
      BY <2>1, <2>8, <3>1 DEF Stop, robot
  <2>9. CASE ChannelCloses
    BY <2>1, <2>9 DEF ChannelCloses, client, robot
  <2>10. CASE UNCHANGED vars
    BY <2>1, <2>10 DEF vars, client, robot
  <2> QED
    BY <2>2, <2>3, <2>4, <2>5, <2>6, <2>7, <2>8, <2>9, <2>10 DEF Next
<1>3. ASSUME RepliesAssumption, Answered, [Next]_vars, NEW q \in Sensors, future[q] = "set", rate' = q
      PROVE  rate = q
  <2>1. CASE UNCHANGED rate
    BY <1>3, <2>1
  <2>2. ASSUME NEW r \in up, RobotHandles(r) PROVE rate = q
    <3>1. CASE r.call \in Sensors /\ SetRate(r.call)
      BY <1>3, <3>1 DEF SetRate, Remembered, Answered
    <3>2. CASE r.call \notin Sensors
      BY <1>3, <2>1, <2>2, <3>2 DEF RobotHandles, TakeAction, Obey, Serve, robot
    <3> QED
      BY <2>2, <3>1, <3>2, RepliesAssumption DEF RobotHandles, Fifo
  <2>3. CASE \E c \in Calls : \/ Begin(c) \/ Again(c) \/ Leaves(c)
                            \/ \E how \in {"timedout", "abandoned"} : Expires(c, how)
    BY <2>1, <2>3 DEF Begin, Again, Leaves, Expires, robot
  <2>4. CASE \E f \in Stills : StillEnds(f)
    BY <2>1, <2>4 DEF StillEnds, robot
  <2>5. CASE \E m \in down : HandleFrame(m)
    BY <2>1, <2>5 DEF HandleFrame, robot
  <2>6. CASE \E a \in Actions : Advance(a)
    BY <2>1, <2>6 DEF Advance
  <2>7. CASE Stop \/ ChannelCloses \/ UNCHANGED vars
    BY <2>1, <2>7 DEF Stop, ChannelCloses, vars, robot
  <2> QED
    BY <1>3, <2>2, <2>3, <2>4, <2>5, <2>6, <2>7 DEF Next
<1>4. ASSUME Answered, [Next]_vars
      PROVE  [\A q \in Sensors : future[q] = "set" /\ rate' = q => rate = q]_vars
  BY <1>3, <1>4, RepliesAssumption
<1> QED
  BY <1>1, <1>2, <1>4, TypesAlways, PTL DEF Spec, RatesStand

-----------------------------------------------------------------------------
(* The lists of waiters *)

Distinct(q) == \A i, j \in 1 .. Len(q) : q[i] = q[j] => i = j
Has(q, e)   == \E i \in 1 .. Len(q) : q[i] = e

\* An element that was not there is appended.
LEMMA HasAppend ==
  ASSUME NEW S, NEW q \in Seq(S), NEW e \in S, Distinct(q), ~Has(q, e)
  PROVE  Distinct(Append(q, e)) /\ \A d : Has(Append(q, e), d) <=> Has(q, d) \/ d = e
<1> DEFINE r == Append(q, e)
<1>1. /\ Len(q) \in Nat /\ Len(r) = Len(q) + 1 /\ r[Len(q) + 1] = e
      /\ \A i \in 1 .. Len(q) : r[i] = q[i]
  BY AppendProperties, LenProperties
<1> HIDE DEF r
<1>2. Distinct(r)
  BY <1>1 DEF Distinct, Has
<1>3. ASSUME NEW d PROVE Has(r, d) <=> Has(q, d) \/ d = e
  BY <1>1 DEF Has
<1> QED
  BY <1>2, <1>3 DEF r

\* The tail has what the head is not.
LEMMA HasTail ==
  ASSUME NEW S, NEW q \in Seq(S), q # <<>>, Distinct(q)
  PROVE  /\ Distinct(Tail(q)) /\ Has(q, Head(q))
         /\ \A d : Has(Tail(q), d) <=> Has(q, d) /\ d # Head(q)
<1> DEFINE r == Tail(q)
           h == Head(q)
<1>1. /\ Len(q) \in Nat \ {0} /\ Len(r) = Len(q) - 1 /\ h = q[1]
      /\ \A i \in 1 .. Len(r) : r[i] = q[i + 1]
  BY HeadTailProperties, LenProperties, EmptySeq
<1> HIDE DEF r, h
<1>2. Distinct(r)
  BY <1>1 DEF Distinct
<1>3. Has(q, h)
  BY <1>1 DEF Has
<1>4. ASSUME NEW d, Has(r, d) PROVE Has(q, d) /\ d # h
  BY <1>1, <1>4 DEF Has, Distinct
<1>5. ASSUME NEW d, Has(q, d), d # h PROVE Has(r, d)
  <2>1. PICK i \in 1 .. Len(q) : q[i] = d
    BY <1>5 DEF Has
  <2>2. i - 1 \in 1 .. Len(r) /\ r[i - 1] = d
    BY <1>1, <1>5, <2>1
  <2> QED
    BY <2>2 DEF Has
<1> QED
  BY <1>2, <1>3, <1>4, <1>5 DEF r, h

\* The elements that are left, one after the other, when the one at a place is taken out.
LEMMA Removed ==
  ASSUME NEW S, NEW q \in Seq(S), NEW n \in 1 .. Len(q)
  PROVE  /\ Len(q) \in Nat /\ Len(RemoveAt(q, n)) = Len(q) - 1
         /\ \A i \in 1 .. Len(q) - 1 : RemoveAt(q, n)[i] = IF i < n THEN q[i] ELSE q[i + 1]
<1> DEFINE a == SubSeq(q, 1, n - 1)
           b == SubSeq(q, n + 1, Len(q))
           r == RemoveAt(q, n)
<1>1. Len(q) \in Nat /\ n \in Nat /\ n >= 1 /\ n <= Len(q)
  BY LenProperties
<1>2. \A i \in 1 .. Len(q) : q[i] \in S
  BY ElementOfSeq
<1>3. a \in Seq(S) /\ Len(a) = n - 1 /\ \A i \in 1 .. n - 1 : a[i] = q[i]
  <2>1. 1 \in Int /\ n - 1 \in Int /\ \A i \in 1 .. n - 1 : q[i] \in S
    BY <1>1, <1>2
  <2>2. /\ a \in Seq(S) /\ Len(a) = IF 1 <= n - 1 THEN (n - 1) - 1 + 1 ELSE 0
        /\ \A i \in 1 .. (n - 1) - 1 + 1 : a[i] = q[1 + i - 1]
    BY <2>1, SubSeqProperties
  <2> HIDE DEF a
  <2> QED
    BY <2>2, <1>1
<1>4. b \in Seq(S) /\ Len(b) = Len(q) - n /\ \A i \in 1 .. Len(q) - n : b[i] = q[n + i]
  <2>1. n + 1 \in Int /\ Len(q) \in Int /\ \A i \in n + 1 .. Len(q) : q[i] \in S
    BY <1>1, <1>2
  <2>2. /\ b \in Seq(S) /\ Len(b) = IF n + 1 <= Len(q) THEN Len(q) - (n + 1) + 1 ELSE 0
        /\ \A i \in 1 .. Len(q) - (n + 1) + 1 : b[i] = q[n + 1 + i - 1]
    BY <2>1, SubSeqProperties
  <2> HIDE DEF b
  <2> QED
    BY <2>2, <1>1
<1>5. r = a \o b
  BY DEF RemoveAt
<1> HIDE DEF a, b, r
<1>6. /\ Len(r) = Len(a) + Len(b)
      /\ \A i \in 1 .. Len(a) + Len(b) : r[i] = IF i <= Len(a) THEN a[i] ELSE b[i - Len(a)]
  <2>1. a \in Seq(S) /\ b \in Seq(S)
    BY <1>3, <1>4
  <2>2. /\ Len(a \o b) = Len(a) + Len(b)
        /\ \A i \in 1 .. Len(a) + Len(b) :
             (a \o b)[i] = IF i <= Len(a) THEN a[i] ELSE b[i - Len(a)]
    BY <2>1, ConcatProperties
  <2> QED
    BY <1>5, <2>2
<1>7. Len(r) = Len(q) - 1
  BY <1>1, <1>3, <1>4, <1>6
<1>8. ASSUME NEW i \in 1 .. Len(q) - 1 PROVE r[i] = IF i < n THEN q[i] ELSE q[i + 1]
  <2>1. i \in 1 .. Len(a) + Len(b)
    BY <1>1, <1>3, <1>4, <1>8
  <2>2. CASE i < n
    BY <1>1, <1>3, <1>6, <2>1, <2>2
  <2>3. CASE i >= n
    <3>1. i - (n - 1) \in 1 .. Len(q) - n /\ n + (i - (n - 1)) = i + 1
      BY <1>1, <2>3
    <3>2. r[i] = b[i - (n - 1)]
      BY <1>1, <1>3, <1>6, <2>1, <2>3
    <3> QED
      BY <1>1, <1>4, <2>3, <3>1, <3>2
  <2> QED
    BY <1>1, <2>2, <2>3
<1> QED
  BY <1>1, <1>7, <1>8 DEF r

\* What list.remove leaves is what is not equal to the element.
LEMMA HasRemove ==
  ASSUME NEW S, NEW q \in Seq(S), Distinct(q), NEW e
  PROVE  /\ Distinct(RemoveFirst(q, e))
         /\ \A d : Has(RemoveFirst(q, e), d) <=> Has(q, d) /\ d # e
<1> DEFINE I == {i \in 1 .. Len(q) : q[i] = e}
<1>1. CASE I # {}
  <2>1. Min(I) \in I
    <3>1. I \subseteq Nat
      OBVIOUS
    <3> HIDE DEF I
    <3> QED
      BY <1>1, <3>1, LeastOf
  <2>2. RemoveFirst(q, e) = RemoveAt(q, Min(I))
    BY <1>1 DEF RemoveFirst, SelectInSeq
  <2>3. Min(I) \in 1 .. Len(q) /\ q[Min(I)] = e
    BY <2>1
  <2> HIDE DEF I
  <2>4. PICK n \in 1 .. Len(q) : q[n] = e /\ RemoveFirst(q, e) = RemoveAt(q, n)
    BY <2>2, <2>3
  <2> DEFINE r == RemoveFirst(q, e)
  <2>9. /\ Len(q) \in Nat /\ Len(r) = Len(q) - 1
        /\ \A i \in 1 .. Len(r) : r[i] = IF i < n THEN q[i] ELSE q[i + 1]
    BY <2>4, Removed
  <2> HIDE DEF r
  <2>10. Distinct(r)
    BY <2>4, <2>9 DEF Distinct
  <2>11. ASSUME NEW d, Has(r, d) PROVE Has(q, d) /\ d # e
    <3>1. PICK i \in 1 .. Len(r) : r[i] = d
      BY <2>11 DEF Has
    <3>2. CASE i < n
      BY <2>4, <2>9, <3>1, <3>2 DEF Has, Distinct
    <3>3. CASE i >= n
      <4>1. i + 1 \in 1 .. Len(q) /\ q[i + 1] = d /\ i + 1 # n
        BY <2>4, <2>9, <3>1, <3>3
      <4> QED
        BY <2>4, <4>1 DEF Has, Distinct
    <3> QED
      BY <2>4, <2>9, <3>2, <3>3
  <2>12. ASSUME NEW d, Has(q, d), d # e PROVE Has(r, d)
    <3>1. PICK i \in 1 .. Len(q) : q[i] = d
      BY <2>12 DEF Has
    <3>2. CASE i < n
      <4>1. i \in 1 .. Len(r) /\ r[i] = d
        BY <2>4, <2>9, <3>1, <3>2
      <4> QED
        BY <4>1 DEF Has
    <3>3. CASE i > n
      <4>1. i - 1 \in 1 .. Len(r) /\ r[i - 1] = d
        BY <2>4, <2>9, <3>1, <3>3
      <4> QED
        BY <4>1 DEF Has
    <3> QED
      BY <2>3, <2>4, <2>12, <3>1, <3>2, <3>3
  <2> QED
    BY <2>10, <2>11, <2>12 DEF r
<1>2. CASE I = {}
  <2>1. RemoveFirst(q, e) = q
    BY <1>2 DEF RemoveFirst
  <2>2. ~Has(q, e)
    BY <1>2 DEF Has
  <2> QED
    BY <2>1, <2>2
<1> QED
  BY <1>1, <1>2

-----------------------------------------------------------------------------
(* The next reply *)

\* Who is in a list still waits, or was cancelled, or is about to take itself off it; who
\* waits is in the list of its kind; and one call of a kind at a time has not returned.
Lasting(c) ==
  future[c] = "pending" \/ future[c] = "abandoned" \/ (future[c] = "timedout" /\ c \notin left)
Listed ==
  /\ \A k \in Kinds : Distinct(waiters[k])
  /\ \A k \in Kinds : \A c \in Fifo :
       Has(waiters[k], c) => c \in called /\ Kind(c) = k /\ Lasting(c)
  /\ \A c \in Fifo : future[c] = "pending" =>
       Has(waiters[Kind(c)], c) /\ c \notin left /\ c \in called
  /\ \A c, d \in Fifo :
       c \in called \ left /\ d \in called \ left /\ Kind(c) = Kind(d) => c = d

\* A step that leaves the lists and the calls in them alone keeps it.
LEMMA ListedKept ==
  ASSUME Listed, UNCHANGED waiters,
         \A c \in Fifo : /\ future'[c] = future[c]
                         /\ (c \in left') <=> (c \in left)
                         /\ (c \in called') <=> (c \in called)
  PROVE  Listed'
BY DEF Listed, Lasting

\* Every step keeps it.
LEMMA ListedStep ==
  ASSUME RepliesAssumption, Types, Listed, [Next]_vars PROVE Listed'
<1>0. /\ waiters \in [Kinds -> Seq(Fifo)] /\ future \in [Calls -> Futures]
      /\ left \subseteq called /\ called \subseteq Calls
      /\ Fifo \subseteq Calls /\ \A c : Kind(c) \in Kinds
  BY KindTyped DEF Types, Lists, Calling, Calls
<1>f. Fifo \cap (Actions \cup Sensors \cup Stills) = {}
  BY RepliesAssumption DEF RepliesAssumption, Fifo
<1>1. ASSUME NEW c \in Calls, Begin(c) PROVE Listed'
  <2>1. CASE c \in Fifo
    <3> DEFINE k == Kind(c)
               q == waiters[k]
    <3>1. /\ c \notin called /\ called' = called \cup {c} /\ UNCHANGED left
          /\ future' = [future EXCEPT ![c] = "pending"]
          /\ waiters' = [waiters EXCEPT ![k] = Append(q, c)]
          /\ \A d \in called \cap Fifo : Kind(d) = k => d \in left
      BY <1>1, <2>1 DEF Begin
    <3>2. k \in Kinds /\ q \in Seq(Fifo) /\ Distinct(q) /\ ~Has(q, c)
      BY <1>0, <2>1, <3>1 DEF Listed
    <3>3. Distinct(Append(q, c)) /\ \A d : Has(Append(q, c), d) <=> Has(q, d) \/ d = c
      BY <2>1, <3>2, HasAppend
    <3>4. waiters'[k] = Append(q, c) /\ \A j \in Kinds \ {k} : waiters'[j] = waiters[j]
      BY <1>0, <3>1, <3>2
    <3>5. future'[c] = "pending" /\ \A d \in Fifo \ {c} : future'[d] = future[d]
      BY <1>0, <3>1
    <3>6. c \notin left
      BY <1>0, <3>1
    <3> HIDE DEF q
    <3>7. \A j \in Kinds : Distinct(waiters'[j])
      BY <3>3, <3>4 DEF Listed
    <3>8. ASSUME NEW j \in Kinds, NEW d \in Fifo, Has(waiters'[j], d)
          PROVE  d \in called' /\ Kind(d) = j /\ Lasting(d)'
      <4>1. CASE d = c
        <5>1. j = k
          <6>1. c \notin called
            BY <3>1
          <6> QED
            BY <3>4, <3>8, <4>1, <6>1 DEF Listed
        <5> QED
          BY <3>1, <3>5, <4>1, <5>1 DEF Lasting
      <4>2. CASE d # c
        <5>1. Has(waiters[j], d)
          BY <3>3, <3>4, <3>8, <4>2 DEF q
        <5> QED
          BY <3>1, <3>5, <4>2, <5>1 DEF Listed, Lasting
      <4> QED
        BY <4>1, <4>2
    <3>9. ASSUME NEW d \in Fifo, future'[d] = "pending"
          PROVE  Has(waiters'[Kind(d)], d) /\ d \notin left' /\ d \in called'
      <4>1. CASE d = c
        BY <3>1, <3>3, <3>4, <3>6, <4>1
      <4>2. CASE d # c
        <5>1. Has(waiters[Kind(d)], d) /\ d \notin left /\ d \in called
          BY <3>5, <3>9, <4>2 DEF Listed
        <5>2. Has(waiters'[Kind(d)], d)
          BY <1>0, <3>3, <3>4, <5>1 DEF q
        <5> QED
          BY <3>1, <5>1, <5>2
      <4> QED
        BY <4>1, <4>2
    <3>10. ASSUME NEW d \in Fifo, NEW e \in Fifo, d \in called' \ left', e \in called' \ left',
                  Kind(d) = Kind(e)
           PROVE  d = e
      BY <3>1, <3>10 DEF Listed
    <3> QED
      BY <3>7, <3>8, <3>9, <3>10 DEF Listed
  <2>2. CASE c \notin Fifo
    <3>1. UNCHANGED <<waiters, left>> /\ called' = called \cup {c}
          /\ future' = [future EXCEPT ![c] = "pending"]
      BY <1>1, <2>2 DEF Begin
    <3> QED
      BY <1>0, <2>2, <3>1, ListedKept
  <2> QED
    BY <2>1, <2>2
<1>2. ASSUME NEW c \in Calls, Leaves(c) PROVE Listed'
  <2>0. /\ future[c] # "pending" /\ UNCHANGED <<future, called>> /\ left' = left \cup {c}
        /\ waiters' = Unlisted(c)
    BY <1>2 DEF Leaves
  <2>1. CASE c \in Fifo /\ future[c] = "timedout"
    <3> DEFINE k == Kind(c)
               q == waiters[k]
    <3>1. k \in Kinds /\ q \in Seq(Fifo) /\ Distinct(q)
      BY <1>0 DEF Listed
    <3>2. Distinct(RemoveFirst(q, c)) /\ \A d : Has(RemoveFirst(q, c), d) <=> Has(q, d) /\ d # c
      BY <3>1, HasRemove
    <3>3. waiters'[k] = RemoveFirst(q, c) /\ \A j \in Kinds \ {k} : waiters'[j] = waiters[j]
      BY <1>0, <2>0, <2>1, <3>1 DEF Unlisted
    <3> HIDE DEF q
    <3>4. \A j \in Kinds : Distinct(waiters'[j])
      BY <3>2, <3>3 DEF Listed
    <3>5. ASSUME NEW j \in Kinds, NEW d \in Fifo, Has(waiters'[j], d)
          PROVE  d \in called' /\ Kind(d) = j /\ Lasting(d)'
      <4>1. Has(waiters[j], d) /\ d # c
        <5>1. CASE j = k
          BY <3>2, <3>3, <3>5, <5>1 DEF q
        <5>2. CASE j # k
          <6>1. Has(waiters[j], d)
            BY <3>3, <3>5, <5>2
          <6> QED
            BY <5>2, <6>1 DEF Listed
        <5> QED
          BY <5>1, <5>2
      <4> QED
        BY <2>0, <4>1 DEF Listed, Lasting
    <3>6. ASSUME NEW d \in Fifo, future'[d] = "pending"
          PROVE  Has(waiters'[Kind(d)], d) /\ d \notin left' /\ d \in called'
      <4>1. d # c /\ Has(waiters[Kind(d)], d) /\ d \notin left /\ d \in called
        BY <2>0, <3>6 DEF Listed
      <4>2. Has(waiters'[Kind(d)], d)
        BY <1>0, <3>2, <3>3, <4>1 DEF q
      <4> QED
        BY <2>0, <4>1, <4>2
    <3>7. ASSUME NEW d \in Fifo, NEW e \in Fifo, d \in called' \ left', e \in called' \ left',
                 Kind(d) = Kind(e)
          PROVE  d = e
      BY <2>0, <3>7 DEF Listed
    <3> QED
      BY <3>4, <3>5, <3>6, <3>7 DEF Listed
  <2>2. CASE ~(c \in Fifo /\ future[c] = "timedout")
    <3>1. UNCHANGED waiters
      BY <2>0, <2>2 DEF Unlisted
    <3> QED
      BY <2>0, <2>2, <3>1 DEF Listed, Lasting
  <2> QED
    BY <2>1, <2>2
<1>3. ASSUME NEW c \in Calls, NEW how \in {"timedout", "abandoned"}, Expires(c, how) PROVE Listed'
  <2>1. /\ future[c] = "pending" /\ future' = [future EXCEPT ![c] = how]
        /\ UNCHANGED <<waiters, called>> /\ \A d \in Fifo : (d \in left') <=> (d \in left)
    BY <1>3, <1>f DEF Expires, Pending
  <2>2. CASE c \in Fifo
    <3>1. c \notin left /\ future'[c] = how /\ \A d \in Fifo \ {c} : future'[d] = future[d]
      BY <1>0, <2>1, <2>2 DEF Listed
    <3>2. \A d \in Fifo : Lasting(d) => Lasting(d)'
      BY <2>1, <3>1 DEF Lasting
    <3>3. \A d \in Fifo : future'[d] = "pending" => future[d] = "pending"
      BY <3>1
    <3> QED
      BY <2>1, <3>2, <3>3 DEF Listed
  <2>3. CASE c \notin Fifo
    <3>1. \A d \in Fifo : future'[d] = future[d]
      BY <1>0, <2>1, <2>3
    <3> QED
      BY <2>1, <3>1, ListedKept
  <2> QED
    BY <2>2, <2>3
<1>4. ASSUME NEW f \in Stills, StillEnds(f) PROVE Listed'
  <2>1. /\ UNCHANGED <<waiters, called>> /\ left' = left \cup {f}
        /\ future' = [future EXCEPT ![f] = "set"]
    BY <1>4 DEF StillEnds
  <2> QED
    BY <1>0, <1>f, <2>1, ListedKept
<1>5. ASSUME NEW m \in down, HandleFrame(m) PROVE Listed'
  <2>0. UNCHANGED <<called, left>>
    BY <1>5 DEF HandleFrame, HandleAction, HandleReply, HandleSensor, HandleChunk
  <2>1. CASE HandleAction(m) \/ HandleSensor(m) \/ HandleChunk(m)
    <3>1. UNCHANGED waiters /\ (UNCHANGED future \/ (m.call \notin Fifo /\ Resolve(m.call, m)))
      BY <1>f, <2>1 DEF HandleAction, HandleSensor, HandleChunk
    <3>2. \A d \in Fifo : future'[d] = future[d]
      BY <1>0, <3>1 DEF Resolve
    <3> QED
      BY <2>0, <3>1, <3>2, ListedKept
  <2>2. CASE HandleReply(m) /\ waiters[Kind(m.call)] = <<>>
    BY <2>0, <2>2, ListedKept DEF HandleReply
  <2>3. CASE HandleReply(m) /\ waiters[Kind(m.call)] # <<>>
    <3> DEFINE k == Kind(m.call)
               q == waiters[k]
               h == Head(q)
    <3>1. k \in Kinds /\ q \in Seq(Fifo) /\ q # <<>> /\ Distinct(q)
      BY <1>0, <2>3 DEF Listed
    <3>2. h \in Fifo
      BY <3>1, HeadTailProperties
    <3>3. /\ Distinct(Tail(q)) /\ Has(q, h)
          /\ \A d : Has(Tail(q), d) <=> Has(q, d) /\ d # h
      BY <3>1, HasTail
    <3>4. Resolve(h, m) /\ waiters' = [waiters EXCEPT ![k] = Tail(q)]
      BY <2>3 DEF HandleReply
    <3>5. waiters'[k] = Tail(q) /\ \A j \in Kinds \ {k} : waiters'[j] = waiters[j]
      BY <1>0, <3>1, <3>4
    <3>6. future'[h] # "pending" /\ \A d \in Fifo \ {h} : future'[d] = future[d]
      BY <1>0, <3>2, <3>4 DEF Resolve, Pending
    <3> HIDE DEF q, h
    <3>7. \A j \in Kinds : Distinct(waiters'[j])
      BY <3>3, <3>5 DEF Listed
    <3>8. ASSUME NEW j \in Kinds, NEW d \in Fifo, Has(waiters'[j], d)
          PROVE  d \in called' /\ Kind(d) = j /\ Lasting(d)'
      <4>1. Has(waiters[j], d) /\ d # h
        <5>1. CASE j = k
          BY <3>3, <3>5, <3>8, <5>1 DEF q
        <5>2. CASE j # k
          <6>1. Has(waiters[j], d)
            BY <3>5, <3>8, <5>2
          <6>2. Kind(h) = k
            BY <3>1, <3>2, <3>3 DEF Listed, q
          <6> QED
            BY <5>2, <6>1, <6>2 DEF Listed
        <5> QED
          BY <5>1, <5>2
      <4> QED
        BY <2>0, <3>6, <4>1 DEF Listed, Lasting
    <3>9. ASSUME NEW d \in Fifo, future'[d] = "pending"
          PROVE  Has(waiters'[Kind(d)], d) /\ d \notin left' /\ d \in called'
      <4>1. d # h /\ Has(waiters[Kind(d)], d) /\ d \notin left /\ d \in called
        BY <3>6, <3>9 DEF Listed
      <4>2. Has(waiters'[Kind(d)], d)
        BY <1>0, <3>3, <3>5, <4>1 DEF q
      <4> QED
        BY <2>0, <4>1, <4>2
    <3> QED
      BY <2>0, <3>7, <3>8, <3>9 DEF Listed
  <2> QED
    BY <1>5, <2>1, <2>2, <2>3 DEF HandleFrame
<1>6. CASE Stop
  <2>1. \A d \in Fifo : future'[d] = future[d]
    BY <1>0, <1>6, <1>f DEF Stop
  <2> QED
    BY <1>6, <2>1, ListedKept DEF Stop
<1>7. ASSUME UNCHANGED <<waiters, future, left, called>> PROVE Listed'
  BY <1>7, ListedKept
<1>8. ASSUME NEW c \in Calls, Again(c) PROVE Listed'
  BY <1>7, <1>8 DEF Again
<1>9. ASSUME NEW r \in up, RobotHandles(r) PROVE Listed'
  BY <1>7, <1>9 DEF RobotHandles, client
<1>10. ASSUME NEW a \in Actions, Advance(a) PROVE Listed'
  BY <1>7, <1>10 DEF Advance, client
<1>11. CASE ChannelCloses \/ UNCHANGED vars
  BY <1>7, <1>11 DEF ChannelCloses, vars, client
<1> QED
  BY <1>1, <1>2, <1>3, <1>4, <1>5, <1>6, <1>8, <1>9, <1>10, <1>11 DEF Next

\* A frame leaves the channel by being handled.
LEMMA OnlyHandled ==
  ASSUME NEW m \in down, down' = down \ {m}, [Next]_vars
  PROVE  HandleFrame(m)
<1>1. ~(down \subseteq down')
  OBVIOUS
<1>2. CASE \E n \in down : HandleFrame(n)
  <2>1. PICK n \in down : HandleFrame(n)
    BY <1>2
  <2>2. n = m
    BY <2>1 DEF HandleFrame
  <2> QED
    BY <2>1, <2>2
<1>3. CASE \E r \in up : RobotHandles(r)
  BY <1>1, <1>3 DEF RobotHandles, TakeAction, SetRate, Obey, Serve
<1>4. CASE \E a \in Actions : Advance(a)
  BY <1>1, <1>4 DEF Advance
<1>5. CASE UNCHANGED down
  BY <1>1, <1>5
<1>6. CASE \E c \in Calls : \/ Begin(c) \/ Again(c) \/ Leaves(c)
                            \/ \E how \in {"timedout", "abandoned"} : Expires(c, how)
  BY <1>5, <1>6 DEF Begin, Again, Leaves, Expires
<1>7. CASE (\E f \in Stills : StillEnds(f)) \/ Stop \/ ChannelCloses \/ UNCHANGED vars
  BY <1>5, <1>7 DEF StillEnds, Stop, ChannelCloses, vars
<1> QED
  BY <1>2, <1>3, <1>4, <1>6, <1>7 DEF Next

\* As long as no caller was cancelled, a reply that comes while a caller of its kind waits is a
\* caller's, for any number of calls that time out: NextResolves (teleop.py 812, 908).
THEOREM NextReplyResolves == Spec => NextResolves
<1>1. ASSUME Init PROVE Listed
  <2>1. \A k \in Kinds : waiters[k] = <<>> /\ \A c \in Fifo : future[c] = "none"
    BY <1>1 DEF Init, Calls
  <2>2. \A k \in Kinds : Len(waiters[k]) = 0
    BY <2>1
  <2>3. called = {}
    BY <1>1 DEF Init
  <2>4. \A k \in Kinds : Distinct(waiters[k]) /\ \A c : ~Has(waiters[k], c)
    BY <2>2 DEF Distinct, Has
  <2>5. \A k \in Kinds : \A c \in Fifo :
          Has(waiters[k], c) => c \in called /\ Kind(c) = k /\ Lasting(c)
    BY <2>4
  <2>6. \A c \in Fifo : future[c] = "pending" =>
          Has(waiters[Kind(c)], c) /\ c \notin left /\ c \in called
    <3>1. Kinds # {}
      BY DEF Kinds
    <3> QED
      BY <2>1, <3>1
  <2>7. \A c, d \in Fifo :
          c \in called \ left /\ d \in called \ left /\ Kind(c) = Kind(d) => c = d
    BY <2>3
  <2>8. \A k \in Kinds : Distinct(waiters[k])
    BY <2>4
  <2> QED
    BY <2>5, <2>6, <2>7, <2>8, Zenon DEF Listed
<1>2. ASSUME RepliesAssumption, Types, Listed, [Next]_vars, NEW k \in Kinds, Swallowed(k)
      PROVE  \E c \in Fifo : Kind(c) = k /\ future[c] = "abandoned"
  <2>1. PICK m \in down : m.call \in Fifo /\ Kind(m.call) = k /\ down' = down \ {m}
    BY <1>2 DEF Swallowed
  <2>2. PICK c \in Fifo : Kind(c) = k /\ future[c] = "pending"
    BY <1>2 DEF Swallowed, Waits, Pending
  <2>3. HandleFrame(m) /\ UNCHANGED future
    BY <1>2, <2>1, OnlyHandled DEF Swallowed
  <2>4. HandleReply(m)
    BY <1>2, <2>1, <2>3 DEF HandleFrame, HandleAction, HandleSensor, HandleChunk, Fifo,
      RepliesAssumption
  <2> DEFINE q == waiters[k]
             h == Head(q)
  <2>5. Has(q, c) /\ c \in called \ left
    BY <1>2, <2>2 DEF Listed
  <2>6. q \in Seq(Fifo) /\ q # <<>> /\ Distinct(q)
    <3>1. q \in Seq(Fifo) /\ Distinct(q)
      BY <1>2 DEF Types, Lists, Listed
    <3>2. Len(q) # 0
      BY <2>5, <3>1, LenProperties DEF Has
    <3> QED
      BY <3>1, <3>2
  <2>7. h \in Fifo /\ Has(q, h)
    BY <2>6, HeadTailProperties, HasTail
  <2>8. h \in called /\ Kind(h) = k /\ Lasting(h)
    BY <1>2, <2>7 DEF Listed
  <2>9. future[h] # "pending"
    <3>1. Resolve(h, m)
      BY <2>1, <2>4, <2>6 DEF HandleReply
    <3>2. future[h] = "pending" => future' # future
      <4>1. h \in Calls /\ future \in [Calls -> Futures]
        BY <1>2, <2>7 DEF Calls, Types, Calling
      <4> QED
        BY <3>1, <4>1 DEF Resolve, Pending
    <3> QED
      BY <2>3, <3>2
  <2>10. h \in left
    BY <1>2, <2>2, <2>5, <2>7, <2>8, <2>9 DEF Listed
  <2> QED
    BY <2>7, <2>8, <2>9, <2>10 DEF Lasting
<1>3. ASSUME RepliesAssumption, Types, Listed, [Next]_vars
      PROVE  [\A k \in Kinds :
                Swallowed(k) => \E c \in Fifo : Kind(c) = k /\ future[c] = "abandoned"]_vars
  BY <1>2, <1>3
<1> QED
  BY <1>1, <1>3, ListedStep, TypesAlways, RepliesAssumption, PTL DEF Spec, NextResolves


-----------------------------------------------------------------------------
(* The history of verdicts *)

Entry    == [call : Actions, state : Progress \ {"none"}]
Apart(q) == \A i, j \in DOMAIN q : q[i].call = q[j].call => i = j
StatesOK == states \in Seq(Entry) /\ Len(states) <= History /\ Apart(states)

\* The entry of an action is taken out of the history, which has one of it at most.
LEMMA Forgotten ==
  ASSUME StatesOK, NEW a, NEW q, q = RemoveFirstMatch(states, LAMBDA v : v.call = a)
  PROVE  /\ q \in Seq(Entry) /\ Len(q) <= Len(states) /\ Apart(q)
         /\ \A i \in DOMAIN q : q[i].call # a
<1> DEFINE I == {i \in 1 .. Len(states) : states[i].call = a}
<1>1. states \in Seq(Entry) /\ Len(states) \in Nat /\ DOMAIN states = 1 .. Len(states)
  BY LenProperties DEF StatesOK
<1>2. CASE I = {}
  <2>1. \A i \in 1 .. Len(states) : states[i].call # a
    BY <1>2
  <2>2. q = states
    BY <2>1 DEF RemoveFirstMatch
  <2>3. Len(states) <= Len(states) /\ \A i \in DOMAIN states : states[i].call # a
    BY <1>1, <2>1
  <2> QED
    BY <1>1, <2>2, <2>3 DEF StatesOK
<1>3. CASE I # {}
  <2>1. Min(I) \in I
    <3>1. I \subseteq Nat
      OBVIOUS
    <3> HIDE DEF I
    <3> QED
      BY <1>3, <3>1, LeastOf
  <2>2. q = RemoveAt(states, Min(I))
    BY <1>3 DEF RemoveFirstMatch, SelectInSeq
  <2>3. PICK k \in 1 .. Len(states) : states[k].call = a /\ q = RemoveAt(states, k)
    <3>1. Min(I) \in 1 .. Len(states) /\ states[Min(I)].call = a
      BY <2>1
    <3> HIDE DEF I
    <3> QED
      BY <2>2, <3>1
  <2> HIDE DEF I
  <2>4. q \in Seq(Entry)
    <3>1. SubSeq(states, 1, k - 1) \in Seq(Entry) /\ SubSeq(states, k + 1, Len(states)) \in Seq(Entry)
      BY <1>1, ElementOfSeq, SubSeqProperties
    <3> QED
      BY <2>3, <3>1, ConcatProperties DEF RemoveAt
  <2>5. /\ Len(q) = Len(states) - 1
        /\ \A i \in 1 .. Len(states) - 1 : q[i] = IF i < k THEN states[i] ELSE states[i + 1]
    <3>1. /\ Len(RemoveAt(states, k)) = Len(states) - 1
          /\ \A i \in 1 .. Len(states) - 1 :
               RemoveAt(states, k)[i] = IF i < k THEN states[i] ELSE states[i + 1]
      BY <1>1, Removed
    <3> QED
      BY <2>3, <3>1
  <2>6. DOMAIN q = 1 .. Len(states) - 1
    BY <2>4, <2>5, LenProperties
  <2>7. \A i \in DOMAIN q :
          \E h \in 1 .. Len(states) : /\ h = IF i < k THEN i ELSE i + 1
                                     /\ h # k /\ q[i] = states[h]
    <3>1. ASSUME NEW i \in 1 .. Len(states) - 1
          PROVE  \E h \in 1 .. Len(states) : /\ h = IF i < k THEN i ELSE i + 1
                                             /\ h # k /\ q[i] = states[h]
      <4>0. q[i] = IF i < k THEN states[i] ELSE states[i + 1]
        BY <2>5
      <4>1. CASE i < k
        <5>1. i \in 1 .. Len(states) /\ i # k /\ q[i] = states[i]
          BY <1>1, <4>0, <4>1
        <5> QED
          BY <4>1, <5>1
      <4>2. CASE ~(i < k)
        <5>1. i + 1 \in 1 .. Len(states) /\ i + 1 # k /\ q[i] = states[i + 1]
          BY <1>1, <4>0, <4>2
        <5> QED
          BY <4>2, <5>1
      <4> QED
        BY <4>1, <4>2
    <3> QED
      BY <2>6, <3>1
  <2>8. \A g, h \in 1 .. Len(states) : states[g].call = states[h].call => g = h
    BY <1>1 DEF Apart, StatesOK
  <2>9. Apart(q)
    <3>1. ASSUME NEW i \in 1 .. Len(states) - 1, NEW j \in 1 .. Len(states) - 1, q[i].call = q[j].call
          PROVE  i = j
      <4>1. PICK g \in 1 .. Len(states) : g = (IF i < k THEN i ELSE i + 1) /\ q[i] = states[g]
        BY <2>6, <2>7
      <4>2. PICK h \in 1 .. Len(states) : h = (IF j < k THEN j ELSE j + 1) /\ q[j] = states[h]
        BY <2>6, <2>7
      <4>3. g = h
        BY <2>8, <3>1, <4>1, <4>2
      <4> QED
        BY <1>1, <4>1, <4>2, <4>3
    <3> QED
      BY <2>6, <3>1 DEF Apart
  <2>10. \A i \in DOMAIN q : q[i].call # a
    BY <2>3, <2>7, <2>8
  <2>11. Len(q) <= Len(states)
    BY <1>1, <2>5
  <2> QED
    BY <2>4, <2>9, <2>10, <2>11
<1> QED
  BY <1>2, <1>3

\* A status that is heard is the newest entry, the only one of its action, and the oldest goes
\* when there are too many.
LEMMA HeardKept ==
  ASSUME RepliesAssumption, StatesOK, NEW a \in Actions, NEW state \in Progress \ {"none"},
         states' = Heard(a, state)
  PROVE  StatesOK'
<1> DEFINE r == RemoveFirstMatch(states, LAMBDA v : v.call = a)
           e == [call |-> a, state |-> state]
           q == Append(r, e)
<1>1. /\ r \in Seq(Entry) /\ Len(r) <= Len(states) /\ Apart(r)
      /\ \A i \in DOMAIN r : r[i].call # a
  BY Forgotten
<1>2. states' = IF Len(q) > History THEN Tail(q) ELSE q
  BY DEF Heard
<1>3. e \in Entry /\ e.call = a
  BY DEF Entry
<1> HIDE DEF r, e
<1>4. /\ q \in Seq(Entry) /\ Len(r) \in Nat /\ Len(q) = Len(r) + 1 /\ q[Len(r) + 1] = e
      /\ \A i \in 1 .. Len(r) : q[i] = r[i]
  BY <1>1, <1>3, AppendProperties, LenProperties
<1> HIDE DEF q
<1>5. DOMAIN q = 1 .. Len(r) + 1 /\ DOMAIN r = 1 .. Len(r)
  BY <1>1, <1>4, LenProperties
<1>6. Apart(q)
  BY <1>1, <1>3, <1>4, <1>5 DEF Apart
<1>7. Len(states) <= History /\ Len(states) \in Nat /\ History \in Nat
  BY RepliesAssumption, LenProperties DEF StatesOK
<1>8. CASE Len(q) > History
  <2>1. q # <<>>
    BY <1>4, EmptySeq
  <2>2. /\ Tail(q) \in Seq(Entry) /\ Len(Tail(q)) = Len(q) - 1
        /\ \A i \in 1 .. Len(q) - 1 : Tail(q)[i] = q[i + 1]
    BY <1>4, <2>1, HeadTailProperties
  <2>3. DOMAIN Tail(q) = 1 .. Len(r) /\ \A i \in 1 .. Len(r) : Tail(q)[i] = q[i + 1]
    BY <1>4, <2>2, LenProperties
  <2>4. Apart(Tail(q))
    <3>1. ASSUME NEW i \in 1 .. Len(r), NEW j \in 1 .. Len(r), Tail(q)[i].call = Tail(q)[j].call
          PROVE  i = j
      <4>1. i + 1 \in DOMAIN q /\ j + 1 \in DOMAIN q /\ q[i + 1].call = q[j + 1].call
        BY <1>4, <1>5, <2>3, <3>1
      <4>2. i + 1 = j + 1
        BY <1>6, <4>1 DEF Apart
      <4> QED
        BY <4>2
    <3> QED
      BY <2>3, <3>1 DEF Apart
  <2>5. Len(Tail(q)) <= History
    BY <1>1, <1>4, <1>7, <2>2
  <2> QED
    BY <1>2, <1>8, <2>2, <2>4, <2>5 DEF StatesOK
<1>9. CASE ~(Len(q) > History)
  <2>1. Len(q) <= History
    BY <1>4, <1>7, <1>9
  <2> QED
    BY <1>2, <1>4, <1>6, <1>9, <2>1 DEF StatesOK
<1> QED
  BY <1>8, <1>9

-----------------------------------------------------------------------------
(* The other types *)

\* What is said of an action is a state of one, and of a still a chunk or a refusal.
Spoken == \A m \in down : /\ m.call \in Actions => m.body \in Progress \ {"none"}
                          /\ m.call \in Stills => m.body \in Chunks \cup {"refused"}
CallsOK ==
  /\ IsFiniteSet(called) /\ Cardinality(called) <= MaxCalls
  /\ registered \subseteq Calls \ Fifo
  /\ have \in [Stills -> SUBSET Chunks] /\ refusal \in [Stills -> BOOLEAN]
  /\ retries \in 0 .. MaxRetries
EndsOK ==
  /\ rate \in Sensors \cup {None} /\ ran \subseteq Sensors
  /\ open \in BOOLEAN /\ stopped \in BOOLEAN
Others == CallsOK /\ EndsOK /\ Spoken /\ StatesOK

\* The robot says of a call what fits it.
LEMMA RobotSpeaks ==
  ASSUME RepliesAssumption, Types, Spoken, NEW r \in up, RobotHandles(r)
  PROVE  Spoken'
<1>1. r.call \in Calls /\ r.want \subseteq Chunks
  BY DEF Types, Frames, Request
<1>2. ASSUME NEW bodies, down' = down \cup Says(r.call, bodies),
             r.call \in Actions => bodies \subseteq Progress \ {"none"},
             r.call \in Stills => bodies \subseteq Chunks \cup {"refused"}
      PROVE  Spoken'
  <2>1. \A m \in down' : m \in down \/ (m.call = r.call /\ m.body \in bodies)
    BY <1>2 DEF Says
  <2> QED
    BY <1>2, <2>1 DEF Spoken
<1>3. CASE r.call \in Actions /\ TakeAction(r.call)
  <2>1. PICK state \in {"accepted", "blocked"} : down' = down \cup Says(r.call, {state})
    BY <1>3 DEF TakeAction
  <2>2. {state} \subseteq Progress \ {"none"} /\ r.call \notin Stills
    BY <1>3, RepliesAssumption DEF Progress, Verdicts
  <2> QED
    BY <1>2, <2>1, <2>2
<1>4. CASE r.call \in Sensors /\ SetRate(r.call)
  BY <1>2, <1>4, RepliesAssumption DEF SetRate
<1>5. CASE r.call \in Fifo /\ Obey(r.call)
  <2>1. r.call \notin Actions /\ r.call \notin Stills
    BY <1>5, RepliesAssumption DEF Fifo
  <2> QED
    BY <1>2, <1>5, <2>1 DEF Obey
<1>6. CASE r.call \in Stills /\ Serve(r.call, r.want)
  <2>1. PICK bodies \in {r.want, {"refused"}} : down' = down \cup Says(r.call, bodies)
    BY <1>6 DEF Serve
  <2>2. bodies \subseteq Chunks \cup {"refused"} /\ r.call \notin Actions
    BY <1>1, <1>6, <2>1, RepliesAssumption
  <2> QED
    BY <1>2, <2>1, <2>2
<1> QED
  BY <1>3, <1>4, <1>5, <1>6 DEF RobotHandles

\* A frame that is handled keeps the records of the calls what they are.
LEMMA HandledKeeps ==
  ASSUME RepliesAssumption, Types, Others, NEW m \in down, HandleFrame(m)
  PROVE  Others'
<1> USE DEF Others
<1>1. UNCHANGED <<open, stopped, called, retries, rate, ran>> /\ down' = down \ {m}
  BY DEF HandleFrame, robot
<1>2. EndsOK' /\ Spoken'
  BY <1>1 DEF EndsOK, Spoken
<1>3. registered' \subseteq registered
  BY DEF HandleFrame, HandleAction, HandleReply, HandleSensor, HandleChunk
<1>4. have' \in [Stills -> SUBSET Chunks] /\ refusal' \in [Stills -> BOOLEAN]
  <2>1. have \in [Stills -> SUBSET Chunks] /\ refusal \in [Stills -> BOOLEAN]
    BY DEF CallsOK
  <2>2. CASE HandleChunk(m)
    <3>1. m.call \in Stills /\ m.body \in Chunks \cup {"refused"}
      BY <2>2 DEF HandleChunk, Spoken
    <3>2. CASE UNCHANGED <<have, refusal>>
      BY <2>1, <3>2
    <3>3. CASE refusal' = [refusal EXCEPT ![m.call] = TRUE] /\ UNCHANGED have
      BY <2>1, <3>3
    <3>4. CASE /\ m.body # "refused"
               /\ have' = [have EXCEPT ![m.call] = @ \cup {m.body}] /\ UNCHANGED refusal
      BY <2>1, <3>1, <3>4
    <3> QED
      BY <2>2, <3>2, <3>3, <3>4 DEF HandleChunk
  <2>3. CASE ~HandleChunk(m)
    BY <2>1, <2>3 DEF HandleFrame, HandleAction, HandleReply, HandleSensor
  <2> QED
    BY <2>2, <2>3
<1>5. CallsOK'
  BY <1>1, <1>3, <1>4 DEF CallsOK
<1>6. StatesOK'
  <2>1. CASE HandleAction(m)
    <3>1. states' = Heard(m.call, m.body) /\ m.call \in Actions /\ m.body \in Progress \ {"none"}
      BY <2>1 DEF HandleAction, Spoken
    <3> QED
      BY <3>1, HeardKept
  <2>2. CASE UNCHANGED states
    BY <2>2 DEF StatesOK
  <2> QED
    BY <2>1, <2>2 DEF HandleFrame, HandleReply, HandleSensor, HandleChunk
<1> QED
  BY <1>2, <1>5, <1>6

\* Every step keeps the other types.
LEMMA OthersKept ==
  ASSUME RepliesAssumption, Types, Others, [Next]_vars
  PROVE  Others'
<1> USE DEF Others
<1>1. ASSUME NEW c \in Calls, Begin(c) PROVE Others'
  <2>1. /\ c \notin called /\ Cardinality(called) < MaxCalls /\ called' = called \cup {c}
        /\ registered' = IF c \in Fifo THEN registered ELSE registered \cup {c}
        /\ UNCHANGED <<open, stopped, states, have, refusal, retries, down, rate, ran>>
    BY <1>1 DEF Begin, robot
  <2>2. IsFiniteSet(called') /\ Cardinality(called') = Cardinality(called) + 1
    BY <2>1, FS_AddElement DEF CallsOK
  <2>3. Cardinality(called') <= MaxCalls
    BY <2>1, <2>2, RepliesAssumption, FS_CardinalityType DEF CallsOK
  <2>4. registered' \subseteq Calls \ Fifo
    BY <2>1 DEF CallsOK
  <2> QED
    BY <2>1, <2>2, <2>3, <2>4 DEF CallsOK, EndsOK, Spoken, StatesOK
<1>2. ASSUME NEW c \in Calls, Again(c) PROVE Others'
  <2>1. /\ retries' = retries + 1 /\ retries < MaxRetries
        /\ UNCHANGED <<open, stopped, called, registered, states, have, refusal, down, rate, ran>>
    BY <1>2 DEF Again, robot
  <2>2. retries' \in 0 .. MaxRetries
    BY <2>1, RepliesAssumption DEF CallsOK
  <2> QED
    BY <2>1, <2>2 DEF CallsOK, EndsOK, Spoken, StatesOK
<1>3. ASSUME registered' \subseteq registered,
             UNCHANGED <<open, called, states, have, refusal, retries, down, rate, ran>>,
             stopped' \in BOOLEAN
      PROVE  Others'
  BY <1>3 DEF CallsOK, EndsOK, Spoken, StatesOK
<1>4. ASSUME NEW c \in Calls,
             Leaves(c) \/ \E how \in {"timedout", "abandoned"} : Expires(c, how)
      PROVE  Others'
  BY <1>3, <1>4 DEF Leaves, Expires, robot, EndsOK
<1>5. ASSUME NEW f \in Stills, StillEnds(f) PROVE Others'
  BY <1>3, <1>5 DEF StillEnds, robot, EndsOK
<1>6. CASE Stop
  BY <1>3, <1>6 DEF Stop, robot
<1>7. ASSUME NEW r \in up, RobotHandles(r) PROVE Others'
  <2>1. UNCHANGED <<open, stopped, called, registered, states, have, refusal, retries>>
    BY <1>7 DEF RobotHandles, client
  <2>2. rate' \in Sensors \cup {None} /\ ran' \subseteq Sensors
    BY <1>7 DEF RobotHandles, TakeAction, SetRate, Obey, Serve, robot, EndsOK
  <2> QED
    BY <1>7, <2>1, <2>2, RobotSpeaks DEF CallsOK, EndsOK, StatesOK
<1>8. ASSUME NEW a \in Actions, Advance(a) PROVE Others'
  <2>1. PICK state \in {"active"} \cup Verdicts : down' = down \cup Says(a, {state})
    BY <1>8 DEF Advance
  <2>2. state \in Progress \ {"none"} /\ a \notin Stills
    BY RepliesAssumption DEF Progress, Verdicts
  <2>3. \A m \in down' : m \in down \/ (m.call = a /\ m.body = state)
    BY <2>1 DEF Says
  <2>4. Spoken'
    BY <2>2, <2>3 DEF Spoken
  <2>5. UNCHANGED <<open, stopped, called, registered, states, have, refusal, retries, rate, ran>>
    BY <1>8 DEF Advance, client
  <2> QED
    BY <2>4, <2>5 DEF CallsOK, EndsOK, StatesOK
<1>9. CASE ChannelCloses
  BY <1>9 DEF ChannelCloses, client, robot, CallsOK, EndsOK, Spoken, StatesOK
<1>10. CASE UNCHANGED vars
  BY <1>10 DEF vars, client, robot, CallsOK, EndsOK, Spoken, StatesOK
<1>11. ASSUME NEW m \in down, HandleFrame(m) PROVE Others'
  BY <1>11, HandledKeeps
<1> HIDE DEF Others
<1> QED
  BY <1>1, <1>2, <1>4, <1>5, <1>6, <1>7, <1>8, <1>9, <1>10, <1>11 DEF Next

\* The initial state has the other types.
LEMMA OthersFirst == RepliesAssumption /\ Init => Others
<1> SUFFICES ASSUME RepliesAssumption, Init PROVE Others
  OBVIOUS
<1>1. CallsOK
  <2>1. IsFiniteSet(called) /\ Cardinality(called) <= MaxCalls
    BY FS_EmptySet, RepliesAssumption DEF Init
  <2>2. have \in [Stills -> SUBSET Chunks] /\ refusal \in [Stills -> BOOLEAN]
    BY DEF Init
  <2> QED
    BY <2>1, <2>2, RepliesAssumption DEF Init, CallsOK
<1>2. EndsOK /\ Spoken
  BY DEF Init, EndsOK, Spoken
<1>3. StatesOK
  <2>1. <<>> \in Seq(Entry) /\ Len(<<>>) = 0 /\ DOMAIN <<>> = {}
    BY EmptySeq
  <2> QED
    BY <2>1, RepliesAssumption DEF Init, StatesOK, Apart
<1> QED
  BY <1>1, <1>2, <1>3 DEF Others

\* The variables keep their types: no more calls, retries and verdicts than there may be, and of
\* each action one verdict, the history being an OrderedDict by its id (teleop.py 1612-1616).
THEOREM TypeCorrect == Spec => []TypeOK
<1>1. ASSUME Types, Others PROVE TypeOK
  BY <1>1 DEF Types, Calling, Lists, Frames, Others, CallsOK, EndsOK, StatesOK, Entry, Apart, TypeOK
<1>2. Types /\ Others /\ [Next]_vars => Others'
  BY OthersKept, RepliesAssumption
<1>3. Init => Others
  BY OthersFirst, RepliesAssumption
<1> QED
  BY <1>1, <1>2, <1>3, TypesAlways, PTL DEF Spec
=============================================================================
