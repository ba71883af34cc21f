---------------------------- MODULE StreamsProofs ----------------------------
(***************************************************************************)
(* Theorems about the events of RemoteTeleop, for any number of streams,   *)
(* listeners and frames and every size of a queue: their types, that no    *)
(* listener is skipped, that a slow consumer misses old frames only, and   *)
(* that it is handed one more frame at most once stop() was called.        *)
(***************************************************************************)
EXTENDS Streams, FiniteSetTheorems, SequenceTheorems, TLAPS

-----------------------------------------------------------------------------
(* Sequences *)

\* A set of naturals has a least element: its initial segments are well-founded.
LEMMA LeastOf ==
  ASSUME NEW T, T \subseteq Nat, T # {}
  PROVE  Min(T) \in T
<1> DEFINE F == {1 .. x : x \in T}
<1>1. F \subseteq FiniteSubsetsOf(Nat)
  <2>1. ASSUME NEW x \in T PROVE 1 .. x \subseteq Nat /\ IsFiniteSet(1 .. x)
    BY FS_Interval
  <2> QED
    BY <2>1 DEF FiniteSubsetsOf
<1>2. PICK x \in T : \A U \in F : <<U, 1 .. x>> \notin StrictSubsetOrdering(Nat)
  <2>1. F # {}
    OBVIOUS
  <2>2. PICK V \in F : \A U \in F : <<U, V>> \notin StrictSubsetOrdering(Nat)
    BY <1>1, <2>1, FS_StrictSubsetOrderingWellFounded, WFMin
  <2> QED
    BY <2>2
<1>3. ASSUME NEW y \in T, ~(x <= y) PROVE FALSE
  <2>1. 1 .. y \subseteq 1 .. x /\ x \in 1 .. x /\ x \notin 1 .. y
    BY <1>3
  <2>2. <<1 .. y, 1 .. x>> \in StrictSubsetOrdering(Nat)
    BY <1>1, <2>1 DEF StrictSubsetOrdering, FiniteSubsetsOf
  <2> QED
    BY <1>2, <2>2
<1> QED
  BY <1>3 DEF Min

\* The elements that are left, one after the other, when the one at a place is taken out.
LEMMA Removed ==
  ASSUME NEW S, NEW q \in Seq(S), NEW k \in 1 .. Len(q)
  PROVE  /\ Len(q) \in Nat /\ Len(RemoveAt(q, k)) = Len(q) - 1
         /\ \A i \in 1 .. Len(q) - 1 : RemoveAt(q, k)[i] = IF i < k THEN q[i] ELSE q[i + 1]
<1> DEFINE a == SubSeq(q, 1, k - 1)
           b == SubSeq(q, k + 1, Len(q))
           r == RemoveAt(q, k)
<1>1. Len(q) \in Nat /\ k \in Nat /\ k >= 1 /\ k <= Len(q)
  BY LenProperties
<1>2. \A i \in 1 .. Len(q) : q[i] \in S
  BY ElementOfSeq
<1>3. a \in Seq(S) /\ Len(a) = k - 1 /\ \A i \in 1 .. k - 1 : a[i] = q[i]
  <2>1. 1 \in Int /\ k - 1 \in Int /\ \A i \in 1 .. k - 1 : q[i] \in S
    BY <1>1, <1>2
  <2>2. /\ a \in Seq(S) /\ Len(a) = IF 1 <= k - 1 THEN (k - 1) - 1 + 1 ELSE 0
        /\ \A i \in 1 .. (k - 1) - 1 + 1 : a[i] = q[1 + i - 1]
    BY <2>1, SubSeqProperties
  <2> HIDE DEF a
  <2> QED
    BY <2>2, <1>1
<1>4. b \in Seq(S) /\ Len(b) = Len(q) - k /\ \A i \in 1 .. Len(q) - k : b[i] = q[k + i]
  <2>1. k + 1 \in Int /\ Len(q) \in Int /\ \A i \in k + 1 .. Len(q) : q[i] \in S
    BY <1>1, <1>2
  <2>2. /\ b \in Seq(S) /\ Len(b) = IF k + 1 <= Len(q) THEN Len(q) - (k + 1) + 1 ELSE 0
        /\ \A i \in 1 .. Len(q) - (k + 1) + 1 : b[i] = q[k + 1 + i - 1]
    BY <2>1, SubSeqProperties
  <2> HIDE DEF b
  <2> QED
    BY <2>2, <1>1
<1>5. r = a \o b
  BY DEF RemoveAt
<1> HIDE DEF a, b, r
<1>6. /\ Len(r) = Len(a) + Len(b)
      /\ \A i \in 1 .. Len(a) + Len(b) : r[i] = IF i <= Len(a) THEN a[i] ELSE b[i - Len(a)]
  <2>1. a \in Seq(S) /\ b \in Seq(S)
    BY <1>3, <1>4
  <2>2. /\ Len(a \o b) = Len(a) + Len(b)
        /\ \A i \in 1 .. Len(a) + Len(b) :
             (a \o b)[i] = IF i <= Len(a) THEN a[i] ELSE b[i - Len(a)]
    BY <2>1, ConcatProperties
  <2> QED
    BY <1>5, <2>2
<1>7. Len(r) = Len(q) - 1
  BY <1>1, <1>3, <1>4, <1>6
<1>8. ASSUME NEW i \in 1 .. Len(q) - 1 PROVE r[i] = IF i < k THEN q[i] ELSE q[i + 1]
  <2>1. i \in 1 .. Len(a) + Len(b)
    BY <1>1, <1>3, <1>4, <1>8
  <2>2. CASE i < k
    BY <1>1, <1>3, <1>6, <2>1, <2>2
  <2>3. CASE i >= k
    <3>1. i - (k - 1) \in 1 .. Len(q) - k /\ k + (i - (k - 1)) = i + 1
      BY <1>1, <2>3
    <3>2. r[i] = b[i - (k - 1)]
      BY <1>1, <1>3, <1>6, <2>1, <2>3
    <3> QED
      BY <1>1, <1>4, <2>3, <3>1, <3>2
  <2> QED
    BY <1>1, <2>2, <2>3
<1> QED
  BY <1>1, <1>7, <1>8 DEF r

\* A value is in a list, once, or not at all.
Has(q, e)   == \E i \in 1 .. Len(q) : q[i] = e
Once(q, e)  == \E i \in 1 .. Len(q) : q[i] = e /\ \A j \in 1 .. Len(q) : q[j] = e => j = i
Never(q, e) == \A i \in 1 .. Len(q) : q[i] # e

\* list.remove takes out the element at some place, if it is there at all.
LEMMA RemoveFirstAt ==
  ASSUME NEW S, NEW q \in Seq(S), NEW e
  PROVE  \/ Never(q, e) /\ RemoveFirst(q, e) = q
         \/ \E k \in 1 .. Len(q) : q[k] = e /\ RemoveFirst(q, e) = RemoveAt(q, k)
<1> DEFINE I == {i \in 1 .. Len(q) : q[i] = e}
<1>1. CASE I # {}
  <2>1. Min(I) \in I
    <3>1. I \subseteq Nat
      OBVIOUS
    <3> HIDE DEF I
    <3> QED
      BY <1>1, <3>1, LeastOf
  <2>2. RemoveFirst(q, e) = RemoveAt(q, Min(I))
    BY <1>1 DEF RemoveFirst, SelectInSeq
  <2>3. Min(I) \in 1 .. Len(q) /\ q[Min(I)] = e
    BY <2>1
  <2> HIDE DEF I
  <2> QED
    BY <2>2, <2>3
<1>2. CASE I = {}
  BY <1>2 DEF RemoveFirst, Never
<1> QED
  BY <1>1, <1>2

\* What is left is a list, and of the others as many as before.
LEMMA RemoveFirstKeeps ==
  ASSUME NEW S, NEW q \in Seq(S), NEW e
  PROVE  /\ RemoveFirst(q, e) \in Seq(S)
         /\ Once(q, e) => Never(RemoveFirst(q, e), e)
         /\ \A d : d # e => /\ Has(q, d) => Has(RemoveFirst(q, e), d)
                            /\ Once(q, d) => Once(RemoveFirst(q, e), d)
                            /\ Never(q, d) => Never(RemoveFirst(q, e), d)
<1> DEFINE r == RemoveFirst(q, e)
<1>1. CASE Never(q, e) /\ r = q
  BY <1>1 DEF Once, Never
<1>2. ASSUME NEW k \in 1 .. Len(q), q[k] = e, r = RemoveAt(q, k)
      PROVE  /\ r \in Seq(S) /\ (Once(q, e) => Never(r, e))
             /\ \A d : d # e => /\ Has(q, d) => Has(r, d)
                                /\ Once(q, d) => Once(r, d)
                                /\ Never(q, d) => Never(r, d)
  <2>1. r \in Seq(S)
    <3>1. SubSeq(q, 1, k - 1) \in Seq(S) /\ SubSeq(q, k + 1, Len(q)) \in Seq(S)
      BY ElementOfSeq, LenProperties, SubSeqProperties
    <3> QED
      BY <1>2, <3>1, ConcatProperties DEF RemoveAt
  <2>2. /\ Len(q) \in Nat /\ k \in Nat /\ k >= 1 /\ k <= Len(q) /\ Len(r) = Len(q) - 1
        /\ \A i \in 1 .. Len(q) - 1 : r[i] = IF i < k THEN q[i] ELSE q[i + 1]
    <3>1. /\ Len(q) \in Nat /\ Len(RemoveAt(q, k)) = Len(q) - 1
          /\ \A i \in 1 .. Len(q) - 1 : RemoveAt(q, k)[i] = IF i < k THEN q[i] ELSE q[i + 1]
      BY Removed
    <3> HIDE DEF r
    <3> QED
      BY <1>2, <3>1
  <2> HIDE DEF r
  <2>3. \A i \in 1 .. Len(r) : \E j \in 1 .. Len(q) : j # k /\ q[j] = r[i]
    BY <2>2
  <2>4. ASSUME NEW j \in 1 .. Len(q), j # k
        PROVE  \E i \in 1 .. Len(r) : r[i] = q[j]
    <3>1. CASE j < k
      BY <2>2, <3>1
    <3>2. CASE j > k
      <4>1. j - 1 \in 1 .. Len(r) /\ r[j - 1] = q[j]
        BY <2>2, <3>2
      <4> QED
        BY <4>1
    <3> QED
      BY <2>2, <2>4, <3>1, <3>2
  <2>5. Once(q, e) => Never(r, e)
    BY <1>2, <2>3 DEF Once, Never
  <2>6. ASSUME NEW d, d # e, Has(q, d) PROVE Has(r, d)
    BY <1>2, <2>4, <2>6 DEF Has
  <2>7. ASSUME NEW d, d # e, Never(q, d) PROVE Never(r, d)
    BY <2>3, <2>7 DEF Never
  <2>8. ASSUME NEW d, d # e, Once(q, d) PROVE Once(r, d)
    <3>1. PICK j \in 1 .. Len(q) : q[j] = d /\ \A i \in 1 .. Len(q) : q[i] = d => i = j
      BY <2>8 DEF Once
    <3>2. PICK i \in 1 .. Len(r) : r[i] = d
      BY <1>2, <2>4, <2>8, <3>1
    <3>3. \A h \in 1 .. Len(r) : r[h] = d => h = i
      <4>1. \A h \in 1 .. Len(r) : r[h] = d => IF h < k THEN h = j ELSE h + 1 = j
        BY <2>2, <3>1
      <4> QED
        BY <2>2, <3>1, <3>2, <4>1
    <3> QED
      BY <3>2, <3>3 DEF Once
  <2> QED
    BY <2>1, <2>5, <2>6, <2>7, <2>8
<1> QED
  BY <1>1, <1>2, RemoveFirstAt

\* An element that is appended is there once, if it was not there, and the others as before.
LEMMA AppendKeeps ==
  ASSUME NEW S, NEW q \in Seq(S), NEW e \in S
  PROVE  /\ Append(q, e) \in Seq(S) /\ Has(Append(q, e), e)
         /\ Never(q, e) => Once(Append(q, e), e)
         /\ \A d : /\ Has(q, d) => Has(Append(q, e), d)
                   /\ d # e => /\ Once(q, d) => Once(Append(q, e), d)
                               /\ Never(q, d) => Never(Append(q, e), d)
<1> DEFINE r == Append(q, e)
<1>1. /\ Len(q) \in Nat /\ r \in Seq(S) /\ Len(r) = Len(q) + 1 /\ r[Len(q) + 1] = e
      /\ \A i \in 1 .. Len(q) : r[i] = q[i]
  BY AppendProperties, LenProperties
<1> HIDE DEF r
<1>2. Len(q) + 1 \in 1 .. Len(r) /\ \A i \in 1 .. Len(r) : i \in 1 .. Len(q) \/ i = Len(q) + 1
  BY <1>1
<1>3. \A i \in 1 .. Len(q) : i \in 1 .. Len(r)
  BY <1>1
<1>4. Has(r, e) /\ \A d : Has(q, d) => Has(r, d)
  BY <1>1, <1>2, <1>3 DEF Has
<1>5. Never(q, e) => Once(r, e)
  BY <1>1, <1>2 DEF Once, Never
<1>6. ASSUME NEW d, d # e
      PROVE  (Once(q, d) => Once(r, d)) /\ (Never(q, d) => Never(r, d))
  BY <1>1, <1>2, <1>3, <1>6 DEF Once, Never
<1> QED
  BY <1>1, <1>4, <1>5, <1>6 DEF r

-----------------------------------------------------------------------------
(* What a step does *)

\* A listener, or nobody, subscribes or unsubscribes.
Listens ==
  \/ UNCHANGED <<subs, reg, since>>
  \/ \E h \in Handles : Subscribes(h) \/ Unsubscribes(h)

\* The steps of a stream's consumer: the generator begins or is too late to, yields a frame,
\* waits, is left suspended, or comes to its finally clause.
Opens(s) ==
  /\ at[s] = "new" /\ ~stopped
  /\ at' = [at EXCEPT ![s] = "parked"] /\ subs' = Append(subs, s)
  /\ last' = [last EXCEPT ![s] = n] /\ UNCHANGED <<queue, spare>>
Declines(s) ==
  /\ at[s] = "new"
  /\ at' = [at EXCEPT ![s] = "ended"]
  /\ last' = [last EXCEPT ![s] = n] /\ UNCHANGED <<queue, spare, subs>>
Yields(s) ==
  /\ at[s] = "parked" \/ (at[s] = "handed" /\ ~stopped)
  /\ queue[s] # <<>> /\ Head(queue[s]) # Closed
  /\ at' = [at EXCEPT ![s] = "handed"]
  /\ queue' = [queue EXCEPT ![s] = Tail(@)] /\ last' = [last EXCEPT ![s] = Head(queue[s])]
  /\ spare' = IF stopped THEN [spare EXCEPT ![s] = @ + 1] ELSE spare
  /\ UNCHANGED subs
Parks(s) ==
  /\ at[s] = "handed" /\ ~stopped
  /\ at' = [at EXCEPT ![s] = "parked"] /\ UNCHANGED <<queue, last, spare, subs>>
Departs(s) ==
  /\ at[s] = "handed"
  /\ at' = [at EXCEPT ![s] = "left"] /\ UNCHANGED <<queue, last, spare, subs>>
Closes(s) == Open(s) /\ Finally(s) /\ UNCHANGED <<last, spare>>
Consumes(s) ==
  /\ Quiet /\ UNCHANGED <<session, n, round, tasks, hearing>>
  /\ \/ Opens(s) \/ Declines(s)
     \/ (Yields(s) \/ Parks(s) \/ Departs(s) \/ Closes(s)) /\ UNCHANGED seat

\* Every step of a consumer is one of them.
LEMMA ConsumerSteps ==
  ASSUME NEW s \in Queues,
         Begin(s) \/ Take(s) \/ Resume(s) \/ CancelGet(s) \/ Leave(s) \/ Aclose(s)
  PROVE  Consumes(s) /\ (UNCHANGED seat \/ seat' = [seat EXCEPT ![s] = starts])
<1>1. CASE Begin(s)
  BY <1>1 DEF Begin, Consumes, Opens, Declines
<1>2. ASSUME Get(s), queue[s] # <<>>, at[s] = "parked" \/ (at[s] = "handed" /\ ~stopped)
      PROVE  Yields(s) \/ Closes(s)
  BY <1>2 DEF Get, Yields, Closes, Open
<1>3. CASE Take(s)
  BY <1>2, <1>3 DEF Take, Consumes
<1>4. CASE Resume(s)
  <2>1. CASE ~GoesOn
    BY <1>4, <2>1 DEF Resume, Consumes, Closes, Open
  <2>2. CASE GoesOn /\ queue[s] # <<>>
    <3>1. Get(s) /\ at[s] = "handed" /\ ~stopped /\ Quiet
          /\ UNCHANGED <<session, n, round, tasks, seat, hearing>>
      BY <1>4, <2>2 DEF Resume, GoesOn
    <3>2. Yields(s) \/ Closes(s)
      BY <1>2, <2>2, <3>1
    <3> QED
      BY <3>1, <3>2 DEF Consumes
  <2>3. CASE GoesOn /\ queue[s] = <<>>
    BY <1>4, <2>3 DEF Resume, Consumes, Parks, GoesOn
  <2> QED
    BY <2>1, <2>2, <2>3
<1>5. CASE CancelGet(s)
  BY <1>5 DEF CancelGet, Consumes, Closes, Open
<1>6. CASE Leave(s)
  BY <1>6 DEF Leave, Consumes, Departs
<1>7. CASE Aclose(s)
  BY <1>7 DEF Aclose, Consumes, Closes, Open
<1> QED
  BY <1>1, <1>3, <1>4, <1>5, <1>6, <1>7

-----------------------------------------------------------------------------
(* Types *)

SessionOK ==
  /\ stage \in Stages /\ starts \in 0 .. MaxStarts /\ n \in 0 .. MaxFrames
  /\ at \in [Queues -> {"new", "parked", "handed", "left", "ended"}]
  /\ seat \in [Queues -> 0 .. MaxStarts]
HearingOK ==
  /\ tasks \in Seq(Async \X Frames)
  /\ reg \in [Handles -> {"none", "on", "off"}] /\ since \in [Handles -> 0 .. MaxFrames]
  /\ heard \in [Callbacks -> 0 .. MaxFrames]
Ears   == Queues \cup Callbacks
ListOK == subs \in Seq(Ears) /\ round \in Round \cup {None}
QueueOK ==
  /\ queue \in [Queues -> Seq(Frames \cup {Closed})]
  /\ \A s \in Queues : Len(queue[s]) <= MaxSize /\ (at[s] = "new" => queue[s] = <<>>)
  /\ last \in [Queues -> 0 .. MaxFrames] /\ spare \in [Queues -> Nat]
Types == SessionOK /\ HearingOK /\ ListOK /\ QueueOK

\* The list of listeners, and the copy of a round, name each open stream once and no other.
Names(list) == \A s \in Queues : IF Open(s) THEN Once(list, s) ELSE Never(list, s)
Listed ==
  /\ Names(subs)
  /\ round # None => Names(round.list) /\ round.frame = n /\ n > 0 /\ round.i > 0

\* The steps of the session, the frames and the generators keep their types.
LEMMA SessionStep ==
  ASSUME SessionOK, [Next]_vars
  PROVE  SessionOK'
<1> USE StreamsAssumption DEF SessionOK
<1>1. ASSUME NEW s \in Queues,
             Begin(s) \/ Take(s) \/ Resume(s) \/ CancelGet(s) \/ Leave(s) \/ Aclose(s)
      PROVE  SessionOK'
  <2>1. Consumes(s) /\ (UNCHANGED seat \/ seat' = [seat EXCEPT ![s] = starts])
    BY <1>1, ConsumerSteps
  <2>2. UNCHANGED <<stage, starts, n>> /\ seat' \in [Queues -> 0 .. MaxStarts]
    BY <2>1 DEF Consumes, session
  <2>3. at' \in [Queues -> {"new", "parked", "handed", "left", "ended"}]
    BY <2>1 DEF Consumes, Opens, Declines, Yields, Parks, Departs, Closes, Finally
  <2> QED
    BY <2>2, <2>3
<1>2. CASE Emit
  BY <1>2 DEF Emit, session, streams
<1>3. CASE Start
  BY <1>3 DEF Start, Stages
<1>4. CASE StopBegins \/ StopWakes \/ StopEnds
  BY <1>4 DEF StopBegins, StopWakes, StopEnds, Stages, streams
<1>5. CASE EmitToQueue \/ EmitToListener \/ EmitEnds \/ RunTask \/ UNCHANGED vars
  BY <1>5 DEF EmitToQueue, EmitToListener, EmitEnds, RunTask, session, streams, vars
<1>6. ASSUME NEW h \in Handles, On(h) \/ Unsubscribe(h) PROVE SessionOK'
  BY <1>6 DEF On, Unsubscribe, session, streams
<1> QED
  BY <1>1, <1>2, <1>3, <1>4, <1>5, <1>6 DEF Next

\* What a step may do to the listeners of on().
LEMMA ListenStep ==
  ASSUME HearingOK, NEW m \in 0 .. MaxFrames, n = m, Listens
  PROVE  reg' \in [Handles -> {"none", "on", "off"}] /\ since' \in [Handles -> 0 .. MaxFrames]
  BY DEF HearingOK, Listens, Subscribes, Unsubscribes

\* The coroutines spawned and the histories of the listeners keep their types.
LEMMA HearingStep ==
  ASSUME SessionOK, ListOK, HearingOK, [Next]_vars
  PROVE  HearingOK'
<1> USE DEF HearingOK
<1>1. ASSUME Listens, NEW t \in Seq(Async \X Frames), tasks' = t, UNCHANGED heard PROVE HearingOK'
  BY <1>1, ListenStep DEF SessionOK
<1>2. ASSUME NEW h \in Handles, On(h) \/ Unsubscribe(h) PROVE HearingOK'
  BY <1>1, <1>2 DEF On, Unsubscribe, Listens
<1>3. CASE RunTask
  <2>1. Tail(tasks) \in Seq(Async \X Frames)
    BY <1>3, HeadTailProperties DEF RunTask
  <2> QED
    BY <1>1, <1>3, <2>1 DEF RunTask, Listens
<1>4. CASE EmitToListener
  <2>1. Called \in Callbacks /\ round \in Round /\ round.frame \in Frames
    BY <1>4 DEF EmitToListener, Calling, ListOK, Round
  <2>2. heard' \in [Callbacks -> 0 .. MaxFrames]
    BY <1>4, <2>1 DEF EmitToListener, Frames
  <2>3. CASE Called \in Async
    <3>1. <<Called, round.frame>> \in Async \X Frames
      BY <2>1, <2>3
    <3>2. tasks' = Append(tasks, <<Called, round.frame>>) /\ UNCHANGED <<subs, reg, since>>
      BY <1>4, <2>3 DEF EmitToListener
    <3>3. tasks' \in Seq(Async \X Frames)
      BY <3>1, <3>2, AppendProperties
    <3> QED
      BY <2>2, <3>2, <3>3
  <2>4. CASE Called \notin Async
    <3>1. Listens /\ UNCHANGED tasks
      BY <1>4, <2>4 DEF EmitToListener, Listens
    <3> QED
      BY <2>2, <3>1, ListenStep DEF SessionOK
  <2> QED
    BY <2>3, <2>4
<1>5. CASE StopWakes
  <2>1. <<>> \in Seq(Async \X Frames)
    BY EmptySeq
  <2> QED
    BY <1>5, <2>1 DEF StopWakes, hearing
<1>6. CASE Emit \/ EmitToQueue \/ EmitEnds \/ Start \/ StopBegins \/ StopEnds \/ UNCHANGED vars
  BY <1>6 DEF Emit, EmitToQueue, EmitEnds, Start, StopBegins, StopEnds, hearing, vars
<1>7. ASSUME NEW s \in Queues,
             Begin(s) \/ Take(s) \/ Resume(s) \/ CancelGet(s) \/ Leave(s) \/ Aclose(s)
      PROVE  HearingOK'
  BY <1>7, ConsumerSteps DEF Consumes, hearing
<1> QED
  BY <1>2, <1>3, <1>4, <1>5, <1>6, <1>7 DEF Next

\* Subscribing and unsubscribing changes the list, and of no stream.
LEMMA ListenKeeps ==
  ASSUME ListOK, Listens
  PROVE  /\ subs' \in Seq(Ears)
         /\ \A s \in Queues : /\ Once(subs, s) => Once(subs', s)
                              /\ Never(subs, s) => Never(subs', s)
<1>1. CASE UNCHANGED <<subs, reg, since>>
  BY <1>1 DEF ListOK
<1>2. ASSUME NEW h \in Handles, Subscribes(h) \/ Unsubscribes(h)
      PROVE  /\ subs' \in Seq(Ears)
             /\ \A s \in Queues : /\ Once(subs, s) => Once(subs', s)
                                  /\ Never(subs, s) => Never(subs', s)
  <2>1. Callback[h] \in Callbacks /\ Callback[h] \in Ears /\ \A s \in Queues : s # Callback[h]
    BY StreamsAssumption DEF Ears
  <2>2. CASE subs' = Append(subs, Callback[h])
    BY <2>1, <2>2, AppendKeeps DEF ListOK
  <2>3. CASE subs' = RemoveFirst(subs, Callback[h])
    BY <2>1, <2>3, RemoveFirstKeeps DEF ListOK
  <2> QED
    BY <1>2, <2>2, <2>3 DEF Subscribes, Unsubscribes
<1> QED
  BY <1>1, <1>2 DEF Listens

\* Nothing that a callback does, nor any other step that leaves the generators alone, changes
\* which streams the list names.
LEMMA NamesKept ==
  ASSUME ListOK, Listens, Names(subs), UNCHANGED at
  PROVE  Names(subs)'
  BY ListenKeeps DEF Names, Open

\* A step of a consumer opens or closes one stream, and lists or unlists it.
LEMMA ConsumerLists ==
  ASSUME SessionOK, ListOK, Names(subs), NEW s \in Queues, Consumes(s)
  PROVE  subs' \in Seq(Ears) /\ Names(subs)'
<1> USE DEF ListOK
<1>1. s \in Ears
  BY DEF Ears
<1>2. CASE Opens(s)
  <2>1. Never(subs, s) /\ at'[s] = "parked" /\ \A t \in Queues : t # s => at'[t] = at[t]
    BY <1>2 DEF Opens, Names, Open, SessionOK
  <2>2. subs' = Append(subs, s)
    BY <1>2 DEF Opens
  <2> QED
    BY <1>1, <2>1, <2>2, AppendKeeps DEF Names, Open
<1>3. CASE Closes(s)
  <2>1. Once(subs, s) /\ at'[s] = "ended" /\ \A t \in Queues : t # s => at'[t] = at[t]
    BY <1>3 DEF Closes, Finally, Names, SessionOK
  <2>2. subs' = RemoveFirst(subs, s)
    BY <1>3 DEF Closes, Finally
  <2> QED
    BY <1>1, <2>1, <2>2, RemoveFirstKeeps DEF Names, Open
<1>4. CASE Declines(s) \/ Yields(s) \/ Parks(s) \/ Departs(s)
  <2>1. UNCHANGED subs /\ \A t \in Queues : Open(t)' <=> Open(t)
    BY <1>4 DEF Declines, Yields, Parks, Departs, Open, SessionOK
  <2> QED
    BY <2>1 DEF Names
<1> QED
  BY <1>2, <1>3, <1>4 DEF Consumes

\* The list of listeners and the round keep their types, and name the open streams.
LEMMA ListStep ==
  ASSUME SessionOK, ListOK, Listed, [Next]_vars
  PROVE  ListOK' /\ Listed'
<1>1. Names(subs) /\ subs \in Seq(Ears) /\ round \in Round \cup {None}
  BY DEF Listed, ListOK
<1>2. ASSUME NEW s \in Queues,
             Begin(s) \/ Take(s) \/ Resume(s) \/ CancelGet(s) \/ Leave(s) \/ Aclose(s)
      PROVE  ListOK' /\ Listed'
  <2>1. Consumes(s) /\ round = None /\ round' = None
    BY <1>2, ConsumerSteps DEF Consumes, Quiet
  <2>2. subs' \in Seq(Ears) /\ Names(subs)'
    BY <1>1, <2>1, ConsumerLists
  <2> QED
    BY <2>1, <2>2 DEF ListOK, Listed, Names
<1>3. ASSUME Listens, UNCHANGED <<at, round, n>> PROVE ListOK' /\ Listed'
  <2>1. subs' \in Seq(Ears) /\ Names(subs)'
    BY <1>1, <1>3, ListenKeeps, NamesKept
  <2> QED
    BY <1>1, <1>3, <2>1 DEF ListOK, Listed, Names, Open
<1>4. ASSUME NEW h \in Handles, On(h) \/ Unsubscribe(h) PROVE ListOK' /\ Listed'
  BY <1>3, <1>4 DEF On, Unsubscribe, Listens, streams
<1>5. CASE RunTask
  BY <1>3, <1>5 DEF RunTask, Listens, streams
<1>6. CASE Emit
  <2>1. n + 1 \in Frames /\ n + 1 > 0 /\ subs \in Seq(Ears)
    BY <1>1, <1>6, StreamsAssumption DEF Emit, Frames, SessionOK
  <2>2. round' = [frame |-> n + 1, list |-> subs, i |-> 1] /\ n' = n + 1 /\ UNCHANGED <<subs, at>>
    BY <1>6 DEF Emit, streams
  <2>3. round' \in Round
    BY <2>1, <2>2 DEF Round, Ears
  <2> QED
    BY <1>1, <2>1, <2>2, <2>3 DEF ListOK, Listed, Names, Open
<1>7. ASSUME Advance, round # None, Listens, UNCHANGED <<at, n>> PROVE ListOK' /\ Listed'
  <2>1. subs' \in Seq(Ears) /\ Names(subs)'
    BY <1>1, <1>7, ListenKeeps, NamesKept
  <2>2. round \in Round
    BY <1>1, <1>7
  <2>3. /\ round' \in Round /\ round'.i = round.i + 1
        /\ round'.list = round.list /\ round'.frame = round.frame
    BY <1>7, <2>2 DEF Advance, Round
  <2>4. Names(round.list) /\ round.frame = n /\ n > 0 /\ round.i > 0 /\ round.i \in Nat
    BY <1>7, <2>2 DEF Listed, Round
  <2>5. Names(round.list)' /\ round'.frame = n' /\ n' > 0 /\ round'.i > 0
    BY <1>7, <2>3, <2>4 DEF Names, Open
  <2> QED
    BY <2>1, <2>3, <2>5 DEF ListOK, Listed, Names
<1>8. CASE EmitToQueue
  BY <1>7, <1>8 DEF EmitToQueue, Calling, Listens, hearing
<1>9. CASE EmitToListener
  BY <1>7, <1>9 DEF EmitToListener, Calling, Listens, streams
<1>10. CASE EmitEnds
  BY <1>1, <1>10 DEF EmitEnds, ListOK, Listed, Names, Open, streams
<1>11. CASE Start \/ StopBegins \/ StopWakes \/ StopEnds \/ UNCHANGED vars
  BY <1>3, <1>11 DEF Start, StopBegins, StopWakes, StopEnds, Listens, streams, hearing, vars
<1> QED
  BY <1>2, <1>4, <1>5, <1>6, <1>8, <1>9, <1>10, <1>11 DEF Next

\* Putting sheds the oldest element of a full queue, and so never makes one longer than it may be.
LEMMA PutBounds ==
  ASSUME NEW S, NEW q \in Seq(S), NEW v \in S, Len(q) <= MaxSize
  PROVE  Put(q, v) \in Seq(S) /\ Len(Put(q, v)) <= MaxSize /\ Len(Put(q, v)) > 0
<1>1. CASE Len(q) >= MaxSize
  <2>1. Len(q) \in Nat /\ q # <<>>
    BY <1>1, StreamsAssumption, LenProperties, EmptySeq
  <2>2. Tail(q) \in Seq(S) /\ Len(Tail(q)) = Len(q) - 1
    BY <2>1, HeadTailProperties
  <2>3. Append(Tail(q), v) \in Seq(S) /\ Len(Append(Tail(q), v)) = Len(q)
    BY <2>1, <2>2, AppendProperties
  <2> QED
    BY <1>1, <2>1, <2>3, StreamsAssumption DEF Put
<1>2. CASE ~(Len(q) >= MaxSize)
  <2>1. Len(q) \in Nat /\ Append(q, v) \in Seq(S) /\ Len(Append(q, v)) = Len(q) + 1
    BY LenProperties, AppendProperties
  <2> QED
    BY <1>2, <2>1, StreamsAssumption DEF Put
<1> QED
  BY <1>1, <1>2

\* The queues and what their consumers were handed keep their types.
LEMMA QueueStep ==
  ASSUME SessionOK, ListOK, Listed, QueueOK, [Next]_vars
  PROVE  QueueOK'
<1> USE DEF QueueOK
<1> DEFINE S == Frames \cup {Closed}
<1>1. ASSUME NEW s \in Queues,
             Begin(s) \/ Take(s) \/ Resume(s) \/ CancelGet(s) \/ Leave(s) \/ Aclose(s)
      PROVE  QueueOK'
  <2>1. Consumes(s)
    BY <1>1, ConsumerSteps
  <2>2. /\ at'[s] # "new" /\ \A t \in Queues : t # s => at'[t] = at[t]
    BY <2>1 DEF Consumes, Opens, Declines, Yields, Parks, Departs, Closes, Finally, SessionOK
  <2>3. CASE Opens(s) \/ Declines(s)
    <3>1. last' \in [Queues -> 0 .. MaxFrames] /\ UNCHANGED <<queue, spare>>
      BY <2>3 DEF Opens, Declines, SessionOK
    <3> QED
      BY <2>2, <3>1
  <2>4. CASE Parks(s) \/ Departs(s)
    BY <2>2, <2>4 DEF Parks, Departs
  <2>5. CASE Closes(s)
    <3>1. <<>> \in Seq(S) /\ Len(<<>>) <= MaxSize
      BY EmptySeq, StreamsAssumption
    <3>2. queue' = [queue EXCEPT ![s] = <<>>] /\ UNCHANGED <<last, spare>>
      BY <2>5 DEF Closes, Finally
    <3> QED
      BY <2>2, <3>1, <3>2
  <2>6. CASE Yields(s)
    <3>1. queue[s] \in Seq(S) /\ queue[s] # <<>> /\ Len(queue[s]) \in Nat
      BY <2>6, LenProperties DEF Yields
    <3>2. Tail(queue[s]) \in Seq(S) /\ Len(Tail(queue[s])) = Len(queue[s]) - 1 /\ Head(queue[s]) \in S
      BY <3>1, HeadTailProperties
    <3>3. Head(queue[s]) \in 0 .. MaxFrames
      BY <3>2, StreamsAssumption DEF Frames, Closed
    <3>4. /\ queue' = [queue EXCEPT ![s] = Tail(@)]
          /\ last' = [last EXCEPT ![s] = Head(queue[s])]
          /\ spare' = [spare EXCEPT ![s] = @ + 1] \/ spare' = spare
      BY <2>6 DEF Yields
    <3>5. queue'[s] = Tail(queue[s]) /\ \A t \in Queues : t # s => queue'[t] = queue[t]
      BY <3>4
    <3>6. queue' \in [Queues -> Seq(S)]
      BY <3>2, <3>4
    <3>7. last' \in [Queues -> 0 .. MaxFrames] /\ spare' \in [Queues -> Nat]
      <4>1. last' \in [Queues -> 0 .. MaxFrames]
        BY <3>3, <3>4
      <4>2. spare \in [Queues -> Nat] /\ spare[s] + 1 \in Nat
        OBVIOUS
      <4>3. [spare EXCEPT ![s] = @ + 1] \in [Queues -> Nat]
        BY <4>2
      <4> QED
        BY <3>4, <4>1, <4>2, <4>3
    <3>8. Len(queue[s]) <= MaxSize /\ Len(Tail(queue[s])) <= MaxSize
      BY <3>1, <3>2, StreamsAssumption
    <3> QED
      BY <2>2, <3>5, <3>6, <3>7, <3>8
  <2> QED
    BY <2>1, <2>3, <2>4, <2>5, <2>6 DEF Consumes
<1>2. CASE EmitToQueue
  <2>1. Called \in Queues /\ round \in Round /\ round.frame \in S
    BY <1>2 DEF EmitToQueue, Calling, ListOK, Round
  <2>2. Put(queue[Called], round.frame) \in Seq(S) /\ Len(Put(queue[Called], round.frame)) <= MaxSize
    BY <2>1, PutBounds
  <2>3. at[Called] # "new"
    <3>1. ~Never(round.list, Called)
      BY <1>2, <2>1 DEF EmitToQueue, Calling, Called, Listening, Never, Listed, Round
    <3>2. Open(Called)
      BY <1>2, <2>1, <3>1 DEF EmitToQueue, Calling, Listed, Names
    <3> QED
      BY <3>2 DEF Open
  <2>4. /\ queue' = [queue EXCEPT ![Called] = Put(queue[Called], round.frame)]
        /\ UNCHANGED <<at, last, spare>>
    BY <1>2 DEF EmitToQueue
  <2> HIDE DEF Called
  <2> QED
    BY <2>1, <2>2, <2>3, <2>4
<1>3. CASE StopWakes
  <2>1. \A s \in Queues : /\ Put(queue[s], Closed) \in Seq(S) /\ Len(Put(queue[s], Closed)) <= MaxSize
                          /\ s \in Woken => at[s] # "new"
    BY PutBounds DEF Woken, Open
  <2>2. /\ queue' = [s \in Queues |-> IF s \in Woken THEN Put(queue[s], Closed) ELSE queue[s]]
        /\ UNCHANGED <<at, last, spare>>
    BY <1>3 DEF StopWakes
  <2> QED
    BY <2>1, <2>2
<1>4. CASE Start
  BY <1>4 DEF Start
<1>5. CASE Emit \/ EmitToListener \/ EmitEnds \/ RunTask \/ StopBegins \/ StopEnds \/ UNCHANGED vars
  BY <1>5 DEF Emit, EmitToListener, EmitEnds, RunTask, StopBegins, StopEnds, streams, vars
<1>6. ASSUME NEW h \in Handles, On(h) \/ Unsubscribe(h) PROVE QueueOK'
  BY <1>6 DEF On, Unsubscribe, streams
<1> QED
  BY <1>1, <1>2, <1>3, <1>4, <1>5, <1>6 DEF Next

\* The initial state has the types.
LEMMA InitTypes == Init => Types /\ Listed
<1> SUFFICES ASSUME Init PROVE Types /\ Listed
  OBVIOUS
<1>1. SessionOK
  BY StreamsAssumption DEF Init, SessionOK, Stages
<1>2. HearingOK
  BY StreamsAssumption, EmptySeq DEF Init, HearingOK
<1>3. ListOK
  BY EmptySeq DEF Init, ListOK
<1>4. QueueOK
  <2>1. <<>> \in Seq(Frames \cup {Closed}) /\ Len(<<>>) <= MaxSize
    BY EmptySeq, StreamsAssumption
  <2>2. queue = [s \in Queues |-> <<>>]
    BY DEF Init
  <2>3. last \in [Queues -> 0 .. MaxFrames] /\ spare \in [Queues -> Nat]
    BY StreamsAssumption DEF Init
  <2> QED
    BY <2>1, <2>2, <2>3 DEF QueueOK
<1>5. Listed
  <2>1. Len(subs) = 0 /\ round = None /\ \A s \in Queues : ~Open(s)
    BY EmptySeq DEF Init, Open
  <2> QED
    BY <2>1 DEF Listed, Names, Never
<1> QED
  BY <1>1, <1>2, <1>3, <1>4, <1>5 DEF Types

\* Every step keeps the types.
LEMMA TypesStep == Types /\ Listed /\ [Next]_vars => (Types /\ Listed)'
  BY SessionStep, HearingStep, ListStep, QueueStep DEF Types

\* The types hold in every state.
LEMMA TypesHold == Spec => [](Types /\ Listed)
  BY InitTypes, TypesStep, PTL DEF Spec

\* The variables keep their types; a queue is bounded, and it is registered, and fed, exactly
\* while its generator is suspended (teleop.py 1289-1300).
THEOREM TypeCorrect == Spec => []TypeOK
<1>1. ASSUME Types, Listed PROVE TypeOK
  <2>1. ASSUME NEW s \in Queues
        PROVE  Cardinality({i \in DOMAIN subs : subs[i] = s}) = IF Open(s) THEN 1 ELSE 0
    <3>1. DOMAIN subs = 1 .. Len(subs)
      BY <1>1, LenProperties DEF Types, ListOK
    <3>2. CASE Open(s)
      <4>1. PICK i \in 1 .. Len(subs) : subs[i] = s /\ \A j \in 1 .. Len(subs) : subs[j] = s => j = i
        BY <1>1, <3>2 DEF Listed, Names, Once
      <4>2. {j \in DOMAIN subs : subs[j] = s} = {i}
        BY <3>1, <4>1
      <4> QED
        BY <3>2, <4>2, FS_Singleton
    <3>3. CASE ~Open(s)
      <4>1. {j \in DOMAIN subs : subs[j] = s} = {}
        BY <1>1, <3>1, <3>3 DEF Listed, Names, Never
      <4> QED
        BY <3>3, <4>1, FS_EmptySet
    <3> QED
      BY <3>2, <3>3
  <2> QED
    BY <1>1, <2>1 DEF Types, SessionOK, HearingOK, ListOK, QueueOK, Ears, TypeOK
<1> QED
  BY <1>1, TypesHold, PTL

-----------------------------------------------------------------------------
(* One more frame *)

\* What is counted after stop() was called: nothing before it, and nothing yet by a consumer
\* that still waits.
Spared ==
  \A s \in Queues : /\ ~stopped => spare[s] = 0
                    /\ stopped => spare[s] <= 1 /\ (at[s] = "parked" => spare[s] = 0)

\* Who is handed a frame after stop() was called waited for it, and waits no more.
LEMMA SparedStep ==
  ASSUME SessionOK, QueueOK, Spared, [Next]_vars
  PROVE  Spared'
<1> USE DEF Spared
<1>1. ASSUME NEW s \in Queues,
             Begin(s) \/ Take(s) \/ Resume(s) \/ CancelGet(s) \/ Leave(s) \/ Aclose(s)
      PROVE  Spared'
  <2>1. Consumes(s) /\ UNCHANGED stage
    BY <1>1, ConsumerSteps DEF Consumes, session
  <2>2. stopped' = stopped
    BY <2>1 DEF stopped
  <2>3. CASE Yields(s)
    <3>1. at'[s] = "handed" /\ \A t \in Queues : t # s => at'[t] = at[t]
      BY <2>3 DEF Yields, SessionOK
    <3>2. CASE stopped
      <4>1. at[s] = "parked" /\ spare[s] = 0
        BY <2>3, <3>2 DEF Yields
      <4>2. spare'[s] = 1 /\ \A t \in Queues : t # s => spare'[t] = spare[t]
        BY <2>3, <3>2, <4>1 DEF Yields, QueueOK
      <4> QED
        BY <2>2, <3>1, <3>2, <4>2
    <3>3. CASE ~stopped
      BY <2>2, <2>3, <3>3 DEF Yields
    <3> QED
      BY <3>2, <3>3
  <2>4. CASE Opens(s) \/ Parks(s)
    BY <2>2, <2>4 DEF Opens, Parks
  <2>5. CASE Declines(s) \/ Departs(s) \/ Closes(s)
    <3>1. UNCHANGED spare /\ at'[s] # "parked" /\ \A t \in Queues : t # s => at'[t] = at[t]
      BY <2>5 DEF Declines, Departs, Closes, Finally, SessionOK
    <3> QED
      BY <2>2, <3>1
  <2> QED
    BY <2>1, <2>3, <2>4, <2>5 DEF Consumes
<1>2. CASE Start
  <2>1. \A s \in Queues : spare'[s] = 0
    BY <1>2 DEF Start
  <2> QED
    BY <2>1
<1>3. CASE StopBegins \/ StopWakes \/ StopEnds
  <2>1. stopped' /\ UNCHANGED <<at, spare>>
    BY <1>3 DEF StopBegins, StopWakes, StopEnds, stopped, streams
  <2>2. \A s \in Queues : spare[s] <= 1 /\ (at[s] = "parked" => spare[s] = 0)
    OBVIOUS
  <2> QED
    BY <2>1, <2>2
<1>4. ASSUME UNCHANGED <<stage, at, spare>> PROVE Spared'
  BY <1>4 DEF stopped
<1>5. CASE Emit \/ EmitToQueue \/ EmitToListener \/ EmitEnds \/ RunTask \/ UNCHANGED vars
  BY <1>4, <1>5 DEF Emit, EmitToQueue, EmitToListener, EmitEnds, RunTask, session, streams, vars
<1>6. ASSUME NEW h \in Handles, On(h) \/ Unsubscribe(h) PROVE Spared'
  BY <1>4, <1>6 DEF On, Unsubscribe, session, streams
<1> QED
  BY <1>1, <1>2, <1>3, <1>5, <1>6 DEF Next

\* Once stop() was called a consumer is handed one more frame at most, for any number of
\* sessions, streams and frames: OneMore (teleop.py 1293).
THEOREM OneMoreAtMost == Spec => []OneMore
<1>1. Init => Spared
  BY DEF Init, Spared, stopped
<1>2. Spared => OneMore
  BY DEF Spared, OneMore
<1>3. Types /\ Spared /\ [Next]_vars => Spared'
  BY SparedStep DEF Types
<1> QED
  BY <1>1, <1>2, <1>3, TypesHold, PTL DEF Spec

-----------------------------------------------------------------------------
(* Nobody skipped *)

\* Each call of on() has a callback of its own.  Without it the property fails with the claim
\* OthersStay: an unsubscribe callable that is called twice takes away another's subscription.
OwnCallbacks == \A g, h \in Handles : Callback[g] = Callback[h] => g = h

\* The round under way has yet to come to c.
Coming(c) ==
  round # None /\ \E j \in 1 .. Len(round.list) : round.i <= j /\ round.list[j] = c

\* Who subscribed is listed, and has heard each frame emitted since, or the round comes to it.
Informed(c) == heard[c] = n \/ Coming(c)
Attentive ==
  \A h \in Handles : reg[h] = "on" =>
    /\ Has(subs, Callback[h]) /\ since[h] <= n
    /\ since[h] < n => Informed(Callback[h])

\* Subscribing and unsubscribing takes nobody else from the list; who subscribes has missed nothing.
LEMMA ListensAttentively ==
  ASSUME OwnCallbacks, Types, Attentive, Listens, UNCHANGED n,
         \A h \in Handles : Informed(Callback[h]) => Informed(Callback[h])'
  PROVE  Attentive'
<1> USE DEF Attentive
<1>1. CASE UNCHANGED <<subs, reg, since>>
  BY <1>1
<1>2. ASSUME NEW h \in Handles, Subscribes(h) \/ Unsubscribes(h) PROVE Attentive'
  <2>1. /\ Callback[h] \in Ears /\ subs \in Seq(Ears)
        /\ \A g \in Handles : g # h => Callback[g] # Callback[h]
    BY StreamsAssumption DEF Ears, OwnCallbacks, Types, ListOK
  <2>2. n \in Nat /\ reg \in [Handles -> {"none", "on", "off"}] /\ since \in [Handles -> 0 .. MaxFrames]
    BY StreamsAssumption DEF Types, SessionOK, HearingOK
  <2>3. CASE Subscribes(h)
    <3>1. subs' = Append(subs, Callback[h])
      BY <2>3 DEF Subscribes
    <3>2. Has(subs', Callback[h]) /\ \A c : Has(subs, c) => Has(subs', c)
      BY <2>1, <3>1, AppendKeeps
    <3>3. since'[h] = n /\ \A g \in Handles : g # h => reg'[g] = reg[g] /\ since'[g] = since[g]
      BY <2>2, <2>3 DEF Subscribes
    <3> QED
      BY <2>2, <3>2, <3>3
  <2>4. CASE Unsubscribes(h)
    <3>1. subs' = RemoveFirst(subs, Callback[h])
      BY <2>4 DEF Unsubscribes
    <3>2. \A g \in Handles : g # h /\ Has(subs, Callback[g]) => Has(subs', Callback[g])
      BY <2>1, <3>1, RemoveFirstKeeps
    <3>3. reg'[h] = "off" /\ \A g \in Handles : g # h => reg'[g] = reg[g] /\ since'[g] = since[g]
      BY <2>2, <2>4 DEF Unsubscribes
    <3> QED
      BY <2>2, <3>2, <3>3
  <2> QED
    BY <1>2, <2>3, <2>4
<1> QED
  BY <1>1, <1>2 DEF Listens

\* A consumer's step puts its stream in the list or takes it out, and nobody else.
LEMMA ConsumerSparesListeners ==
  ASSUME Types, NEW s \in Queues, Consumes(s), NEW h \in Handles, Has(subs, Callback[h])
  PROVE  Has(subs', Callback[h])
<1>1. s \in Ears /\ subs \in Seq(Ears) /\ Callback[h] # s
  BY StreamsAssumption DEF Ears, Types, ListOK
<1>2. CASE subs' = Append(subs, s)
  BY <1>1, <1>2, AppendKeeps
<1>3. CASE subs' = RemoveFirst(subs, s)
  BY <1>1, <1>3, RemoveFirstKeeps
<1>4. CASE UNCHANGED subs
  BY <1>4
<1> QED
  BY <1>2, <1>3, <1>4 DEF Consumes, Opens, Declines, Yields, Parks, Departs, Closes, Finally

\* Every step keeps the listeners informed: a frame is emitted to a copy of the list, which no
\* callback changes.
LEMMA AttentiveStep ==
  ASSUME OwnCallbacks, Types, Listed, Attentive, [Next]_vars
  PROVE  Attentive'
<1>1. ASSUME Listens, UNCHANGED <<n, round, heard>> PROVE Attentive'
  BY <1>1, ListensAttentively DEF Informed, Coming
<1>2. ASSUME NEW s \in Queues,
             Begin(s) \/ Take(s) \/ Resume(s) \/ CancelGet(s) \/ Leave(s) \/ Aclose(s)
      PROVE  Attentive'
  <2>1. Consumes(s) /\ UNCHANGED <<n, round, reg, since, heard>>
    BY <1>2, ConsumerSteps DEF Consumes, hearing
  <2>2. \A h \in Handles : Has(subs, Callback[h]) => Has(subs', Callback[h])
    BY <2>1, ConsumerSparesListeners
  <2> QED
    BY <2>1, <2>2 DEF Attentive, Informed, Coming
<1>3. ASSUME NEW h \in Handles, On(h) \/ Unsubscribe(h) PROVE Attentive'
  BY <1>1, <1>3 DEF On, Unsubscribe, Listens
<1>4. CASE RunTask
  BY <1>1, <1>4 DEF RunTask, Listens
<1>5. CASE Emit
  <2>1. n \in Nat /\ round' # None /\ round' = [frame |-> n + 1, list |-> subs, i |-> 1] /\ n' = n + 1
        /\ UNCHANGED <<subs, hearing>>
    <3>1. n + 1 \in Frames /\ n \in Nat /\ subs \in Seq(Ears)
      BY <1>5, StreamsAssumption DEF Emit, Frames, Types, SessionOK, ListOK
    <3>2. [frame |-> n + 1, list |-> subs, i |-> 1] \in Round
      BY <3>1 DEF Round, Ears
    <3> QED
      BY <1>5, <3>1, <3>2, StreamsAssumption DEF Emit
  <2>2. ASSUME NEW h \in Handles, reg[h] = "on" PROVE Coming(Callback[h])'
    <3>1. PICK j \in 1 .. Len(subs) : subs[j] = Callback[h]
      BY <2>2 DEF Attentive, Has
    <3>2. round'.i <= j /\ round'.list = subs
      BY <2>1
    <3> QED
      BY <2>1, <3>1, <3>2 DEF Coming
  <2>3. \A h \in Handles : reg[h] = "on" => Has(subs, Callback[h]) /\ since[h] <= n + 1
    <3>1. \A h \in Handles : since[h] \in Nat
      BY StreamsAssumption DEF Types, HearingOK
    <3> QED
      BY <2>1, <3>1 DEF Attentive
  <2> QED
    BY <2>1, <2>2, <2>3 DEF Attentive, Informed, hearing
<1>6. ASSUME Advance, Calling, NEW c \in Ears, c # Called, Coming(c) PROVE Coming(c)'
  <2>1. round \in Round /\ round # None /\ Called = round.list[round.i]
    BY <1>6 DEF Calling, Called, Listening, Types, ListOK
  <2>2. PICK j \in 1 .. Len(round.list) : round.i <= j /\ round.list[j] = c
    BY <1>6 DEF Coming
  <2>3. round' \in Round /\ round'.i = round.i + 1 /\ round'.list = round.list
    BY <1>6, <2>1 DEF Advance, Round
  <2>4. round.i + 1 <= j
    BY <1>6, <2>1, <2>2 DEF Round
  <2>5. round' # None
    BY <2>3, StreamsAssumption
  <2> QED
    BY <2>2, <2>3, <2>4, <2>5 DEF Coming
<1>7. CASE EmitToQueue
  <2>1. Advance /\ Calling /\ Called \in Queues /\ UNCHANGED <<n, subs, reg, since, heard>>
    BY <1>7 DEF EmitToQueue, hearing
  <2>2. \A h \in Handles : Informed(Callback[h]) => Informed(Callback[h])'
    <3>1. \A h \in Handles : Callback[h] \in Ears /\ Callback[h] # Called
      BY <2>1, StreamsAssumption DEF Ears
    <3> QED
      BY <1>6, <2>1, <3>1 DEF Informed
  <2> QED
    BY <2>1, <2>2, ListensAttentively DEF Listens
<1>8. CASE EmitToListener
  <2>1. /\ Advance /\ Calling /\ Called \in Callbacks /\ Listens /\ UNCHANGED n
        /\ heard' = [heard EXCEPT ![Called] = round.frame]
    BY <1>8 DEF EmitToListener, Listens
  <2>2. ASSUME NEW h \in Handles, Informed(Callback[h]) PROVE Informed(Callback[h])'
    <3>1. Callback[h] \in Ears /\ Callback[h] \in Callbacks /\ heard \in [Callbacks -> 0 .. MaxFrames]
      BY StreamsAssumption DEF Ears, Types, HearingOK
    <3>2. round.frame = n
      BY <2>1 DEF Calling, Listed
    <3>3. CASE Callback[h] = Called
      <4>1. heard'[Callback[h]] = n
        BY <2>1, <3>1, <3>2, <3>3
      <4> QED
        BY <2>1, <4>1 DEF Informed
    <3>4. CASE Callback[h] # Called
      <4>1. heard'[Callback[h]] = heard[Callback[h]]
        BY <2>1, <3>1, <3>4
      <4> QED
        BY <1>6, <2>1, <2>2, <3>1, <3>4, <4>1 DEF Informed
    <3> QED
      BY <3>3, <3>4
  <2> QED
    BY <2>1, <2>2, ListensAttentively
<1>9. CASE EmitEnds
  <2>1. round \in Round /\ ~(round.i <= Len(round.list))
    BY <1>9 DEF EmitEnds, Calling, Listening, Types, ListOK
  <2>2. \A c : ~Coming(c)
    <3>1. Len(round.list) \in Nat /\ round.i \in Nat
      BY <2>1, LenProperties DEF Round
    <3> QED
      BY <2>1, <3>1 DEF Coming
  <2>3. \A h \in Handles : Informed(Callback[h]) => Informed(Callback[h])'
    BY <1>9, <2>2 DEF EmitEnds, Informed, hearing
  <2> QED
    BY <1>9, <2>3, ListensAttentively DEF EmitEnds, Listens, hearing
<1>10. CASE Start \/ StopBegins \/ StopWakes \/ StopEnds \/ UNCHANGED vars
  BY <1>1, <1>10 DEF Start, StopBegins, StopWakes, StopEnds, Listens, hearing, vars
<1> QED
  BY <1>2, <1>3, <1>4, <1>5, <1>7, <1>8, <1>9, <1>10 DEF Next

\* Who is subscribed when a frame is emitted hears it, whoever subscribes and unsubscribes while
\* the frame is handed round, provided each call of on() has a callback of its own:
\* NobodySkipped (teleop.py 1302-1309).
THEOREM EveryListenerHears ==
  ASSUME OwnCallbacks
  PROVE  Spec => []NobodySkipped
<1>1. Init => Attentive
  BY DEF Init, Attentive
<1>2. Attentive => NobodySkipped
  BY DEF Attentive, Informed, Coming, NobodySkipped, Quiet
<1>3. Types /\ Listed /\ Attentive /\ [Next]_vars => Attentive'
  BY AttentiveStep
<1> QED
  BY <1>1, <1>2, <1>3, TypesHold, PTL DEF Spec

-----------------------------------------------------------------------------
(* The newest frames *)

\* What waits in q are the frames from b + 1 to m, in order, and perhaps the sentinel.
Fresh(q, b, m) ==
  /\ \A i, j \in DOMAIN q : i < j /\ q[j] # Closed => q[i] < q[j]
  /\ Range(q) \ {Closed} = b + 1 .. m

\* The same of a consumer that was handed l last: a queue that was never full misses none.
Holds(q, l, m) == \E b \in l .. m : Fresh(q, b, m) /\ (Len(q) < MaxSize => b = l)

\* The first frame of a queue is its oldest, and without it the rest are as new.
LEMMA TailFresh ==
  ASSUME NEW S, S \subseteq Nat, NEW q \in Seq(S), q # <<>>,
         NEW m \in Nat, NEW b \in 0 .. m, Fresh(q, b, m)
  PROVE  /\ Head(q) = Closed => Fresh(Tail(q), b, m)
         /\ Head(q) # Closed => Head(q) = b + 1 /\ b + 1 <= m /\ Fresh(Tail(q), b + 1, m)
<1> DEFINE r == Tail(q)
<1>1. /\ Len(q) \in Nat /\ Len(q) >= 1 /\ DOMAIN q = 1 .. Len(q) /\ Head(q) = q[1]
      /\ \A i \in 1 .. Len(q) : q[i] \in Nat
  <2>1. Len(q) \in Nat /\ Len(q) # 0 /\ DOMAIN q = 1 .. Len(q)
    BY LenProperties, EmptySeq
  <2>2. Head(q) = q[1] /\ \A i \in 1 .. Len(q) : q[i] \in S
    BY HeadTailProperties, ElementOfSeq
  <2>3. Len(q) >= 1
    BY <2>1
  <2>4. \A i \in 1 .. Len(q) : q[i] \in Nat
    BY <2>2
  <2> QED
    BY <2>1, <2>2, <2>3, <2>4
<1>2. /\ Len(r) = Len(q) - 1 /\ DOMAIN r = 1 .. Len(r)
      /\ \A i \in 1 .. Len(q) - 1 : r[i] = q[i + 1]
  <2>1. r \in Seq(S) /\ Len(r) = Len(q) - 1 /\ \A i \in 1 .. Len(q) - 1 : r[i] = q[i + 1]
    BY HeadTailProperties
  <2> QED
    BY <2>1, LenProperties
<1> HIDE DEF r
<1>3. \A i, j \in DOMAIN r : i < j /\ r[j] # Closed => r[i] < r[j]
  <2>1. ASSUME NEW i \in DOMAIN r, NEW j \in DOMAIN r, i < j, r[j] # Closed PROVE r[i] < r[j]
    <3>1. /\ i + 1 \in DOMAIN q /\ j + 1 \in DOMAIN q /\ i + 1 < j + 1
          /\ r[i] = q[i + 1] /\ r[j] = q[j + 1]
      BY <1>1, <1>2, <2>1
    <3> QED
      BY <2>1, <3>1 DEF Fresh
  <2> QED
    BY <2>1
<1>4. Range(q) = {q[1]} \cup Range(r)
  <2>1. ASSUME NEW x \in Range(q) PROVE x \in {q[1]} \cup Range(r)
    <3>1. PICK i \in 1 .. Len(q) : x = q[i]
      BY <1>1 DEF Range
    <3>2. CASE i > 1
      <4>1. i - 1 \in DOMAIN r /\ r[i - 1] = x
        BY <1>1, <1>2, <3>1, <3>2
      <4> QED
        BY <4>1 DEF Range
    <3> QED
      BY <1>1, <3>1, <3>2
  <2>2. ASSUME NEW x \in Range(r) PROVE x \in Range(q)
    <3>1. PICK i \in 1 .. Len(r) : x = r[i]
      BY <1>2 DEF Range
    <3>2. i + 1 \in DOMAIN q /\ q[i + 1] = x
      BY <1>1, <1>2, <3>1
    <3> QED
      BY <3>2 DEF Range
  <2>3. q[1] \in Range(q)
    <3>1. 1 \in DOMAIN q
      BY <1>1
    <3> QED
      BY <3>1 DEF Range
  <2> QED
    BY <2>1, <2>2, <2>3
<1>5. CASE Head(q) = Closed
  <2>1. Range(q) \ {Closed} = Range(r) \ {Closed}
    BY <1>1, <1>4, <1>5
  <2> QED
    BY <1>3, <1>5, <2>1 DEF Fresh, r
<1>6. CASE Head(q) # Closed
  <2>1. q[1] \in b + 1 .. m
    BY <1>1, <1>4, <1>6 DEF Fresh
  <2>2. \A x \in Range(r) : x # Closed => q[1] < x
    <3>1. ASSUME NEW i \in 1 .. Len(r), r[i] # Closed PROVE q[1] < r[i]
      <4>1. i + 1 \in DOMAIN q /\ 1 \in DOMAIN q /\ 1 < i + 1 /\ r[i] = q[i + 1]
        BY <1>1, <1>2, <3>1
      <4> QED
        BY <3>1, <4>1 DEF Fresh
    <3> QED
      BY <1>2, <3>1 DEF Range
  <2>3. \A x \in b + 1 .. m : x = q[1] \/ q[1] < x
    BY <1>4, <2>2 DEF Fresh
  <2>4. q[1] = b + 1 /\ b + 1 <= m
    BY <1>1, <2>1, <2>3
  <2>5. Range(r) \ {Closed} = (b + 1) + 1 .. m
    <3>1. ASSUME NEW x \in Range(r) \ {Closed} PROVE x \in (b + 1) + 1 .. m
      <4>1. x \in b + 1 .. m /\ q[1] < x
        BY <1>4, <2>2 DEF Fresh
      <4> QED
        BY <2>4, <4>1
    <3>2. ASSUME NEW x \in (b + 1) + 1 .. m PROVE x \in Range(r) \ {Closed}
      <4>1. x \in b + 1 .. m /\ x # q[1]
        BY <2>4
      <4> QED
        BY <1>4, <4>1 DEF Fresh
    <3> QED
      BY <3>1, <3>2
  <2> QED
    BY <1>1, <1>3, <1>6, <2>4, <2>5 DEF Fresh, r
<1> QED
  BY <1>5, <1>6

\* The next frame, or the sentinel, behind the others leaves them in order.
LEMMA AppendFresh ==
  ASSUME NEW S, S \subseteq Nat, NEW q \in Seq(S), NEW v \in S,
         NEW m \in Nat, NEW b \in 0 .. m, Fresh(q, b, m)
  PROVE  /\ v = m + 1 => Fresh(Append(q, v), b, m + 1)
         /\ v = Closed => Fresh(Append(q, v), b, m)
<1> DEFINE r == Append(q, v)
<1>1. /\ Len(q) \in Nat /\ DOMAIN q = 1 .. Len(q) /\ DOMAIN r = 1 .. Len(q) + 1
      /\ r[Len(q) + 1] = v /\ \A i \in 1 .. Len(q) : r[i] = q[i] /\ r[i] \in Nat
  <2>1. r \in Seq(S) /\ Len(r) = Len(q) + 1 /\ r[Len(q) + 1] = v /\ \A i \in 1 .. Len(q) : r[i] = q[i]
    BY AppendProperties
  <2>2. Len(q) \in Nat /\ DOMAIN q = 1 .. Len(q) /\ DOMAIN r = 1 .. Len(r)
    BY <2>1, LenProperties
  <2>3. \A i \in 1 .. Len(q) : q[i] \in S
    BY ElementOfSeq
  <2> QED
    BY <2>1, <2>2, <2>3
<1> HIDE DEF r
<1>2. Range(r) = Range(q) \cup {v}
  <2>1. \A x : x \in Range(r) <=> \E i \in 1 .. Len(q) + 1 : x = r[i]
    BY <1>1 DEF Range
  <2>2. \A x : x \in Range(q) <=> \E i \in 1 .. Len(q) : x = r[i]
    BY <1>1 DEF Range
  <2>3. \A i \in 1 .. Len(q) + 1 : i \in 1 .. Len(q) \/ i = Len(q) + 1
    BY <1>1
  <2>4. Len(q) + 1 \in 1 .. Len(q) + 1 /\ \A i \in 1 .. Len(q) : i \in 1 .. Len(q) + 1
    BY <1>1
  <2> QED
    BY <1>1, <2>1, <2>2, <2>3, <2>4
<1>3. \A i \in 1 .. Len(q) : q[i] = Closed \/ q[i] \in b + 1 .. m
  BY <1>1 DEF Fresh, Range
<1>4. ASSUME v = m + 1 \/ v = Closed, NEW i \in DOMAIN r, NEW j \in DOMAIN r, i < j, r[j] # Closed
      PROVE  r[i] < r[j]
  <2>1. i \in 1 .. Len(q) /\ r[i] = q[i]
    BY <1>1, <1>4
  <2>2. CASE j \in 1 .. Len(q)
    BY <1>1, <1>4, <2>1, <2>2 DEF Fresh
  <2>3. CASE j = Len(q) + 1
    <3>1. r[j] = m + 1
      BY <1>1, <1>4, <2>3
    <3> QED
      BY <1>3, <2>1, <3>1 DEF Closed
  <2> QED
    BY <1>1, <2>2, <2>3
<1>5. CASE v = m + 1
  <2>1. Range(r) \ {Closed} = b + 1 .. m + 1
    <3>1. (b + 1 .. m) \cup {m + 1} = b + 1 .. m + 1 /\ m + 1 # Closed
      BY DEF Closed
    <3> QED
      BY <1>2, <1>5, <3>1 DEF Fresh
  <2> QED
    BY <1>4, <1>5, <2>1 DEF Fresh, r, Closed
<1>6. CASE v = Closed
  <2>1. Range(r) \ {Closed} = b + 1 .. m
    BY <1>2, <1>6 DEF Fresh
  <2> QED
    BY <1>4, <1>6, <2>1 DEF Fresh, r, Closed
<1> QED
  BY <1>5, <1>6

\* Putting keeps the newest: a full queue sheds its oldest element.
LEMMA PutHolds ==
  ASSUME NEW S, S \subseteq Nat, NEW q \in Seq(S), NEW v \in S,
         NEW m \in Nat, NEW l \in Nat, Holds(q, l, m)
  PROVE  /\ v = m + 1 => Holds(Put(q, v), l, m + 1)
         /\ v = Closed => Holds(Put(q, v), l, m)
<1>1. PICK b \in l .. m : Fresh(q, b, m) /\ (Len(q) < MaxSize => b = l)
  BY DEF Holds
<1>2. b \in 0 .. m /\ Len(q) \in Nat /\ MaxSize \in Nat \ {0}
  BY LenProperties, StreamsAssumption
<1>3. CASE Len(q) < MaxSize
  <2>1. Put(q, v) = Append(q, v) /\ b = l
    BY <1>1, <1>2, <1>3 DEF Put
  <2>2. /\ v = m + 1 => Fresh(Append(q, v), b, m + 1)
        /\ v = Closed => Fresh(Append(q, v), b, m)
    BY <1>1, <1>2, AppendFresh
  <2>3. b \in l .. m /\ b \in l .. m + 1
    BY <1>1
  <2> QED
    BY <2>1, <2>2, <2>3 DEF Holds
<1>4. CASE Len(q) >= MaxSize
  <2>1. q # <<>> /\ Tail(q) \in Seq(S) /\ Len(Tail(q)) = Len(q) - 1
    <3>1. q # <<>>
      BY <1>2, <1>4, EmptySeq
    <3> QED
      BY <3>1, HeadTailProperties
  <2>2. PICK d \in l .. m : Fresh(Tail(q), d, m)
    <3>1. /\ Head(q) = Closed => Fresh(Tail(q), b, m)
          /\ Head(q) # Closed => Head(q) = b + 1 /\ b + 1 <= m /\ Fresh(Tail(q), b + 1, m)
      BY <1>1, <1>2, <2>1, TailFresh
    <3>2. b + 1 <= m => b + 1 \in l .. m
      BY <1>1
    <3> QED
      BY <1>1, <3>1, <3>2
  <2>3. d \in 0 .. m /\ d \in l .. m + 1
    BY <2>2
  <2>4. Put(q, v) = Append(Tail(q), v)
    BY <1>4 DEF Put
  <2>5. ~(Len(Append(Tail(q), v)) < MaxSize)
    <3>1. Len(Append(Tail(q), v)) = Len(q)
      BY <1>2, <2>1, AppendProperties
    <3> QED
      BY <1>2, <1>4, <3>1
  <2>6. /\ v = m + 1 => Fresh(Append(Tail(q), v), d, m + 1)
        /\ v = Closed => Fresh(Append(Tail(q), v), d, m)
    BY <2>1, <2>2, <2>3, AppendFresh
  <2> QED
    BY <2>2, <2>3, <2>4, <2>5, <2>6 DEF Holds
<1> QED
  BY <1>2, <1>3, <1>4

\* The frames that were put in the queue of s, or shed: while a round has yet to come to it, all
\* but the one of the round.
Given(s)  == IF Coming(s) THEN n - 1 ELSE n
FreshInv  == \A s \in Queues : Open(s) => Holds(queue[s], last[s], Given(s))

\* Every step keeps the queues fresh: a round comes to each open stream once.
LEMMA FreshStep ==
  ASSUME Types, Listed, FreshInv, [Next]_vars
  PROVE  FreshInv'
<1> DEFINE S == Frames \cup {Closed}
<1>1. /\ S \subseteq Nat /\ n \in Nat /\ queue \in [Queues -> Seq(S)]
      /\ \A s \in Queues : last[s] \in Nat /\ (at[s] = "new" => queue[s] = <<>>)
  BY StreamsAssumption DEF Types, SessionOK, QueueOK, Frames, Closed
<1>2. ASSUME UNCHANGED <<n, round, at, queue, last>> PROVE FreshInv'
  BY <1>2 DEF FreshInv, Open, Given, Coming
<1>3. ASSUME NEW s \in Queues,
             Begin(s) \/ Take(s) \/ Resume(s) \/ CancelGet(s) \/ Leave(s) \/ Aclose(s)
      PROVE  FreshInv'
  <2>1. Consumes(s) /\ round = None /\ UNCHANGED <<n, round>>
    BY <1>3, ConsumerSteps DEF Consumes, Quiet
  <2>2. \A t \in Queues : Given(t) = n /\ Given(t)' = n
    BY <2>1 DEF Given, Coming
  <2>3. \A t \in Queues : t # s => at'[t] = at[t] /\ queue'[t] = queue[t] /\ last'[t] = last[t]
    BY <1>1, <2>1
    DEF Consumes, Opens, Declines, Yields, Parks, Departs, Closes, Finally, Types, SessionOK, QueueOK
  <2>4. SUFFICES ASSUME Open(s)' PROVE Holds(queue'[s], last'[s], n)
    BY <2>2, <2>3 DEF FreshInv, Open
  <2>5. CASE Opens(s)
    <3>1. queue'[s] = <<>> /\ last'[s] = n
      BY <1>1, <2>5 DEF Opens, Types, QueueOK
    <3>2. Fresh(<<>>, n, n)
      <4>1. DOMAIN <<>> = {} /\ n + 1 .. n = {}
        BY <1>1
      <4> QED
        BY <4>1 DEF Fresh, Range
    <3>3. n \in n .. n
      BY <1>1
    <3> QED
      BY <3>1, <3>2, <3>3 DEF Holds
  <2>6. CASE Declines(s) \/ Closes(s)
    BY <2>4, <2>6 DEF Declines, Closes, Finally, Open, Types, SessionOK
  <2>7. CASE Parks(s) \/ Departs(s)
    BY <2>2, <2>7 DEF Parks, Departs, FreshInv, Open
  <2>8. CASE Yields(s)
    <3>1. Holds(queue[s], last[s], n) /\ queue[s] # <<>> /\ Head(queue[s]) # Closed
      BY <2>2, <2>8 DEF Yields, FreshInv, Open
    <3>2. queue'[s] = Tail(queue[s]) /\ last'[s] = Head(queue[s])
      BY <1>1, <2>8 DEF Yields, Types, QueueOK
    <3>3. PICK b \in last[s] .. n : Fresh(queue[s], b, n)
      BY <3>1 DEF Holds
    <3>4. b \in 0 .. n /\ queue[s] \in Seq(S)
      BY <1>1, <3>3
    <3>5. Head(queue[s]) = b + 1 /\ b + 1 <= n /\ Fresh(Tail(queue[s]), b + 1, n)
      BY <1>1, <3>1, <3>3, <3>4, TailFresh
    <3>6. b + 1 \in b + 1 .. n
      BY <1>1, <3>4, <3>5
    <3> QED
      BY <3>2, <3>5, <3>6 DEF Holds
  <2> QED
    BY <2>1, <2>5, <2>6, <2>7, <2>8 DEF Consumes
<1>4. CASE Emit
  <2>1. /\ Quiet /\ n' = n + 1 /\ UNCHANGED <<subs, at, queue, last>>
        /\ round' = [frame |-> n + 1, list |-> subs, i |-> 1]
    BY <1>4 DEF Emit, streams
  <2>2. round' \in Round /\ round' # None
    <3>1. n + 1 \in Frames /\ subs \in Seq(Ears)
      BY <1>1, <1>4, StreamsAssumption DEF Emit, Frames, Types, ListOK
    <3> QED
      BY <2>1, <3>1, StreamsAssumption DEF Round, Ears
  <2>3. ASSUME NEW s \in Queues, Open(s) PROVE Given(s) = n /\ Given(s)' = n
    <3>1. PICK j \in 1 .. Len(subs) : subs[j] = s
      BY <2>3 DEF Listed, Names, Once
    <3>2. Coming(s)'
      BY <2>1, <2>2, <3>1 DEF Coming
    <3>3. Given(s) = n /\ Given(s)' = n'- 1
      BY <2>1, <3>2 DEF Given, Coming, Quiet
    <3> QED
      BY <1>1, <2>1, <3>3
  <2> QED
    BY <2>1, <2>3 DEF FreshInv, Open
<1>5. ASSUME Calling, Advance, UNCHANGED n,
             NEW s \in Queues, Open(s)
      PROVE  IF s = Called THEN Given(s) = n - 1 /\ Given(s)' = n ELSE Given(s)' = Given(s)
  <2>1. round \in Round /\ round # None /\ Called = round.list[round.i] /\ round.i <= Len(round.list)
    BY <1>5 DEF Calling, Called, Listening, Types, ListOK
  <2>2. round' \in Round /\ round'.i = round.i + 1 /\ round'.list = round.list
    BY <1>5, <2>1 DEF Advance, Round
  <2>3. round' # None /\ round.i \in 1 .. Len(round.list)
    BY <1>5, <2>1, <2>2, StreamsAssumption DEF Listed, Round
  <2>4. PICK k \in 1 .. Len(round.list) :
          round.list[k] = s /\ \A j \in 1 .. Len(round.list) : round.list[j] = s => j = k
    BY <1>5, <2>1 DEF Listed, Names, Once
  <2>5. Coming(s) <=> round.i <= k
    BY <2>1, <2>4 DEF Coming
  <2>6. Coming(s)' <=> round.i + 1 <= k
    BY <2>2, <2>3, <2>4 DEF Coming
  <2>7. s = Called <=> round.i = k
    BY <2>1, <2>3, <2>4
  <2>8. round.i \in Nat /\ k \in Nat
    BY <2>1 DEF Round
  <2>9. CASE s = Called
    BY <1>5, <2>5, <2>6, <2>7, <2>8, <2>9 DEF Given
  <2>10. CASE s # Called
    <3>1. Coming(s)' <=> Coming(s)
      BY <2>5, <2>6, <2>7, <2>8, <2>10
    <3> QED
      BY <1>5, <2>10, <3>1 DEF Given
  <2> QED
    BY <2>9, <2>10
<1>6. CASE EmitToQueue
  <2>1. Calling /\ Advance /\ Called \in Queues /\ UNCHANGED <<n, at, last>>
        /\ queue' = [queue EXCEPT ![Called] = Put(@, round.frame)]
    BY <1>6 DEF EmitToQueue
  <2>2. round.frame = n /\ n > 0 /\ n \in S
    BY <2>1 DEF Calling, Listed, Types, ListOK, Round
  <2>3. ASSUME NEW s \in Queues, Open(s)' PROVE Holds(queue'[s], last'[s], Given(s)')
    <3>1. Open(s) /\ Holds(queue[s], last[s], Given(s))
      BY <2>1, <2>3 DEF Open, FreshInv
    <3>2. CASE s = Called
      <4>1. Given(s) = n - 1 /\ Given(s)' = n /\ n - 1 \in Nat /\ n = (n - 1) + 1
        BY <1>1, <1>5, <2>1, <2>2, <3>1, <3>2
      <4>2. queue[s] \in Seq(S) /\ last[s] \in Nat /\ queue'[s] = Put(queue[s], n)
        BY <1>1, <2>1, <2>2, <3>2
      <4>3. Holds(Put(queue[s], n), last[s], n)
        <5> DEFINE m == n - 1
        <5>1. m \in Nat /\ n = m + 1 /\ Holds(queue[s], last[s], m)
          BY <3>1, <4>1
        <5> HIDE DEF m
        <5>2. Holds(Put(queue[s], n), last[s], m + 1)
          BY <1>1, <2>2, <4>2, <5>1, PutHolds
        <5> QED
          BY <5>1, <5>2
      <4> QED
        BY <2>1, <4>1, <4>2, <4>3
    <3>3. CASE s # Called
      <4>1. Given(s)' = Given(s) /\ queue'[s] = queue[s]
        BY <1>1, <1>5, <2>1, <3>1, <3>3
      <4> QED
        BY <2>1, <3>1, <4>1
    <3> QED
      BY <3>2, <3>3
  <2> QED
    BY <2>3 DEF FreshInv
<1>7. CASE EmitToListener
  <2>1. Calling /\ Advance /\ Called \in Callbacks /\ UNCHANGED <<n, at, queue, last>>
    BY <1>7 DEF EmitToListener, streams
  <2>2. \A s \in Queues : Open(s) => Given(s)' = Given(s)
    BY <1>5, <2>1, StreamsAssumption
  <2> QED
    BY <2>1, <2>2 DEF FreshInv, Open
<1>8. CASE EmitEnds
  <2>1. round \in Round /\ ~(round.i <= Len(round.list)) /\ round' = None
        /\ UNCHANGED <<n, at, queue, last>>
    BY <1>8 DEF EmitEnds, Calling, Listening, Types, ListOK, streams
  <2>2. Len(round.list) \in Nat /\ round.i \in Nat
    BY <2>1, LenProperties DEF Round
  <2>3. \A s : ~Coming(s) /\ ~Coming(s)'
    BY <2>1, <2>2 DEF Coming
  <2>4. \A s : Given(s)' = Given(s)
    BY <2>1, <2>3 DEF Given
  <2> QED
    BY <2>1, <2>4 DEF FreshInv, Open
<1>9. CASE StopWakes
  <2>1. /\ queue' = [s \in Queues |-> IF s \in Woken THEN Put(queue[s], Closed) ELSE queue[s]]
        /\ Quiet /\ UNCHANGED <<n, round, at, last>>
    BY <1>9 DEF StopWakes
  <2>2. \A s \in Queues : Given(s) = n /\ Given(s)' = n
    BY <2>1 DEF Given, Coming, Quiet
  <2>3. ASSUME NEW s \in Queues, Open(s) PROVE Holds(queue'[s], last[s], n)
    <3>1. Holds(queue[s], last[s], n) /\ Closed \in S /\ queue[s] \in Seq(S) /\ last[s] \in Nat
      BY <1>1, <2>2, <2>3 DEF FreshInv
    <3>2. Holds(Put(queue[s], Closed), last[s], n)
      BY <1>1, <3>1, PutHolds
    <3> QED
      BY <2>1, <2>3, <3>2 DEF Woken
  <2> QED
    BY <2>1, <2>2, <2>3 DEF FreshInv, Open
<1>10. CASE RunTask \/ Start \/ StopBegins \/ StopEnds \/ UNCHANGED vars
  BY <1>2, <1>10 DEF RunTask, Start, StopBegins, StopEnds, streams, vars
<1>11. ASSUME NEW h \in Handles, On(h) \/ Unsubscribe(h) PROVE FreshInv'
  BY <1>2, <1>11 DEF On, Unsubscribe, streams
<1> QED
  BY <1>3, <1>4, <1>6, <1>7, <1>8, <1>9, <1>10, <1>11 DEF Next

\* A slow consumer misses old frames only: what waits are the newest, in order, for any number of
\* streams, listeners and frames and every size of the queue: Freshest (teleop.py 1281-1300).
THEOREM NewestWait == Spec => []Freshest
<1>1. Init => FreshInv
  BY DEF Init, FreshInv, Open
<1>2. ASSUME FreshInv PROVE Freshest
  <2>1. ASSUME Quiet, NEW s \in Queues, Open(s)
        PROVE  Holds(queue[s], last[s], n)
    BY <1>2, <2>1 DEF FreshInv, Given, Coming, Quiet
  <2> QED
    BY <2>1 DEF Holds, Fresh, Freshest, Waiting
<1>3. Types /\ Listed /\ FreshInv /\ [Next]_vars => FreshInv'
  BY FreshStep
<1> QED
  BY <1>1, <1>2, <1>3, TypesHold, PTL DEF Spec

=============================================================================
