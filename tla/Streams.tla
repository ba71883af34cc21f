------------------------------ MODULE Streams ------------------------------
(***************************************************************************)
(* Events of RemoteTeleop (src/src/nori_sdk/teleop.py): the listeners of   *)
(* on(), the bounded queues of stream(), and _emit(), which hands a frame  *)
(* to all of them, while stop() and start() come and go.                   *)
(*                                                                         *)
(* One kind of frame; its frames are numbered as they are emitted.  An     *)
(* _emit is a round, one step per callback, in which nothing runs but the  *)
(* callbacks: it never awaits.  A stream's consumer is a task of the       *)
(* caller, which stop() cannot cancel.                                     *)
(***************************************************************************)
EXTENDS Naturals, Sequences, FiniteSets, SequencesExt

CONSTANTS
  Queues,      \* calls of stream()
  Handles,     \* calls of on(), and the unsubscribe callables they return
  Callback,    \* the callback that each Handle registers
  Async,       \* the callbacks that are coroutine functions
  MaxSize,     \* maxsize of a queue
  None,        \* no round of _emit
  MaxFrames,   \* frames emitted (bound)
  MaxStarts    \* calls of start() (bound)

Callbacks == {Callback[h] : h \in Handles}
Closed    == 0          \* _STREAM_CLOSED, the sentinel; frames are 1, 2, ...
Frames    == 1 .. MaxFrames
Round     == [frame : Frames, list : Seq(Queues \cup Callbacks), i : Nat]

ASSUME StreamsAssumption ==
  /\ MaxSize \in Nat \ {0} /\ MaxFrames \in Nat /\ MaxStarts \in Nat
  /\ Callback \in [Handles -> Callbacks] /\ Async \subseteq Callbacks
  /\ Queues \cap Callbacks = {} /\ None \notin Round

VARIABLES
  stage,       \* of the session: where start() and stop() are
  starts,
  n,           \* frames emitted
  subs,        \* _listeners of the kind; a stream's is the stream itself
  round,       \* the _emit under way: its frame, its copy of the list, the next index
  tasks,       \* coroutines of async callbacks that are spawned and have not run
  at,          \* where each stream's generator is
  queue,       \* its queue
  reg,         \* history: of each Handle, "none", "on", or "off" once unsubscribed
  since,       \* history: frames emitted before a Handle subscribed
  heard,       \* history: the last frame each callback was called with
  last,        \* history: the last frame each stream's consumer was handed
  seat,        \* history: of each stream, the session in which it began
  spare        \* history: frames a consumer was handed since stop() was called

session == <<stage, starts>>
streams == <<at, queue, last, seat, spare>>
hearing == <<reg, since, heard>>
vars    == <<session, n, subs, round, tasks, streams, hearing>>

Stages  == {"new", "running", "halting", "closing", "closed"}
stopped == stage \in {"halting", "closing", "closed"}    \* _stopped
Open(s) == at[s] \in {"parked", "handed", "left"}        \* s is in _stream_queues

\* A queue is bounded, and it is registered, and fed, exactly while its generator is
\* suspended (teleop.py 1289-1300).
TypeOK ==
  /\ stage \in Stages /\ starts \in 0 .. MaxStarts /\ n \in 0 .. MaxFrames
  /\ subs \in Seq(Queues \cup Callbacks)
  /\ \A s \in Queues : Cardinality({i \in DOMAIN subs : subs[i] = s}) = IF Open(s) THEN 1 ELSE 0
  /\ round \in Round \cup {None}
  /\ tasks \in Seq(Async \X Frames)
  /\ at \in [Queues -> {"new", "parked", "handed", "left", "ended"}]
  /\ queue \in [Queues -> Seq(Frames \cup {Closed})] /\ \A s \in Queues : Len(queue[s]) <= MaxSize
  /\ reg \in [Handles -> {"none", "on", "off"}] /\ since \in [Handles -> 0 .. MaxFrames]
  /\ heard \in [Callbacks -> 0 .. MaxFrames] /\ last \in [Queues -> 0 .. MaxFrames]
  /\ seat \in [Queues -> 0 .. MaxStarts] /\ spare \in [Queues -> Nat]

Init ==
  /\ stage = "new" /\ starts = 0 /\ n = 0
  /\ subs = <<>> /\ round = None /\ tasks = <<>>
  /\ at = [s \in Queues |-> "new"] /\ queue = [s \in Queues |-> <<>>]
  /\ reg = [h \in Handles |-> "none"] /\ since = [h \in Handles |-> 0]
  /\ heard = [c \in Callbacks |-> 0]
  /\ last = [s \in Queues |-> 0] /\ seat = [s \in Queues |-> 0] /\ spare = [s \in Queues |-> 0]

Quiet == round = None    \* the loop is free for other tasks

-----------------------------------------------------------------------------
(* on() and what it returns *)

Subscribes(h) ==
  /\ reg[h] = "none"
  /\ subs' = Append(subs, Callback[h])
  /\ reg' = [reg EXCEPT ![h] = "on"] /\ since' = [since EXCEPT ![h] = n]

\* list.remove takes the first entry that is equal, if one is left; the callable may be
\* called again.
Unsubscribes(h) ==
  /\ reg[h] # "none"
  /\ subs' = RemoveFirst(subs, Callback[h])
  /\ reg' = [reg EXCEPT ![h] = "off"] /\ UNCHANGED since

On(h) ==
  /\ Quiet /\ Subscribes(h)
  /\ UNCHANGED <<session, n, round, tasks, streams, heard>>

Unsubscribe(h) ==
  /\ Quiet /\ Unsubscribes(h)
  /\ UNCHANGED <<session, n, round, tasks, streams, heard>>

-----------------------------------------------------------------------------
(* _emit *)

\* Mutant of Put: a full queue sheds the new element.
PutDropNewest(q, v) == IF Len(q) >= MaxSize THEN q ELSE Append(q, v)
\* _put_drop_oldest
Put(q, v) == Append(IF Len(q) >= MaxSize THEN Tail(q) ELSE q, v)

ListeningLive(r) == subs    \* mutant: the list itself and not a copy
Listening(r) == r.list

Emit ==
  /\ Quiet /\ n < MaxFrames /\ stage \in {"running", "halting", "closing"}
  /\ n' = n + 1
  /\ round' = [frame |-> n + 1, list |-> subs, i |-> 1]
  /\ UNCHANGED <<session, subs, tasks, streams, hearing>>

Called == Listening(round)[round.i]
Advance == round' = [round EXCEPT !.i = @ + 1]
Calling == round # None /\ round.i <= Len(Listening(round))

\* The callback of a stream.
EmitToQueue ==
  /\ Calling /\ Called \in Queues /\ Advance
  /\ queue' = [queue EXCEPT ![Called] = Put(@, round.frame)]
  /\ UNCHANGED <<session, n, subs, tasks, at, last, seat, spare, hearing>>

\* A listener, which may raise (nothing comes of it), subscribe and unsubscribe; the
\* coroutine of an async one is spawned.
EmitToListener ==
  /\ Calling /\ Called \in Callbacks /\ Advance
  /\ heard' = [heard EXCEPT ![Called] = round.frame]
  /\ IF Called \in Async
     THEN tasks' = Append(tasks, <<Called, round.frame>>) /\ UNCHANGED <<subs, reg, since>>
     ELSE /\ UNCHANGED tasks
          /\ \/ UNCHANGED <<subs, reg, since>>
             \/ \E h \in Handles : Subscribes(h) \/ Unsubscribes(h)
  /\ UNCHANGED <<session, n, streams>>

EmitEnds ==
  /\ round # None /\ ~Calling
  /\ round' = None
  /\ UNCHANGED <<session, n, subs, tasks, streams, hearing>>

\* A spawned coroutine runs, in the order of the spawns.
RunTask ==
  /\ Quiet /\ tasks # <<>>
  /\ tasks' = Tail(tasks)
  /\ \/ UNCHANGED <<subs, reg, since>>
     \/ \E h \in Handles : Subscribes(h) \/ Unsubscribes(h)
  /\ UNCHANGED <<session, n, round, streams, heard>>

-----------------------------------------------------------------------------
(* stream() and its consumer *)

\* Mutant of Finally: the listener stays subscribed.
FinallyDeaf(s) ==
  /\ at' = [at EXCEPT ![s] = "ended"]
  /\ queue' = [queue EXCEPT ![s] = <<>>]
  /\ UNCHANGED subs

\* The finally clause: the queue is discarded, its listener unsubscribed.
Finally(s) ==
  /\ at' = [at EXCEPT ![s] = "ended"]
  /\ queue' = [queue EXCEPT ![s] = <<>>]
  /\ subs' = RemoveFirst(subs, s)

\* The first step of the iteration; until then the generator has not run.
Begin(s) ==
  /\ Quiet /\ at[s] = "new"
  /\ IF stopped
     THEN at' = [at EXCEPT ![s] = "ended"] /\ UNCHANGED subs
     ELSE at' = [at EXCEPT ![s] = "parked"] /\ subs' = Append(subs, s)
  /\ seat' = [seat EXCEPT ![s] = starts]
  /\ last' = [last EXCEPT ![s] = n]
  /\ UNCHANGED <<session, n, round, tasks, queue, spare, hearing>>

\* queue.get() returns: the sentinel ends the generator, a frame is yielded.
Get(s) ==
  LET v == Head(queue[s]) IN
  IF v = Closed
  THEN Finally(s) /\ UNCHANGED <<last, spare>>
  ELSE /\ at' = [at EXCEPT ![s] = "handed"]
       /\ queue' = [queue EXCEPT ![s] = Tail(@)]
       /\ last' = [last EXCEPT ![s] = v]
       /\ spare' = IF stopped THEN [spare EXCEPT ![s] = @ + 1] ELSE spare
       /\ UNCHANGED subs

\* A consumer parked in get() is woken.
Take(s) ==
  /\ Quiet /\ at[s] = "parked" /\ queue[s] # <<>>
  /\ Get(s)
  /\ UNCHANGED <<session, n, round, tasks, seat, hearing>>

GoesOnAlways == TRUE    \* mutant: while True
GoesOn == ~stopped      \* while not self._stopped

\* The consumer asks for the next frame.
Resume(s) ==
  /\ Quiet /\ at[s] = "handed"
  /\ IF ~GoesOn THEN Finally(s) /\ UNCHANGED <<last, spare>>
     ELSE IF queue[s] # <<>> THEN Get(s)
     ELSE at' = [at EXCEPT ![s] = "parked"] /\ UNCHANGED <<queue, subs, last, spare>>
  /\ UNCHANGED <<session, n, round, tasks, seat, hearing>>

\* The caller's timeout cancels the get(), and with it the generator.
CancelGet(s) ==
  /\ Quiet /\ at[s] = "parked"
  /\ Finally(s)
  /\ UNCHANGED <<session, n, round, tasks, last, seat, spare, hearing>>

\* The consumer breaks out of its loop; the generator stays suspended, and its queue
\* registered, until it is closed.
Leave(s) ==
  /\ Quiet /\ at[s] = "handed"
  /\ at' = [at EXCEPT ![s] = "left"]
  /\ UNCHANGED <<session, n, subs, round, tasks, queue, last, seat, spare, hearing>>

Aclose(s) ==
  /\ Quiet /\ at[s] = "left"
  /\ Finally(s)
  /\ UNCHANGED <<session, n, round, tasks, last, seat, spare, hearing>>

-----------------------------------------------------------------------------
(* start() and stop(), as far as events go *)

Start ==
  /\ Quiet /\ stage \in {"new", "closed"} /\ starts < MaxStarts
  /\ stage' = "running" /\ starts' = starts + 1
  /\ spare' = [s \in Queues |-> 0]
  /\ UNCHANGED <<n, subs, round, tasks, at, queue, last, seat, hearing>>

\* Up to the await of stop_jog().
StopBegins ==
  /\ Quiet /\ stage \in {"new", "running"}
  /\ stage' = "halting"
  /\ UNCHANGED <<starts, n, subs, round, tasks, streams, hearing>>

WokenNone == {}    \* mutant: no sentinel, only the flag
Woken == {s \in Queues : Open(s)}

\* The tasks are cancelled and the streams sent the sentinel; the room is left.
StopWakes ==
  /\ Quiet /\ stage = "halting"
  /\ stage' = "closing"
  /\ tasks' = <<>>
  /\ queue' = [s \in Queues |-> IF s \in Woken THEN Put(queue[s], Closed) ELSE queue[s]]
  /\ UNCHANGED <<starts, n, subs, round, at, last, seat, spare, hearing>>

StopEnds ==
  /\ Quiet /\ stage = "closing"
  /\ stage' = "closed"
  /\ UNCHANGED <<starts, n, subs, round, tasks, streams, hearing>>

-----------------------------------------------------------------------------
Next ==
  \/ \E h \in Handles : On(h) \/ Unsubscribe(h)
  \/ Emit \/ EmitToQueue \/ EmitToListener \/ EmitEnds \/ RunTask
  \/ \E s \in Queues : Begin(s) \/ Take(s) \/ Resume(s) \/ CancelGet(s) \/ Leave(s) \/ Aclose(s)
  \/ Start \/ StopBegins \/ StopWakes \/ StopEnds

\* asyncio runs what is ready: a round, a consumer that was woken, and stop(), whose
\* awaits end.  Nothing is asked of the consumers themselves.
Fairness ==
  /\ WF_vars(EmitToQueue) /\ WF_vars(EmitToListener) /\ WF_vars(EmitEnds)
  /\ WF_vars(StopWakes) /\ \A s \in Queues : WF_vars(Take(s))

Spec     == Init /\ [][Next]_vars
FairSpec == Spec /\ Fairness

-----------------------------------------------------------------------------
(* Properties *)

\* Who is subscribed when a frame is emitted hears it, though listeners subscribe and
\* unsubscribe while the frame is handed round (teleop.py 1302-1309).
NobodySkipped ==
  Quiet => \A h \in Handles : reg[h] = "on" /\ since[h] < n => heard[Callback[h]] = n

\* The frames in the queue of s.
Waiting(s) == Range(queue[s]) \ {Closed}

\* A slow consumer misses old frames and never new ones, and none of them twice: what
\* waits in its queue are the newest frames, in order, and all of them newer than the
\* one it was handed last, the sentinel being the only other thing that takes a place
\* (teleop.py 1281-1300, 1730-1737).
Freshest ==
  Quiet => \A s \in Queues : Open(s) =>
    /\ \A i, j \in DOMAIN queue[s] :
         i < j /\ queue[s][j] # Closed => queue[s][i] < queue[s][j]
    /\ \E m \in last[s] .. n : /\ Waiting(s) = m + 1 .. n
                               /\ Len(queue[s]) < MaxSize => m = last[s]

\* A consumer that waits on a session being stopped is woken, though its await is in a
\* task that stop() cannot cancel and its queue may be full or shed the sentinel again
\* (teleop.py 273-277).
StreamsEnd ==
  \A s \in Queues : (stopped /\ at[s] = "parked") ~> at[s] # "parked"

\* Once stop() was called, a consumer is handed one more frame at most (teleop.py 1293).
OneMore == \A s \in Queues : stopped => spare[s] <= 1

-----------------------------------------------------------------------------
(* Claims that the code does not keep *)

\* "Ends when the session stops" (teleop.py 1285): a consumer that was busy all through
\* stop() and start() goes on in the next session, the longer the sooner its full queue
\* sheds the sentinel.
EndsWithItsSession ==
  [][\A s \in Queues : at'[s] = "handed" /\ last'[s] # last[s] => seat[s] = starts]_vars

\* "Returns an unsubscribe callable" (teleop.py 1272): calling it once more takes away
\* another subscription of the same callback.
OthersStay ==
  \A h \in Handles : reg[h] = "on" => \E i \in DOMAIN subs : subs[i] = Callback[h]
=============================================================================
