--------------------------------- MODULE Replies ---------------------------------
(***************************************************************************)
(* The calls of RemoteTeleop (src/src/nori_sdk/teleop.py) that wait for an *)
(* answer, but for navigation: action(wait=True) and pose(wait=True), by   *)
(* action_id; record() and policy_stream(), whose replies name no request; *)
(* the sensor requests, which are retried; and the still, which comes in   *)
(* chunks.  The channel loses (a frame in flight need not ever arrive) and *)
(* reorders.                                                               *)
(***************************************************************************)
EXTENDS Naturals, FiniteSets, SequencesExt

CONSTANTS
  Actions, Records, Policies, Sensors, Stills,   \* calls of each kind
  Chunks,      \* of a still
  None,
  History,     \* ACTION_HISTORY
  MaxCalls,    \* calls made in all (bound)
  MaxRetries   \* retries and rounds in all (bound)

Fifo  == Records \cup Policies
Calls == Actions \cup Fifo \cup Sensors \cup Stills

ASSUME RepliesAssumption ==
  /\ History \in Nat \ {0} /\ MaxCalls \in Nat /\ MaxRetries \in Nat
  /\ None \notin Calls
  /\ Actions \cap (Records \cup Policies \cup Sensors \cup Stills) = {}
  /\ Records \cap (Policies \cup Sensors \cup Stills) = {}
  /\ Policies \cap (Sensors \cup Stills) = {} /\ Sensors \cap Stills = {}

Verdicts == {"done", "blocked"}            \* TERMINAL_ACTION_STATES: at the target, or not
Progress == {"none", "accepted", "active"} \cup Verdicts
Bodies   == (Progress \ {"none"}) \cup {"ok", "refused"} \cup Chunks
Message  == [call : Calls, body : Bodies]
Request  == [call : Calls, want : SUBSET Chunks]
Futures  == {"none", "pending", "set", "timedout", "abandoned", "closed"}
Kinds    == {"record", "policy"}
Kind(c)  == IF c \in Records THEN "record" ELSE "policy"

VARIABLES
  open, stopped,   \* the control channel is open; stop() has failed the waiters
  called, left,    \* the calls made, and those that have returned or raised
  future,          \* of each call
  got,             \* the frame it was resolved by
  registered,      \* ids in _pending_actions, _sensor_waiters and _frame_waiters
  waiters,         \* _record_waiters and _policy_waiters
  feeding,         \* the actions whose keep-alive runs
  states,          \* _action_states, oldest first
  have, refusal,   \* "chunks" of each still, and whether "error" is set
  retries,
  up, down,        \* frames in flight
  progress,        \* of each action at the robot
  rate, ran        \* the sensor request whose rates are in force; those it has run

client == <<called, left, future, got, registered, waiters, feeding, states, have, refusal, retries>>
robot  == <<progress, rate, ran>>
vars   == <<open, stopped, client, up, down, robot>>

TypeOK ==
  /\ called \subseteq Calls /\ left \subseteq called /\ Cardinality(called) <= MaxCalls
  /\ future \in [Calls -> Futures] /\ got \in [Calls -> Message \cup {None}]
  /\ registered \subseteq Calls \ Fifo /\ feeding \subseteq Actions
  /\ waiters \in [Kinds -> Seq(Fifo)]
  /\ states \in Seq([call : Actions, state : Progress \ {"none"}]) /\ Len(states) <= History
  /\ \A i, j \in DOMAIN states : states[i].call = states[j].call => i = j
  /\ have \in [Stills -> SUBSET Chunks] /\ refusal \in [Stills -> BOOLEAN]
  /\ retries \in 0 .. MaxRetries /\ up \subseteq Request /\ down \subseteq Message
  /\ progress \in [Actions -> Progress]
  /\ rate \in Sensors \cup {None} /\ ran \subseteq Sensors
  /\ open \in BOOLEAN /\ stopped \in BOOLEAN

Init ==
  /\ open = TRUE /\ stopped = FALSE
  /\ called = {} /\ left = {}
  /\ future = [c \in Calls |-> "none"] /\ got = [c \in Calls |-> None]
  /\ registered = {} /\ waiters = [k \in Kinds |-> <<>>] /\ feeding = {} /\ states = <<>>
  /\ have = [f \in Stills |-> {}] /\ refusal = [f \in Stills |-> FALSE]
  /\ retries = 0 /\ up = {} /\ down = {}
  /\ progress = [a \in Actions |-> "none"] /\ rate = None /\ ran = {}

-----------------------------------------------------------------------------
(* The calls *)

Pending(c) == future[c] = "pending"

\* _send
SendFrame(c, want) == up' = IF open THEN up \cup {[call |-> c, want |-> want]} ELSE up

\* Those that check for a connection or an open channel raise at once without one.
\* record() and policy_stream() are used as they ask to be: one task, one after the other.
Begin(c) ==
  /\ c \notin called /\ Cardinality(called) < MaxCalls
  /\ c \in Policies \cup Sensors \cup Stills => open
  /\ c \in Fifo => \A d \in called \cap Fifo : Kind(d) = Kind(c) => d \in left
  /\ called' = called \cup {c}
  /\ future' = [future EXCEPT ![c] = "pending"]
  /\ registered' = IF c \in Fifo THEN registered ELSE registered \cup {c}
  /\ waiters' = IF c \in Fifo THEN [waiters EXCEPT ![Kind(c)] = Append(@, c)] ELSE waiters
  /\ feeding' = IF c \in Actions THEN feeding \cup {c} ELSE feeding
  /\ SendFrame(c, Chunks)
  /\ UNCHANGED <<open, stopped, left, got, states, have, refusal, retries, down, robot>>

\* What snapshot_raw_frame asks for: all, until a chunk has come, then what it misses.
Wanted(c) == IF c \in Stills /\ have[c] # {} THEN Chunks \ have[c] ELSE Chunks

\* _await_reply sends the frame again, snapshot_raw_frame begins another round.
Again(c) ==
  /\ c \in Sensors \cup Stills /\ Pending(c) /\ retries < MaxRetries
  /\ retries' = retries + 1
  /\ SendFrame(c, Wanted(c))
  /\ UNCHANGED <<open, stopped, called, left, future, got, registered, waiters, feeding,
                 states, have, refusal, down, robot>>

\* The timeout or the cancellation of a call.  wait_for cancels the future, and the
\* call goes on later (Leaves); the sensor requests and stills look first and go on.
Expires(c, how) ==
  /\ Pending(c) /\ future' = [future EXCEPT ![c] = how]
  /\ LET gone == {c} \cap (Sensors \cup Stills) IN
       left' = left \cup gone /\ registered' = registered \ gone
  /\ UNCHANGED <<open, stopped, called, got, waiters, feeding, states, have, refusal, retries,
                 up, down, robot>>

\* The waiters without c: record() and policy_stream() remove theirs on a timeout only.
UnlistedNever(c) == waiters   \* mutant
Unlisted(c) ==
  IF c \in Fifo /\ future[c] = "timedout"
  THEN [waiters EXCEPT ![Kind(c)] = RemoveFirst(@, c)]
  ELSE waiters

StarvedNever(c) == feeding    \* mutant: the keep-alive goes on
Starved(c) == feeding \ {c}

\* A call returns or raises, through its except and finally clauses.
Leaves(c) ==
  /\ future[c] \notin {"none", "pending"} /\ c \notin left
  /\ left' = left \cup {c}
  /\ registered' = registered \ {c} /\ waiters' = Unlisted(c) /\ feeding' = Starved(c)
  /\ UNCHANGED <<open, stopped, called, future, got, states, have, refusal, retries, up, down, robot>>

\* snapshot_raw_frame has all the chunks, or a refusal to raise.
StillEnds(f) ==
  /\ Pending(f) /\ (refusal[f] \/ have[f] = Chunks)
  /\ future' = [future EXCEPT ![f] = "set"]
  /\ left' = left \cup {f} /\ registered' = registered \ {f}
  /\ UNCHANGED <<open, stopped, called, got, waiters, feeding, states, have, refusal, retries,
                 up, down, robot>>

-----------------------------------------------------------------------------
(* _handle_frame *)

\* The call that m resolves, if its future is still pending.
Resolve(c, m) ==
  /\ future' = IF Pending(c) THEN [future EXCEPT ![c] = "set"] ELSE future
  /\ got' = IF Pending(c) THEN [got EXCEPT ![c] = m] ELSE got

\* Mutant of Heard: nothing is dropped.
HeardAll(a, state) == Append(states, [call |-> a, state |-> state])
Heard(a, state) ==
  LET all == Append(RemoveFirstMatch(states, LAMBDA v : v.call = a), [call |-> a, state |-> state])
  IN  IF Len(all) > History THEN Tail(all) ELSE all

EndsAlways(state) == TRUE     \* mutant: the first status resolves the call
Ends(state) == state \in Verdicts

HandleAction(m) ==
  /\ m.call \in Actions
  /\ states' = Heard(m.call, m.body)
  /\ IF m.call \in registered /\ Ends(m.body)
     THEN Resolve(m.call, m) ELSE UNCHANGED <<future, got>>
  /\ UNCHANGED <<registered, waiters, left, have, refusal>>

\* The reply of a recorder or a streamer is its oldest waiter's.
HandleReply(m) ==
  /\ m.call \in Fifo
  /\ LET list == waiters[Kind(m.call)] IN
       IF list # <<>>
       THEN Resolve(Head(list), m) /\ waiters' = [waiters EXCEPT ![Kind(m.call)] = Tail(@)]
       ELSE UNCHANGED <<future, got, waiters>>
  /\ UNCHANGED <<registered, left, states, have, refusal>>

HandleSensor(m) ==
  /\ m.call \in Sensors
  /\ IF m.call \in registered THEN Resolve(m.call, m) ELSE UNCHANGED <<future, got>>
  /\ registered' = registered \ {m.call}
  /\ UNCHANGED <<waiters, left, states, have, refusal>>

\* _ingest_frame_chunk
HandleChunk(m) ==
  /\ m.call \in Stills
  /\ IF m.call \notin registered THEN UNCHANGED <<have, refusal>>
     ELSE IF m.body = "refused"
     THEN refusal' = [refusal EXCEPT ![m.call] = TRUE] /\ UNCHANGED have
     ELSE have' = [have EXCEPT ![m.call] = @ \cup {m.body}] /\ UNCHANGED refusal
  /\ UNCHANGED <<future, got, registered, waiters, left, states>>

HandleFrame(m) ==
  /\ open /\ m \in down /\ down' = down \ {m}
  /\ HandleAction(m) \/ HandleReply(m) \/ HandleSensor(m) \/ HandleChunk(m)
  /\ UNCHANGED <<open, stopped, called, feeding, retries, up, robot>>

-----------------------------------------------------------------------------
(* The end of the session *)

\* stop() cancels its tasks and fails the sensor requests, no other call of these.
Stop ==
  /\ ~stopped /\ stopped' = TRUE
  /\ feeding' = {}
  /\ future' = [c \in Calls |->
       IF c \in Sensors \cap registered /\ Pending(c) THEN "closed" ELSE future[c]]
  /\ registered' = registered \ Sensors
  /\ UNCHANGED <<open, called, left, got, waiters, states, have, refusal, retries, up, down, robot>>

ChannelCloses ==
  /\ open /\ open' = FALSE
  /\ UNCHANGED <<stopped, client, up, down, robot>>

-----------------------------------------------------------------------------
(* The robot *)

Says(c, bodies) == {[call |-> c, body |-> b] : b \in bodies}

\* An action or a pose with an action_id is taken on or refused.
TakeAction(a) ==
  \E state \in {"accepted", "blocked"} :
    /\ progress' = [progress EXCEPT ![a] = state]
    /\ down' = down \cup Says(a, {state})
    /\ UNCHANGED <<rate, ran>>

RememberedNever(q) == FALSE   \* mutant: the retry is run again
Remembered(q) == q \in ran

\* _sensor_stream: a request it has answered is answered again, and not run.
SetRate(q) ==
  /\ rate' = IF Remembered(q) THEN rate ELSE q
  /\ ran' = ran \cup {q}
  /\ down' = down \cup Says(q, {"ok"})
  /\ UNCHANGED progress

\* _record and _policy_stream do it or refuse.
Obey(c) ==
  /\ \E body \in {"ok", "refused"} : down' = down \cup Says(c, {body})
  /\ UNCHANGED robot

\* A still is refused, or its chunks are served, always those of the same frame.
Serve(f, want) ==
  /\ \E bodies \in {want, {"refused"}} : down' = down \cup Says(f, bodies)
  /\ UNCHANGED robot

RobotHandles(r) ==
  /\ r \in up /\ up' = up \ {r}
  /\ \/ r.call \in Actions /\ TakeAction(r.call)
     \/ r.call \in Sensors /\ SetRate(r.call)
     \/ r.call \in Fifo /\ Obey(r.call)
     \/ r.call \in Stills /\ Serve(r.call, r.want)
  /\ UNCHANGED <<open, stopped, client>>

\* An action it took on is under way, then over.
Advance(a) ==
  /\ progress[a] \in {"accepted", "active"}
  /\ \E state \in IF progress[a] = "accepted" THEN {"active"} ELSE Verdicts :
       progress' = [progress EXCEPT ![a] = state] /\ down' = down \cup Says(a, {state})
  /\ UNCHANGED <<open, stopped, client, up, rate, ran>>

-----------------------------------------------------------------------------
Next ==
  \/ \E c \in Calls : \/ Begin(c) \/ Again(c) \/ Leaves(c)
                      \/ \E how \in {"timedout", "abandoned"} : Expires(c, how)
  \/ \E f \in Stills : StillEnds(f)
  \/ \E m \in down : HandleFrame(m)
  \/ \E r \in up : RobotHandles(r)
  \/ \E a \in Actions : Advance(a)
  \/ Stop \/ ChannelCloses

Spec == Init /\ [][Next]_vars

-----------------------------------------------------------------------------
(* Properties *)

\* action(wait=True) returns the verdict of its own action, and only once the robot
\* has finished with it, however late and out of order the statuses come: never
\* "before the robot had moved" (teleop.py 1604-1619).
VerdictIsFinal ==
  \A a \in Actions : future[a] = "set" =>
    got[a].call = a /\ got[a].body = progress[a] /\ progress[a] \in Verdicts

\* The keep-alive of an action runs while it is awaited and not after: it would keep
\* the robot's watchdog fed for nobody (teleop.py 589-611).
FedWhileAwaited ==
  /\ \A a \in Actions : Pending(a) /\ ~stopped => a \in feeding
  /\ feeding \cap left = {}

\* "this resolves the NEXT status frame" (teleop.py 812, 908): as long as no caller was
\* cancelled, a reply that comes while a caller waits is a caller's, and calls that timed
\* out swallow none.
Waits(k) == {c \in Fifo : Kind(c) = k /\ Pending(c)}
Swallowed(k) ==
  /\ \E m \in down : m.call \in Fifo /\ Kind(m.call) = k /\ down' = down \ {m}
  /\ Waits(k) # {} /\ future' = future
NextResolves ==
  [][\A k \in Kinds :
       Swallowed(k) => \E c \in Fifo : Kind(c) = k /\ future[c] = "abandoned"]_vars

\* A sensor request that was answered has been carried out, and no copy of it still on its
\* way undoes the request that came after it (teleop.py 83-86).
RatesStand ==
  [][\A q \in Sensors : future[q] = "set" /\ rate' = q => rate = q]_vars

-----------------------------------------------------------------------------
(* Claims that the code does not keep *)

\* "this resolves the NEXT status frame" (teleop.py 812, 908), whatever became of the
\* callers before.  But the future of a cancelled call stays in the list, and takes the
\* reply to the caller that waits, who is told that none came.
NextFrame ==
  [][\A c \in Fifo, m \in down :
       Pending(c) /\ m.call = c /\ down' = down \ {m} => future' # future]_vars

\* "The latest verdict for one action_id" (teleop.py 427): an action that was heard to
\* be over is not under way again when its statuses come out of order.
VerdictStays ==
  [][\A i \in 1 .. Len(states), j \in 1 .. Len(states') :
       states[i].call = states'[j].call /\ states[i].state \in Verdicts
         => states'[j].state \in Verdicts]_vars

\* "Fail every in-flight correlated request now rather than leaving its caller parked
\* until its own timeout" (teleop.py 278): no action is waited for after stop().
StopFailsAll == [][~stopped /\ stopped' => \A c \in Calls \ Fifo : future'[c] # "pending"]_vars

\* "Raises TeleopError when the robot refuses or the chunks never all arrive within
\* timeout" (teleop.py 864): a still with all its chunks does not time out.
StillTimesOutIncomplete ==
  [][\A f \in Stills : Pending(f) /\ future'[f] = "timedout" => have[f] # Chunks]_vars
=============================================================================
