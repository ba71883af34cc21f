------------------------------ MODULE Navigation ------------------------------
(***************************************************************************)
(* Named navigation: the requests, their retries and await_navigation() of *)
(* RemoteTeleop (src/src/nori_sdk/teleop.py) over the unreliable,          *)
(* unordered control channel, and the goal, the waypoint and the           *)
(* remembered replies of the robot (mock/robot.py).                        *)
(*                                                                         *)
(* A request is named by its request_id, and the goal that a start asks    *)
(* for by the start that minted it.  A request's frame in flight that is   *)
(* never delivered is a lost one.                                          *)
(***************************************************************************)
EXTENDS Naturals, Sequences, FiniteSets, Functions

CONSTANTS
  Starts, Cancels, Polls, Remembers, Deletes,   \* requests of each action
  Awaits,      \* calls of await_navigation()
  None,        \* no request, no goal, no snapshot
  History,     \* MockRobot.REQUEST_HISTORY
  MaxSends,    \* frames that requests and their retries send in all (bound)
  MaxDown,     \* snapshots in flight at once: those beyond are lost (bound)
  MaxPresses   \* times the robot's E-stop is latched (bound)

Requests == Starts \cup Cancels \cup Polls \cup Remembers \cup Deletes

ASSUME NavigationAssumption ==
  /\ History \in Nat \ {0} /\ MaxSends \in Nat \ {0} /\ MaxDown \in Nat \ {0} /\ MaxPresses \in Nat
  /\ None \notin Requests \cup Awaits
  /\ Starts \cap (Cancels \cup Polls \cup Remembers \cup Deletes) = {}
  /\ Cancels \cap (Polls \cup Remembers \cup Deletes) = {}
  /\ Polls \cap (Remembers \cup Deletes) = {} /\ Remembers \cap Deletes = {}

Goal     == Starts \cup {None}
States   == {"idle", "navigating", "succeeded", "canceled", "unavailable"}
Terminal == {"succeeded", "canceled", "unavailable"}  \* of TERMINAL_NAVIGATION_STATES, those this robot reports
Snapshot == [id : Requests \cup {None}, ok : BOOLEAN, state : States, goal : Goal]
Answers  == {"none", "ok", "refused", "unreachable"}
Futures  == {"none", "pending", "finished", "replaced", "closed", "cancelled"}

VARIABLES
  open,        \* the control channel is open
  stopped,     \* stop() has failed the waiters
  called,      \* the requests made
  answer,      \* what each request returned or raised
  aim,         \* goal_id of each request
  sends,       \* frames sent
  cache,       \* _navigation, the last snapshot
  waiter,      \* _navigation_goal_waiters: the await whose future it holds for a goal
  future,      \* of each await
  goal,        \* that each await waits for
  result,      \* state of the snapshot it finished with
  returned,    \* the awaits that have left their finally clause
  up, down,    \* frames in flight: copies of each request, and snapshots
  active,      \* MockRobot._navigation_active
  saved,       \* the waypoint is in _navigation_waypoints
  estopped, presses,
  replies,     \* _navigation_cache, oldest first
  outcome,     \* history: of the first time the robot ran each request
  fate,        \* history: of each goal
  seenOver     \* history: goals a terminal frame was handled for

client == <<called, answer, aim, sends, cache>>
awaits == <<waiter, future, goal, result, returned>>
robot  == <<active, saved, estopped, presses, replies, outcome, fate>>
vars   == <<open, stopped, client, awaits, up, down, robot, seenOver>>

TypeOK ==
  /\ called \subseteq Requests /\ returned \subseteq Awaits /\ seenOver \subseteq Starts
  /\ answer \in [Requests -> Answers] /\ aim \in [Requests -> Goal]
  /\ sends \in 0 .. MaxSends /\ up \in [Requests -> 0 .. MaxSends]
  /\ cache \in Snapshot \cup {None} /\ down \subseteq Snapshot /\ Cardinality(down) <= MaxDown
  /\ waiter \in [Starts -> Awaits \cup {None}]
  /\ future \in [Awaits -> Futures] /\ goal \in [Awaits -> Goal]
  /\ result \in [Awaits -> Terminal \cup {"none"}]
  /\ active \in Goal /\ presses \in 0 .. MaxPresses
  /\ replies \in Seq(Snapshot) /\ Len(replies) <= History
  /\ outcome \in [Requests -> {"none", "ok", "refused"}]
  /\ fate \in [Starts -> {"none", "active", "succeeded", "canceled"}]
  /\ open \in BOOLEAN /\ stopped \in BOOLEAN /\ saved \in BOOLEAN /\ estopped \in BOOLEAN

Init ==
  /\ open = TRUE /\ stopped = FALSE
  /\ called = {} /\ returned = {} /\ seenOver = {}
  /\ answer = [r \in Requests |-> "none"] /\ aim = [r \in Requests |-> None]
  /\ sends = 0 /\ up = [r \in Requests |-> 0]
  /\ cache = None /\ down = {}
  /\ waiter = [g \in Starts |-> None]
  /\ future = [a \in Awaits |-> "none"] /\ goal = [a \in Awaits |-> None]
  /\ result = [a \in Awaits |-> "none"]
  /\ active = None /\ saved = FALSE /\ estopped = FALSE /\ presses = 0
  /\ replies = <<>>
  /\ outcome = [r \in Requests |-> "none"] /\ fate = [g \in Starts |-> "none"]

-----------------------------------------------------------------------------
(* Requests *)

Waiting(r) == r \in called /\ answer[r] = "none"   \* its future is in _navigation_waiters

\* _send: the frame of r, if the channel is open.
SendFrame(r) ==
  /\ sends < MaxSends
  /\ sends' = IF open THEN sends + 1 ELSE sends
  /\ up' = IF open THEN [up EXCEPT ![r] = @ + 1] ELSE up

\* The goals whose ids the session has been told.
Told == {g \in Starts : answer[g] = "ok" \/ (cache # None /\ cache.goal = g)}

\* A start mints its goal id; a cancel names a goal or none.
Aims(r) ==
  CASE r \in Starts  -> {r}
    [] r \in Cancels -> Told \cup {None}
    [] OTHER         -> {None}

\* _navigation_request on a connected session; on another one it raises at once.
Request(r) ==
  /\ open /\ r \notin called
  /\ called' = called \cup {r}
  /\ \E g \in Aims(r) : aim' = [aim EXCEPT ![r] = g]
  /\ SendFrame(r)
  /\ UNCHANGED <<open, stopped, answer, cache, awaits, down, robot, seenOver>>

\* _await_reply: the same frame again after REQUEST_RETRY_S.
Resend(r) ==
  /\ Waiting(r)
  /\ SendFrame(r)
  /\ UNCHANGED <<open, stopped, called, answer, aim, cache, awaits, down, robot, seenOver>>

RequestTimesOut(r) ==
  /\ Waiting(r)
  /\ answer' = [answer EXCEPT ![r] = "unreachable"]
  /\ UNCHANGED <<open, stopped, called, aim, sends, cache, awaits, up, down, robot, seenOver>>

-----------------------------------------------------------------------------
(* Snapshots and await_navigation() *)

Over(s) == s.state \in Terminal    \* NavigationStatus.terminal

\* A late snapshot of a goal the cache already shows over.
Regressed(s) == cache # None /\ cache.goal # None /\ cache.goal = s.goal /\ Over(cache) /\ ~Over(s)

\* The awaits that a frame resolves: the one registered for its goal.
ResolvesAnyGoal(s) == IF Over(s) THEN {a \in Awaits : \E g \in Starts : waiter[g] = a} ELSE {}  \* mutant
Resolves(s) == IF Over(s) /\ s.goal # None THEN {waiter[s.goal]} \cap Awaits ELSE {}

Popped(s) == IF s.goal = None \/ ~Over(s) THEN waiter ELSE [waiter EXCEPT ![s.goal] = None]

\* _handle_frame of a navigation_status frame; channels do not duplicate, and the
\* copies that retries cause are sent anew by the robot.
HandleStatus(s) ==
  /\ open /\ s \in down
  /\ down' = down \ {s}
  /\ answer' = IF s.id # None /\ Waiting(s.id)
               THEN [answer EXCEPT ![s.id] = IF s.ok THEN "ok" ELSE "refused"]
               ELSE answer
  /\ cache' = IF Regressed(s) THEN cache ELSE s
  /\ waiter' = Popped(s)
  /\ LET woken == {a \in Resolves(s) : future[a] = "pending"} IN
       /\ future' = [a \in Awaits |-> IF a \in woken THEN "finished" ELSE future[a]]
       /\ result' = [a \in Awaits |-> IF a \in woken THEN s.state ELSE result[a]]
  /\ seenOver' = IF s.goal # None /\ Over(s) THEN seenOver \cup {s.goal} ELSE seenOver
  /\ UNCHANGED <<open, stopped, called, aim, sends, goal, returned, up, robot>>

\* await_navigation(g), which returns at once on a cached end, else replaces the
\* waiter of g.
AwaitBegins(a, g) ==
  /\ future[a] = "none" /\ g \in Told
  /\ goal' = [goal EXCEPT ![a] = g]
  /\ IF cache # None /\ cache.goal = g /\ Over(cache)
     THEN /\ future' = [future EXCEPT ![a] = "finished"]
          /\ result' = [result EXCEPT ![a] = cache.state]
          /\ returned' = returned \cup {a}
          /\ UNCHANGED waiter
     ELSE /\ future' = [b \in Awaits |->
               IF b = a THEN "pending"
               ELSE IF b = waiter[g] /\ future[b] = "pending" THEN "replaced" ELSE future[b]]
          /\ waiter' = [waiter EXCEPT ![g] = a]
          /\ UNCHANGED <<result, returned>>
  /\ UNCHANGED <<open, stopped, client, up, down, robot, seenOver>>

AwaitTimesOut(a) ==
  /\ future[a] = "pending"
  /\ future' = [future EXCEPT ![a] = "cancelled"]
  /\ UNCHANGED <<open, stopped, client, waiter, goal, result, returned, up, down, robot, seenOver>>

UnregisteredAny(a) == [waiter EXCEPT ![goal[a]] = None]   \* mutant: whoever registered

\* Its finally clause.
Unregistered(a) == IF waiter[goal[a]] = a THEN [waiter EXCEPT ![goal[a]] = None] ELSE waiter
AwaitReturns(a) ==
  /\ future[a] \notin {"none", "pending"} /\ a \notin returned
  /\ returned' = returned \cup {a}
  /\ waiter' = Unregistered(a)
  /\ UNCHANGED <<open, stopped, client, future, goal, result, up, down, robot, seenOver>>

-----------------------------------------------------------------------------
(* The end of the session *)

\* stop(), until it has failed the waiters.
Stop ==
  /\ ~stopped /\ stopped' = TRUE
  /\ answer' = [r \in Requests |-> IF Waiting(r) THEN "unreachable" ELSE answer[r]]
  /\ future' = [a \in Awaits |->
       IF future[a] = "pending" /\ \E g \in Starts : waiter[g] = a THEN "closed" ELSE future[a]]
  /\ waiter' = [g \in Starts |-> None]
  /\ UNCHANGED <<open, called, aim, sends, cache, goal, result, returned, up, down, robot, seenOver>>

ChannelCloses ==
  /\ open /\ open' = FALSE
  /\ UNCHANGED <<stopped, client, awaits, up, down, robot, seenOver>>

-----------------------------------------------------------------------------
(* The robot *)

\* _emit: a frame that the channel takes.
Emit(s) == down' = IF Cardinality(down) < MaxDown THEN down \cup {s} ELSE down

\* Mutant of Known: no reply is remembered.
KnownNever(r) == {}
Known(r) == {s \in Range(replies) : s.id = r}

RememberAll(s) == replies' = Append(replies, s)   \* mutant: nothing is evicted
Remember(s) ==
  LET all == Append(replies, s) IN replies' = IF Len(all) > History THEN Tail(all) ELSE all

\* The answer that the robot starts from: what it is doing now.
Base(r) == [id |-> r, ok |-> TRUE, goal |-> active,
            state |-> IF active = None THEN "idle" ELSE "navigating"]

\* Mutant of Grants: a cancel takes whatever goal is active.
GrantsAnyCancel(r) ==
  \/ r \in Starts /\ ~estopped /\ saved /\ active = None
  \/ r \in Cancels /\ active # None
  \/ r \in Polls \cup Remembers \cup Deletes /\ active = None
Grants(r) ==
  \/ r \in Starts /\ ~estopped /\ saved /\ active = None
  \/ r \in Cancels /\ active # None /\ aim[r] \in {None, active}
  \/ r \in Polls
  \/ r \in Remembers /\ active = None
  \/ r \in Deletes /\ active = None /\ saved

Reply(r) ==
  IF Grants(r)
  THEN CASE r \in Starts  -> [Base(r) EXCEPT !.state = "navigating", !.goal = r]
         [] r \in Cancels -> [Base(r) EXCEPT !.state = "canceled"]
         [] OTHER         -> Base(r)
  ELSE [Base(r) EXCEPT !.ok = FALSE,
                       !.state = IF r \in Starts /\ estopped THEN "unavailable" ELSE @]

\* What a granted request changes.
Effect(r) ==
  /\ active' = IF r \in Starts THEN r ELSE IF r \in Cancels THEN None ELSE active
  /\ saved' = IF r \in Remembers THEN TRUE ELSE IF r \in Deletes THEN FALSE ELSE saved
  /\ fate' = CASE r \in Starts  -> [fate EXCEPT ![r] = "active"]
               [] r \in Cancels -> [fate EXCEPT ![active] = "canceled"]
               [] OTHER         -> fate

\* _navigation: a request it has answered is answered again, and not run.
Navigation(r) ==
  /\ up[r] > 0 /\ up' = [up EXCEPT ![r] = @ - 1]
  /\ IF Known(r) # {}
     THEN /\ \E s \in Known(r) : Emit(s)
          /\ UNCHANGED <<active, saved, fate, replies, outcome>>
     ELSE /\ Emit(Reply(r))
          /\ Remember(Reply(r))
          /\ IF Grants(r) THEN Effect(r) ELSE UNCHANGED <<active, saved, fate>>
          /\ outcome' = IF outcome[r] # "none" THEN outcome
                        ELSE [outcome EXCEPT ![r] = IF Grants(r) THEN "ok" ELSE "refused"]
  /\ UNCHANGED <<open, stopped, client, awaits, estopped, presses, seenOver>>

\* step(), for the goal it advances: cancelled under the E-stop, else under way or over.
Steps == IF estopped THEN {"canceled"} ELSE {"navigating", "succeeded"}
GoalStep(state) ==
  /\ active # None /\ state \in Steps
  /\ Emit([id |-> None, ok |-> TRUE, state |-> state, goal |-> active])
  /\ active' = IF state = "navigating" THEN active ELSE None
  /\ fate' = IF state = "navigating" THEN fate ELSE [fate EXCEPT ![active] = state]
  /\ UNCHANGED <<open, stopped, client, awaits, up, saved, estopped, presses, replies, outcome, seenOver>>

\* The channel loses a snapshot.
LoseStatus(s) ==
  /\ s \in down /\ down' = down \ {s}
  /\ UNCHANGED <<open, stopped, client, awaits, up, robot, seenOver>>

PressEstop ==
  /\ ~estopped /\ presses < MaxPresses
  /\ estopped' = TRUE /\ presses' = presses + 1
  /\ UNCHANGED <<open, stopped, client, awaits, up, down, active, saved, replies, outcome, fate, seenOver>>

ResetEstop ==
  /\ estopped /\ estopped' = FALSE
  /\ UNCHANGED <<open, stopped, client, awaits, up, down, active, saved, presses, replies, outcome, fate, seenOver>>

-----------------------------------------------------------------------------
Next ==
  \/ \E r \in Requests : Request(r) \/ Resend(r) \/ RequestTimesOut(r) \/ Navigation(r)
  \/ \E s \in down : HandleStatus(s) \/ LoseStatus(s)
  \/ \E a \in Awaits : AwaitTimesOut(a) \/ AwaitReturns(a) \/ \E g \in Starts : AwaitBegins(a, g)
  \/ \E state \in Terminal \cup {"navigating"} : GoalStep(state)
  \/ Stop \/ ChannelCloses \/ PressEstop \/ ResetEstop

Spec == Init /\ [][Next]_vars

-----------------------------------------------------------------------------
(* Properties *)

\* The requests keep their promise: retries that arrive after the first copy, late
\* or out of order, run nothing again, what a caller is told is the outcome of the
\* one run, and a cancel that names a goal ends no other (teleop.py 82-87, 970-991,
\* 1014-1017 against mock/robot.py 657-770).
PromisedGoals ==
  INSTANCE Goals WITH aim <- aim, outcome <- outcome, answer <- answer, fate <- fate, saved <- saved
Promise == PromisedGoals!Spec

\* A pending await is the registered one of its goal, so that no end of the goal
\* can pass it by: a replaced or timed-out await that leaves late does not
\* unregister its successor (teleop.py 1048-1070).
NoOrphan == \A a \in Awaits : future[a] = "pending" => waiter[goal[a]] = a

\* An await that saw its goal succeed or be cancelled reports how that very goal
\* ended at the robot (teleop.py 1653-1657).
AwaitTruthful ==
  \A a \in Awaits : result[a] \in {"succeeded", "canceled"} => fate[goal[a]] = result[a]

-----------------------------------------------------------------------------
(* Claims that the code does not keep *)

\* "A late non-terminal snapshot for a goal already seen finishing is IGNORED for
\* this cache, so a finished goal never appears to resume" (teleop.py 1036-1037).
NeverResumes ==
  \A g \in seenOver : cache.goal = g => Over(cache)

\* A timeout of await_navigation means "only that it had not finished and reported
\* so in time" (teleop.py 1045-1047).
AwaitUnreported ==
  [][\A a \in Awaits : future[a] = "pending" /\ future'[a] = "cancelled" => goal[a] \notin seenOver]_vars

\* A terminal state is one that "a goal never leaves" (types.py 759): an await that
\* finished finds its goal over at the robot.
FinishedIsOver ==
  \A a \in Awaits : future[a] = "finished" => fate[goal[a]] \notin {"none", "active"}
=============================================================================
