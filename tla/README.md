# A verification project for nori_sdk

TLA+ models of the Nori teleoperation SDK, checked with TLC and, where it matters most,
proved with TLAPS. The SDK drives a robot from an asyncio program: it is called over a
signaling room, negotiates a WebRTC session, and then talks to the robot through an
*unreliable, unordered* data channel. What is hard in it is not computation but order:
which await a callback interrupts, which frame was lost, which task still runs.

Paths below are relative to `src/src/nori_sdk/`, unless they begin with `src/`.

## 1. Inventory

| Part | State | Operations | What makes it correct |
|---|---|---|---|
| **Session** (`teleop.py` 130-306, 1313-1573) | `_status`, `_connected`, `_ready`, `_stopped`, `_pc`, `_control`, `_remote_set`, `_pending_ice`, `_session_token`, `_link_mode`, the tasks | `start`, `stop`; the callbacks `on_open`, `on_state`, `on_robot_here`, `on_nack`, `on_sdp`, `on_ice`; `_ready_retry_loop`, `_wait_deadline`, `_handle_conn_state` | one peer at a time, however many offers are negotiated; `_connected` follows the peer; candidates arrive; a wait is watched and ends; `stop()` leaves nothing |
| **Motion** (448-694; `mock/robot.py` 290-301, 449-480) | `_jog_payload`, `_jog_task`, scripts, keep-alive tasks; at the robot the jog, the target, the time of the last control frame | `jog`, `hold`, `set_jog`, `stop_jog`, `action`, `pose`; the robot's `step` | a robot that nobody drives comes to rest; nothing drives after the zero frame; a target awaited is not dropped |
| **E-stop** (696-770, 1749-1768; `mock/robot.py` 370-391, 594-599) | `_telemetry` (merged), the latch | `estop`, `estop_confirmed`, `reset_latch`, the telemetry handler | a confirmation is never invented, the first report of a latch ends the wait |
| **Navigation** (936-1070, 1637-1656; `mock/robot.py` 232-265, 646-770) | `_navigation`, `_navigation_waiters`, `_navigation_goal_waiters`; the robot's goal, waypoints and remembered replies | the request verbs, `await_navigation`, the retry | a request runs at most once whatever is retried; an await is not passed by |
| **Awaited replies** (564-694, 795-932, 1117-1153, 1604-1663) | `_pending_actions`, `_action_states`, `_record_waiters`, `_policy_waiters`, `_sensor_waiters`, `_frame_waiters` | `action(wait=True)`, `pose(wait=True)`, `record`, `policy_stream`, the sensor requests, `snapshot_raw_frame` | the reply goes to the caller it is for; keep-alives end with their call |
| **Supabase room** (`signaling_supabase.py`) | `_stop`, `_joined`, `_ws`, `_join_ref`, two threads | `connect`, `close`, `_manage`, `_session`, `_heartbeat`, `_handle` | threads and sockets end; "open" means joined; a link on which a send fails is given up |
| **Access tokens** (`auth.py`) | `_access`, `_refresh`, `_refresh_after_mono`, `_lock` | `token`, `_grant` | a token served is alive; grants are limited |
| **Streams of events** (1270-1309, 1721-1746) | `_listeners`, the queue of each `stream()`, `_loop` | `on` and its unsubscriber, `stream`, `_emit`, and `start` and `stop` as far as they reach them | who is subscribed hears each event; a slow consumer misses old frames and never new ones; a consumer that waits is woken by `stop()` |
| **JogBuilder, JogFrame** (`motion.py`; `types.py`: the descriptor's bounds and jog scale) | the builder's payload, whose dicts a built frame shares | `arm`, `lift`, `central_lift`, `base`, `build`, `stop`; `jog_rate`, `to_si`, `from_si`, `state_to_si`, `scale_to_range`, `normalized_for` | what a strict builder lets through the robot reads; conversions go by the robot's own bounds and rates |
| `protocol.py`, the rest of `types.py` | none | builders and parsers of frames | pure conversions; their outcomes (parsed or not, terminal or not) are inputs here |
| `webrtc_compat.py`, `_png.py`, `mock/session.py`, `mock/loopback.py`, examples, tools | none of their own, or test doubles | | not modelled (section 7) |

**How they interact.** Everything in `teleop.py` runs on one asyncio loop, so it interleaves
only at awaits; the signaling room runs in threads and hands its events to the loop; the robot
is another process behind the channel. `_handle_frame` is where every reply enters: it updates
the caches, resolves futures, then emits to listeners, which may themselves call `stop()`.
`stop()` cuts across all: it sends a last zero frame, cancels tasks, fails waiters, leaves the
room and closes the peer, with awaits between. The application builds jogs with `JogBuilder`
from the descriptor the robot sent, and reads what arrives through `on` and `stream`. The robot's half is modelled from `MockRobot`,
the SDK's executable statement of what a robot does.

**What is hard**, part by part, is the list `hazards` of `PROJECT.json`, each at its line.

## 2. Modules

| Module | Models | Correspondence |
|---|---|---|
| `Session` | the session | One action per stretch between two awaits. `sdp[o]` is where the `_on_sdp` task of offer `o` is suspended (closing the old peer, remote description, flush, local description, and then the answer and the candidates, which may raise after the answer went out); `stopper.at` the same for `stop()`. Any number of these tasks overlap, as nothing in the code keeps an offer waiting. Peer `o` is built for offer `o`, token `o` came with it. `connQ` holds the `_handle_conn_state` tasks that are scheduled and have not run. |
| `Motion` | jogs, targets, dead-man | `loop`, `script` and `feed` are the tasks that repeat frames, "due" or "asleep"; `halt[h]` is a `stop_jog` in its await, with its local `last`. A `Tick` is 1/JOG_HZ. The robot's jog and its watchdog are `MockRobot`'s; that a robot which hears nothing drops its target too is external (`HeldTarget`), from `pose`'s reason for its keep-alive (`teleop.py` 588-594); `MockRobot` keeps its target. |
| `Estop` | latch, merged telemetry | A frame is its safety block or none ("bare": only one in three carries one). `call` "resolved" is the future set and its caller not yet run: until it is, the timer of `wait_for` may still fire. |
| `Navigation`, `Goals` | requests, retries, awaits, the robot's goal | A request is an identity with an action and a goal it names; `replies` is the robot's bounded memory, `up[r]` the copies in flight. `Goals` is what is promised: each request executed at most once, answered with the outcome of that time, and no goal ended by a cancel that names another. `Navigation` implements it under the mapping written at `PromisedGoals`: its history variables `outcome` and `fate`, and its `aim`, `answer` and `saved`. |
| `Replies` | the other calls that wait | `future[c]` is the future of call `c`, `left` the calls whose `finally` has run: between the two, a timeout or a cancellation has happened and the waiter is still registered, as in asyncio. |
| `Supabase` | the room's threads | `at[k]` is where the thread of the `k`-th `connect()` is; `sock[k]`, `room[k]` its socket and the server's side. At "pushing" the join is confirmed and `_joined` set, and the thread fetches the token to push, a call that may outlast `close()`'s join, before the handlers are told. `_ws`, `_joined`, `_stop` and `_join_ref` are shared by all threads, as in the object. |
| `Auth` | the token cache | Real times in whole units; `now` is the monotonic clock, the wall clock differs by `offset` and may be set at any time. A caller in `stage` "refresh" or "password" is in the HTTP request, with the lock. |
| `Streams` | `on`, `_emit`, `stream` | `round` is the copy of the listeners that an `_emit` goes over, one listener a step, since a sync listener may subscribe and unsubscribe; `tasks` the coroutines it spawned; `queue[s]`, `seat[s]` the queue of a stream and the session it was opened in; `at[s]` where its generator is. One kind of event stands for all, which share nothing. |
| `JogBuilder` | the builder, the descriptor, the robot's reading of a jog | A jog maps a cell, group and DOF, to a rate; a built frame copies the payload and shares its dicts (`lifts` of its own). Rates are integers over `Full`, and may be NaN; positions and bounds are exact fractions. |
| `MC*` | | Constants and symmetry sets for TLC. |
| `SessionProofs`, `MotionProofs`, `EstopProofs`, `NavigationProofs`, `RepliesProofs`, `StreamsProofs`, `SupabaseProofs`, `JogBuilderProofs` | | Theorems and the lemmas they rest on. `SupabaseProofs` holds those of `Auth` too, whose token `Supabase` pushes; that is why `Auth` names its specification `AuthInit`, `AuthNext`, `AuthSpec`. |

The modules meet where the code does and are not composed: each carries what it needs of
`stop()` and of the channel. `Navigation` is composed with `Goals` by refinement.

A definition marked *mutant* is a wrong version of its neighbour, as a plausible slip in the
code would have it. For each property of a passing run, one of them makes TLC find the
property violated; that is what tells that the property depends on the code.

## 3. Runs

| Run | What it checks | Bounds, and why they are enough |
|---|---|---|
| `negotiation` | `Session`: `NoStrayPeer`, `ConnectedTracksPeer`, `CandidateReaches`, `LinkTold`, `CleanStop`, `LiveSessionRidesOut` | Two offers: a renegotiation, where an old peer, old candidates and old state events exist, or two at once, their tasks interleaved at every await. Two `start()`s, each of which may open the room, so that one session's leftovers meet the next. A candidate of the second session, both link modes; a wait that may be over as soon as it began, which with one deadline is any wait; `stop()` at any await, from a caller or from a listener. |
| `waiting` | `Session`: `WaitWatched`, and `WaitingEnds` under fairness | Two `start()`s, and in each session the room opens up to twice (a reconnection); one offer; `stop()` may come from a listener, a task that it then cancels, so that the next session meets what it left. |
| `streams` | `Motion`: `TypeOK`, `KeepAlive`, `AtRestUnfed`, `StopJogSilences` | One stream, one script, one keep-alive, two callers of `stop_jog`. The watchdog is two ticks and one frame in a row may be lost, the largest loss the feeder survives. |
| `rests` | `Motion`: `StopRests` under fairness | As above without targets, which reset nothing of the jog but feed the dead-man. |
| `latch` | `Estop`: `ConfirmedLatched`, `ReportEndsWait`, `LatchConfirmed` | Two command frames of a kind in flight: an estop and its repetition can straddle a reset. |
| `requests` | `Navigation` implements `Goals` (`Promise`) | Two starts, a cancel, a waypoint saved; four frames sent in all, so every request may have a retry that arrives after others have run; one E-stop. The robot's memory holds them all, as REQUEST_HISTORY (256) does for a session's requests in flight. |
| `awaits` | `Navigation`: `TypeOK`, `NoOrphan`, `AwaitTruthful` | Two awaits and two goals: replaced, timed out and leaving late in every order; a cancel, so that goals end canceled too; three frames sent, and two snapshots in flight to be reordered. The robot's memory of two replies does overflow, but no retry is left by then to find its reply gone: nothing is said here of a robot that forgets, and `AwaitTruthful` is proved for one that does not (section 4). |
| `threads` | `Supabase`: `TypeOK`, `NoSocketLeft`, `RefreshAfterJoin`, `HandlersKnow`, `ThreadsEnd`, `Rejoins` | Two `connect()`s, so that the thread of the first may survive into the second; two faults, so that recovery is itself interrupted. |
| `calls` | `Replies`: `TypeOK`, `VerdictIsFinal`, `FedWhileAwaited`, `NextResolves`, `RatesStand` | Any two calls of eight, hence all pairs of a kind; one retry; a history of one verdict, which two actions overflow; a still of two chunks. |
| `events` | `Streams`: `TypeOK`, `NobodySkipped`, `Freshest`, `OneMore`, and `StreamsEnd` under fairness | Three frames over a queue of two, so that it overflows with and without the sentinel in it; two sessions; a sync and an async listener and one stream. |
| `jogs` | `JogBuilder`: `NothingDropped`, `Calibrated` | Two DOFs set, three known to the arm; four robots: with rails, with a central lift and task-space verbs, with reversed axes, and one whose descriptor is broken. |
| `tokens` | `Auth`: `ServedAlive`, `GrantRate` | Two callers; lifetimes below the floor, below twice the lead and above; a wall clock that is five units behind, right or ahead, and stepped. |

Where a module is checked by two runs one of them has its `TypeOK`; for `Session`, `Estop`, `Auth` and
`JogBuilder` it is a theorem and in no run. A `TypeOK` also holds the facts that tie a variable to its owner:
the caller in a grant has the lock, the histories are bounded, a joined room belongs to a
thread that is in its session.

`CHECK_DEADLOCK FALSE` stands where the system may stop for good: a session after `stop()`, a
client whose calls, offers, frames or sends (a bound) are used up. `latch`, `tokens` and `jogs` are
checked for deadlock.

### Bounds

MaxOffers, MaxOpens, MaxStarts (`Session`), MaxDrops (`Motion`, losses in a row), MaxCmds
(`Estop`), MaxDown, MaxSends, MaxPresses (`Navigation`), MaxConnects, MaxFaults (`Supabase`),
MaxCalls, MaxRetries (`Replies`), MaxFrames, MaxStarts (`Streams`), MaxSet (`JogBuilder`),
MaxTime (`Auth`) are bounds of the model alone. History
(ACTION_HISTORY, REQUEST_HISTORY), MaxSize (a stream's queue), TStop, WaitTicks, Skew, MinCache, DefaultTTL and Latency
are constants of the code, scaled down.

### Fairness

Only what the code's scheduling gives:

* `Session!LoopFairness`: asyncio runs scheduled tasks and fires timers (WF of `Tick`,
  `HandleConnState`, `DeadlineWakes`). Nothing of the robot, the network or the caller.
* `Motion!Fairness`: tasks take their turns, time passes, a frame that is not lost arrives, and
  the awaits of `stop()` end, since each is under a timeout or awaits a cancelled task.
* `Estop!Fairness`: the robot goes on sending telemetry, and the channel does not lose every
  report (SF of its reception). Without this no confirmation could be owed.
* `Streams!Fairness`: asyncio runs what is ready: a round, a consumer that was woken, a `stop()`
  whose awaits end (WF). Nothing is asked of the consumers themselves.
* `Supabase!Fairness`: threads run; a dead link is found by a send of the heartbeat, which
  beats for ever; the server answers a join. SF, and not WF, for what is tried again and again
  after a backoff (a socket, a token, the reply to the join): one attempt of many succeeds.

## 4. What is proved

Every safety property of every run, invariant, action property and refinement, is a theorem for
**every** value of the constants, under the named assumptions of the modules. Where a theorem
assumes more, it says so, and the reason is a counterexample that TLC finds without it.

* `SessionProofs!TypeCorrect`: `Spec => []TypeOK`. Split by groups of variables (switches, life
  cycle, negotiation, timers, peers), one lemma each.
* `SessionProofs` assumes nothing of the order of offers, opens and stops: any number of
  `_on_sdp` tasks may be suspended at once, and `stop()` may cancel itself. Where the code keeps
  a promise only until that happens, the property says so with `crossed`, `raced` or `aborted`
  (section 6), and the invariants carry the same antecedents.
* `SessionProofs!LinkIsTold` (`LinkTold`). `LinkInv`: whichever of the connection and the channel
  came last told the robot; `BuiltInv`: a peer is built before it is the current one or is closed,
  and before its channel comes, so no connection comes up under a channel that is there already.
* `SessionProofs!OnePeer` (`NoStrayPeer`). `StagesInv` orders the stages of `stop()`. `RaceInv`:
  a task that waits for a peer to close waits for the current one, at most one `_on_sdp` does,
  and none beside the close of `stop()`; whatever peer is open or being closed is the current
  one. Where the tasks that overlap are elsewhere than in that close, they are harmless to it.
  `CrossInv` says that two tasks that have closed the same peer had overlapped, and, while none
  has, that at most one is suspended and has made its own peer the current one.
* `SessionProofs!StopsCleanly` (`CleanStop`), from `DoneInv`: what `stop()` leaves is at most the
  close event of its own peer, and the negotiation it met, which has no peer and can only name its
  failure. A `stop()` that cancelled itself leaves a session behind, and the next `stop()` clears
  it all the same.
* `SessionProofs!ConnectedFollows` (`ConnectedTracksPeer`). `_connected` follows the peer only
  when the scheduled `_handle_conn_state` tasks have run, so `ConnInv` speaks of the *last* of
  them.
* `SessionProofs!CandidatesReach` (`CandidateReaches`). `FlushInv` ties `_remote_set` to where the
  current `_on_sdp` is; `CandInv` says where a candidate is: held, further on than the flush has
  come, or on the peer.
* `SessionProofs!RidesOutSignaling` (`LiveSessionRidesOut`). `LiveInv`: while connected the status
  is "connected", or "negotiating" for a newer offer, so no timer or refusal of the waiting
  phases applies. `IdleInv` and `FreshInv`: before `start()` nothing is there, and a peer whose
  offer is not answered yet is new, so a negotiation that raises is never that of a connected
  session.
* `SessionProofs!WaitIsWatched` (`WaitWatched`), from `LiveInv` and `WatchInv`: who enters the
  phase arms a deadline, and only the end of the phase or `stop()` disarms the last one; and
  `_connected` is clear, so neither that deadline nor the retry loop gives up on it.
* `MotionProofs`: `TypeCorrect`; `StopSilences` (`StopJogSilences`), from `Parking`: from its zero
  frame to the next verb nobody drives; `UnfedRests` (`AtRestUnfed`), from `Resting`: a driving
  frame in flight was sent in this very tick, and a robot that drives has been silent for as long
  as no driving frame was sent, unless a target fed it; `TargetIsKept` (`KeepAlive`), assuming
  `MaxDrops < TStop`: fewer losses in a row than the watchdog's window is long. `Kept` bounds the
  robot's silence by the losses and the frame that is due.
* `EstopProofs`: `TypeCorrect`; `NeverInvented` (`ConfirmedLatched`), from `LatchInv`:
  the latch, a report in flight, the merged block and a confirmation each come after a latch, and
  the merge makes no block of its own; `NeverOverlooked` (`ReportEndsWait`), from
  `WaitInv`: the first report of a latch that is received ends the wait; `SteadySafety`
  (`Spec => SafetySteady`), which needs no invariant.
* `NavigationProofs`: `TypeCorrect`; `RequestsKeepPromise` (`Spec => Promise`, the refinement of
  `Goals`), assuming `HistoryIsEnough`: the robot remembers as many replies as there are requests.
  `Promising` says that what is in flight, remembered and answered is the outcome of the request
  (`Honest`), that the replies remembered are of different requests (`Distinct`), those of all that
  have run (`Remembered`), and that the robot's goal is the active one (`OneGoal`). With a
  smaller memory a late retry runs again, and the refinement is lost: the assumption is needed.
  `NoAwaitIsOrphaned` (`NoOrphan`), for any memory, from `Registered`: the await a goal's end would
  wake waits for that goal. `AwaitsAreTruthful` (`AwaitTruthful`), assuming `HistoryIsEnough`, from
  `Truthful`: so does every snapshot that tells of an end, in flight, remembered or cached, and
  by the refinement an ended goal has ended for good.
* `RepliesProofs`: `VerdictsAreFinal` (`VerdictIsFinal`), from `Deciding`: a request of an action
  is in flight once, and a verdict in flight is the robot's; `FedWhileTheyWait`
  (`FedWhileAwaited`), inductive by itself; `RatesAlwaysStand` (`RatesStand`), from `Answered`: what
  is answered has been carried out, so a retry of it is known to the robot; `NextReplyResolves`
  (`NextResolves`), from `Listed`: who is in a list still waits, or was cancelled, or is about to
  take itself off it, and of a kind one call at a time has not returned, so the head of the list
  is the caller that waits unless a cancelled one is before it; `TypeCorrect` (`TypeOK`), from
  `Others`: the history of verdicts has one entry of each action, which is why a new one replaces
  the old and the oldest alone is dropped when ACTION_HISTORY is reached.
* `StreamsProofs`: `TypeCorrect` (`TypeOK`), from `Listed`: the listeners, and the copy a round goes
  over, name each open stream once. `EveryListenerHears` (`NobodySkipped`), from `Attentive`: who
  is subscribed has heard every frame, or the round under way has yet to come to it, whoever
  subscribes and unsubscribes meanwhile. It assumes `OwnCallbacks`, a callback of its own for each
  `on()`; two subscriptions of one callback can take each other away (`OthersStay`, below).
  `NewestWait` (`Freshest`), from `FreshInv`: what waits in a queue are consecutive frames up
  to the newest that the consumer's turn in the round has brought, each once, with the sentinel among
  them at most. `OneMoreAtMost` (`OneMore`), from `Spared`: nothing is counted before `stop()`,
  and a consumer that was waiting has the one frame to come.
* `SupabaseProofs`: `TypeCorrect`, `NoSocketIsLeft` (`NoSocketLeft`), `RefreshesAfterJoin`
  (`RefreshAfterJoin`), from `IInv`: a thread in no session has no socket (`Sockets`), and, while no
  thread runs beside another, the one started last is the only one, and socket, ref and confirmed
  join are its own (`Alone`). `HandlersHearTheTruth` (`HandlersKnow`), from `Rested` (once
  `close()` has returned without giving up, no thread is left to speak), `Named` (a thread in
  a session has the ref of its join, which the server's reply is compared with) and `Pushed` (a
  thread that fetches the first token to push has a join that the server confirmed, and has it
  still when it tells the handlers).
* `SupabaseProofs!AuthTypeCorrect`: types of `Auth`, and the lock: at most one caller is in a grant.
* `SupabaseProofs!ServesLiveTokens`: `AuthSpec => []ServedAlive`. `CacheInv` relates the deadline
  to the time of the grant: a grant took at most `Latency`, so the expiry is at least the grant's
  time plus the lifetime less `Latency`; and the deadline is the floor, or leaves the lead. The
  wall clock appears nowhere in it, which is the design's point (`auth.py` 130-140).
* `SupabaseProofs!GrantsApart`: `AuthSpec => GrantRate`, from the same invariant: whoever is in a
  grant found the cache stale, and the cache is not stale before the floor has passed.
* `JogBuilderProofs`: `TypeCorrect`; `NothingIsDropped` (`NothingDropped`), from `AllOfUse`: the
  payload, the frame built last with the dicts it shares, and the robot's jog set nothing
  that the robot would not read, but for what `Doubtful` names. `EveryRobotCalibrated`
  (`Calibrated`): whatever the robot sends as bounds and scale (any integers in any order, reversed
  axes, flags, other values, bounds missing), for every position and speed. The parser is taken
  case by case (`SpanParsed`, `RateParsed`, `DescriptorParsed`); the conversions are fractions,
  and the proof is arithmetic about them: the part of the range a value has reached
  (`PartOfRange`), the same part of the other range, and the way back (`PartBack`), where the
  divisor is not zero exactly because equal bounds were refused.

`ServedAlive` has a precondition, `Roomy`: where the lifetime leaves no room for the floor
(30 s) or the lead is shorter than a grant may take, the floor wins and a dead token may be
served. That is the choice of the code (`auth.py` 141-145), which limits the grant rate first.

Proved about sequences and sets, and cited where needed: the least element of a set of naturals
(`LeastOf`), which stands in for induction where the first match of a list matters; what
removing the first match or an index leaves (`Removed`, `RemoveFirstFrom`); the last of a
queue under `Append` and `Tail`.

Only model-checked: liveness (`WaitingEnds`, `StopRests`, `LatchConfirmed`, `StreamsEnd`,
`ThreadsEnd`, `Rejoins`), which the prover does not handle under fairness. `TypeCorrect` of
`Session`, `Estop`, `Auth` and `JogBuilder` and `SteadySafety` of `Estop` are proved, and in no run.

## 5. Disagreements between the code and what it says

The modules state the claims of a comment or a docstring that the code does not keep under a
heading of their own, with the line that makes each. TLC refutes each of them in the bounds of
its module's passing runs (exceptions are noted); they are not among the runs, which check what
the code does keep.

| Claim | Module | What happens |
|---|---|---|
| `HeldUntilRemote` (`teleop.py` 1417) | `Session` | `_remote_set` stays true until the next offer replaces the peer, so a candidate of a renegotiation that beats its offer is given to the old peer and lost, where the comment says it is held. |
| `AnswersEchoToken` (`teleop.py` 190) | `Session` | `_on_sdp` tasks that overlap share `_session_token`: an answer to one offer, sent after the next offer has come, carries the token of the later one. |
| `NoStrayPeer`, `CandidateReaches` and `LiveSessionRidesOut` without their exceptions | `Session` | `_on_sdp` tasks that overlap share `_pc`, `_remote_set` and `_pending_ice` too. Two that both wait for the same old peer to close each build a peer, and the first built is left open (three offers; `raced`). The flush of an old offer takes the candidates of the new one (two offers; `crossed`). A negotiation that raises late marks a session that has come up meanwhile as failed (two offers; `crossed`). |
| `WaitingAlwaysEnds` (`teleop.py` 1449) | `Session` | A wait can stay unwatched. A listener's `stop()` cancels itself and leaves `_connected` set; the next `start()` and `on_open` wait, and the deadline (1445) and the retry loop (1437) both give up because of the flag, so "no offer within 20s" is never said and no ready is repeated. Or: of two offers that overlap one comes up and the other raises, which leaves the phase failed and the flag set, and a further `on_open` waits in the same way. |
| `AbsentAfterFullWait` | `Session` | A deadline armed in an earlier wait ends a later one. |
| `OneRetryLoop` | `Session` | A second `on_open` starts a second loop. |
| `StopTearsDown` | `Session` | `stop()` called by an async listener cancels itself. |
| `OneWindow`, `ClearSendsZero`, `StreamAlive` | `Motion` | A target's keep-alive keeps a lost zero's jog in force; a cleared stream ends on a driving frame if the clear and the loop meet; `set_jog` while `stop_jog` awaits the old loop sets a payload that no task sends. |
| `TimeoutUnreported` (`teleop.py` 721) | `Estop` | A report that comes in the instant of the deadline sets the future, and the timer, which is due, is run before the caller: on Pythons whose `wait_for` is a timeout scope (3.12 and later) the cancellation wins and `estop_confirmed` raises although the latch was seen. `_await_reply` (981-989) looks at the future once more; this wait does not. |
| `ConfirmedByReport` (`teleop.py` 724) | `Estop` | `estop_confirmed` may be satisfied by a telemetry frame without a safety block, because the merged frame carries the old one forward: what its comment says cannot happen. |
| `LatchHolds` | `Estop` | A reset sent before an estop may arrive after it. |
| `NeverResumes`, `AwaitUnreported` | `Navigation` | The cache remembers one snapshot: once another replaces the end of a goal, a late snapshot of the goal shows it under way, and an await of it times out. |
| `FinishedIsOver` | `Navigation` | A start refused under the E-stop is answered `unavailable` with the id of the active goal, and ends the await of that goal early (needs an E-stop and an await together). |
| `NextFrame`, `VerdictStays`, `StopFailsAll`, `StillTimesOutIncomplete` | `Replies` | A cancelled caller's future swallows the next caller's reply; a late progress report replaces a verdict in `action_status`; `stop()` leaves actions and stills to their timeouts; a still whose last chunk comes in its last wait fails although complete. |
| `EndsWithItsSession` (`teleop.py` 1285) | `Streams` | A consumer that was busy through `stop()` and `start()` goes on in the next session, once its full queue has shed the sentinel. |
| `OthersStay` (`teleop.py` 1272) | `Streams` | An unsubscriber called twice takes away another subscription of the same callback. |
| `EveryDofRead` (`motion.py` 88) | `JogBuilder` | A strict builder takes a task-space verb for an arm that does not exist, `yaw` where the robot knows the joint by its other name, and a rail that is a joint and no aux; the robot drops each. |
| `RatesBounded` (`motion.py` 14) | `JogBuilder` | NaN passes `clamp`. |
| `BuiltIsFixed` (`motion.py` 80) | `JogBuilder` | A built frame changes with later calls of the builder, in the dicts they share. |
| `AliasHasRate` (`motion.py` 104) | `JogBuilder` | `arm` accepts either spelling of yaw, `jog_rate` knows the advertised one. |

## 6. Abstractions

* Payloads, names, poses, tokens and descriptions are identities or members of a small set.
* A future that was set or cancelled cannot be set again, a cancelled task runs until its next
  await: asyncio's rules, taken as given. aiortc is modelled by what the code uses of it: a
  peer's state, that `close()` is an await whose start changes the state, that events come later.
* Loss is a step that is not taken, or a `Lose` action where a liveness property needs one.
  Reordering is a set of frames; duplication exists only as retries, as the channel makes none.
* `crossed`, `raced`, `aborted` are history. `crossed`: an `_on_sdp` has run beside another one
  or beside a `stop()`; `raced`: two tasks have waited for the same peer to close; `aborted`: a
  `stop()` has cancelled itself. A `Session` property that the code keeps only until one of them
  excepts it by name, and section 5 says what happens then; what is unconditional (`LinkTold`),
  or holds however tasks overlap (`NoStrayPeer`, `ConnectedTracksPeer`, `CleanStop` until
  `raced`), is checked and proved so.
* `kept` holds the sessions whose candidate came when there was no peer or their own was the
  current one: one that comes earlier is given to the old peer (`HeldUntilRemote`, section 5).
* `zombie`: once `connect()` has started a thread beside one that `close()` gave up waiting for,
  the two share `_ws` and `_joined`, and `Supabase` claims no more of them.

## 7. Not modelled, and what is left

Not modelled: `webrtc_compat.py` (patches of third-party objects), `_png.py` and `snapshot`
(pure encoding), video frames, `LoopbackSignaling` and `MockRobotSession` (doubles for tests), the
kinematics, samples and telemetry values of `MockRobot`, the other builders and parsers of `protocol.py`
and `types.py` (pure conversion), the public room and the broadcasts of `signaling_supabase.py`
(their events are `Session`'s inputs), HTTP and settings in `auth.py`, examples and tools. Random
jitter and the lengths of backoffs are left out.

The order was that of importance: `Session`, `Motion`, `Estop`, `Navigation` with `Goals`,
`Supabase`, `Replies`, `Auth`, then `Streams` and `JogBuilder`, with their proofs. What a next
extension would take up:

1. A still whose frame changes between two rounds; clamped poses.
2. The kinematics of `MockRobot`, its ramps and joint limits, against a reference definition.

## 8. Running

    tlc -workers 2 -config Session_negotiation.cfg MCSession.tla
    tlapm SessionProofs.tla

Each `.cfg` is named after its module and run. No run takes five minutes on two cores.
