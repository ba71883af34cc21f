------------------------------- MODULE Session -------------------------------
(***************************************************************************)
(* The life cycle of one RemoteTeleop (src/src/nori_sdk/teleop.py): start, *)
(* stop, and the negotiation that every SDP offer of the robot starts.     *)
(*                                                                         *)
(* All the code runs on one asyncio loop, so it interleaves only at its    *)
(* awaits.  on_sdp is one task per offer, and it can be suspended closing  *)
(* the old peer, setting the remote description, flushing held candidates  *)
(* and gathering its own; stop() can be suspended in stop_jog, in the      *)
(* transport's close and in the peer's close.  Each stretch between two    *)
(* awaits is one action here.                                              *)
(*                                                                         *)
(* Offers are numbered: offer o carries the session token o and the peer   *)
(* connection that on_sdp builds for it is peer o; 0 is Python's None.     *)
(* A candidate is known by the session that sent it.                       *)
(***************************************************************************)
EXTENDS Naturals, Sequences, FiniteSets

CONSTANTS
  MaxOffers,  \* offers the robot makes in one behaviour (bound)
  MaxOpens,   \* times the signaling room opens in one session (bound)
  MaxStarts,  \* calls of start() (bound)
  WaitTicks,  \* ROBOT_WAIT_S, in ticks; 0: the time to wait may be over at once
  IceFrom,    \* the sessions that trickle a candidate
  Modes       \* the link modes that may be resolved: "lan", "wan"

ASSUME BoundsAssumption ==
  /\ MaxOffers \in Nat /\ MaxOpens \in Nat /\ MaxStarts \in Nat
  /\ WaitTicks \in Nat

ASSUME ModesAssumption == "wan" \in Modes /\ Modes \subseteq {"lan", "wan"}

Offers == 1 .. MaxOffers
Opens  == 1 .. MaxOpens
Ids    == Offers \cup {0}

ASSUME IceAssumption == IceFrom \subseteq Offers

Phases   == {"idle", "joining", "waiting", "negotiating", "connected", "failed", "closed"}
Failures == {"none", "signaling_unreachable", "robot_absent", "session_rejected",
             "negotiation_failed", "ice_failed"}

\* Where the on_sdp task of an offer is suspended, or how it ended.
Suspended == {"closing", "remote", "flush", "local"}
SdpLabels == {"none", "done", "failed"} \cup Suspended

VARIABLES
  status, connected, ready,            \* _status, _connected, _ready
  stopped, stopper, stopPc,            \* _stopped; where stop() is; the peer it closes
  token, pc, remoteSet, pendingIce,    \* _session_token, _pc, _remote_set, _pending_ice
  sdp, closes, flush,                  \* the on_sdp tasks and their locals
  control, linkMode,                   \* the peer of _control; _link_mode
  deadline, retry,                     \* the _wait_deadline tasks; the live _ready_retry_loops
  connQ,                               \* scheduled _handle_conn_state tasks
  room, asked,                         \* the transport; a ready the gateway may answer
  peer, reached, answers, linkTold,    \* peer connections; what they and the robot got
  iceSeen, offers, opens, starts,      \* candidates delivered; counters
  kept, crossed, raced, aborted        \* history: see the properties

flags     == <<status, connected, ready>>
teardown  == <<stopped, stopper, stopPc>>
nego      == <<token, pc, remoteSet, pendingIce, sdp, closes, flush>>
link      == <<control, linkMode, linkTold>>
timers    == <<deadline, retry>>
peers     == <<peer, reached, answers>>
world     == <<room, asked>>
counters  == <<iceSeen, offers, opens, starts>>
hist      == <<kept, crossed, raced, aborted>>
vars == <<flags, teardown, nego, link, timers, connQ, peers, world, counters, hist>>

Status(ph, why) == [phase |-> ph, failure |-> why]
\* Where stop() is, and who called it: an async on() listener is a task of
\* self._tasks, any other caller is not.
Callers == {"caller", "listener"}
Stopper(at, by) == [at |-> at, by |-> by]

Off == WaitTicks + 1   \* a _wait_deadline task that does not exist (any more)

SwitchesOK ==
  /\ connected \in BOOLEAN /\ ready \in BOOLEAN /\ stopped \in BOOLEAN
  /\ remoteSet \in BOOLEAN /\ asked \in BOOLEAN
  /\ crossed \in BOOLEAN /\ raced \in BOOLEAN /\ aborted \in BOOLEAN

LifecycleOK ==
  /\ status \in [phase : Phases, failure : Failures]
  /\ stopper \in [at : {"idle", "jog", "room", "peer", "done", "aborted"}, by : Callers]
  /\ stopPc \in Ids
  /\ room \in {"off", "joining", "on"}
  /\ starts \in 0 .. MaxStarts

NegotiationOK ==
  /\ token \in Ids /\ pc \in Ids
  /\ pendingIce \in Seq(Offers)
  /\ sdp \in [Offers -> SdpLabels]
  /\ closes \in [Offers -> Ids]
  /\ flush \in [Offers -> Nat \ {0}]
  /\ iceSeen \subseteq Offers /\ kept \subseteq Offers
  /\ offers \in 0 .. MaxOffers

TimersOK ==
  /\ deadline \in [Opens -> 0 .. Off]
  /\ retry \subseteq Opens
  /\ opens \in 0 .. MaxOpens

PeersOK ==
  /\ connQ \in Seq({"connected", "failed", "closed"})
  /\ peer \in [Offers -> {"none", "new", "connected", "failed", "closing", "closed"}]
  /\ reached \subseteq Offers
  /\ answers \subseteq [offer : Offers, token : Ids]
  /\ control \in Ids
  /\ linkMode \in Modes \cup {"none"} /\ linkTold \in Modes \cup {"none"}

TypeOK == SwitchesOK /\ LifecycleOK /\ NegotiationOK /\ TimersOK /\ PeersOK

Init ==
  /\ status = Status("idle", "none")
  /\ connected = FALSE /\ ready = FALSE
  /\ stopped = FALSE /\ stopper = Stopper("idle", "caller") /\ stopPc = 0
  /\ token = 0 /\ pc = 0 /\ remoteSet = FALSE /\ pendingIce = <<>>
  /\ sdp = [o \in Offers |-> "none"]
  /\ closes = [o \in Offers |-> 0]
  /\ flush = [o \in Offers |-> 1]
  /\ control = 0 /\ linkMode = "none"
  /\ deadline = [k \in Opens |-> Off]
  /\ retry = {}
  /\ connQ = <<>>
  /\ room = "off" /\ asked = FALSE
  /\ peer = [o \in Offers |-> "none"]
  /\ reached = {}
  /\ answers = {}
  /\ linkTold = "none"
  /\ iceSeen = {} /\ offers = 0 /\ opens = 0 /\ starts = 0
  /\ kept = {} /\ crossed = FALSE /\ raced = FALSE /\ aborted = FALSE

-----------------------------------------------------------------------------
(* The peer connection, as src/ uses it (aiortc).  A closed peer emits      *)
(* nothing; close() emits "closed" once, as its last step; a candidate      *)
(* reached before the remote description, or to a closing peer, is dropped.   *)

Answered(p)    == \E a \in answers : a.offer = p
HasRemote(p)   == sdp[p] \in {"flush", "local"} \/ Answered(p)
Usable(p)      == p \in Offers /\ peer[p] \in {"new", "connected", "failed"}
ChannelOpen(p) == p \in Offers /\ peer[p] \in {"connected", "failed"}

\* reached: the sessions whose candidate is on the peer of that session.
AddedTo(p, s) ==
  IF p = s /\ Usable(p) /\ HasRemote(p) THEN reached \cup {s} ELSE reached

\* pc.close() up to its first await, and its completion (a no-op when another
\* caller has already closed the peer).
CloseBegun(p) == IF peer[p] = "closed" THEN peer ELSE [peer EXCEPT ![p] = "closing"]
CloseEvent(p) == IF peer[p] = "closing" THEN Append(connQ, "closed") ELSE connQ
\* The control channel closes with its peer, and with it goes what the robot was told on it.
WithoutControl(p) ==
  /\ control' = IF control = p THEN 0 ELSE control
  /\ linkTold' = IF control = p THEN "none" ELSE linkTold

\* _handle_conn_state runs as a task of its own, started in the loop iteration
\* after the event.  A peer or transport await takes longer than that, so a
\* suspended method resumes only when no such task is waiting to start.
Resumes == connQ = <<>>

NoneInFlight == \A o \in Offers : sdp[o] \notin Suspended

\* An on_sdp waits for the close of peer p.
AwaitsClose(p) == \E o \in Offers : sdp[o] = "closing" /\ closes[o] = p

-----------------------------------------------------------------------------
(* on_sdp, one task per offer *)

\* Mutant of NewPeer: the new peer stays a local of on_sdp.
NewPeerUnstored(o) ==
  /\ remoteSet' = FALSE /\ UNCHANGED pc
  /\ sdp' = [sdp EXCEPT ![o] = "remote"]

\* _fresh_peer after the old peer is closed: a new peer becomes self._pc.
NewPeer(o) ==
  /\ pc' = o /\ remoteSet' = FALSE
  /\ sdp' = [sdp EXCEPT ![o] = "remote"]

\* The transport delivers the gateway's next offer: on_sdp up to its first await.
SdpBegin(o) ==
  /\ room = "on" /\ asked
  /\ o = offers + 1
  /\ offers' = o /\ asked' = FALSE
  /\ status' = Status("negotiating", "none")
  /\ token' = o
  /\ crossed' = (crossed \/ stopped \/ ~NoneInFlight)
  /\ \/ /\ pc = 0
        /\ NewPeer(o)
        /\ peer' = [peer EXCEPT ![o] = "new"]
        /\ UNCHANGED <<closes, raced>>
     \/ /\ pc # 0
        /\ sdp' = [sdp EXCEPT ![o] = "closing"]
        /\ closes' = [closes EXCEPT ![o] = pc]
        /\ peer' = CloseBegun(pc)
        /\ raced' = (raced \/ AwaitsClose(pc))
        /\ UNCHANGED <<pc, remoteSet>>
  /\ UNCHANGED <<connected, ready, teardown, pendingIce, flush, link, timers, connQ,
                 reached, answers, room, iceSeen, opens, starts, kept, aborted>>

\* `await self._pc.close()` returns: the new peer is built.
SdpClosedOld(o) ==
  /\ sdp[o] = "closing" /\ Resumes
  /\ NewPeer(o)
  /\ peer' = [peer EXCEPT ![closes[o]] = "closed", ![o] = "new"]
  /\ connQ' = CloseEvent(closes[o])
  /\ WithoutControl(closes[o])
  /\ closes' = [closes EXCEPT ![o] = 0]
  /\ UNCHANGED <<flags, teardown, token, pendingIce, flush, linkMode, timers,
                 reached, answers, world, counters, hist>>

\* `await pc.setRemoteDescription(...)` returns, even if the peer has been closed
\* in the meantime; or it raises: SdpFails.
SdpRemote(o) ==
  /\ sdp[o] = "remote" /\ Resumes
  /\ remoteSet' = TRUE
  /\ sdp' = [sdp EXCEPT ![o] = "flush"]
  /\ UNCHANGED <<flags, teardown, token, pc, pendingIce, closes, flush, link, timers,
                 connQ, peers, world, counters, hist>>

\* A step of the negotiation raised.
Raised(o) ==
  /\ sdp' = [sdp EXCEPT ![o] = "failed"]
  /\ status' = Status("failed", "negotiation_failed")

\* One turn of `for candidate in self._pending_ice`, an iteration by index
\* over the live list; after the last one the list is cleared, and createAnswer,
\* which does not suspend, raises if the peer has been closed.
SdpFlush(o) ==
  /\ sdp[o] = "flush" /\ Resumes
  /\ \/ /\ flush[o] <= Len(pendingIce)
        /\ reached' = AddedTo(o, pendingIce[flush[o]])
        /\ flush' = [flush EXCEPT ![o] = @ + 1]
        /\ UNCHANGED <<pendingIce, sdp, status>>
     \/ /\ flush[o] > Len(pendingIce)
        /\ pendingIce' = <<>>
        /\ \/ Usable(o) /\ sdp' = [sdp EXCEPT ![o] = "local"] /\ UNCHANGED status
           \/ ~Usable(o) /\ Raised(o)
        /\ flush' = [flush EXCEPT ![o] = 1]
        /\ UNCHANGED reached
  /\ UNCHANGED <<connected, ready, teardown, token, pc, remoteSet, closes, link, timers,
                 connQ, peer, answers, world, counters, hist>>

\* The answer on_sdp sends for offer o, with whatever _session_token holds now.
Answer(o) == [offer |-> o, token |-> token]

\* setLocalDescription returns: the answer goes out, and the candidates after it,
\* the sending of which may raise when the answer is gone already.
SdpAnswer(o) ==
  /\ sdp[o] = "local" /\ Resumes
  /\ answers' = answers \cup {Answer(o)}
  /\ \/ sdp' = [sdp EXCEPT ![o] = "done"] /\ UNCHANGED status
     \/ Raised(o)
  /\ UNCHANGED <<connected, ready, teardown, token, pc, remoteSet, pendingIce, closes, flush,
                 link, timers, connQ, peer, reached, world, counters, hist>>

\* setRemoteDescription, createAnswer, setLocalDescription or send_sdp raises.
SdpFails(o) ==
  /\ sdp[o] \in {"remote", "local"} /\ Resumes
  /\ Raised(o)
  /\ UNCHANGED <<connected, ready, teardown, token, pc, remoteSet, pendingIce, closes,
                 flush, link, timers, connQ, peers, world, counters, hist>>

\* _on_ice adds a candidate to the peer at once, or holds it.
CanAdd == pc # 0 /\ remoteSet

HeldDropped(s) == pendingIce                       \* mutant: an early candidate is lost
Held(s) == Append(pendingIce, s)

\* _on_ice: the candidate of session s, which may beat the offer of s.
OnIce(s) ==
  /\ room = "on" /\ s \in IceFrom \ iceSeen /\ s \in {offers, offers + 1}
  /\ iceSeen' = iceSeen \cup {s}
  /\ \/ /\ CanAdd
        /\ reached' = AddedTo(pc, s)
        /\ UNCHANGED pendingIce
     \/ /\ ~CanAdd
        /\ pendingIce' = Held(s)
        /\ UNCHANGED reached
  /\ kept' = IF pc \in {0, s} THEN kept \cup {s} ELSE kept
  /\ UNCHANGED <<flags, teardown, token, pc, remoteSet, sdp, closes, flush, link, timers,
                 connQ, peer, answers, world, offers, opens, starts, crossed, raced, aborted>>

-----------------------------------------------------------------------------
(* Signaling handlers and the tasks they spawn *)

\* _spawn(_wait_deadline()), for the k-th on_open.
Armed(k) == [deadline EXCEPT ![k] = WaitTicks]

\* _on_signaling_open: the room was joined, or joined again.
SignalingOpen(k) ==
  /\ room \in {"joining", "on"} /\ k = opens + 1
  /\ opens' = k /\ room' = "on" /\ asked' = TRUE
  /\ retry' = retry \cup {k}
  /\ \/ /\ status.phase \in {"joining", "failed"}
        /\ status' = Status("waiting", "none")
        /\ deadline' = Armed(k)
     \/ /\ status.phase \notin {"joining", "failed"}
        /\ UNCHANGED <<status, deadline>>
  /\ UNCHANGED <<connected, ready, teardown, nego, link, connQ, peers,
                 iceSeen, offers, starts, hist>>

\* _on_signaling_state("error" | "timeout").
SignalingError ==
  /\ room # "off" /\ ~connected
  /\ status' = Status("failed", "signaling_unreachable")
  /\ UNCHANGED <<connected, ready, teardown, nego, link, timers, connQ, peers, world,
                 counters, hist>>

\* _on_robot_here: a gateway joined the room, again perhaps, or restarted.
RobotHere ==
  /\ room = "on"
  /\ asked' = TRUE
  /\ UNCHANGED <<flags, teardown, nego, link, timers, connQ, peers, room, counters, hist>>

\* Mutant of Nacked: a live session is torn down by a nack.
NackedAlways ==
  /\ room = "on"
  /\ status' = Status("failed", "session_rejected")
  /\ UNCHANGED <<connected, ready, teardown, nego, link, timers, connQ, peers, world,
                 counters, hist>>

\* _on_nack with a reason other than "unauthorized".
Nacked ==
  /\ room = "on" /\ ~connected
  /\ status' = Status("failed", "session_rejected")
  /\ UNCHANGED <<connected, ready, teardown, nego, link, timers, connQ, peers, world,
                 counters, hist>>

\* A _ready_retry_loop wakes: it ends, or sends another ready.
RetryWakes(k) ==
  /\ k \in retry
  /\ \/ /\ stopped \/ connected
        /\ retry' = retry \ {k}
        /\ UNCHANGED asked
     \/ /\ ~ (stopped \/ connected)
        /\ asked' = (room = "on")
        /\ UNCHANGED retry
  /\ UNCHANGED <<flags, teardown, nego, link, deadline, connQ, peers, room,
                 counters, hist>>

\* What a _wait_deadline that wakes takes for an absent robot.
AbsentIfJoining == ~stopped /\ ~connected /\ status.phase = "joining"  \* mutant: wrong phase
Absent == ~stopped /\ ~connected /\ status.phase = "waiting"

\* ROBOT_WAIT_S after its on_open, a _wait_deadline wakes.
DeadlineWakes(k) ==
  /\ deadline[k] = 0
  /\ deadline' = [deadline EXCEPT ![k] = Off]
  /\ status' = IF Absent THEN Status("failed", "robot_absent") ELSE status
  /\ UNCHANGED <<connected, ready, teardown, nego, link, retry, connQ, peers, world,
                 counters, hist>>

\* Time passes, but not past a timer that is due or a task ready to start.
Tick ==
  /\ Resumes
  /\ \E k \in Opens : deadline[k] # Off
  /\ \A k \in Opens : deadline[k] # 0
  /\ deadline' = [k \in Opens |-> IF deadline[k] = Off THEN Off ELSE deadline[k] - 1]
  /\ UNCHANGED <<flags, teardown, nego, link, retry, connQ, peers, world, counters, hist>>

-----------------------------------------------------------------------------
(* The peer connection and the control channel *)

\* ICE and DTLS come up, which needs the robot to have the answer to its offer.
PeerConnects(p) ==
  /\ peer[p] = "new" /\ [offer |-> p, token |-> p] \in answers
  /\ peer' = [peer EXCEPT ![p] = "connected"]
  /\ connQ' = Append(connQ, "connected")
  /\ UNCHANGED <<flags, teardown, nego, link, timers, reached, answers, world, counters, hist>>

\* ICE finds no path, or the path is lost.
PeerFails(p) ==
  /\ \/ peer[p] = "new" /\ Answered(p)
     \/ peer[p] = "connected"
  /\ peer' = [peer EXCEPT ![p] = "failed"]
  /\ connQ' = Append(connQ, "failed")
  /\ UNCHANGED <<flags, teardown, nego, link, timers, reached, answers, world, counters, hist>>

\* The robot closes the connection; the control channel closes with it.
PeerHangsUp(p) ==
  /\ peer[p] = "connected"
  /\ peer' = [peer EXCEPT ![p] = "closed"]
  /\ connQ' = Append(connQ, "closed")
  /\ WithoutControl(p)
  /\ UNCHANGED <<flags, teardown, nego, linkMode, timers, reached, answers, world, counters,
                 hist>>

\* Mutant of DetectLinkMode: a mode that the robot is not told.
DetectLinkModeMute == linkMode' \in Modes /\ UNCHANGED linkTold

\* _detect_link_mode, at the end of the "connected" handler: no await in it.
DetectLinkMode ==
  \E m \in IF pc = 0 THEN {"wan"} ELSE Modes :
    /\ linkMode' = m
    /\ linkTold' = IF ChannelOpen(control) THEN m ELSE linkTold

\* The connection states that clear _connected.
LostIfFailed(e) == e = "failed"                    \* mutant: "closed" is forgotten
Lost(e) == e \in {"failed", "closed"}

\* _handle_conn_state: the oldest scheduled state task runs.
HandleConnState ==
  /\ connQ # <<>>
  /\ connQ' = Tail(connQ)
  /\ \/ /\ Head(connQ) = "connected"
        /\ connected' = TRUE
        /\ status' = Status("connected", "none")
        /\ DetectLinkMode
     \/ /\ Head(connQ) # "connected"
        /\ connected' = (connected /\ ~Lost(Head(connQ)))
        /\ status' = IF Head(connQ) = "failed" /\ ~stopped
                       THEN Status("failed", "ice_failed") ELSE status
        /\ UNCHANGED <<linkMode, linkTold>>
  /\ UNCHANGED <<ready, teardown, nego, control, timers, peers, world, counters, hist>>

\* The robot's control channel arrives, already open: _setup_control.
SetupControl(p) ==
  /\ peer[p] = "connected" /\ control # p
  /\ control' = p
  /\ linkTold' = linkMode
  /\ UNCHANGED <<flags, teardown, nego, linkMode, timers, connQ, peers, world, counters,
                 hist>>

\* The robot's `ack` frame, on the channel it opened.
HandleAck ==
  /\ control # 0 /\ ChannelOpen(control)
  /\ ready' = TRUE
  /\ UNCHANGED <<status, connected, teardown, nego, link, timers, connQ, peers, world,
                 counters, hist>>

-----------------------------------------------------------------------------
(* start() and stop() *)

Start ==
  /\ starts < MaxStarts
  /\ starts = 0 \/ stopper.at \in {"done", "aborted"}
  /\ starts' = starts + 1
  /\ stopped' = FALSE /\ stopper' = Stopper("idle", "caller")
  /\ status' = Status("joining", "none")
  /\ room' = "joining" /\ opens' = 0
  /\ UNCHANGED <<connected, ready, stopPc, nego, link, timers, connQ, peers, asked,
                 iceSeen, offers, hist>>

\* stop() up to `await self.stop_jog()`.
StopBegin(by) ==
  /\ starts > 0 /\ ~stopped
  /\ stopped' = TRUE
  /\ stopper' = Stopper("jog", by)
  /\ crossed' = (crossed \/ ~NoneInFlight)
  /\ UNCHANGED <<flags, stopPc, nego, link, timers, connQ, peers, world, counters, kept,
                 raced, aborted>>

\* Every task of self._tasks is cancelled, the state tasks that have not started
\* too (stop_jog need not suspend); stop() then awaits signaling.close().
StopCancels ==
  /\ stopper.at = "jog"
  /\ stopper' = [stopper EXCEPT !.at = "room"]
  /\ deadline' = [k \in Opens |-> Off]
  /\ retry' = {}
  /\ connQ' = <<>>
  /\ UNCHANGED <<flags, stopped, stopPc, nego, link, peers, world, counters, hist>>

\* Mutant of Closed: _connected is not cleared.
ClosedStillConnected ==
  /\ stopper' = Stopper("done", "caller")
  /\ pc' = 0 /\ control' = 0 /\ linkTold' = "none"
  /\ ready' = FALSE /\ UNCHANGED connected
  /\ status' = Status("closed", "none")

\* The last lines of stop(), no await left.
Closed ==
  /\ stopper' = Stopper("done", "caller")
  /\ pc' = 0 /\ control' = 0 /\ linkTold' = "none"
  /\ connected' = FALSE /\ ready' = FALSE
  /\ status' = Status("closed", "none")

\* signaling.close() returns; with a peer, stop() awaits its close().
StopLeavesRoom ==
  /\ stopper = Stopper("room", "caller") /\ Resumes
  /\ room' = "off" /\ asked' = FALSE
  /\ \/ /\ pc = 0
        /\ Closed
        /\ UNCHANGED <<stopPc, peer, raced>>
     \/ /\ pc # 0
        /\ stopper' = Stopper("peer", "caller")
        /\ stopPc' = pc
        /\ peer' = CloseBegun(pc)
        /\ raced' = (raced \/ AwaitsClose(pc))
        /\ UNCHANGED <<flags, pc, control, linkTold>>
  /\ UNCHANGED <<stopped, token, remoteSet, pendingIce, sdp, closes, flush, linkMode,
                 timers, connQ, reached, answers, counters, kept, crossed, aborted>>

StopFinishes ==
  /\ stopper.at = "peer" /\ Resumes
  /\ peer' = [peer EXCEPT ![stopPc] = "closed"]
  /\ connQ' = CloseEvent(stopPc)
  /\ Closed
  /\ stopPc' = 0
  /\ UNCHANGED <<stopped, token, remoteSet, pendingIce, sdp, closes, flush,
                 linkMode, timers, reached, answers, world, counters, hist>>

\* A stop() that cancelled its own task gets CancelledError at its next await,
\* which suppress(Exception) lets through: the rest of stop() never runs.
StopCancelledItself ==
  /\ stopper = Stopper("room", "listener") /\ Resumes
  /\ room' = "off" /\ asked' = FALSE
  /\ stopper' = Stopper("aborted", "listener")
  /\ aborted' = TRUE
  /\ UNCHANGED <<flags, stopped, stopPc, nego, link, timers, connQ, peers, counters,
                 kept, crossed, raced>>

-----------------------------------------------------------------------------
Negotiation(o) ==
  \/ SdpBegin(o) \/ SdpClosedOld(o) \/ SdpRemote(o) \/ SdpFlush(o)
  \/ SdpAnswer(o) \/ SdpFails(o)

Next ==
  \/ \E o \in Offers : Negotiation(o) \/ OnIce(o)
  \/ \E k \in Opens : SignalingOpen(k) \/ RetryWakes(k) \/ DeadlineWakes(k)
  \/ SignalingError \/ RobotHere \/ Nacked \/ Tick
  \/ \E p \in Offers : PeerConnects(p) \/ PeerFails(p) \/ PeerHangsUp(p) \/ SetupControl(p)
  \/ HandleConnState \/ HandleAck
  \/ Start \/ \E by \in Callers : StopBegin(by)
  \/ StopCancels \/ StopLeavesRoom \/ StopFinishes \/ StopCancelledItself

Spec == Init /\ [][Next]_vars

\* What asyncio guarantees: scheduled tasks start and timers fire.  Nothing is
\* assumed of the robot, the network or the caller.
LoopFairness ==
  /\ WF_vars(Tick) /\ WF_vars(HandleConnState)
  /\ \A k \in Opens : WF_vars(DeadlineWakes(k))

FairSpec == Spec /\ LoopFairness

-----------------------------------------------------------------------------
(* Properties.  Three histories say what the code leaves open: crossed, that an *)
(* on_sdp has run beside another one or beside a stop(); raced, that two tasks  *)
(* have closed the same peer; aborted, that a stop() has cancelled itself.       *)
(* kept holds the sessions whose candidate came when there was no peer, or      *)
(* their own: not while an earlier session still had the peer.                  *)

\* At most one peer connection is open, the current one, however many offers are
\* negotiated at once: a renegotiation never leaves the old pipeline running beside
\* the new (teleop.py:1456), unless two tasks have waited for the same peer to close.
NoStrayPeer == ~raced => \A p \in Offers : Usable(p) => p = pc

\* Once the scheduled state tasks have run, _connected says what the current
\* peer connection is: never set for a dead peer, never clear for a live one.
ConnectedTracksPeer ==
  ~stopped /\ ~raced /\ ~aborted /\ connQ = <<>> =>
    /\ connected => pc # 0 /\ peer[pc] \in {"connected", "closing"}
    /\ pc # 0 /\ peer[pc] = "connected" => connected

\* A candidate that came while its session had the peer, or before there was
\* one, has reached the peer by the time the flush is over.
CandidateReaches ==
  \A s \in kept :
    ~crossed /\ pc = s /\ Usable(s) /\ sdp[s] \in {"local", "done"} => s \in reached

\* Whichever of the connection event and the control channel comes first, the
\* robot has been told the link mode of the connection (teleop.py:1537-1543).
LinkTold ==
  ~stopped /\ connQ = <<>> /\ pc # 0 /\ control = pc /\ peer[pc] = "connected"
    => linkTold = linkMode

\* When stop() has returned nothing of the session is left, even if offers were
\* being negotiated meanwhile: such a negotiation can still name its own failure.
CleanStop ==
  stopper.at = "done" /\ ~raced =>
    /\ ~connected /\ ~ready
    /\ status.phase = "closed" \/ (crossed /\ status.failure = "negotiation_failed")
    /\ pc = 0 /\ control = 0
    /\ \A p \in Offers : peer[p] \in {"none", "closed"}

\* A live session rides out signaling: while connected, the status changes only
\* for a new offer, and _connected is cleared only by a connection-state task
\* or by stop() (teleop.py:1330-1335).
LiveSessionRidesOut ==
  [][/\ connected /\ connected' /\ status' # status /\ ~crossed' /\ ~aborted'
          => offers' = offers + 1 \/ Len(connQ') < Len(connQ)
     /\ connected /\ ~connected' => Len(connQ') < Len(connQ) \/ stopper'.at = "done"]_vars

\* Waiting for a robot is watched: whenever the session waits it is not connected,
\* in which case the deadline and the retry loop would give up, and the deadline of
\* that wait runs, in the session after a stop() too (teleop.py:1313-1323, 1443-1451).
WaitWatched ==
  status.phase = "waiting" /\ ~stopped /\ ~crossed /\ ~aborted =>
    ~connected /\ \E k \in Opens : deadline[k] # Off

\* Waiting for a robot ends, in the session after a stop() too: an offer comes or
\* a failure is named.
WaitingEnds ==
  (status.phase = "waiting" /\ ~stopped /\ ~crossed /\ ~aborted)
    ~> (status.phase # "waiting" \/ stopped \/ crossed)

(* Claims of the code and its contract that the code does not keep.           *)

\* "The robot's per-session token from its offer, echoed on our answer"
\* (teleop.py:190): an answer carries the token of the offer it answers.
AnswersEchoToken == \A a \in answers : a.token = a.offer

\* "no offer within 20s" (teleop.py:1449): waiting for a robot always ends.
WaitingAlwaysEnds ==
  (status.phase = "waiting" /\ ~stopped) ~> (status.phase # "waiting" \/ stopped)

\* "hold them until there's a remote description" (teleop.py:1417): a candidate
\* that beats its offer, or races it, still reaches the peer of its session.
HeldUntilRemote ==
  \A s \in iceSeen :
    ~crossed /\ pc = s /\ Usable(s) /\ sdp[s] \in {"local", "done"} => s \in reached

\* "no offer within 20s" (teleop.py:1449): robot_absent is declared only after
\* ROBOT_WAIT_S of waiting, hence by the timer of the wait that began last.
AbsentAfterFullWait ==
  [][status' # status /\ status'.failure = "robot_absent"
       => \A k \in Opens : deadline'[k] = Off]_vars

\* on_open "may fire more than once across reconnects; RemoteTeleop is
\* idempotent on it" (signaling.py:112): one retry loop, however many opens.
OneRetryLoop == Cardinality(retry) <= 1

\* stop() tears "everything down" (teleop.py:266): once it has ended, no peer
\* is open and the session is closed.
StopTearsDown ==
  stopper.at \in {"done", "aborted"} =>
    /\ status.phase = "closed" /\ ~connected
    /\ \A p \in Offers : ~Usable(p)
====
