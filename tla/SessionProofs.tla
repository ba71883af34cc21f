---------------------------- MODULE SessionProofs ----------------------------
(***************************************************************************)
(* Theorems about the session life cycle, for every value of the bounds    *)
(* and of the other constants of Session.                                  *)
(***************************************************************************)
EXTENDS Session, SequenceTheorems, TLAPS

-----------------------------------------------------------------------------
(* Type correctness *)

\* The initial state has the types.
LEMMA InitTypeOK == Init => TypeOK
<1> SUFFICES ASSUME Init PROVE TypeOK
  OBVIOUS
<1> USE BoundsAssumption DEF Init
<1>1. SwitchesOK
  BY DEF SwitchesOK
<1>2. LifecycleOK
  BY DEF LifecycleOK, Status, Phases, Failures, Stopper, Callers, Ids
<1>3. NegotiationOK
  BY DEF NegotiationOK, Ids, SdpLabels
<1>4. TimersOK
  BY DEF TimersOK, Off
<1>5. PeersOK
  BY DEF PeersOK, Ids
<1> QED
  BY <1>1, <1>2, <1>3, <1>4, <1>5 DEF TypeOK

\* The Boolean variables, which every action sets to Boolean values.
LEMMA SwitchesStep ==
  ASSUME SwitchesOK, [Next]_vars
  PROVE  SwitchesOK'
<1> USE DEF SwitchesOK, flags, teardown, nego, world, hist
<1>1. ASSUME NEW o \in Offers, Negotiation(o) PROVE SwitchesOK'
  BY <1>1 DEF Negotiation, SdpBegin, SdpClosedOld, SdpRemote, SdpFlush, SdpAnswer,
    SdpFails, Raised, NewPeer
<1>2. ASSUME NEW o \in Offers, OnIce(o) PROVE SwitchesOK'
  BY <1>2 DEF OnIce
<1>3. ASSUME NEW k \in Opens, SignalingOpen(k) \/ RetryWakes(k) \/ DeadlineWakes(k)
      PROVE  SwitchesOK'
  BY <1>3 DEF SignalingOpen, RetryWakes, DeadlineWakes
<1>4. CASE SignalingError \/ RobotHere \/ Nacked \/ Tick
  BY <1>4 DEF SignalingError, RobotHere, Nacked, Tick
<1>5. ASSUME NEW p \in Offers,
             PeerConnects(p) \/ PeerFails(p) \/ PeerHangsUp(p) \/ SetupControl(p)
      PROVE  SwitchesOK'
  BY <1>5 DEF PeerConnects, PeerFails, PeerHangsUp, SetupControl
<1>6. CASE HandleConnState \/ HandleAck
  BY <1>6 DEF HandleConnState, HandleAck
<1>7. CASE Start \/ StopCancels \/ StopLeavesRoom \/ StopFinishes \/ StopCancelledItself
  BY <1>7 DEF Start, StopCancels, StopLeavesRoom, StopFinishes, StopCancelledItself, Closed
<1>8. ASSUME NEW by \in Callers, StopBegin(by) PROVE SwitchesOK'
  BY <1>8 DEF StopBegin
<1>9. CASE UNCHANGED vars
  BY <1>9 DEF vars
<1> QED
  BY <1>1, <1>2, <1>3, <1>4, <1>5, <1>6, <1>7, <1>8, <1>9 DEF Next

\* Unless the step is one of these, the life-cycle variables keep their values.
LEMMA LifecycleStep ==
  ASSUME TypeOK, [Next]_vars
  PROVE  LifecycleOK'
<1> USE BoundsAssumption DEF LifecycleOK, flags, teardown, world, counters
<1> USE DEF Status, Phases, Failures
<1>1. ASSUME NEW o \in Offers, Negotiation(o) \/ OnIce(o) PROVE LifecycleOK'
  BY <1>1 DEF TypeOK, Negotiation, SdpBegin, SdpClosedOld, SdpRemote, SdpFlush, SdpAnswer,
    SdpFails, Raised, OnIce
<1>3. ASSUME NEW k \in Opens, SignalingOpen(k) \/ RetryWakes(k) \/ DeadlineWakes(k)
      PROVE  LifecycleOK'
  BY <1>3 DEF TypeOK, SignalingOpen, RetryWakes, DeadlineWakes
<1>4. CASE SignalingError \/ RobotHere \/ Nacked \/ Tick
  BY <1>4 DEF TypeOK, SignalingError, RobotHere, Nacked, Tick
<1>5. ASSUME NEW p \in Offers,
             PeerConnects(p) \/ PeerFails(p) \/ PeerHangsUp(p) \/ SetupControl(p)
      PROVE  LifecycleOK'
  BY <1>5 DEF TypeOK, PeerConnects, PeerFails, PeerHangsUp, SetupControl
<1>6. CASE HandleConnState \/ HandleAck
  BY <1>6 DEF TypeOK, HandleConnState, HandleAck
<1>7. CASE Start \/ StopCancels \/ StopLeavesRoom \/ StopFinishes \/ StopCancelledItself
  BY <1>7 DEF TypeOK, NegotiationOK, Start, StopCancels, StopLeavesRoom, StopFinishes,
    StopCancelledItself, Closed, Stopper, Callers, Ids
<1>8. ASSUME NEW by \in Callers, StopBegin(by) PROVE LifecycleOK'
  BY <1>8 DEF TypeOK, StopBegin, Stopper
<1>9. CASE UNCHANGED vars
  BY <1>9 DEF TypeOK, vars
<1> QED
  BY <1>1, <1>3, <1>4, <1>5, <1>6, <1>7, <1>8, <1>9 DEF Next

\* The negotiation variables.
LEMMA NegotiationStep ==
  ASSUME TypeOK, [Next]_vars
  PROVE  NegotiationOK'
<1> USE BoundsAssumption, IceAssumption DEF NegotiationOK, nego, counters, hist
<1> USE DEF Ids, SdpLabels, Suspended
<1>1. ASSUME NEW o \in Offers, SdpBegin(o) PROVE NegotiationOK'
  <2> USE <1>1 DEF TypeOK, SdpBegin, NewPeer, Offers
  <2>1. token' \in Ids /\ pc' \in Ids
    OBVIOUS
  <2>2. sdp' \in [Offers -> SdpLabels]
    OBVIOUS
  <2>3. closes' \in [Offers -> Ids]
    OBVIOUS
  <2>4. offers' \in 0 .. MaxOffers
    OBVIOUS
  <2>5. UNCHANGED <<pendingIce, flush, iceSeen, kept>>
    OBVIOUS
  <2> QED
    BY <2>1, <2>2, <2>3, <2>4, <2>5
<1>2. ASSUME NEW o \in Offers, SdpClosedOld(o) PROVE NegotiationOK'
  BY <1>2 DEF TypeOK, SdpClosedOld, NewPeer
<1>3. ASSUME NEW o \in Offers, SdpRemote(o) \/ SdpAnswer(o) \/ SdpFails(o)
      PROVE  NegotiationOK'
  BY <1>3 DEF TypeOK, SdpRemote, SdpAnswer, SdpFails, Raised
<1>4. ASSUME NEW o \in Offers, SdpFlush(o) PROVE NegotiationOK'
  <2> USE <1>4 DEF TypeOK
  <2>1. pendingIce' \in Seq(Offers)
    BY <<>> \in Seq(Offers) DEF SdpFlush
  <2>2. flush' \in [Offers -> Nat \ {0}]
    BY flush[o] + 1 \in Nat \ {0} DEF SdpFlush
  <2>3. sdp' \in [Offers -> SdpLabels]
    BY DEF SdpFlush, Raised
  <2>4. UNCHANGED <<token, pc, closes, iceSeen, kept, offers>>
    BY DEF SdpFlush
  <2> QED
    BY <2>1, <2>2, <2>3, <2>4
<1>5. ASSUME NEW o \in Offers, OnIce(o) PROVE NegotiationOK'
  <2> USE <1>5 DEF TypeOK
  <2>1. pendingIce' \in Seq(Offers)
    BY Append(pendingIce, o) \in Seq(Offers) DEF OnIce, Held
  <2>2. UNCHANGED <<token, pc, sdp, closes, flush, offers>>
    BY DEF OnIce
  <2>3. iceSeen' \subseteq Offers /\ kept' \subseteq Offers
    BY DEF OnIce
  <2> QED
    BY <2>1, <2>2, <2>3
<1>6. ASSUME NEW k \in Opens, SignalingOpen(k) \/ RetryWakes(k) \/ DeadlineWakes(k)
      PROVE  NegotiationOK'
  BY <1>6 DEF TypeOK, SignalingOpen, RetryWakes, DeadlineWakes
<1>7. CASE SignalingError \/ RobotHere \/ Nacked \/ Tick \/ HandleConnState \/ HandleAck
  BY <1>7 DEF TypeOK, SignalingError, RobotHere, Nacked, Tick, HandleConnState, HandleAck
<1>8. ASSUME NEW p \in Offers,
             PeerConnects(p) \/ PeerFails(p) \/ PeerHangsUp(p) \/ SetupControl(p)
      PROVE  NegotiationOK'
  BY <1>8 DEF TypeOK, PeerConnects, PeerFails, PeerHangsUp, SetupControl
<1>9. CASE Start \/ StopCancels \/ StopLeavesRoom \/ StopFinishes \/ StopCancelledItself
  BY <1>9 DEF TypeOK, Start, StopCancels, StopLeavesRoom, StopFinishes,
    StopCancelledItself, Closed
<1>10. ASSUME NEW by \in Callers, StopBegin(by) PROVE NegotiationOK'
  BY <1>10 DEF TypeOK, StopBegin
<1>11. CASE UNCHANGED vars
  BY <1>11 DEF TypeOK, vars
<1> QED
  BY <1>1, <1>2, <1>3, <1>4, <1>5, <1>6, <1>7, <1>8, <1>9, <1>10, <1>11
    DEF Next, Negotiation

\* The timers of the signaling handlers.
LEMMA TimersStep ==
  ASSUME TypeOK, [Next]_vars
  PROVE  TimersOK'
<1> USE BoundsAssumption DEF TimersOK, timers, counters, hist
<1>1. ASSUME NEW o \in Offers, Negotiation(o) \/ OnIce(o) PROVE TimersOK'
  BY <1>1 DEF TypeOK, Negotiation, SdpBegin, SdpClosedOld, SdpRemote, SdpFlush, SdpAnswer,
    SdpFails, OnIce
<1>2. ASSUME NEW k \in Opens, SignalingOpen(k) \/ RetryWakes(k) \/ DeadlineWakes(k)
      PROVE  TimersOK'
  <2> USE <1>2 DEF TypeOK, SignalingOpen, RetryWakes, DeadlineWakes
  <2>1. opens' \in 0 .. MaxOpens
    BY DEF Opens
  <2>2. retry' \subseteq Opens
    OBVIOUS
  <2>3. deadline' \in [Opens -> 0 .. Off]
    BY DEF Armed, Off, Opens
  <2> QED
    BY <2>1, <2>2, <2>3
<1>3. CASE Tick
  BY <1>3 DEF TypeOK, Tick, Off, Opens
<1>4. CASE SignalingError \/ RobotHere \/ Nacked \/ HandleConnState \/ HandleAck
  BY <1>4 DEF TypeOK, SignalingError, RobotHere, Nacked, HandleConnState, HandleAck
<1>5. ASSUME NEW p \in Offers,
             PeerConnects(p) \/ PeerFails(p) \/ PeerHangsUp(p) \/ SetupControl(p)
      PROVE  TimersOK'
  BY <1>5 DEF TypeOK, PeerConnects, PeerFails, PeerHangsUp, SetupControl
<1>6. CASE Start \/ StopCancels \/ StopLeavesRoom \/ StopFinishes \/ StopCancelledItself
  BY <1>6 DEF TypeOK, Start, StopCancels, StopLeavesRoom, StopFinishes,
    StopCancelledItself, Off
<1>7. ASSUME NEW by \in Callers, StopBegin(by) PROVE TimersOK'
  BY <1>7 DEF TypeOK, StopBegin
<1>8. CASE UNCHANGED vars
  BY <1>8 DEF TypeOK, vars
<1> QED
  BY <1>1, <1>2, <1>3, <1>4, <1>5, <1>6, <1>7, <1>8 DEF Next

\* The peer connections, what they got, and the events they queue.
LEMMA PeersStep ==
  ASSUME TypeOK, [Next]_vars
  PROVE  PeersOK'
<1> USE BoundsAssumption, ModesAssumption, IceAssumption DEF PeersOK, link, peers
<1>1. ASSUME NEW o \in Offers, SdpBegin(o) PROVE PeersOK'
  BY <1>1 DEF TypeOK, SdpBegin, CloseBegun, NegotiationOK, Ids
<1>2. ASSUME NEW o \in Offers, SdpClosedOld(o) PROVE PeersOK'
  BY <1>2 DEF TypeOK, SdpClosedOld, CloseEvent, WithoutControl, Ids
<1>3. ASSUME NEW o \in Offers, SdpRemote(o) \/ SdpFails(o) PROVE PeersOK'
  BY <1>3 DEF TypeOK, SdpRemote, SdpFails
<1>4. ASSUME NEW o \in Offers, SdpFlush(o) PROVE PeersOK'
  BY <1>4 DEF TypeOK, SdpFlush, AddedTo
<1>5. ASSUME NEW o \in Offers, SdpAnswer(o) PROVE PeersOK'
  BY <1>5 DEF TypeOK, SdpAnswer, Answer, NegotiationOK
<1>6. ASSUME NEW o \in Offers, OnIce(o) PROVE PeersOK'
  BY <1>6 DEF TypeOK, OnIce, AddedTo
<1>7. ASSUME NEW k \in Opens, SignalingOpen(k) \/ RetryWakes(k) \/ DeadlineWakes(k)
      PROVE  PeersOK'
  BY <1>7 DEF TypeOK, SignalingOpen, RetryWakes, DeadlineWakes
<1>8. CASE SignalingError \/ RobotHere \/ Nacked \/ Tick \/ HandleAck
  BY <1>8 DEF TypeOK, SignalingError, RobotHere, Nacked, Tick, HandleAck
<1>9. CASE HandleConnState
  BY <1>9 DEF TypeOK, HandleConnState, DetectLinkMode
<1>10. ASSUME NEW p \in Offers, PeerConnects(p) \/ PeerFails(p) PROVE PeersOK'
  <2>1. CASE PeerConnects(p)
    BY <2>1 DEF TypeOK, PeerConnects
  <2>2. CASE PeerFails(p)
    BY <2>2 DEF TypeOK, PeerFails
  <2> QED
    BY <1>10, <2>1, <2>2
<1>11. ASSUME NEW p \in Offers, PeerHangsUp(p) \/ SetupControl(p) PROVE PeersOK'
  BY <1>11 DEF TypeOK, PeerHangsUp, SetupControl, WithoutControl, Ids
<1>12. CASE Start \/ StopCancelledItself
  BY <1>12 DEF TypeOK, Start, StopCancelledItself
<1>13. CASE StopCancels
  BY <1>13 DEF TypeOK, StopCancels
<1>14. CASE StopLeavesRoom
  <2>1. /\ UNCHANGED <<connQ, reached, answers, linkMode>> /\ control' \in Ids
        /\ linkTold' \in Modes \cup {"none"}
    BY <1>14 DEF TypeOK, StopLeavesRoom, Closed, Ids
  <2>2. peer' \in [Offers -> {"none", "new", "connected", "failed", "closing", "closed"}]
    BY <1>14 DEF TypeOK, NegotiationOK, StopLeavesRoom, CloseBegun, Ids
  <2> QED
    BY <2>1, <2>2 DEF TypeOK
<1>15. CASE StopFinishes
  <2>1. /\ UNCHANGED <<reached, answers, linkMode>> /\ control' \in Ids
        /\ linkTold' \in Modes \cup {"none"}
    BY <1>15 DEF TypeOK, StopFinishes, Closed, Ids
  <2>2. peer' \in [Offers -> {"none", "new", "connected", "failed", "closing", "closed"}]
    BY <1>15 DEF TypeOK, StopFinishes
  <2>3. connQ' \in Seq({"connected", "failed", "closed"})
    BY <1>15 DEF TypeOK, StopFinishes, CloseEvent
  <2> QED
    BY <2>1, <2>2, <2>3 DEF TypeOK
<1>16. ASSUME NEW by \in Callers, StopBegin(by) PROVE PeersOK'
  BY <1>16 DEF TypeOK, StopBegin
<1>17. CASE UNCHANGED vars
  BY <1>17 DEF TypeOK, vars
<1> QED
  BY <1>1, <1>2, <1>3, <1>4, <1>5, <1>6, <1>7, <1>8, <1>9, <1>10, <1>11, <1>12, <1>13,
    <1>14, <1>15, <1>16, <1>17 DEF Next, Negotiation

\* The session never leaves its types: phases, task states and peer states are
\* those the code can be in, whatever the number of offers, opens and starts.
THEOREM TypeCorrect == Spec => []TypeOK
<1>1. TypeOK /\ [Next]_vars => TypeOK'
  BY SwitchesStep, LifecycleStep, NegotiationStep, TimersStep, PeersStep DEF TypeOK
<1> QED
  BY InitTypeOK, <1>1, PTL DEF Spec

-----------------------------------------------------------------------------
(* The link report *)

PeerStates == {"none", "new", "connected", "failed", "closing", "closed"}

\* A peer is built before it is the current one, before another on_sdp or stop() closes it,
\* and before its channel comes; an offer not made has none.
BuiltInv ==
  /\ \A o \in Offers : o > offers => sdp[o] = "none" /\ peer[o] = "none"
  /\ \A o \in Offers : sdp[o] = "closing" =>
       peer[o] = "none" /\ closes[o] \in Offers /\ peer[closes[o]] # "none"
  /\ pc # 0 => peer[pc] # "none"
  /\ stopper.at = "peer" => stopPc \in Offers /\ peer[stopPc] # "none"
  /\ control # 0 => peer[control] \notin {"none", "new"}

\* Why the report is current: the last of the connection event and the channel made it so.
LinkInv == control # 0 /\ control = pc /\ peer[pc] = "connected" => linkTold = linkMode

\* A step that changes no peer, no on_sdp and no channel keeps both.
LEMMA LinkKept ==
  ASSUME BuiltInv, LinkInv, UNCHANGED <<peer, sdp, closes, offers, pc, control, linkTold, linkMode>>,
         stopper'.at = "peer" => stopper.at = "peer" /\ UNCHANGED stopPc
  PROVE  BuiltInv' /\ LinkInv'
BY DEF BuiltInv, LinkInv

\* Every step keeps the report current, however many offers are negotiated at once.
LEMMA LinkStep ==
  ASSUME TypeOK, BuiltInv, LinkInv, [Next]_vars
  PROVE  BuiltInv' /\ LinkInv'
<1>0. /\ peer \in [Offers -> PeerStates] /\ sdp \in [Offers -> SdpLabels]
      /\ control \in Ids /\ pc \in Ids /\ closes \in [Offers -> Ids] /\ offers \in Nat
  BY BoundsAssumption DEF TypeOK, PeersOK, NegotiationOK, PeerStates
<1>1. ASSUME NEW o \in Offers, SdpBegin(o) PROVE BuiltInv' /\ LinkInv'
  <2>1. /\ o > offers /\ \A q \in Offers : q > o => q > offers
        /\ offers' = o /\ UNCHANGED <<control, linkTold, linkMode, stopper, stopPc>>
    BY <1>0, <1>1 DEF SdpBegin, link, teardown, Offers
  <2>2. peer[o] = "none" /\ sdp[o] = "none"
    BY <2>1 DEF BuiltInv
  <2>3. CASE pc = 0 /\ NewPeer(o) /\ peer' = [peer EXCEPT ![o] = "new"] /\ UNCHANGED closes
    <3>1. pc' = o /\ sdp' = [sdp EXCEPT ![o] = "remote"] /\ peer'[o] = "new" /\ sdp'[o] = "remote"
      BY <1>0, <2>3 DEF NewPeer
    <3>2. \A q \in Offers : q # o => peer'[q] = peer[q] /\ sdp'[q] = sdp[q]
      BY <1>0, <2>3, <3>1
    <3>3. o # 0 /\ control # o
      BY <2>2 DEF BuiltInv, Offers
    <3> QED
      BY <1>0, <2>1, <2>2, <2>3, <3>1, <3>2, <3>3 DEF BuiltInv, LinkInv, Ids
  <2>4. CASE /\ pc # 0 /\ sdp' = [sdp EXCEPT ![o] = "closing"] /\ closes' = [closes EXCEPT ![o] = pc]
             /\ peer' = CloseBegun(pc) /\ UNCHANGED pc
    <3>1. pc \in Offers /\ peer[pc] # "none" /\ pc # o
      BY <1>0, <2>2, <2>4 DEF BuiltInv, Ids
    <3>2. peer'[pc] \in {"closing", "closed"} /\ \A q \in Offers : q # pc => peer'[q] = peer[q]
      BY <1>0, <2>4, <3>1 DEF CloseBegun
    <3>3. /\ sdp'[o] = "closing" /\ closes'[o] = pc
          /\ \A q \in Offers : q # o => sdp'[q] = sdp[q] /\ closes'[q] = closes[q]
      BY <1>0, <2>4
    <3>4. /\ ~(pc > offers) /\ pc' = pc /\ offers' = o
          /\ UNCHANGED <<control, linkTold, linkMode, stopper, stopPc>>
      BY <2>1, <2>4, <3>1 DEF BuiltInv
    <3>5. \A q \in Offers : q > offers' => sdp'[q] = "none" /\ peer'[q] = "none"
      <4>1. ASSUME NEW q \in Offers, q > o PROVE q > offers /\ q # o /\ q # pc
        BY <2>1, <3>4, <4>1 DEF Offers
      <4> QED
        BY <3>2, <3>3, <3>4, <4>1 DEF BuiltInv
    <3>6. \A q \in Offers : peer[q] # "none" => peer'[q] # "none"
      BY <3>1, <3>2
    <3>7. \A q \in Offers : sdp'[q] = "closing" =>
            peer'[q] = "none" /\ closes'[q] \in Offers /\ peer'[closes'[q]] # "none"
      <4>1. ASSUME NEW q \in Offers, sdp[q] = "closing" PROVE peer[q] = "none" /\ q # pc
        BY <3>1, <4>1 DEF BuiltInv
      <4> QED
        BY <2>2, <3>1, <3>2, <3>3, <3>6, <4>1 DEF BuiltInv
    <3>8. control' # 0 => peer'[control'] \notin {"none", "new"}
      BY <1>0, <3>1, <3>2, <3>4 DEF BuiltInv, Ids
    <3>9. stopper'.at = "peer" => stopPc' \in Offers /\ peer'[stopPc'] # "none"
      BY <3>4, <3>6 DEF BuiltInv
    <3>10. LinkInv'
      BY <3>2, <3>4 DEF LinkInv
    <3> QED
      BY <3>2, <3>4, <3>5, <3>7, <3>8, <3>9, <3>10 DEF BuiltInv
  <2> QED
    BY <1>1, <2>3, <2>4 DEF SdpBegin
<1>2. ASSUME NEW o \in Offers, SdpClosedOld(o) PROVE BuiltInv' /\ LinkInv'
  <2> DEFINE c == closes[o]
  <2>1. sdp[o] = "closing" /\ peer[o] = "none" /\ c \in Offers /\ peer[c] # "none"
    BY <1>2 DEF SdpClosedOld, BuiltInv
  <2>2. /\ peer' = [peer EXCEPT ![c] = "closed", ![o] = "new"] /\ pc' = o
        /\ sdp' = [sdp EXCEPT ![o] = "remote"] /\ WithoutControl(c)
        /\ closes' = [closes EXCEPT ![o] = 0]
        /\ UNCHANGED <<offers, linkMode, stopper, stopPc>>
    BY <1>2 DEF SdpClosedOld, NewPeer, teardown, counters
  <2> HIDE DEF c
  <2>3. /\ peer'[o] = "new" /\ peer'[c] = "closed" /\ sdp'[o] = "remote"
        /\ \A q \in Offers : q # o => sdp'[q] = sdp[q] /\ closes'[q] = closes[q]
        /\ \A q \in Offers : q # o /\ q # c => peer'[q] = peer[q]
    BY <1>0, <2>1, <2>2
  <2>4. ~(o > offers) /\ ~(c > offers)
    BY <2>1 DEF BuiltInv
  <2>5. /\ control' # c /\ control' # o
        /\ control' # 0 => control' = control /\ linkTold' = linkTold
    BY <1>0, <2>1, <2>2 DEF WithoutControl, BuiltInv, Offers
  <2> QED
    BY <1>0, <2>1, <2>2, <2>3, <2>4, <2>5 DEF BuiltInv, LinkInv, Ids
<1>3. ASSUME NEW o \in Offers, SdpRemote(o) \/ SdpFlush(o) \/ SdpAnswer(o) \/ SdpFails(o)
      PROVE  BuiltInv' /\ LinkInv'
  <2>1. /\ UNCHANGED <<pc, control, linkTold, linkMode, offers, closes, peer, stopper, stopPc>>
        /\ sdp[o] \in {"remote", "flush", "local"}
        /\ \E w \in {"flush", "local", "done", "failed"} :
              sdp' = sdp \/ sdp' = [sdp EXCEPT ![o] = w]
    BY <1>3 DEF SdpRemote, SdpFlush, SdpAnswer, SdpFails, Raised, peers, link, teardown, counters
  <2> QED
    BY <1>0, <2>1 DEF BuiltInv, LinkInv
<1>4. ASSUME NEW o \in Offers, OnIce(o) PROVE BuiltInv' /\ LinkInv'
  BY <1>4, LinkKept DEF OnIce, link, teardown
<1>5. ASSUME NEW k \in Opens, SignalingOpen(k) \/ RetryWakes(k) \/ DeadlineWakes(k)
      PROVE  BuiltInv' /\ LinkInv'
  BY <1>5, LinkKept DEF SignalingOpen, RetryWakes, DeadlineWakes, nego, peers, link, teardown, counters
<1>6. CASE SignalingError \/ RobotHere \/ Nacked \/ Tick \/ HandleAck
  BY <1>6, LinkKept DEF SignalingError, RobotHere, Nacked, Tick, HandleAck, nego, peers, link,
    teardown, counters
<1>7. CASE HandleConnState
  <2>1. UNCHANGED <<peer, sdp, closes, offers, pc, control, stopper, stopPc>>
    BY <1>7 DEF HandleConnState, nego, peers, teardown, counters
  <2>2. \/ UNCHANGED <<linkTold, linkMode>>
        \/ linkTold' = IF ChannelOpen(control) THEN linkMode' ELSE linkTold
    BY <1>7 DEF HandleConnState, DetectLinkMode
  <2>3. control # 0 /\ control = pc /\ peer[pc] = "connected" => ChannelOpen(control)
    BY <1>0 DEF ChannelOpen, Ids
  <2> QED
    BY <2>1, <2>2, <2>3 DEF BuiltInv, LinkInv
<1>8. ASSUME NEW p \in Offers, PeerConnects(p) \/ PeerFails(p) PROVE BuiltInv' /\ LinkInv'
  <2>1. /\ UNCHANGED <<sdp, closes, offers, pc, control, linkTold, linkMode, stopper, stopPc>>
        /\ peer[p] \in {"new", "connected"}
        /\ \E w \in {"connected", "failed"} : /\ peer' = [peer EXCEPT ![p] = w]
                                              /\ w = "connected" => peer[p] = "new"
    BY <1>8 DEF PeerConnects, PeerFails, nego, link, teardown, counters
  <2> QED
    BY <1>0, <2>1 DEF BuiltInv, LinkInv, Ids
<1>9. ASSUME NEW p \in Offers, PeerHangsUp(p) PROVE BuiltInv' /\ LinkInv'
  <2>1. /\ UNCHANGED <<sdp, closes, offers, pc, linkMode, stopper, stopPc>>
        /\ peer[p] = "connected" /\ WithoutControl(p)
        /\ peer' = [peer EXCEPT ![p] = "closed"]
    BY <1>9 DEF PeerHangsUp, nego, teardown, counters
  <2> QED
    BY <1>0, <2>1 DEF BuiltInv, LinkInv, WithoutControl, Ids
<1>10. ASSUME NEW p \in Offers, SetupControl(p) PROVE BuiltInv' /\ LinkInv'
  BY <1>0, <1>10 DEF BuiltInv, LinkInv, SetupControl, nego, peers, teardown, counters
<1>11. CASE Start \/ StopCancels \/ StopCancelledItself \/ \E by \in Callers : StopBegin(by)
  <2>1. UNCHANGED <<peer, sdp, closes, offers, pc, control, linkTold, linkMode>>
    BY <1>11 DEF Start, StopCancels, StopCancelledItself, StopBegin, nego, peers, link, counters
  <2>2. stopper'.at # "peer"
    BY <1>11 DEF Start, StopCancels, StopCancelledItself, StopBegin, Stopper, TypeOK, LifecycleOK
  <2> QED
    BY <2>1, <2>2, LinkKept
<1>12. CASE StopLeavesRoom
  <2>1. UNCHANGED <<sdp, closes, offers, linkMode>>
    BY <1>12 DEF StopLeavesRoom, counters
  <2>2. CASE pc = 0 /\ Closed /\ UNCHANGED peer
    BY <2>1, <2>2 DEF BuiltInv, LinkInv, Closed, Stopper
  <2>3. CASE /\ pc # 0 /\ stopPc' = pc /\ peer' = CloseBegun(pc)
             /\ UNCHANGED <<pc, control, linkTold>>
    <3>1. pc \in Offers /\ peer[pc] # "none"
      BY <1>0, <2>3 DEF BuiltInv, Ids
    <3>2. peer'[pc] \in {"closing", "closed"} /\ \A q \in Offers : q # pc => peer'[q] = peer[q]
      BY <1>0, <2>3, <3>1 DEF CloseBegun
    <3> QED
      BY <1>0, <2>1, <2>3, <3>1, <3>2 DEF BuiltInv, LinkInv, Ids
  <2> QED
    BY <1>12, <2>2, <2>3 DEF StopLeavesRoom
<1>13. CASE StopFinishes
  <2>1. /\ UNCHANGED <<sdp, closes, offers>> /\ pc' = 0 /\ control' = 0
        /\ peer' = [peer EXCEPT ![stopPc] = "closed"] /\ stopper'.at # "peer"
        /\ stopPc \in Offers /\ peer[stopPc] # "none"
    BY <1>13 DEF StopFinishes, Closed, Stopper, counters, BuiltInv
  <2>2. peer'[stopPc] = "closed" /\ \A q \in Offers : q # stopPc => peer'[q] = peer[q]
    BY <1>0, <2>1
  <2> QED
    BY <1>0, <2>1, <2>2 DEF BuiltInv, LinkInv
<1>14. CASE UNCHANGED vars
  BY <1>14, LinkKept DEF vars, nego, peers, link, teardown, counters
<1> QED
  BY <1>1, <1>2, <1>3, <1>4, <1>5, <1>6, <1>7, <1>8, <1>9, <1>10, <1>11, <1>12, <1>13, <1>14
    DEF Next, Negotiation

\* Whichever of the connection event and the control channel comes first, the robot has been
\* told the link mode in use, for any number of offers, opens and starts, however many offers
\* are negotiated at once and whoever calls stop(): LinkTold (teleop.py 1537-1543).
THEOREM LinkIsTold == Spec => []LinkTold
<1>1. Init => BuiltInv /\ LinkInv
  BY DEF Init, BuiltInv, LinkInv, Stopper
<1>2. TypeOK /\ BuiltInv /\ LinkInv /\ [Next]_vars => (BuiltInv /\ LinkInv)'
  BY LinkStep
<1>3. LinkInv => LinkTold
  BY DEF LinkInv, LinkTold
<1> QED
  BY <1>1, <1>2, <1>3, TypeCorrect, PTL DEF Spec

-----------------------------------------------------------------------------
(* The stages of stop() *)

\* stop() goes through its stages, and has left the room before it closes the peer or ends.
StagesInv ==
  /\ stopped <=> stopper.at # "idle"
  /\ starts = 0 => ~stopped
  /\ stopper.at \in {"peer", "done", "aborted"} => room = "off"
  /\ stopper.at = "aborted" => aborted

\* The stages of stop() are kept by every step.
LEMMA StagesStep ==
  ASSUME TypeOK, StagesInv, [Next]_vars
  PROVE  StagesInv'
<1>1. CASE UNCHANGED <<stopped, stopper, room, starts, aborted>>
  BY <1>1 DEF StagesInv
<1>2. CASE Start
  BY <1>2, BoundsAssumption DEF StagesInv, Start, Stopper, TypeOK, LifecycleOK
<1>3. ASSUME NEW by \in Callers, StopBegin(by) PROVE StagesInv'
  BY <1>3 DEF StagesInv, StopBegin, Stopper, Callers, world, counters, TypeOK, LifecycleOK
<1>4. CASE StopCancels
  <2>1. stopper' = [stopper EXCEPT !.at = "room"] /\ "at" \in DOMAIN stopper
    BY <1>4 DEF StopCancels, TypeOK, LifecycleOK
  <2>2. stopper'.at = "room"
    BY <2>1
  <2> QED
    BY <1>4, <2>2 DEF StagesInv, StopCancels, counters, world
<1>5. CASE StopLeavesRoom
  <2>1. room' = "off" /\ UNCHANGED <<stopped, starts>> /\ stopped
    BY <1>5 DEF StopLeavesRoom, StagesInv, Stopper, counters
  <2>2. stopper' = Stopper("done", "caller") \/ stopper' = Stopper("peer", "caller")
    BY <1>5 DEF StopLeavesRoom, Closed
  <2> QED
    BY <2>1, <2>2 DEF StagesInv, Stopper
<1>6. CASE StopFinishes
  BY <1>6 DEF StopFinishes, Closed, StagesInv, Stopper, world, counters
<1>7. CASE StopCancelledItself
  BY <1>7 DEF StopCancelledItself, StagesInv, Stopper, counters
<1>8. ASSUME NEW k \in Opens, SignalingOpen(k) PROVE StagesInv'
  BY <1>8 DEF SignalingOpen, StagesInv, teardown
<1>9. \/ UNCHANGED <<stopped, stopper, room, starts, aborted>> \/ Start \/ StopCancels \/ StopLeavesRoom
      \/ StopFinishes \/ StopCancelledItself \/ (\E by \in Callers : StopBegin(by))
      \/ \E k \in Opens : SignalingOpen(k)
  BY DEF Next, Negotiation, SdpBegin, SdpClosedOld, SdpRemote, SdpFlush, SdpAnswer, SdpFails, OnIce,
    RetryWakes, DeadlineWakes, SignalingError, RobotHere, Nacked, Tick, PeerConnects, PeerFails,
    PeerHangsUp, SetupControl, HandleConnState, HandleAck, vars, teardown, world, counters, hist
<1> QED
  BY <1>1, <1>2, <1>3, <1>4, <1>5, <1>6, <1>7, <1>8, <1>9

-----------------------------------------------------------------------------
(* At most one open peer connection, and the on_sdp that is under way *)

\* Why one peer is open, while no two tasks have closed the same one.  A task that waits for a
\* close waits for that of the current peer: at most one on_sdp does, and none beside stop().
RaceInv ==
  ~raced =>
    /\ stopper.at = "peer" => stopPc = pc /\ \A o \in Offers : sdp[o] # "closing"
    /\ \A o \in Offers : sdp[o] = "closing" =>
         closes[o] = pc /\ pc \in Offers \ {o} /\ peer[pc] \in {"closing", "closed"}
    /\ \A o, q \in Offers : sdp[o] = "closing" /\ sdp[q] = "closing" => o = q
    /\ \A p \in Offers : Usable(p) \/ peer[p] = "closing" => p = pc

\* While no on_sdp has run beside another one or beside a stop(): none is suspended during
\* stop(), at most one is at any time, and one past the close of the old peer has made its own
\* the current one.
CrossInv ==
  /\ raced => crossed
  /\ ~crossed =>
       /\ stopped => NoneInFlight
       /\ \A o, q \in Offers : sdp[o] \in Suspended /\ sdp[q] \in Suspended => o = q
       /\ \A o \in Offers : sdp[o] \in {"remote", "flush", "local"} => pc = o

\* The first is kept by a step that opens no peer, and begins no close.
LEMMA RaceKept ==
  ASSUME RaceInv, raced => raced', UNCHANGED <<pc, closes>>,
         stopper'.at = "peer" => stopper.at = "peer" /\ UNCHANGED stopPc,
         \A o \in Offers : sdp'[o] = "closing" => sdp[o] = "closing",
         \A p \in Offers : /\ Usable(p)' => Usable(p)
                           /\ peer'[p] = "closing" => peer[p] = "closing"
                           /\ peer[p] \in {"closing", "closed"} => peer'[p] = peer[p]
  PROVE  RaceInv'
<1> SUFFICES ASSUME ~raced' PROVE RaceInv'
  BY DEF RaceInv
<1>1. stopper'.at = "peer" => stopPc' = pc' /\ \A o \in Offers : sdp'[o] # "closing"
  BY DEF RaceInv
<1>2. \A o \in Offers : sdp'[o] = "closing" =>
        closes'[o] = pc' /\ pc' \in Offers \ {o} /\ peer'[pc'] \in {"closing", "closed"}
  BY DEF RaceInv
<1>3. \A o, q \in Offers : sdp'[o] = "closing" /\ sdp'[q] = "closing" => o = q
  BY DEF RaceInv
<1>4. \A p \in Offers : Usable(p)' \/ peer'[p] = "closing" => p = pc'
  BY DEF RaceInv
<1> QED
  BY <1>1, <1>2, <1>3, <1>4 DEF RaceInv

\* Every step keeps it, however many offers are negotiated at once.
LEMMA RaceStep ==
  ASSUME TypeOK, BuiltInv, StagesInv, RaceInv, [Next]_vars
  PROVE  RaceInv'
<1>0. /\ peer \in [Offers -> PeerStates] /\ sdp \in [Offers -> SdpLabels]
      /\ closes \in [Offers -> Ids] /\ pc \in Ids /\ offers \in Nat /\ 0 \notin Offers
      /\ raced \in BOOLEAN
  BY BoundsAssumption DEF TypeOK, PeersOK, NegotiationOK, SwitchesOK, PeerStates, Offers
<1>1. ASSUME NEW o \in Offers, SdpBegin(o) PROVE RaceInv'
  <2>0. SUFFICES ASSUME ~raced' PROVE RaceInv'
    BY DEF RaceInv
  <2>1. ~raced /\ stopper'.at # "peer" /\ o > offers
    BY <1>0, <1>1, <2>0 DEF SdpBegin, teardown, StagesInv
  <2>2. peer[o] = "none" /\ sdp[o] = "none"
    BY <2>1 DEF BuiltInv
  <2>3. CASE pc = 0 /\ NewPeer(o) /\ peer' = [peer EXCEPT ![o] = "new"] /\ UNCHANGED closes
    <3>1. /\ pc' = o /\ sdp'[o] = "remote" /\ peer'[o] = "new"
          /\ \A q \in Offers : q # o => sdp'[q] = sdp[q] /\ peer'[q] = peer[q]
      BY <1>0, <2>3 DEF NewPeer
    <3>2. \A q \in Offers : sdp'[q] # "closing"
      BY <1>0, <2>1, <2>3, <3>1 DEF RaceInv
    <3>3. \A p \in Offers : ~Usable(p) /\ peer[p] # "closing"
      BY <1>0, <2>1, <2>3 DEF RaceInv
    <3>4. \A p \in Offers : Usable(p)' \/ peer'[p] = "closing" => p = pc'
      BY <3>1, <3>3 DEF Usable
    <3> QED
      BY <2>1, <3>2, <3>4 DEF RaceInv
  <2>4. CASE /\ pc # 0 /\ sdp' = [sdp EXCEPT ![o] = "closing"] /\ closes' = [closes EXCEPT ![o] = pc]
             /\ peer' = CloseBegun(pc) /\ ~AwaitsClose(pc) /\ UNCHANGED pc
    <3>1. pc \in Offers /\ pc # o
      BY <1>0, <2>2, <2>4 DEF BuiltInv, Ids
    <3>2. \A q \in Offers : sdp[q] # "closing"
      BY <2>1, <2>4 DEF RaceInv, AwaitsClose
    <3>3. peer'[pc] \in {"closing", "closed"} /\ \A q \in Offers : q # pc => peer'[q] = peer[q]
      BY <1>0, <2>4, <3>1 DEF CloseBegun
    <3>4. closes'[o] = pc /\ \A q \in Offers : q # o => sdp'[q] # "closing"
      BY <1>0, <2>4, <3>2
    <3>5. \A p \in Offers : Usable(p)' \/ peer'[p] = "closing" => p = pc'
      BY <2>1, <2>4, <3>3 DEF Usable, RaceInv
    <3>6. \A q \in Offers : sdp'[q] = "closing" =>
            closes'[q] = pc' /\ pc' \in Offers \ {q} /\ peer'[pc'] \in {"closing", "closed"}
      BY <2>4, <3>1, <3>3, <3>4
    <3>7. \A q, r \in Offers : sdp'[q] = "closing" /\ sdp'[r] = "closing" => q = r
      BY <3>4
    <3> QED
      BY <2>1, <3>5, <3>6, <3>7 DEF RaceInv
  <2> QED
    BY <1>1, <2>0, <2>3, <2>4 DEF SdpBegin
<1>2. ASSUME NEW o \in Offers, SdpClosedOld(o) PROVE RaceInv'
  <2>0. SUFFICES ASSUME ~raced PROVE RaceInv'
    BY <1>2 DEF RaceInv, SdpClosedOld, hist
  <2>1. sdp[o] = "closing" /\ closes[o] = pc /\ pc \in Offers \ {o} /\ stopper'.at # "peer"
    BY <1>2, <2>0 DEF SdpClosedOld, RaceInv, teardown
  <2>2. /\ peer' = [peer EXCEPT ![pc] = "closed", ![o] = "new"] /\ pc' = o
        /\ sdp' = [sdp EXCEPT ![o] = "remote"]
    BY <1>2, <2>1 DEF SdpClosedOld, NewPeer
  <2>3. \A q \in Offers : sdp'[q] # "closing"
    BY <1>0, <2>0, <2>1, <2>2 DEF RaceInv
  <2>4. /\ peer'[pc] = "closed"
        /\ \A q \in Offers : q # o /\ q # pc => peer'[q] = peer[q]
    BY <1>0, <2>1, <2>2
  <2>5. \A p \in Offers : Usable(p)' \/ peer'[p] = "closing" => p = pc'
    BY <2>0, <2>1, <2>2, <2>4 DEF Usable, RaceInv
  <2> QED
    BY <2>1, <2>3, <2>5 DEF RaceInv
<1>3. ASSUME NEW o \in Offers, SdpRemote(o) \/ SdpFlush(o) \/ SdpAnswer(o) \/ SdpFails(o)
      PROVE  RaceInv'
  <2>1. /\ UNCHANGED <<stopper, stopPc, pc, closes, peer, raced>>
        /\ \E w \in {"flush", "local", "done", "failed"} :
              sdp' = sdp \/ sdp' = [sdp EXCEPT ![o] = w]
    BY <1>3 DEF SdpRemote, SdpFlush, SdpAnswer, SdpFails, Raised, teardown, peers, hist
  <2>2. \A q \in Offers : sdp'[q] = "closing" => sdp[q] = "closing"
    BY <1>0, <2>1
  <2> QED
    BY <2>1, <2>2, RaceKept DEF Usable
<1>4. ASSUME NEW o \in Offers, OnIce(o) PROVE RaceInv'
  BY <1>4, RaceKept DEF OnIce, teardown, Usable
<1>5. ASSUME NEW k \in Opens, SignalingOpen(k) \/ RetryWakes(k) \/ DeadlineWakes(k)
      PROVE  RaceInv'
  BY <1>5, RaceKept DEF SignalingOpen, RetryWakes, DeadlineWakes, teardown, nego, peers, hist, Usable
<1>6. CASE SignalingError \/ RobotHere \/ Nacked \/ Tick \/ HandleConnState \/ HandleAck
  BY <1>6, RaceKept DEF SignalingError, RobotHere, Nacked, Tick, HandleConnState, HandleAck,
    teardown, nego, peers, hist, Usable
<1>7. ASSUME NEW p \in Offers,
             PeerConnects(p) \/ PeerFails(p) \/ PeerHangsUp(p) \/ SetupControl(p)
      PROVE  RaceInv'
  <2>1. /\ UNCHANGED <<stopper, stopPc, pc, closes, sdp, raced>>
        /\ \/ UNCHANGED peer
           \/ /\ peer[p] \in {"new", "connected"}
              /\ \E w \in {"connected", "failed", "closed"} : peer' = [peer EXCEPT ![p] = w]
    BY <1>7 DEF PeerConnects, PeerFails, PeerHangsUp, SetupControl, teardown, nego, peers, hist
  <2>2. \A q \in Offers : /\ Usable(q)' => Usable(q)
                          /\ peer'[q] = "closing" => peer[q] = "closing"
                          /\ peer[q] \in {"closing", "closed"} => peer'[q] = peer[q]
    BY <1>0, <2>1 DEF Usable
  <2> QED
    BY <2>1, <2>2, RaceKept
<1>8. CASE Start \/ StopCancels \/ StopCancelledItself \/ \E by \in Callers : StopBegin(by)
  <2>1. UNCHANGED <<peer, sdp, closes, pc, raced>>
    BY <1>8 DEF Start, StopCancels, StopCancelledItself, StopBegin, nego, peers, hist
  <2>2. stopper'.at # "peer"
    BY <1>8 DEF Start, StopCancels, StopCancelledItself, StopBegin, Stopper, TypeOK, LifecycleOK
  <2> QED
    BY <2>1, <2>2, RaceKept DEF Usable
<1>9. CASE StopLeavesRoom
  <2>0. SUFFICES ASSUME ~raced' PROVE RaceInv'
    BY DEF RaceInv
  <2>1. ~raced /\ UNCHANGED <<sdp, closes>>
    BY <1>0, <1>9, <2>0 DEF StopLeavesRoom
  <2>2. CASE pc = 0 /\ Closed /\ UNCHANGED peer
    <3>1. stopper'.at # "peer" /\ pc' = 0
      BY <2>2 DEF Closed, Stopper
    <3>2. \A p \in Offers : sdp'[p] # "closing" /\ ~Usable(p)' /\ peer'[p] # "closing"
      BY <1>0, <2>1, <2>2 DEF RaceInv, Usable
    <3> QED
      BY <3>1, <3>2 DEF RaceInv
  <2>3. CASE /\ pc # 0 /\ stopPc' = pc /\ peer' = CloseBegun(pc) /\ ~AwaitsClose(pc) /\ UNCHANGED pc
    <3>1. pc \in Offers
      BY <1>0, <2>3 DEF Ids
    <3>2. \A q \in Offers : sdp'[q] # "closing"
      BY <2>1, <2>3 DEF RaceInv, AwaitsClose
    <3>3. \A q \in Offers : q # pc => peer'[q] = peer[q]
      BY <1>0, <2>3, <3>1 DEF CloseBegun
    <3>4. \A p \in Offers : Usable(p)' \/ peer'[p] = "closing" => p = pc'
      BY <2>1, <2>3, <3>3 DEF Usable, RaceInv
    <3> QED
      BY <2>3, <3>2, <3>4 DEF RaceInv
  <2> QED
    BY <1>9, <2>0, <2>2, <2>3 DEF StopLeavesRoom
<1>10. CASE StopFinishes
  <2>0. SUFFICES ASSUME ~raced PROVE RaceInv'
    BY <1>10 DEF RaceInv, StopFinishes, hist
  <2>1. /\ stopPc = pc /\ (\A o \in Offers : sdp'[o] # "closing") /\ stopper'.at # "peer"
        /\ pc' = 0 /\ peer' = [peer EXCEPT ![pc] = "closed"]
    BY <1>10, <2>0 DEF StopFinishes, Closed, Stopper, RaceInv
  <2>2. \A p \in Offers : ~Usable(p)' /\ peer'[p] # "closing"
    BY <1>0, <2>0, <2>1 DEF RaceInv, Usable
  <2> QED
    BY <2>1, <2>2 DEF RaceInv
<1>11. CASE UNCHANGED vars
  BY <1>11, RaceKept DEF vars, teardown, nego, peers, hist, Usable
<1> QED
  BY <1>1, <1>2, <1>3, <1>4, <1>5, <1>6, <1>7, <1>8, <1>9, <1>10, <1>11 DEF Next, Negotiation

\* Every step keeps the second.
LEMMA CrossStep ==
  ASSUME TypeOK, StagesInv, CrossInv, [Next]_vars
  PROVE  CrossInv'
<1>0. sdp \in [Offers -> SdpLabels] /\ raced \in BOOLEAN /\ crossed \in BOOLEAN /\ stopped \in BOOLEAN
  BY DEF TypeOK, SwitchesOK, NegotiationOK
<1>1. ASSUME NEW o \in Offers, SdpBegin(o) PROVE CrossInv'
  <2>1. crossed' = (crossed \/ stopped \/ ~NoneInFlight) /\ UNCHANGED stopped
    BY <1>1 DEF SdpBegin, teardown
  <2>2. raced' => crossed'
    BY <1>0, <1>1, <2>1 DEF SdpBegin, CrossInv, AwaitsClose, NoneInFlight, Suspended
  <2>3. SUFFICES ASSUME ~crossed' PROVE CrossInv'
    BY <2>2 DEF CrossInv
  <2>4. ~stopped' /\ NoneInFlight
    BY <1>0, <2>1, <2>3
  <2>5. \E w \in {"remote", "closing"} :
          sdp' = [sdp EXCEPT ![o] = w] /\ (w = "remote" => pc' = o)
    BY <1>1 DEF SdpBegin, NewPeer
  <2> QED
    BY <1>0, <2>2, <2>4, <2>5 DEF CrossInv, NoneInFlight, Suspended
<1>2. ASSUME NEW o \in Offers, SdpClosedOld(o) PROVE CrossInv'
  <2>1. /\ sdp[o] = "closing" /\ sdp' = [sdp EXCEPT ![o] = "remote"] /\ pc' = o
        /\ UNCHANGED <<stopped, raced, crossed>>
    BY <1>2 DEF SdpClosedOld, NewPeer, teardown, hist
  <2> QED
    BY <1>0, <2>1 DEF CrossInv, NoneInFlight, Suspended
<1>3. ASSUME NEW o \in Offers, SdpRemote(o) \/ SdpFlush(o) \/ SdpAnswer(o) \/ SdpFails(o)
      PROVE  CrossInv'
  <2>1. /\ UNCHANGED <<stopped, pc, raced, crossed>> /\ sdp[o] \in {"remote", "flush", "local"}
        /\ \E w \in {"flush", "local", "done", "failed"} :
              sdp' = sdp \/ sdp' = [sdp EXCEPT ![o] = w]
    BY <1>3 DEF SdpRemote, SdpFlush, SdpAnswer, SdpFails, Raised, teardown, hist
  <2> QED
    BY <1>0, <2>1 DEF CrossInv, NoneInFlight, Suspended
<1>4. ASSUME UNCHANGED <<sdp, pc, raced, crossed>>, stopped' => stopped PROVE CrossInv'
  BY <1>4 DEF CrossInv, NoneInFlight
<1>5. ASSUME NEW o \in Offers, OnIce(o) PROVE CrossInv'
  BY <1>4, <1>5 DEF OnIce, teardown
<1>6. ASSUME NEW k \in Opens, SignalingOpen(k) \/ RetryWakes(k) \/ DeadlineWakes(k)
      PROVE  CrossInv'
  BY <1>4, <1>6 DEF SignalingOpen, RetryWakes, DeadlineWakes, teardown, nego, hist
<1>7. CASE SignalingError \/ RobotHere \/ Nacked \/ Tick \/ HandleConnState \/ HandleAck
  BY <1>4, <1>7 DEF SignalingError, RobotHere, Nacked, Tick, HandleConnState, HandleAck, teardown,
    nego, hist
<1>8. ASSUME NEW p \in Offers,
             PeerConnects(p) \/ PeerFails(p) \/ PeerHangsUp(p) \/ SetupControl(p)
      PROVE  CrossInv'
  BY <1>4, <1>8 DEF PeerConnects, PeerFails, PeerHangsUp, SetupControl, teardown, nego, hist
<1>9. CASE Start \/ StopCancels \/ StopCancelledItself
  BY <1>4, <1>9 DEF Start, StopCancels, StopCancelledItself, nego, hist
<1>10. ASSUME NEW by \in Callers, StopBegin(by) PROVE CrossInv'
  <2>1. crossed' = (crossed \/ ~NoneInFlight) /\ UNCHANGED <<sdp, pc, raced>>
    BY <1>10 DEF StopBegin, nego
  <2> QED
    BY <1>0, <2>1 DEF CrossInv, NoneInFlight
<1>11. CASE StopLeavesRoom \/ StopFinishes
  <2>1. stopped /\ UNCHANGED <<stopped, sdp, crossed>>
    BY <1>11 DEF StopLeavesRoom, StopFinishes, StagesInv, Stopper, hist
  <2>2. raced' => raced \/ AwaitsClose(pc)
    BY <1>11 DEF StopLeavesRoom, StopFinishes, hist
  <2>3. raced' => crossed'
    BY <2>1, <2>2 DEF CrossInv, AwaitsClose, NoneInFlight, Suspended
  <2> QED
    BY <2>1, <2>3 DEF CrossInv, NoneInFlight, Suspended
<1>12. CASE UNCHANGED vars
  BY <1>4, <1>12 DEF vars, teardown, nego, hist
<1> QED
  BY <1>1, <1>2, <1>3, <1>5, <1>6, <1>7, <1>8, <1>9, <1>10, <1>11, <1>12 DEF Next, Negotiation

\* What is known of the peers and of the on_sdp tasks.
LEMMA PeersAlways ==
  Spec => [](TypeOK /\ BuiltInv /\ StagesInv /\ RaceInv /\ CrossInv)
<1>1. Init => BuiltInv /\ LinkInv /\ StagesInv /\ RaceInv /\ CrossInv
  BY DEF Init, BuiltInv, LinkInv, StagesInv, RaceInv, CrossInv, NoneInFlight, Usable, Suspended,
    Stopper, Offers
<1> QED
  BY <1>1, TypeCorrect, LinkStep, StagesStep, RaceStep, CrossStep, PTL DEF Spec

\* At most one peer connection is open, the current one, however many offers are negotiated at
\* once and whatever stop() runs beside them, unless two of them have closed the same peer:
\* NoStrayPeer (teleop.py 1456-1501).
THEOREM OnePeer == Spec => []NoStrayPeer
<1>1. RaceInv => NoStrayPeer
  BY DEF RaceInv, NoStrayPeer
<1> QED
  BY <1>1, PeersAlways, PTL

-----------------------------------------------------------------------------
(* _connected, and what stop() leaves *)

Events == {"connected", "failed", "closed"}

\* What _connected will be when the scheduled state tasks have run.
Expected == IF connQ = <<>> THEN connected ELSE connQ[Len(connQ)] = "connected"


\* The last event scheduled is that of the state the current peer is in.
ConnInv ==
  ~raced /\ ~aborted /\ ~stopped =>
    /\ Expected => pc # 0 /\ peer[pc] \in {"connected", "closing"}
    /\ pc # 0 /\ peer[pc] = "connected" => Expected

\* What stop() leaves: nothing but, at most, the close event of its own peer, and the negotiation
\* that it met, which has no peer and can only fail.
DoneInv ==
  ~raced /\ stopper.at = "done" =>
    /\ ~connected /\ ~ready
    /\ status.phase = "closed" \/ (crossed /\ status.failure = "negotiation_failed")
    /\ pc = 0 /\ control = 0
    /\ connQ \in {<<>>, <<"closed">>}

\* An element appended to a sequence is its last.
LEMMA LastAppended ==
  ASSUME NEW S, NEW q \in Seq(S), NEW e \in S
  PROVE  Append(q, e) # <<>> /\ Append(q, e)[Len(Append(q, e))] = e
<1>1. Append(q, e) # <<>> /\ Len(Append(q, e)) = Len(q) + 1 /\ Append(q, e)[Len(q) + 1] = e
  BY AppendProperties
<1> QED
  BY <1>1

\* The only element of a sequence is its last.
LEMMA LastAlone ==
  ASSUME NEW S, NEW q \in Seq(S), Len(q) = 1
  PROVE  Tail(q) = <<>> /\ Head(q) = q[Len(q)]
<1>1. q # <<>> /\ Tail(q) \in Seq(S) /\ Len(Tail(q)) = 0
  BY EmptySeq, HeadTailProperties
<1>2. Tail(q) = <<>>
  BY <1>1, EmptySeq
<1>3. Head(q) = q[1]
  BY <1>1
<1> QED
  BY <1>2, <1>3

\* Taking the first of several elements leaves the last.
LEMMA LastStays ==
  ASSUME NEW S, NEW q \in Seq(S), q # <<>>, Len(q) # 1
  PROVE  Tail(q) # <<>> /\ Tail(q)[Len(Tail(q))] = q[Len(q)]
<1>1. Len(q) \in Nat /\ Len(q) # 0
  BY EmptySeq, LenProperties
<1>2. Tail(q) \in Seq(S) /\ Len(Tail(q)) = Len(q) - 1
  BY HeadTailProperties
<1>3. \A i \in 1 .. Len(Tail(q)) : Tail(q)[i] = q[i + 1]
  BY HeadTailProperties
<1>4. Tail(q)[Len(q) - 1] = q[Len(q)]
  BY <1>1, <1>2, <1>3
<1>5. Tail(q) # <<>>
  <2>1. Len(Tail(q)) # 0
    BY <1>1, <1>2
  <2> QED
    BY <2>1, EmptySeq
<1> QED
  BY <1>2, <1>4, <1>5

\* The close of a peer expects _connected to be cleared, unless the peer was closed before.
LEMMA CloseExpected ==
  ASSUME TypeOK, NEW p \in Offers, connQ' = CloseEvent(p), connQ = <<>>, UNCHANGED connected
  PROVE  Expected' <=> (Expected /\ peer[p] # "closing")
BY DEF CloseEvent, Expected

\* A step that ends no stop(), and touches nothing of what one has left, keeps that.
LEMMA DoneKept ==
  ASSUME DoneInv, raced => raced', UNCHANGED crossed, stopper'.at = "done" => stopper.at = "done",
         stopper.at = "done" /\ ~raced' =>
           UNCHANGED <<status, connected, ready, pc, control, connQ>>
  PROVE  DoneInv'
BY DEF DoneInv

\* What stop() has left stays so in every step, until the next start(): a stop() that a listener
\* called, and that was cancelled by itself, makes no difference to a later one.
LEMMA DoneStep ==
  ASSUME TypeOK, StagesInv, RaceInv, CrossInv, DoneInv, [Next]_vars
  PROVE  DoneInv'
<1>1. ASSUME NEW o \in Offers, SdpBegin(o) \/ OnIce(o) PROVE DoneInv'
  <2>1. stopper.at # "done" /\ UNCHANGED stopper
    BY <1>1 DEF SdpBegin, OnIce, teardown, StagesInv
  <2> QED
    BY <2>1 DEF DoneInv
<1>2. ASSUME NEW o \in Offers, SdpClosedOld(o) PROVE DoneInv'
  <2>1. UNCHANGED <<stopper, raced>> /\ (raced \/ pc # 0)
    BY <1>2 DEF SdpClosedOld, teardown, hist, RaceInv, Offers
  <2> QED
    BY <1>2, <2>1 DEF DoneInv, SdpClosedOld, teardown, hist
<1>3. ASSUME NEW o \in Offers, SdpRemote(o) \/ SdpFlush(o) \/ SdpAnswer(o) \/ SdpFails(o)
       PROVE  DoneInv'
  <2>1. /\ UNCHANGED <<stopper, raced, crossed, connected, ready, pc, control, connQ>>
        /\ sdp[o] \in Suspended
    BY <1>3 DEF SdpRemote, SdpFlush, SdpAnswer, SdpFails, Raised, flags, teardown, link, hist,
      Suspended
  <2>2. stopper.at = "done" => crossed
    BY <2>1 DEF StagesInv, CrossInv, NoneInFlight
  <2>3. UNCHANGED status \/ status' = Status("failed", "negotiation_failed")
    BY <1>3 DEF SdpRemote, SdpFlush, SdpAnswer, SdpFails, Raised, flags
  <2>4. Status("failed", "negotiation_failed").failure = "negotiation_failed"
    BY DEF Status
  <2> QED
    BY <2>1, <2>2, <2>3, <2>4 DEF DoneInv
<1>4. ASSUME NEW k \in Opens, SignalingOpen(k) \/ RetryWakes(k) \/ DeadlineWakes(k) PROVE DoneInv'
  <2>1. UNCHANGED <<connected, ready, pc, control, connQ, stopper, raced, crossed>>
    BY <1>4 DEF SignalingOpen, RetryWakes, DeadlineWakes, flags, teardown, nego, link, hist
  <2>2. stopper.at = "done" => UNCHANGED status
    BY <1>4 DEF StagesInv, SignalingOpen, RetryWakes, DeadlineWakes, flags, Absent
  <2> QED
    BY <2>1, <2>2, DoneKept
<1>5. CASE SignalingError \/ RobotHere \/ Nacked \/ Tick
  <2>1. UNCHANGED <<connected, ready, pc, control, connQ, stopper, raced, crossed>>
    BY <1>5 DEF SignalingError, RobotHere, Nacked, Tick, flags, teardown, nego, link, hist
  <2>2. stopper.at = "done" => UNCHANGED status
    BY <1>5 DEF StagesInv, SignalingError, RobotHere, Nacked, Tick, flags
  <2> QED
    BY <2>1, <2>2, DoneKept
<1>6. CASE HandleAck
  <2>1. UNCHANGED <<stopper, raced, crossed>> /\ control # 0
    BY <1>6 DEF HandleAck, teardown, hist
  <2> QED
    BY <2>1 DEF DoneInv
<1>7. CASE HandleConnState
  <2>1. UNCHANGED <<ready, pc, control, stopper, raced, crossed>>
    BY <1>7 DEF HandleConnState, teardown, nego, hist
  <2>2. ASSUME ~raced, stopper.at = "done" PROVE DoneInv'
    <3>1. connQ = <<"closed">> /\ connQ' = Tail(connQ)
      BY <1>7, <2>2 DEF DoneInv, HandleConnState
    <3>2. Head(connQ) = "closed" /\ connQ' = <<>>
      <4>1. connQ \in Seq(Events) /\ Len(connQ) = 1 /\ Head(connQ) = "closed"
        BY <3>1 DEF TypeOK, PeersOK, Events
      <4> QED
        BY <3>1, <4>1, LastAlone
    <3>3. ~connected' /\ status' = status
      BY <1>7, <2>2, <3>2 DEF DoneInv, HandleConnState
    <3> QED
      BY <2>1, <2>2, <3>2, <3>3 DEF DoneInv
  <2> QED
    BY <2>1, <2>2 DEF DoneInv
<1>8. ASSUME NEW p \in Offers,
             PeerConnects(p) \/ PeerFails(p) \/ PeerHangsUp(p) \/ SetupControl(p)
      PROVE  DoneInv'
  <2>1. UNCHANGED <<stopper, raced, crossed>> /\ Usable(p)
    BY <1>8 DEF PeerConnects, PeerFails, PeerHangsUp, SetupControl, teardown, hist, Usable
  <2>2. raced \/ pc # 0
    BY <2>1 DEF RaceInv, Offers
  <2> QED
    BY <2>1, <2>2 DEF DoneInv
<1>9. CASE Start \/ StopCancels \/ StopCancelledItself \/ \E by \in Callers : StopBegin(by)
  <2>1. stopper'.at # "done"
    BY <1>9 DEF Start, StopCancels, StopCancelledItself, StopBegin, Stopper, TypeOK, LifecycleOK
  <2> QED
    BY <2>1 DEF DoneInv
<1>10. CASE StopLeavesRoom
  <2>1. connQ' = <<>>
    BY <1>10 DEF StopLeavesRoom, Resumes
  <2>2. CASE Closed
    BY <2>1, <2>2 DEF Closed, DoneInv, Stopper, Status
  <2>3. CASE stopper' = Stopper("peer", "caller")
    BY <2>3 DEF DoneInv, Stopper
  <2> QED
    BY <1>10, <2>2, <2>3 DEF StopLeavesRoom
<1>11. CASE StopFinishes
  <2>1. connQ' \in {<<>>, <<"closed">>} /\ Closed
    BY <1>11 DEF StopFinishes, Resumes, CloseEvent
  <2> QED
    BY <2>1 DEF Closed, DoneInv, Stopper, Status
<1>12. CASE UNCHANGED vars
  BY <1>12, DoneKept DEF vars, flags, teardown, nego, link, hist
<1> QED
  BY <1>1, <1>2, <1>3, <1>4, <1>5, <1>6, <1>7, <1>8, <1>9, <1>10, <1>11, <1>12 DEF Next, Negotiation

\* What is known of stop().
LEMMA DoneAlways ==
  Spec => [](TypeOK /\ BuiltInv /\ StagesInv /\ RaceInv /\ CrossInv /\ DoneInv)
<1>1. Init => DoneInv
  BY DEF Init, DoneInv, Stopper
<1> QED
  BY <1>1, PeersAlways, DoneStep, PTL DEF Spec

\* When stop() has returned nothing of the session is left, even if offers were being negotiated
\* meanwhile, and whatever an earlier stop() called by a listener left: CleanStop
\* (teleop.py 265-306).
THEOREM StopsCleanly == Spec => []CleanStop
<1>1. TypeOK /\ RaceInv /\ DoneInv => CleanStop
  BY DEF TypeOK, PeersOK, RaceInv, DoneInv, CleanStop, Usable, Offers
<1> QED
  BY <1>1, DoneAlways, PTL

\* A step that touches neither the current peer nor the queue keeps it.
LEMMA ConnKept ==
  ASSUME ConnInv, raced => raced', aborted => aborted', stopped => stopped',
         UNCHANGED <<connected, pc, connQ>>,
         ~raced' /\ pc # 0 => UNCHANGED peer
  PROVE  ConnInv'
<1>1. Expected' = Expected
  BY DEF Expected
<1> QED
  BY <1>1 DEF ConnInv

\* A step that appends the event of the new state of the current peer.
LEMMA EventExpected ==
  ASSUME TypeOK, NEW e \in Events, connQ' = Append(connQ, e)
  PROVE  Expected' <=> e = "connected"
<1>1. connQ \in Seq(Events)
  BY DEF TypeOK, PeersOK, Events
<1> QED
  BY <1>1, LastAppended DEF Expected

\* The step of a state task takes the expectation nowhere.
LEMMA TaskExpected ==
  ASSUME TypeOK, HandleConnState
  PROVE  (Expected' <=> Expected) /\ (Head(connQ) # "connected" => (connected' => connected))
<1>1. connQ \in Seq(Events) /\ connQ # <<>> /\ connQ' = Tail(connQ)
  BY DEF HandleConnState, TypeOK, PeersOK, Events
<1>2. Head(connQ) \in Events /\ (connected' <=> Head(connQ) = "connected")
  <2>1. Head(connQ) \in Events
    BY <1>1
  <2> QED
    BY <2>1 DEF HandleConnState, Lost, Events
<1>3. CASE Len(connQ) = 1
  BY <1>1, <1>2, <1>3, LastAlone DEF Expected
<1>4. CASE Len(connQ) # 1
  BY <1>1, <1>2, <1>4, LastStays DEF Expected
<1> QED
  BY <1>2, <1>3, <1>4

\* _connected follows the peer in every step.
LEMMA ConnStep ==
  ASSUME TypeOK, StagesInv, RaceInv, ConnInv, DoneInv, [Next]_vars
  PROVE  ConnInv'
<1>0. /\ peer \in [Offers -> PeerStates] /\ sdp \in [Offers -> SdpLabels]
      /\ control \in Ids /\ pc \in Ids /\ connQ \in Seq(Events)
  BY DEF TypeOK, PeersOK, NegotiationOK, PeerStates, Events
<1>00. {stopped, connected, raced, aborted} \subseteq BOOLEAN
  BY DEF TypeOK, SwitchesOK
<1>1. ASSUME NEW o \in Offers, SdpBegin(o) PROVE ConnInv'
  <2>1. SUFFICES ASSUME ~raced', ~aborted', ~stopped' PROVE ConnInv'
    BY DEF ConnInv
  <2>2. ~raced /\ ~aborted /\ ~stopped /\ UNCHANGED <<connected, connQ, stopped, stopper>>
    BY <1>00, <1>1, <2>1 DEF SdpBegin, teardown
  <2>3. Expected' = Expected
    BY <2>2 DEF Expected
  <2>4. CASE pc = 0 /\ NewPeer(o) /\ peer' = [peer EXCEPT ![o] = "new"]
    BY <1>0, <2>2, <2>3, <2>4 DEF ConnInv, NewPeer
  <2>5. CASE pc # 0 /\ peer' = CloseBegun(pc) /\ UNCHANGED pc
    BY <1>0, <2>2, <2>3, <2>5 DEF ConnInv, CloseBegun, Ids
  <2> QED
    BY <1>1, <2>4, <2>5 DEF SdpBegin
<1>2. ASSUME NEW o \in Offers, SdpClosedOld(o) PROVE ConnInv'
  <2>1. SUFFICES ASSUME ~raced, ~aborted, ~stopped PROVE ConnInv'
    BY <1>2 DEF ConnInv, SdpClosedOld, hist, teardown
  <2>2. /\ closes[o] = pc /\ pc \in Offers \ {o}
        /\ peer[pc] \in {"closing", "closed"}
    BY <1>2, <2>1 DEF SdpClosedOld, RaceInv
  <2>4. /\ peer' = [peer EXCEPT ![pc] = "closed", ![o] = "new"] /\ pc' = o /\ connQ = <<>>
        /\ connQ' = CloseEvent(pc) /\ UNCHANGED <<connected, stopped, stopper, raced, aborted>>
    BY <1>2, <2>2 DEF SdpClosedOld, NewPeer, Resumes, flags, teardown, hist
  <2>5. ~Expected'
    BY <2>1, <2>2, <2>4, CloseExpected DEF ConnInv
  <2>6. peer'[o] = "new"
    BY <1>0, <2>2, <2>4
  <2> QED
    BY <2>4, <2>5, <2>6 DEF ConnInv
<1>3. ASSUME NEW o \in Offers, SdpRemote(o) \/ SdpFlush(o) \/ SdpAnswer(o) \/ SdpFails(o) \/ OnIce(o)
      PROVE  ConnInv'
  BY <1>3, ConnKept DEF SdpRemote, SdpFlush, SdpAnswer, SdpFails, Raised,
    OnIce, flags, teardown, peers, hist
<1>4. ASSUME NEW k \in Opens, SignalingOpen(k) \/ RetryWakes(k) \/ DeadlineWakes(k)
      PROVE  ConnInv'
  BY <1>4, ConnKept DEF SignalingOpen, RetryWakes, DeadlineWakes, flags, teardown, nego, peers, hist
<1>5. CASE SignalingError \/ RobotHere \/ Nacked \/ Tick \/ HandleAck
  BY <1>5, ConnKept DEF SignalingError, RobotHere, Nacked, Tick, HandleAck, flags, teardown, nego,
    peers, hist
<1>6. CASE HandleConnState
  <2>1. UNCHANGED <<pc, peer, stopped, raced, aborted>>
    BY <1>6 DEF HandleConnState, teardown, nego, peers, hist
  <2> QED
    BY <1>6, <2>1, TaskExpected DEF ConnInv
<1>7. ASSUME NEW p \in Offers, PeerConnects(p) \/ PeerFails(p) \/ PeerHangsUp(p)
      PROVE  ConnInv'
  <2>1. SUFFICES ASSUME ~raced PROVE ConnInv'
    BY <1>7 DEF ConnInv, PeerConnects, PeerFails, PeerHangsUp, hist
  <2>2. p = pc /\ peer[p] \in {"new", "connected"}
    BY <1>7, <2>1 DEF RaceInv, Usable, PeerConnects, PeerFails, PeerHangsUp
  <2>3. PICK e \in Events : connQ' = Append(connQ, e) /\ peer' = [peer EXCEPT ![p] = e]
    BY <1>7 DEF PeerConnects, PeerFails, PeerHangsUp, Events
  <2>4. Expected' <=> e = "connected"
    BY <2>3, EventExpected
  <2>5. UNCHANGED <<pc, stopped, stopper, raced, aborted>>
    BY <1>7 DEF PeerConnects, PeerFails, PeerHangsUp, nego, teardown, hist
  <2>6. pc # 0
    BY <2>2 DEF Offers
  <2> QED
    BY <1>0, <2>2, <2>3, <2>4, <2>5, <2>6 DEF ConnInv, Events
<1>8. ASSUME NEW p \in Offers, SetupControl(p) PROVE ConnInv'
  BY <1>8, ConnKept DEF SetupControl, flags, teardown, nego, peers, hist
<1>9. CASE Start
  <2>1. UNCHANGED <<connected, pc, connQ, peer, raced, aborted>>
    BY <1>9 DEF Start, nego, peers, hist
  <2>2. Expected' = Expected /\ (stopped => stopper.at \in {"done", "aborted"})
    BY <1>9, <2>1 DEF Start, Expected, StagesInv
  <2>3. stopper.at = "done" /\ ~raced => pc = 0 /\ ~Expected
    BY DEF DoneInv, Expected
  <2>4. stopper.at = "aborted" => aborted
    BY DEF StagesInv
  <2> QED
    BY <2>1, <2>2, <2>3, <2>4 DEF ConnInv
<1>10. CASE StopCancels \/ StopLeavesRoom \/ StopFinishes \/ StopCancelledItself
            \/ \E by \in Callers : StopBegin(by)
  <2>1. stopped'
    BY <1>10 DEF StopCancels, StopLeavesRoom, StopFinishes, StopCancelledItself, StopBegin, Stopper,
      StagesInv
  <2> QED
    BY <2>1 DEF ConnInv
<1>11. CASE UNCHANGED vars
  BY <1>11, ConnKept DEF vars, flags, teardown, nego, peers, hist
<1> QED
  BY <1>1, <1>2, <1>3, <1>4, <1>5, <1>6, <1>7, <1>8, <1>9, <1>10, <1>11 DEF Next, Negotiation

\* What is known of _connected and of stop().
LEMMA ConnAlways ==
  Spec => [](TypeOK /\ BuiltInv /\ StagesInv /\ RaceInv /\ CrossInv /\ DoneInv /\ ConnInv)
<1>1. Init => ConnInv
  BY DEF Init, ConnInv, Expected
<1> QED
  BY <1>1, DoneAlways, ConnStep, PTL DEF Spec

\* Once the scheduled state tasks have run, _connected says what the current peer connection
\* is, for any number of offers, opens and starts, and however many offers are negotiated at
\* once: ConnectedTracksPeer (teleop.py 1503-1516).
THEOREM ConnectedFollows == Spec => []ConnectedTracksPeer
<1>1. ConnInv => ConnectedTracksPeer
  BY DEF ConnInv, ConnectedTracksPeer, Expected
<1> QED
  BY <1>1, ConnAlways, PTL

-----------------------------------------------------------------------------
(* Candidates *)

\* Session s has a candidate held at i or later.
HeldFrom(s, i) == \E j \in 1 .. Len(pendingIce) : j >= i /\ pendingIce[j] = s

\* The flag follows the on_sdp of the current peer, a flush begins at the first candidate, and a
\* task that is done has answered.
FlushInv ==
  /\ \A o \in Offers : sdp[o] = "done" => Answered(o)
  /\ ~crossed =>
    /\ \A o \in Offers : sdp[o] # "flush" => flush[o] = 1
    /\ pc \in Offers /\ sdp[pc] = "remote" => ~remoteSet
    /\ pc \in Offers /\ sdp[pc] \in {"flush", "local", "done"} => remoteSet

\* Where the candidate that was kept for session s is: held until the flush has passed it,
\* which no other session's flush does, and then on the peer.
CandInv ==
  ~crossed =>
    \A s \in kept :
      /\ s > offers => s = offers + 1 /\ pc = 0 /\ HeldFrom(s, 1)
      /\ sdp[s] # "closing"
      /\ pc = s /\ sdp[s] = "remote" => HeldFrom(s, 1)
      /\ pc = s /\ Usable(s) /\ sdp[s] = "flush" => s \in reached \/ HeldFrom(s, flush[s])
      /\ pc = s /\ Usable(s) /\ sdp[s] \in {"local", "done"} => s \in reached

\* Neither is disturbed by a step that leaves the candidates alone, and opens no peer.
LEMMA CandKept ==
  ASSUME TypeOK, FlushInv, CandInv, crossed => crossed',
         UNCHANGED <<sdp, flush, remoteSet, pendingIce, kept, reached, answers, offers>>,
         pc' = pc \/ pc' = 0,
         ~crossed' => \A p \in Offers : Usable(p)' => Usable(p)
  PROVE  FlushInv' /\ CandInv'
<1>1. FlushInv'
  BY DEF FlushInv, Answered, Offers
<1>2. ASSUME NEW s \in kept, NEW i PROVE HeldFrom(s, i)' = HeldFrom(s, i)
  BY DEF HeldFrom
<1>3. kept \subseteq Offers /\ 0 \notin Offers
  BY DEF TypeOK, NegotiationOK, Offers
<1>4. CandInv'
  BY <1>2, <1>3 DEF CandInv
<1> QED
  BY <1>1, <1>4

\* Every step keeps them.
LEMMA CandStep ==
  ASSUME TypeOK, BuiltInv, RaceInv, CrossInv, FlushInv, CandInv, [Next]_vars
  PROVE  FlushInv' /\ CandInv'
<1>0. /\ peer \in [Offers -> PeerStates] /\ sdp \in [Offers -> SdpLabels] /\ pc \in Ids
      /\ flush \in [Offers -> Nat \ {0}] /\ pendingIce \in Seq(Offers) /\ kept \subseteq Offers
      /\ offers \in Nat /\ Offers \subseteq Nat \ {0} /\ crossed \in BOOLEAN
  BY BoundsAssumption DEF TypeOK, PeersOK, NegotiationOK, SwitchesOK, PeerStates, Offers
<1>1. ASSUME NEW o \in Offers, SdpBegin(o) PROVE FlushInv' /\ CandInv'
  <2>0. \A q \in Offers : sdp'[q] = "done" => Answered(q)'
    BY <1>0, <1>1 DEF SdpBegin, NewPeer, FlushInv, Answered
  <2>1. SUFFICES ASSUME ~crossed' PROVE FlushInv' /\ CandInv'
    BY <2>0 DEF FlushInv, CandInv
  <2>2. /\ ~crossed /\ o = offers + 1 /\ offers' = o /\ NoneInFlight
        /\ UNCHANGED <<flush, pendingIce, kept, reached>>
    BY <1>0, <1>1, <2>1 DEF SdpBegin
  <2>3. peer[o] = "none" /\ sdp[o] = "none"
    BY <1>0, <2>2 DEF BuiltInv
  <2>4. \A s, i : HeldFrom(s, i)' = HeldFrom(s, i)
    BY <2>2 DEF HeldFrom
  <2>5. CASE pc = 0 /\ NewPeer(o) /\ peer' = [peer EXCEPT ![o] = "new"]
    <3>1. pc' = o /\ ~remoteSet' /\ sdp' = [sdp EXCEPT ![o] = "remote"]
      BY <2>5 DEF NewPeer
    <3>2. FlushInv'
      BY <1>0, <2>0, <2>2, <2>3, <3>1 DEF FlushInv
    <3>3. ASSUME NEW s \in kept PROVE s <= offers' /\ (s = o => HeldFrom(s, 1))
      BY <1>0, <2>2, <3>3 DEF CandInv
    <3>4. CandInv'
      BY <1>0, <2>2, <2>4, <3>1, <3>3 DEF CandInv
    <3> QED
      BY <3>2, <3>4
  <2>6. CASE pc # 0 /\ sdp' = [sdp EXCEPT ![o] = "closing"] /\ peer' = CloseBegun(pc)
             /\ UNCHANGED <<pc, remoteSet>>
    <3>1. pc \in Offers /\ pc # o /\ o \notin kept
      BY <1>0, <2>2, <2>3, <2>6 DEF BuiltInv, Ids, CandInv
    <3>2. \A p \in Offers : Usable(p)' => Usable(p)
      BY <1>0, <2>6, <3>1 DEF CloseBegun, Usable
    <3>3. FlushInv'
      BY <1>0, <2>0, <2>2, <2>3, <2>6, <3>1 DEF FlushInv
    <3>4. CandInv'
      BY <1>0, <2>2, <2>4, <2>6, <3>1, <3>2 DEF CandInv
    <3> QED
      BY <3>3, <3>4
  <2> QED
    BY <1>1, <2>5, <2>6 DEF SdpBegin
<1>2. ASSUME NEW o \in Offers, SdpClosedOld(o) PROVE FlushInv' /\ CandInv'
  <2>0. \A q \in Offers : sdp'[q] = "done" => Answered(q)'
    BY <1>0, <1>2 DEF SdpClosedOld, NewPeer, FlushInv, Answered
  <2>1. SUFFICES ASSUME ~crossed PROVE FlushInv' /\ CandInv'
    BY <1>2, <2>0 DEF FlushInv, CandInv, SdpClosedOld, hist
  <2>2. pc \in Offers \ {o} /\ sdp[o] = "closing" /\ o \notin kept
    BY <1>2, <2>1 DEF SdpClosedOld, RaceInv, CrossInv, CandInv
  <2>3. /\ pc' = o /\ ~remoteSet' /\ sdp' = [sdp EXCEPT ![o] = "remote"]
        /\ UNCHANGED <<flush, pendingIce, kept, reached, offers>>
    BY <1>2 DEF SdpClosedOld, NewPeer, counters, hist
  <2>4. FlushInv'
    BY <1>0, <2>0, <2>1, <2>2, <2>3 DEF FlushInv
  <2>5. \A s \in kept : s <= offers
    BY <1>0, <2>1, <2>2 DEF CandInv
  <2>6. CandInv'
    BY <1>0, <2>1, <2>2, <2>3, <2>5 DEF CandInv
  <2> QED
    BY <2>4, <2>6
<1>3. ASSUME NEW o \in Offers, SdpRemote(o) PROVE FlushInv' /\ CandInv'
  <2>0. \A q \in Offers : sdp'[q] = "done" => Answered(q)'
    BY <1>0, <1>3 DEF SdpRemote, peers, FlushInv, Answered
  <2>1. SUFFICES ASSUME ~crossed PROVE FlushInv' /\ CandInv'
    BY <1>3, <2>0 DEF FlushInv, CandInv, SdpRemote, hist
  <2>2. /\ sdp[o] = "remote" /\ sdp' = [sdp EXCEPT ![o] = "flush"] /\ remoteSet'
        /\ UNCHANGED <<pc, flush, pendingIce, kept, reached, offers, peer>>
    BY <1>3 DEF SdpRemote, peers, counters, hist
  <2>3. pc = o /\ flush[o] = 1
    BY <2>1, <2>2 DEF CrossInv, FlushInv
  <2>4. \A s, i : HeldFrom(s, i)' = HeldFrom(s, i)
    BY <2>2 DEF HeldFrom
  <2>5. FlushInv'
    BY <1>0, <2>0, <2>1, <2>2, <2>3 DEF FlushInv
  <2>6. CandInv'
    BY <1>0, <2>1, <2>2, <2>3, <2>4 DEF CandInv, Usable
  <2> QED
    BY <2>5, <2>6
<1>4. ASSUME NEW o \in Offers, SdpFlush(o) PROVE FlushInv' /\ CandInv'
  <2>0. \A q \in Offers : sdp'[q] = "done" => Answered(q)'
    BY <1>0, <1>4 DEF SdpFlush, Raised, FlushInv, Answered
  <2>1. SUFFICES ASSUME ~crossed PROVE FlushInv' /\ CandInv'
    BY <1>4, <2>0 DEF FlushInv, CandInv, SdpFlush, hist
  <2>2. sdp[o] = "flush" /\ pc = o /\ UNCHANGED <<pc, remoteSet, kept, offers, peer, crossed>>
    BY <1>4, <2>1 DEF SdpFlush, CrossInv, counters, hist
  <2>3. \A s \in kept : s <= offers
    BY <1>0, <2>1, <2>2 DEF CandInv
  <2>4. CASE /\ flush[o] <= Len(pendingIce) /\ reached' = AddedTo(o, pendingIce[flush[o]])
             /\ flush' = [flush EXCEPT ![o] = @ + 1] /\ UNCHANGED <<pendingIce, sdp>>
    <3>1. FlushInv'
      BY <1>0, <2>0, <2>1, <2>2, <2>4 DEF FlushInv
    <3>2. flush'[o] = flush[o] + 1 /\ reached \subseteq reached'
      BY <1>0, <2>4 DEF AddedTo
    <3>3. Usable(o) /\ HeldFrom(o, flush[o]) => o \in reached' \/ HeldFrom(o, flush[o] + 1)
      <4>1. ASSUME Usable(o), NEW j \in 1 .. Len(pendingIce), j >= flush[o], pendingIce[j] = o
            PROVE  o \in reached' \/ HeldFrom(o, flush[o] + 1)
        <5>1. CASE j = flush[o]
          BY <2>2, <2>4, <4>1, <5>1 DEF AddedTo, HasRemote
        <5>2. CASE j # flush[o]
          BY <1>0, <4>1, <5>2 DEF HeldFrom
        <5> QED
          BY <5>1, <5>2
      <4> QED
        BY <4>1 DEF HeldFrom
    <3>4. HeldFrom(o, flush[o] + 1) => HeldFrom(o, flush[o])'
      BY <2>4, <3>2 DEF HeldFrom
    <3>5. CandInv'
      BY <1>0, <2>1, <2>2, <2>3, <2>4, <3>2, <3>3, <3>4 DEF CandInv, Usable
    <3> QED
      BY <3>1, <3>5
  <2>5. CASE /\ flush[o] > Len(pendingIce)
             /\ \E w \in {"local", "failed"} : sdp' = [sdp EXCEPT ![o] = w]
             /\ flush' = [flush EXCEPT ![o] = 1] /\ UNCHANGED reached
    <3>1. FlushInv'
      BY <1>0, <2>0, <2>1, <2>2, <2>5 DEF FlushInv
    <3>2. ~HeldFrom(o, flush[o])
      BY <1>0, <2>5 DEF HeldFrom
    <3>3. CandInv'
      BY <1>0, <2>1, <2>2, <2>3, <2>5, <3>2 DEF CandInv, Usable
    <3> QED
      BY <3>1, <3>3
  <2> QED
    BY <1>4, <2>4, <2>5 DEF SdpFlush, Raised
<1>5. ASSUME NEW o \in Offers, SdpAnswer(o) \/ SdpFails(o) PROVE FlushInv' /\ CandInv'
  <2>1. /\ sdp[o] \in {"remote", "local"}
        /\ \E w \in {"done", "failed"} : /\ sdp' = [sdp EXCEPT ![o] = w]
                                         /\ w = "done" => sdp[o] = "local"
        /\ UNCHANGED <<pc, remoteSet, flush, pendingIce, kept, reached, offers, peer, crossed>>
    BY <1>5 DEF SdpAnswer, SdpFails, Raised, peers, counters, hist
  <2>2. \A s, i : HeldFrom(s, i)' = HeldFrom(s, i)
    BY <2>1 DEF HeldFrom
  <2>0. \A q \in Offers : sdp'[q] = "done" => Answered(q)'
    <3>1. answers \subseteq answers'
      BY <1>5 DEF SdpAnswer, SdpFails, peers
    <3>2. sdp'[o] = "done" => Answered(o)'
      <4>1. ASSUME SdpAnswer(o) PROVE Answered(o)'
        <5>1. Answer(o) \in answers' /\ Answer(o).offer = o
          BY <4>1 DEF SdpAnswer, Answer
        <5> QED
          BY <5>1 DEF Answered
      <4>2. ASSUME SdpFails(o) PROVE sdp'[o] = "failed"
        BY <1>0, <4>2 DEF SdpFails, Raised
      <4> QED
        BY <1>5, <4>1, <4>2
    <3>3. \A q \in Offers : q # o => sdp'[q] = sdp[q]
      BY <1>0, <2>1
    <3>4. \A q \in Offers : Answered(q) => Answered(q)'
      BY <3>1 DEF Answered
    <3> QED
      BY <3>2, <3>3, <3>4 DEF FlushInv
  <2>3. FlushInv'
    BY <1>0, <2>0, <2>1 DEF FlushInv
  <2>4. CandInv'
    BY <1>0, <2>1, <2>2 DEF CandInv, Usable
  <2> QED
    BY <2>3, <2>4
<1>6. ASSUME NEW s \in Offers, OnIce(s) PROVE FlushInv' /\ CandInv'
  <2>0. \A q \in Offers : sdp'[q] = "done" => Answered(q)'
    BY <1>6 DEF OnIce, FlushInv, Answered
  <2>1. SUFFICES ASSUME ~crossed PROVE FlushInv' /\ CandInv'
    BY <1>6, <2>0 DEF FlushInv, CandInv, OnIce
  <2>2. /\ UNCHANGED <<sdp, flush, remoteSet, pc, peer, offers, crossed>> /\ s \in {offers, offers + 1}
        /\ kept' = IF pc \in {0, s} THEN kept \cup {s} ELSE kept
    BY <1>6 DEF OnIce
  <2>3. FlushInv'
    BY <2>0, <2>1, <2>2 DEF FlushInv
  <2>4. pc <= offers /\ (sdp[s] = "closing" => pc \in Offers \ {s})
    <3>1. pc = 0 \/ ~(pc > offers)
      BY <1>0 DEF BuiltInv, Ids
    <3> QED
      BY <1>0, <2>1, <3>1 DEF CrossInv, RaceInv, Ids
  <2>5. CASE CanAdd /\ reached' = AddedTo(pc, s) /\ UNCHANGED pendingIce
    <3>1. \A t, i : HeldFrom(t, i)' = HeldFrom(t, i)
      BY <2>5 DEF HeldFrom
    <3>2. /\ reached \subseteq reached' /\ kept' \subseteq kept \cup {s}
          /\ s \in kept' => s \in kept \/ pc = s
      BY <2>2, <2>5 DEF AddedTo, CanAdd
    <3>3. pc = s => sdp[s] # "remote"
      BY <2>1, <2>5 DEF FlushInv, CanAdd
    <3>4. pc = s /\ Usable(s) /\ sdp[s] \in {"flush", "local", "done"} => s \in reached'
      BY <2>5 DEF AddedTo, HasRemote, FlushInv
    <3>5. ASSUME NEW t \in kept', t \notin kept PROVE t = s /\ pc = s
      BY <3>2, <3>5
    <3>6. CandInv'
      BY <1>0, <2>1, <2>2, <2>4, <3>1, <3>2, <3>3, <3>4, <3>5 DEF CandInv, Usable
    <3> QED
      BY <2>3, <3>6
  <2>6. CASE ~CanAdd /\ pendingIce' = Append(pendingIce, s) /\ UNCHANGED reached
    <3>1. /\ Len(pendingIce') = Len(pendingIce) + 1 /\ pendingIce'[Len(pendingIce) + 1] = s
          /\ \A i \in 1 .. Len(pendingIce) : pendingIce'[i] = pendingIce[i]
          /\ Len(pendingIce) \in Nat
      BY <1>0, <2>6, AppendProperties, LenProperties
    <3>2. \A t \in Offers : \A i \in Nat : HeldFrom(t, i) => HeldFrom(t, i)'
      BY <3>1 DEF HeldFrom
    <3>3. HeldFrom(s, 1)'
      BY <3>1 DEF HeldFrom
    <3>4. ASSUME NEW t \in kept', t \notin kept PROVE t = s /\ pc \in {0, s}
      BY <2>2, <3>4
    <3>5. pc = s => sdp[s] \notin {"flush", "local", "done"}
      BY <2>1, <2>6 DEF FlushInv, CanAdd, Offers
    <3>6. ASSUME NEW t \in kept' PROVE t \in Offers /\ flush[t] \in Nat
      BY <1>0, <2>2, <3>6
    <3>7. CandInv'
      BY <1>0, <2>1, <2>2, <2>4, <2>6, <3>2, <3>3, <3>4, <3>5, <3>6 DEF CandInv, Usable
    <3> QED
      BY <2>3, <3>7
  <2> QED
    BY <1>6, <2>5, <2>6 DEF OnIce, Held
<1>7. ASSUME NEW k \in Opens, SignalingOpen(k) \/ RetryWakes(k) \/ DeadlineWakes(k)
      PROVE  FlushInv' /\ CandInv'
  BY <1>7, CandKept DEF SignalingOpen, RetryWakes, DeadlineWakes, nego, peers, counters, hist, Usable
<1>8. CASE SignalingError \/ RobotHere \/ Nacked \/ Tick \/ HandleConnState \/ HandleAck
  BY <1>8, CandKept DEF SignalingError, RobotHere, Nacked, Tick, HandleConnState, HandleAck, nego,
    peers, counters, hist, Usable
<1>9. ASSUME NEW p \in Offers,
             PeerConnects(p) \/ PeerFails(p) \/ PeerHangsUp(p) \/ SetupControl(p)
      PROVE  FlushInv' /\ CandInv'
  <2>1. /\ UNCHANGED <<sdp, flush, remoteSet, pendingIce, kept, reached, answers, offers, pc, crossed>>
        /\ \/ UNCHANGED peer
           \/ /\ peer[p] \in {"new", "connected"}
              /\ \E w \in Events : peer' = [peer EXCEPT ![p] = w]
    BY <1>9 DEF PeerConnects, PeerFails, PeerHangsUp, SetupControl, nego, peers, counters, hist, Events
  <2>2. \A q \in Offers : Usable(q)' => Usable(q)
    BY <1>0, <2>1 DEF Usable
  <2> QED
    BY <2>1, <2>2, CandKept
<1>10. CASE Start \/ StopCancels \/ StopCancelledItself
  BY <1>10, CandKept DEF Start, StopCancels, StopCancelledItself, nego, peers, counters, hist, Usable
<1>11. ASSUME NEW by \in Callers, StopBegin(by) PROVE FlushInv' /\ CandInv'
  BY <1>11, CandKept DEF StopBegin, nego, peers, counters, Usable
<1>12. CASE StopLeavesRoom
  <2>1. UNCHANGED <<sdp, flush, remoteSet, pendingIce, kept, reached, answers, offers, crossed>>
    BY <1>12 DEF StopLeavesRoom, counters, hist
  <2>2. (pc' = pc \/ pc' = 0) /\ (UNCHANGED peer \/ (pc # 0 /\ peer' = CloseBegun(pc)))
    BY <1>12 DEF StopLeavesRoom, Closed
  <2>3. \A q \in Offers : Usable(q)' => Usable(q)
    BY <1>0, <2>2 DEF Usable, CloseBegun, Ids
  <2> QED
    BY <2>1, <2>2, <2>3, CandKept
<1>13. CASE StopFinishes
  <2>1. /\ UNCHANGED <<sdp, flush, remoteSet, pendingIce, kept, reached, answers, offers, crossed>>
        /\ pc' = 0
        /\ peer' = [peer EXCEPT ![stopPc] = "closed"]
    BY <1>13 DEF StopFinishes, Closed, counters, hist
  <2>2. \A q \in Offers : Usable(q)' => Usable(q)
    BY <1>0, <2>1 DEF Usable
  <2> QED
    BY <2>1, <2>2, CandKept
<1>14. CASE UNCHANGED vars
  BY <1>14, CandKept DEF vars, nego, peers, counters, hist, Usable
<1> QED
  BY <1>1, <1>2, <1>3, <1>4, <1>5, <1>6, <1>7, <1>8, <1>9, <1>10, <1>11, <1>12, <1>13, <1>14
    DEF Next, Negotiation

\* A candidate that came while its session had the peer, or before there was one, has reached
\* the peer by the end of the flush, for any number of sessions: CandidateReaches
\* (teleop.py 1409-1423).
THEOREM CandidatesReach == Spec => []CandidateReaches
<1>1. Init => FlushInv /\ CandInv
  BY DEF Init, FlushInv, CandInv, Offers
<1>2. TypeOK /\ CandInv => CandidateReaches
  BY DEF TypeOK, NegotiationOK, CandInv, CandidateReaches
<1> QED
  BY <1>1, <1>2, PeersAlways, CandStep, PTL DEF Spec

-----------------------------------------------------------------------------
(* A live session rides out signaling, and a wait for a robot is watched *)

\* Before start() nothing has happened.
IdleInv ==
  starts = 0 =>
    /\ room = "off" /\ ~connected /\ connQ = <<>>
    /\ \A p \in Offers : peer[p] = "none"

\* A peer whose offer is not yet answered is new, since neither end can try to connect it.
FreshInv ==
  ~crossed =>
    /\ \A o \in Offers : sdp[o] \in {"none"} \cup Suspended => ~Answered(o)
    /\ \A o \in Offers : sdp[o] \in {"remote", "flush", "local"} => peer[o] = "new"

\* A session that is connected says so, or that it negotiates anew.
LiveInv == ~crossed /\ ~aborted /\ connected => status.phase \in {"connected", "negotiating"}

\* A deadline runs while the session waits.
WatchInv ==
  status.phase = "waiting" /\ ~stopped /\ ~crossed /\ ~aborted => \E k \in Opens : deadline[k] # Off

\* An on_sdp that raises finds the session not connected: its peer is the current one, and new.
LEMMA FailsUnconnected ==
  ASSUME TypeOK, StagesInv, RaceInv, CrossInv, ConnInv, FreshInv, ~crossed, ~aborted,
         NEW o \in Offers, sdp[o] \in {"remote", "flush", "local"}, Resumes
  PROVE  ~connected /\ Usable(o)
<1>1. ~stopped /\ ~raced /\ pc = o /\ peer[o] = "new"
  BY DEF CrossInv, NoneInFlight, Suspended, FreshInv
<1> QED
  BY <1>1 DEF ConnInv, Expected, Resumes, Usable

\* Every step keeps the first.
LEMMA IdleStep ==
  ASSUME TypeOK, BuiltInv, StagesInv, IdleInv, [Next]_vars PROVE IdleInv'
<1>0. SUFFICES ASSUME starts' = 0 PROVE IdleInv'
  BY DEF IdleInv
<1>1. CASE starts = 0
  <2>0. /\ room = "off" /\ ~connected /\ connQ = <<>> /\ ~stopped
        /\ stopper.at = "idle" /\ \A p \in Offers : peer[p] = "none"
    BY <1>1 DEF IdleInv, StagesInv
  <2>1. ASSUME NEW o \in Offers, Negotiation(o) PROVE IdleInv'
    <3>1. ~SdpBegin(o) /\ ~SdpClosedOld(o)
      BY <2>0 DEF SdpBegin, SdpClosedOld, BuiltInv
    <3> QED
      BY <2>0, <2>1, <3>1 DEF IdleInv, Negotiation, SdpRemote, SdpFlush, SdpAnswer, SdpFails,
        Raised, flags, teardown, link, peers, world, hist
  <2>2. ASSUME NEW o \in Offers, OnIce(o) PROVE IdleInv'
    BY <2>0, <2>2 DEF OnIce
  <2>3. ASSUME NEW k \in Opens, SignalingOpen(k) \/ RetryWakes(k) \/ DeadlineWakes(k) PROVE IdleInv'
    BY <2>0, <2>3 DEF IdleInv, SignalingOpen, RetryWakes, DeadlineWakes, flags, peers, world, hist
  <2>4. CASE SignalingError \/ RobotHere \/ Nacked \/ Tick
    BY <2>0, <2>4 DEF IdleInv, SignalingError, RobotHere, Nacked, Tick, flags, peers, world, hist
  <2>5. ASSUME NEW p \in Offers,
               PeerConnects(p) \/ PeerFails(p) \/ PeerHangsUp(p) \/ SetupControl(p)
        PROVE  IdleInv'
    BY <2>0, <2>5 DEF PeerConnects, PeerFails, PeerHangsUp, SetupControl
  <2>6. CASE HandleConnState
    BY <2>0, <2>6 DEF HandleConnState
  <2>7. CASE HandleAck
    BY <2>0, <2>7 DEF IdleInv, HandleAck, peers, world, hist
  <2>8. CASE Start
    BY <1>0, <1>1, <2>8 DEF Start
  <2>9. ASSUME NEW by \in Callers, StopBegin(by) PROVE IdleInv'
    BY <1>1, <2>9 DEF StopBegin
  <2>10. CASE StopCancels \/ StopLeavesRoom \/ StopFinishes \/ StopCancelledItself
    BY <2>0, <2>10 DEF StopCancels, StopLeavesRoom, StopFinishes, StopCancelledItself, Stopper
  <2>11. CASE UNCHANGED vars
    BY <2>0, <2>11 DEF IdleInv, vars, flags, peers, world, counters, hist
  <2> QED
    BY <2>1, <2>2, <2>3, <2>4, <2>5, <2>6, <2>7, <2>8, <2>9, <2>10, <2>11 DEF Next
<1>2. starts \in Nat
  BY DEF TypeOK, LifecycleOK
<1>3. starts' = starts \/ starts' = starts + 1
  BY DEF Next, Negotiation, SdpBegin, SdpClosedOld, SdpRemote, SdpFlush, SdpAnswer, SdpFails, OnIce,
    SignalingOpen, RetryWakes, DeadlineWakes, SignalingError, RobotHere, Nacked, Tick,
    PeerConnects, PeerFails, PeerHangsUp, SetupControl, HandleConnState, HandleAck, Start,
    StopBegin, StopCancels, StopLeavesRoom, StopFinishes, StopCancelledItself, counters, vars
<1> QED
  BY <1>0, <1>1, <1>2, <1>3


\* Every step keeps the second.
LEMMA FreshStep ==
  ASSUME TypeOK, BuiltInv, StagesInv, RaceInv, CrossInv, FreshInv, [Next]_vars PROVE FreshInv'
<1>0. peer \in [Offers -> PeerStates] /\ sdp \in [Offers -> SdpLabels] /\ crossed \in BOOLEAN
  BY DEF TypeOK, PeersOK, NegotiationOK, SwitchesOK, PeerStates
<1>1. ASSUME NEW o \in Offers, SdpBegin(o) PROVE FreshInv'
  <2>1. SUFFICES ASSUME ~crossed' PROVE FreshInv'
    BY DEF FreshInv
  <2>2. ~crossed /\ o > offers /\ NoneInFlight /\ UNCHANGED answers /\ sdp[o] = "none"
    <3>1. ~crossed /\ o = offers + 1 /\ NoneInFlight /\ UNCHANGED answers
      BY <1>0, <1>1, <2>1 DEF SdpBegin
    <3>2. o > offers
      BY <3>1 DEF TypeOK, NegotiationOK, Offers
    <3> QED
      BY <3>1, <3>2 DEF BuiltInv
  <2>3. CASE NewPeer(o) /\ peer' = [peer EXCEPT ![o] = "new"]
    BY <1>0, <2>2, <2>3 DEF NewPeer, FreshInv, NoneInFlight, Suspended, Answered
  <2>4. CASE sdp' = [sdp EXCEPT ![o] = "closing"]
    BY <1>0, <2>2, <2>4 DEF FreshInv, NoneInFlight, Suspended, Answered
  <2> QED
    BY <1>1, <2>3, <2>4 DEF SdpBegin
<1>2. ASSUME NEW o \in Offers, SdpClosedOld(o) PROVE FreshInv'
  <2>1. SUFFICES ASSUME ~crossed PROVE FreshInv'
    BY <1>2 DEF FreshInv, SdpClosedOld, hist
  <2>2. /\ sdp[o] = "closing" /\ closes[o] = pc /\ pc \in Offers \ {o}
        /\ sdp' = [sdp EXCEPT ![o] = "remote"] /\ UNCHANGED answers
        /\ peer' = [peer EXCEPT ![pc] = "closed", ![o] = "new"]
    BY <1>2, <2>1 DEF SdpClosedOld, NewPeer, RaceInv, CrossInv
  <2>3. \A q \in Offers : sdp[q] \in Suspended => q = o
    BY <2>1, <2>2 DEF CrossInv, Suspended
  <2> QED
    BY <1>0, <2>1, <2>2, <2>3 DEF FreshInv, Suspended, Answered
<1>3. ASSUME NEW o \in Offers, SdpRemote(o) \/ SdpFlush(o) \/ SdpFails(o) PROVE FreshInv'
  <2>1. UNCHANGED <<peer, answers, crossed>> /\ sdp[o] \in {"remote", "flush", "local"}
    BY <1>3 DEF SdpRemote, SdpFlush, SdpFails, Raised, peers, hist
  <2>2. UNCHANGED sdp \/ \E w \in {"flush", "local", "failed"} : sdp' = [sdp EXCEPT ![o] = w]
    BY <1>3 DEF SdpRemote, SdpFlush, SdpFails, Raised
  <2> QED
    BY <1>0, <2>1, <2>2 DEF FreshInv, Answered, Suspended
<1>4. ASSUME NEW o \in Offers, SdpAnswer(o) PROVE FreshInv'
  <2>1. /\ UNCHANGED <<peer, crossed>>
        /\ \E w \in {"done", "failed"} : sdp' = [sdp EXCEPT ![o] = w]
        /\ answers' = answers \cup {Answer(o)} /\ Answer(o).offer = o
    BY <1>4 DEF SdpAnswer, Answer, Raised, hist
  <2>2. \A q \in Offers : Answered(q)' => Answered(q) \/ q = o
    BY <2>1 DEF Answered
  <2> QED
    BY <1>0, <2>1, <2>2 DEF FreshInv, Suspended
<1>5. ASSUME NEW p \in Offers,
             PeerConnects(p) \/ PeerFails(p) \/ PeerHangsUp(p) \/ SetupControl(p)
      PROVE  FreshInv'
  <2>1. SUFFICES ASSUME ~crossed PROVE FreshInv'
    BY <1>5 DEF FreshInv, PeerConnects, PeerFails, PeerHangsUp, SetupControl, hist
  <2>2. UNCHANGED <<sdp, answers>>
    BY <1>5 DEF PeerConnects, PeerFails, PeerHangsUp, SetupControl, nego, peers
  <2>3. UNCHANGED peer \/ Answered(p) \/ peer[p] = "connected"
    BY <1>5 DEF PeerConnects, PeerFails, PeerHangsUp, SetupControl, peers, Answered
  <2>4. UNCHANGED peer \/ \E w \in Events : peer' = [peer EXCEPT ![p] = w]
    BY <1>5 DEF PeerConnects, PeerFails, PeerHangsUp, SetupControl, peers, Events
  <2> QED
    BY <1>0, <2>1, <2>2, <2>3, <2>4 DEF FreshInv, Answered, Suspended
<1>6. CASE StopLeavesRoom \/ StopFinishes
  <2>1. SUFFICES ASSUME ~crossed PROVE FreshInv'
    BY <1>6 DEF FreshInv, StopLeavesRoom, StopFinishes, hist
  <2>2. NoneInFlight /\ UNCHANGED <<sdp, answers>>
    BY <1>6, <2>1 DEF StopLeavesRoom, StopFinishes, StagesInv, CrossInv, Stopper
  <2> QED
    BY <2>1, <2>2 DEF FreshInv, NoneInFlight, Suspended, Answered
<1>7. ASSUME UNCHANGED <<sdp, answers, peer>>, crossed => crossed' PROVE FreshInv'
  BY <1>7 DEF FreshInv, Answered
<1>8. ASSUME NEW o \in Offers, OnIce(o) PROVE FreshInv'
  BY <1>7, <1>8 DEF OnIce
<1>9. ASSUME NEW k \in Opens, SignalingOpen(k) \/ RetryWakes(k) \/ DeadlineWakes(k) PROVE FreshInv'
  BY <1>7, <1>9 DEF SignalingOpen, RetryWakes, DeadlineWakes, nego, peers, hist
<1>10. CASE SignalingError \/ RobotHere \/ Nacked \/ Tick \/ HandleConnState \/ HandleAck
  BY <1>7, <1>10 DEF SignalingError, RobotHere, Nacked, Tick, HandleConnState, HandleAck, nego,
    peers, hist
<1>11. CASE Start \/ StopCancels \/ StopCancelledItself
  BY <1>7, <1>11 DEF Start, StopCancels, StopCancelledItself, nego, peers, hist
<1>12. ASSUME NEW by \in Callers, StopBegin(by) PROVE FreshInv'
  BY <1>7, <1>12 DEF StopBegin, nego, peers
<1>13. CASE UNCHANGED vars
  BY <1>7, <1>13 DEF vars, nego, peers, hist
<1> QED
  BY <1>1, <1>2, <1>3, <1>4, <1>5, <1>6, <1>8, <1>9, <1>10, <1>11, <1>12, <1>13 DEF Next, Negotiation


\* While connected the status changes only for a new offer or by a connection-state task, and
\* _connected is cleared only by such a task or by stop().
RidesOut ==
  /\ connected /\ connected' /\ status' # status /\ ~crossed' /\ ~aborted'
       => offers' = offers + 1 \/ Len(connQ') < Len(connQ)
  /\ connected /\ ~connected' => Len(connQ') < Len(connQ) \/ stopper'.at = "done"

\* No step breaks it, and none makes a connected session say that it is not.
LEMMA LiveStep ==
  ASSUME TypeOK, BuiltInv, StagesInv, RaceInv, CrossInv, ConnInv, DoneInv, IdleInv, FreshInv,
         LiveInv, [Next]_vars
  PROVE  LiveInv' /\ RidesOut
<1> USE DEF LiveInv, RidesOut
<1>0. crossed \in BOOLEAN /\ aborted \in BOOLEAN
  BY DEF TypeOK, SwitchesOK
<1>1. ASSUME UNCHANGED <<connected, status>>, crossed => crossed', aborted => aborted'
      PROVE  LiveInv' /\ RidesOut
  BY <1>1
<1>2. ASSUME ~connected, UNCHANGED connected PROVE LiveInv' /\ RidesOut
  BY <1>2
<1>3. ASSUME NEW o \in Offers, SdpBegin(o) PROVE LiveInv' /\ RidesOut
  BY <1>3 DEF SdpBegin, Status
<1>4. ASSUME NEW o \in Offers, SdpClosedOld(o) \/ SdpRemote(o) PROVE LiveInv' /\ RidesOut
  BY <1>1, <1>4 DEF SdpClosedOld, SdpRemote, flags, hist
<1>5. ASSUME NEW o \in Offers, SdpFlush(o) \/ SdpAnswer(o) \/ SdpFails(o)
      PROVE  LiveInv' /\ RidesOut
  <2>1. UNCHANGED <<connected, crossed, aborted>>
    BY <1>5 DEF SdpFlush, SdpAnswer, SdpFails, hist
  <2>2. sdp[o] \in {"remote", "flush", "local"} /\ Resumes
    BY <1>5 DEF SdpFlush, SdpAnswer, SdpFails
  <2>3. crossed \/ aborted \/ ~connected
    BY <2>2, FailsUnconnected
  <2> QED
    BY <2>1, <2>3
<1>6. ASSUME NEW o \in Offers, OnIce(o) PROVE LiveInv' /\ RidesOut
  BY <1>1, <1>6 DEF OnIce, flags
<1>7. ASSUME NEW k \in Opens, SignalingOpen(k) PROVE LiveInv' /\ RidesOut
  <2>1. UNCHANGED <<connected, crossed, aborted>>
    BY <1>7 DEF SignalingOpen, hist
  <2>2. status' = status \/ status.phase \in {"joining", "failed"}
    BY <1>7 DEF SignalingOpen
  <2> QED
    BY <2>1, <2>2
<1>8. ASSUME NEW k \in Opens, RetryWakes(k) \/ DeadlineWakes(k) PROVE LiveInv' /\ RidesOut
  <2>1. UNCHANGED <<connected, crossed, aborted>> /\ (status' = status \/ ~connected)
    BY <1>8 DEF RetryWakes, DeadlineWakes, Absent, flags, hist
  <2> QED
    BY <1>1, <1>2, <2>1
<1>9. CASE SignalingError \/ Nacked
  BY <1>2, <1>9 DEF SignalingError, Nacked
<1>10. CASE RobotHere \/ Tick \/ HandleAck
  BY <1>1, <1>10 DEF RobotHere, Tick, HandleAck, flags, hist
<1>11. ASSUME NEW p \in Offers,
              PeerConnects(p) \/ PeerFails(p) \/ PeerHangsUp(p) \/ SetupControl(p)
       PROVE  LiveInv' /\ RidesOut
  BY <1>1, <1>11 DEF PeerConnects, PeerFails, PeerHangsUp, SetupControl, flags, hist
<1>12. CASE HandleConnState
  <2>1. Len(connQ') < Len(connQ)
    <3>1. connQ \in Seq(Events) /\ connQ # <<>> /\ connQ' = Tail(connQ)
      BY <1>12 DEF HandleConnState, TypeOK, PeersOK, Events
    <3>2. Len(connQ) \in Nat \ {0} /\ Len(Tail(connQ)) = Len(connQ) - 1
      BY <3>1, HeadTailProperties, EmptySeq, LenProperties
    <3> QED
      BY <3>1, <3>2
  <2>2. CASE Head(connQ) = "connected"
    <3>1. status' = Status("connected", "none")
      BY <1>12, <2>2 DEF HandleConnState
    <3>2. status'.phase = "connected"
      BY <3>1 DEF Status
    <3>3. connected'
      BY <1>12, <2>2 DEF HandleConnState
    <3> QED
      BY <2>1, <3>2, <3>3
  <2>3. CASE Head(connQ) # "connected"
    <3>1. connected' = (connected /\ ~Lost(Head(connQ)))
      BY <1>12, <2>3 DEF HandleConnState
    <3>2. Head(connQ) \in {"failed", "closed"}
      <4>1. connQ \in Seq(Events) /\ connQ # <<>>
        BY <1>12 DEF HandleConnState, TypeOK, PeersOK, Events
      <4>2. Head(connQ) \in Events
        BY <4>1, HeadTailProperties
      <4> QED
        BY <2>3, <4>2 DEF Events
    <3>3. ~connected'
      BY <3>1, <3>2 DEF Lost
    <3> QED
      BY <2>1, <3>3
  <2> QED
    BY <2>2, <2>3
<1>13. CASE Start
  <2>1. ~crossed /\ ~aborted => ~connected
    BY <1>13 DEF Start, StagesInv, CrossInv, IdleInv, DoneInv
  <2>2. UNCHANGED <<connected, crossed, aborted>>
    BY <1>13 DEF Start, hist
  <2> QED
    BY <2>1, <2>2
<1>14. ASSUME NEW by \in Callers, StopBegin(by) PROVE LiveInv' /\ RidesOut
  BY <1>1, <1>14 DEF StopBegin, flags
<1>15. CASE StopCancels \/ StopCancelledItself
  BY <1>1, <1>15 DEF StopCancels, StopCancelledItself, flags, hist
<1>16. CASE StopLeavesRoom \/ StopFinishes
  <2>1. Closed \/ UNCHANGED <<connected, status, crossed, aborted>>
    BY <1>16 DEF StopLeavesRoom, StopFinishes, flags, hist
  <2>2. ASSUME Closed PROVE LiveInv' /\ RidesOut
    BY <2>2 DEF Closed, Stopper
  <2> QED
    BY <1>1, <2>1, <2>2
<1>17. CASE UNCHANGED vars
  BY <1>1, <1>17 DEF vars, flags, hist
<1> QED
  BY <1>3, <1>4, <1>5, <1>6, <1>7, <1>8, <1>9, <1>10, <1>11, <1>12, <1>13, <1>14, <1>15, <1>16, <1>17
    DEF Next, Negotiation

\* What is known of a session that is connected.
LEMMA LiveAlways ==
  Spec => [](TypeOK /\ BuiltInv /\ StagesInv /\ RaceInv /\ CrossInv /\ DoneInv /\ ConnInv
             /\ IdleInv /\ FreshInv /\ LiveInv)
<1>1. Init => IdleInv /\ FreshInv /\ LiveInv
  BY DEF Init, IdleInv, FreshInv, LiveInv, Answered
<1> QED
  BY <1>1, ConnAlways, IdleStep, FreshStep, LiveStep, PTL DEF Spec

\* No nack, error or deadline of the signaling room touches a session that is connected, for
\* any number of offers, opens and starts: LiveSessionRidesOut (teleop.py 1330-1335).
THEOREM RidesOutSignaling == Spec => LiveSessionRidesOut
<1>1. ASSUME RidesOut
      PROVE  [/\ connected /\ connected' /\ status' # status /\ ~crossed' /\ ~aborted'
                   => offers' = offers + 1 \/ Len(connQ') < Len(connQ)
              /\ connected /\ ~connected' => Len(connQ') < Len(connQ) \/ stopper'.at = "done"]_vars
  BY <1>1 DEF RidesOut
<1> QED
  BY <1>1, LiveAlways, LiveStep, PTL DEF Spec, LiveSessionRidesOut

\* Every step keeps a deadline running while the session waits: the one that is due finds the
\* session not connected, and ends the wait.
LEMMA WatchStep ==
  ASSUME TypeOK, StagesInv, LiveInv, WatchInv, [Next]_vars
  PROVE  WatchInv'
<1>0. /\ crossed \in BOOLEAN /\ aborted \in BOOLEAN /\ stopped \in BOOLEAN /\ connected \in BOOLEAN
      /\ deadline \in [Opens -> 0 .. Off] /\ Off \in Nat \ {0}
  BY BoundsAssumption DEF TypeOK, SwitchesOK, TimersOK, Off
<1>1. ASSUME UNCHANGED deadline, status'.phase = "waiting" => status.phase = "waiting",
             stopped => stopped', crossed => crossed', aborted => aborted'
      PROVE  WatchInv'
  BY <1>1 DEF WatchInv
<1>2. ASSUME NEW o \in Offers, Negotiation(o) \/ OnIce(o) PROVE WatchInv'
  <2>1. UNCHANGED <<deadline, stopped, aborted>> /\ (crossed => crossed')
    <3>1. CASE SdpBegin(o)
      BY <3>1 DEF SdpBegin, timers, teardown
    <3>2. CASE SdpClosedOld(o) \/ SdpRemote(o) \/ SdpFlush(o) \/ OnIce(o)
      BY <3>2 DEF SdpClosedOld, SdpRemote, SdpFlush, OnIce, timers, teardown, hist
    <3>3. CASE SdpAnswer(o) \/ SdpFails(o)
      BY <3>3 DEF SdpAnswer, SdpFails, timers, teardown, hist
    <3> QED
      BY <1>2, <3>1, <3>2, <3>3 DEF Negotiation
  <2>2. \/ UNCHANGED status
        \/ status' \in {Status("negotiating", "none"), Status("failed", "negotiation_failed")}
    <3>1. CASE SdpBegin(o) \/ SdpClosedOld(o) \/ SdpRemote(o) \/ OnIce(o)
      BY <3>1 DEF SdpBegin, SdpClosedOld, SdpRemote, OnIce, flags
    <3>2. CASE SdpFlush(o) \/ SdpAnswer(o) \/ SdpFails(o)
      BY <3>2 DEF SdpFlush, SdpAnswer, SdpFails, Raised
    <3> QED
      BY <1>2, <3>1, <3>2 DEF Negotiation
  <2>3. status'.phase = "waiting" => status.phase = "waiting"
    BY <2>2 DEF Status
  <2> QED
    BY <1>1, <2>1, <2>3
<1>3. ASSUME NEW k \in Opens, SignalingOpen(k) PROVE WatchInv'
  <2>1. CASE status' = Status("waiting", "none") /\ deadline' = Armed(k)
    <3>1. deadline'[k] = WaitTicks /\ WaitTicks # Off
      BY <1>0, <2>1, BoundsAssumption DEF Armed, Off
    <3> QED
      BY <1>0, <3>1 DEF WatchInv
  <2>2. CASE UNCHANGED <<status, deadline>>
    BY <1>1, <1>3, <2>2 DEF SignalingOpen, teardown, hist
  <2> QED
    BY <1>3, <2>1, <2>2 DEF SignalingOpen
<1>4. ASSUME NEW k \in Opens, RetryWakes(k) PROVE WatchInv'
  BY <1>1, <1>4 DEF RetryWakes, flags, teardown, hist
<1>5. ASSUME NEW k \in Opens, DeadlineWakes(k) PROVE WatchInv'
  <2>1. UNCHANGED <<stopped, connected, crossed, aborted>>
    BY <1>5 DEF DeadlineWakes, teardown, hist
  <2>2. status' = IF Absent THEN Status("failed", "robot_absent") ELSE status
    BY <1>5 DEF DeadlineWakes
  <2>3. SUFFICES ASSUME status'.phase = "waiting", ~stopped, ~crossed, ~aborted PROVE FALSE
    BY <2>1 DEF WatchInv
  <2>4. ~Absent /\ status.phase = "waiting"
    BY <2>2, <2>3 DEF Status
  <2>5. connected
    BY <2>3, <2>4 DEF Absent
  <2> QED
    BY <2>3, <2>4, <2>5 DEF LiveInv
<1>6. CASE SignalingError \/ Nacked
  <2>1. \E why \in Failures : status' = Status("failed", why)
    BY <1>6 DEF SignalingError, Nacked, Failures
  <2>2. status'.phase = "failed"
    BY <2>1 DEF Status
  <2> QED
    BY <2>2 DEF WatchInv
<1>7. CASE RobotHere \/ HandleAck
  BY <1>1, <1>7 DEF RobotHere, HandleAck, flags, teardown, timers, hist
<1>8. CASE Tick
  <2>1. UNCHANGED <<status, stopped, crossed, aborted>>
    BY <1>8 DEF Tick, flags, teardown, hist
  <2>2. ASSUME NEW k \in Opens, deadline[k] # Off PROVE deadline'[k] # Off
    BY <1>0, <1>8, <2>2 DEF Tick
  <2> QED
    BY <2>1, <2>2 DEF WatchInv
<1>9. ASSUME NEW p \in Offers,
             PeerConnects(p) \/ PeerFails(p) \/ PeerHangsUp(p) \/ SetupControl(p)
      PROVE  WatchInv'
  BY <1>1, <1>9 DEF PeerConnects, PeerFails, PeerHangsUp, SetupControl, flags, teardown, timers, hist
<1>10. CASE HandleConnState
  <2>1. \/ UNCHANGED status
        \/ \E ph \in {"connected", "failed"}, why \in Failures : status' = Status(ph, why)
    BY <1>10 DEF HandleConnState, Failures
  <2>2. status'.phase = "waiting" => status.phase = "waiting"
    BY <2>1 DEF Status
  <2> QED
    BY <1>1, <1>10, <2>2 DEF HandleConnState, teardown, timers, hist
<1>11. CASE Start
  <2>1. status'.phase = "joining"
    BY <1>11 DEF Start, Status
  <2> QED
    BY <2>1 DEF WatchInv
<1>12. CASE StopCancels \/ StopLeavesRoom \/ StopFinishes \/ StopCancelledItself
            \/ \E by \in Callers : StopBegin(by)
  BY <1>12 DEF WatchInv, StagesInv, StopCancels, StopLeavesRoom, StopFinishes, StopCancelledItself,
    StopBegin, Stopper
<1>13. CASE UNCHANGED vars
  BY <1>1, <1>13 DEF vars, flags, teardown, timers, hist
<1> QED
  BY <1>2, <1>3, <1>4, <1>5, <1>6, <1>7, <1>8, <1>9, <1>10, <1>11, <1>12, <1>13 DEF Next

\* While the session waits for a robot it is not connected and a deadline runs, for any number of
\* opens and starts: the retry loop and the deadline never both give up on a flag that a closed
\* session left, unless its stop() cancelled itself: WaitWatched (teleop.py 1434-1451).
THEOREM WaitIsWatched == Spec => []WaitWatched
<1>1. Init => WatchInv
  BY DEF Init, WatchInv, Status
<1>2. LiveInv /\ WatchInv => WaitWatched
  BY DEF LiveInv, WatchInv, WaitWatched
<1> QED
  BY <1>1, <1>2, LiveAlways, WatchStep, PTL DEF Spec
====
