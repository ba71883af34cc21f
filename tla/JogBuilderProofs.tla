-------------------------- MODULE JogBuilderProofs --------------------------
(***************************************************************************)
(* Theorems about the jog builder, for every set of DOFs, of robots and of *)
(* rates: its types, that a strict builder lets nothing through that the   *)
(* robot drops in silence, and that positions and speeds in the robot's    *)
(* own units convert by the bounds and rates the robot sent.               *)
(***************************************************************************)
EXTENDS JogBuilder, SequenceTheorems, TLAPS

Values == Rates \cup {None}
Calls  ==
  \/ \E g \in ArmGroups \cup {OddGroup}, dof \in Dofs, v \in Asked : Arm(g, dof, v)
  \/ \E g \in Lifts, v \in Asked : Lift(g, v)
  \/ \E linear, angular \in Asked \cup {None} : Base(linear, angular)

-----------------------------------------------------------------------------
(* Type correctness *)

\* A rate asked for is brought within full deflection, or is NaN.
LEMMA RateLimits ==
  ASSUME NEW v \in Asked
  PROVE  Limit(v) \in Rates
  BY JogAssumption, SMT DEF Limit, Clamp, Rates

\* Zero is a rate.
LEMMA ZeroRate == 0 \in Rates
  BY JogAssumption, SMT DEF Rates

\* The cells of an arm, of a lift and of the base.
LEMMA CellKinds ==
  /\ \A g \in ArmGroups \cup {OddGroup}, dof \in Dofs : <<g, dof>> \in Cells
  /\ \A g \in Lifts : <<g, "pos">> \in Cells
  /\ <<"base", "linear">> \in Cells /\ <<"base", "angular">> \in Cells
  BY DEF Cells, BaseDofs

\* The payload and its dicts keep their types.
PayloadOK ==
  /\ payload \in [Cells -> Values] /\ nested \subseteq Nested
  /\ \A c \in Cells : payload[c] # None => c[1] \in nested \cup Lifts
FrameOK == frame = None \/ frame \in [nested : SUBSET Nested, lifts : [Lifts -> Values]]
RestOK  ==
  /\ wire \in Wires \cup {None} /\ strict \in BOOLEAN
  /\ jog \in [Cells -> Values]

\* The initial state has the types.
LEMMA InitTypeOK == Init => PayloadOK /\ FrameOK /\ RestOK
  BY DEF Init, PayloadOK, FrameOK, RestOK, Values

\* A call of the builder keeps the types.
LEMMA CallTypes ==
  ASSUME PayloadOK, Calls
  PROVE  PayloadOK'
<1> USE DEF PayloadOK, Values
<1>1. ASSUME NEW g \in ArmGroups \cup {OddGroup}, NEW dof \in Dofs, NEW v \in Asked, Arm(g, dof, v)
      PROVE  PayloadOK'
  <2>1. <<g, dof>> \in Cells /\ Limit(v) \in Rates
    BY CellKinds, RateLimits
  <2>2. payload' \in [Cells -> Values]
    BY <1>1, <2>1 DEF Arm
  <2>3. nested' \subseteq Nested
    BY <1>1 DEF Arm, Nested
  <2>4. \A c \in Cells : payload'[c] # None => c[1] \in nested' \cup Lifts
    BY <1>1, <2>1 DEF Arm
  <2> QED
    BY <2>2, <2>3, <2>4
<1>2. ASSUME NEW g \in Lifts, NEW v \in Asked, Lift(g, v)
      PROVE  PayloadOK'
  <2>1. <<g, "pos">> \in Cells /\ Limit(v) \in Rates
    BY CellKinds, RateLimits
  <2>2. payload' \in [Cells -> Values]
    BY <1>2, <2>1 DEF Lift
  <2>3. \A c \in Cells : payload'[c] # None => c[1] \in nested' \cup Lifts
    BY <1>2, <2>1 DEF Lift
  <2> QED
    BY <1>2, <2>2, <2>3 DEF Lift
<1>3. ASSUME NEW linear \in Asked \cup {None}, NEW angular \in Asked \cup {None}, Base(linear, angular)
      PROVE  PayloadOK'
  <2>1. <<"base", "linear">> \in Cells /\ <<"base", "angular">> \in Cells
    BY CellKinds
  <2>2. (linear # None => Limit(linear) \in Rates) /\ (angular # None => Limit(angular) \in Rates)
    BY RateLimits
  <2>3. payload' \in [Cells -> Values]
    BY <1>3, <2>1, <2>2 DEF Base
  <2>4. nested' \subseteq Nested
    BY <1>3 DEF Base, Nested
  <2>5. \A c \in Cells : payload'[c] # None => c[1] \in nested' \cup Lifts
    BY <1>3, <2>1 DEF Base
  <2> QED
    BY <2>3, <2>4, <2>5
<1> QED
  BY <1>1, <1>2, <1>3 DEF Calls

\* A call leaves the descriptor, the frame and the robot alone.
LEMMA CallsKeep == ASSUME Calls PROVE UNCHANGED <<wire, strict, frame, jog>>
  BY DEF Calls, Arm, Lift, Base

\* What a frame says has the types of a jog.
LEMMA ContentTypes ==
  ASSUME PayloadOK, FrameOK, frame # None
  PROVE  Content(frame) \in [Cells -> Values]
<1>1. frame \in [nested : SUBSET Nested, lifts : [Lifts -> Values]]
  BY DEF FrameOK
<1>2. ASSUME NEW c \in Cells
      PROVE  (IF c[1] \in Lifts THEN frame.lifts[c[1]]
              ELSE IF c[1] \in frame.nested THEN payload[c] ELSE None) \in Values
  BY <1>1 DEF PayloadOK, Values
<1> QED
  BY <1>2 DEF Content

\* Every step keeps the types.
LEMMA TypeStep ==
  ASSUME PayloadOK, FrameOK, RestOK, [Next]_vars
  PROVE  PayloadOK' /\ FrameOK' /\ RestOK'
<1>1. CASE Calls
  <2>1. PayloadOK'
    BY <1>1, CallTypes
  <2>2. UNCHANGED <<wire, strict, frame, jog>>
    BY <1>1, CallsKeep
  <2> QED
    BY <2>1, <2>2 DEF FrameOK, RestOK
<1>2. CASE Build
  <2>1. \A g \in Lifts : <<g, "pos">> \in Cells
    BY CellKinds
  <2>2. FrameOK'
    BY <1>2, <2>1 DEF Build, FrameOK, PayloadOK
  <2> QED
    BY <1>2, <2>2 DEF Build, PayloadOK, RestOK
<1>3. CASE Send
  <2>1. jog' \in [Cells -> Values]
    BY <1>3, ContentTypes DEF Send
  <2> QED
    BY <1>3, <2>1 DEF Send, PayloadOK, FrameOK, RestOK
<1>4. CASE SendStop
  <2>1. StopFrame \in [Cells -> Values]
    BY ZeroRate DEF StopFrame, Values
  <2>2. ASSUME NEW j PROVE Zeroed(j) \in [Cells -> Values]
    BY ZeroRate DEF Zeroed, Values
  <2>3. jog' \in [Cells -> Values]
    BY <1>4, <2>1, <2>2 DEF SendStop
  <2> QED
    BY <1>4, <2>3 DEF SendStop, PayloadOK, FrameOK, RestOK
<1>5. CASE UNCHANGED vars
  BY <1>5 DEF vars, PayloadOK, FrameOK, RestOK
<1> QED
  BY <1>1, <1>2, <1>3, <1>4, <1>5 DEF Next, Calls

\* The parts are the type invariant of the module.
LEMMA TypeParts == TypeOK <=> PayloadOK /\ FrameOK /\ RestOK
  BY DEF TypeOK, PayloadOK, FrameOK, RestOK, Values

\* The payload holds rates of DOFs, each in a dict that is there, and a frame and the
\* robot's jog rates too (motion.py 88-207), whatever the calls.
THEOREM TypeCorrect == Spec => []TypeOK
<1>1. Init => TypeOK
  BY InitTypeOK, TypeParts
<1>2. TypeOK /\ [Next]_vars => TypeOK'
  BY TypeStep, TypeParts DEF TypeOK, PayloadOK, FrameOK, RestOK, Values
<1> QED
  BY <1>1, <1>2, PTL DEF Spec

-----------------------------------------------------------------------------
(* Nothing is dropped in silence *)

\* Every rate that f sets is one that the robot reads, or one of the doubtful.
Heard(c)  == Reads(c) \/ Doubtful(c)
AllHeard(f) == \A c \in Cells : f[c] \notin {None, 0} => Heard(c)

\* A strict builder's payload, the frame built last, which has its own lifts, and the
\* robot's jog set nothing else.
AllOfUse ==
  strict /\ wire # None =>
    /\ AllHeard(payload) /\ AllHeard(jog)
    /\ frame # None =>
         \A g \in Lifts : frame.lifts[g] \notin {None, 0} => Heard(<<g, "pos">>)

\* The verbs that arm() takes are those of a scale that the robot sent.
LEMMA VerbsNeedScale ==
  ASSUME NEW dof, wire # None, dof \in Verbs(Descriptor(wire))
  PROVE  wire.scale # None
<1>1. Descriptor(wire).scale = Scale(wire.scale)
  BY DEF Descriptor
<1>2. CASE wire.scale = None
  <2>1. Descriptor(wire).scale = None
    BY <1>1, <1>2 DEF Scale
  <2> QED
    BY <2>1 DEF Verbs
<1> QED
  BY <1>2

\* A DOF that a strict arm() takes is heard.
LEMMA ArmHeard ==
  ASSUME RestOK, strict, wire # None,
         NEW g \in ArmGroups \cup {OddGroup}, NEW dof \in Dofs, ArmAccepts(g, dof)
  PROVE  Heard(<<g, dof>>)
<1>1. \/ g \in ArmGroups /\ dof \in JointsByGroup(Descriptor(wire))[g]
      \/ dof \in Verbs(Descriptor(wire))
  BY DEF ArmAccepts, Strict
<1>2. CASE g \in ArmGroups /\ dof \in JointsByGroup(Descriptor(wire))[g]
  <2>1. Descriptor(wire).joints = wire.joints
    BY DEF Descriptor
  <2>2. PICK k \in wire.joints : k[1] = g /\ k[2] = dof
    <3>1. CASE Descriptor(wire) = None
      BY <1>2, <3>1 DEF JointsByGroup
    <3>2. CASE Descriptor(wire) # None
      BY <1>2, <2>1, <3>2 DEF JointsByGroup
    <3> QED
      BY <3>1, <3>2
  <2>3. k \in Keys
    BY <2>2, JogAssumption DEF RestOK, Sent
  <2>4. k = <<g, dof>>
    BY <2>2, <2>3 DEF Keys
  <2>5. g \notin Lifts \cup {"base"}
    BY <1>2 DEF ArmGroups, Lifts, LiftGroups, CentralLift
  <2> QED
    BY <2>2, <2>4, <2>5 DEF Heard, Reads
<1>3. CASE dof \in Verbs(Descriptor(wire))
  BY <1>3, VerbsNeedScale DEF Heard, Doubtful
<1> QED
  BY <1>1, <1>2, <1>3

\* A lift that a strict lift() or central_lift() takes is heard.
LEMMA LiftHeard ==
  ASSUME strict, wire # None, NEW g \in Lifts, LiftAccepts(g)
  PROVE  Heard(<<g, "pos">>)
<1>1. Descriptor(wire).joints = wire.joints /\ Descriptor(wire).aux = wire.aux
  BY DEF Descriptor
<1>2. g \in wire.aux \/ (g \in LiftGroups /\ \E k \in wire.joints : k[1] = g)
  BY <1>1 DEF LiftAccepts, Strict
<1> QED
  BY <1>2 DEF Heard, Reads, Doubtful

\* A call adds to the payload only what is heard.
LEMMA CallHeard ==
  ASSUME PayloadOK, RestOK, strict, wire # None, AllHeard(payload), Calls
  PROVE  AllHeard(payload')
<1> USE DEF AllHeard
<1>1. ASSUME NEW g \in ArmGroups \cup {OddGroup}, NEW dof \in Dofs, NEW v \in Asked, Arm(g, dof, v)
      PROVE  AllHeard(payload')
  <2>1. Heard(<<g, dof>>)
    BY <1>1, ArmHeard DEF Arm
  <2> QED
    BY <1>1, <2>1 DEF Arm, PayloadOK
<1>2. ASSUME NEW g \in Lifts, NEW v \in Asked, Lift(g, v)
      PROVE  AllHeard(payload')
  <2>1. Heard(<<g, "pos">>)
    BY <1>2, LiftHeard DEF Lift
  <2> QED
    BY <1>2, <2>1 DEF Lift, PayloadOK
<1>3. ASSUME NEW linear \in Asked \cup {None}, NEW angular \in Asked \cup {None}, Base(linear, angular)
      PROVE  AllHeard(payload')
  <2>1. Heard(<<"base", "linear">>) /\ Heard(<<"base", "angular">>)
    BY DEF Heard, Reads
  <2> QED
    BY <1>3, <2>1 DEF Base, PayloadOK
<1> QED
  BY <1>1, <1>2, <1>3 DEF Calls

\* A frame says only what is heard.
LEMMA ContentHeard ==
  ASSUME FrameOK, AllOfUse, strict, wire # None, frame # None
  PROVE  AllHeard(Content(frame))
<1>1. ASSUME NEW c \in Cells, Content(frame)[c] \notin {None, 0}
      PROVE  Heard(c)
  <2>1. CASE c[1] \in Lifts
    <3>1. Content(frame)[c] = frame.lifts[c[1]]
      BY <2>1 DEF Content
    <3>2. Heard(<<c[1], "pos">>)
      BY <1>1, <2>1, <3>1 DEF AllOfUse
    <3>3. c = <<c[1], "pos">>
      <4>1. c[1] \notin ArmGroups \cup {OddGroup, "base"}
        BY <2>1, JogAssumption DEF Lifts, LiftGroups, CentralLift, ArmGroups
      <4>2. c \in Lifts \X {"pos"}
        BY <4>1 DEF Cells
      <4> QED
        BY <4>2
    <3> QED
      BY <3>2, <3>3
  <2>2. CASE c[1] \notin Lifts
    BY <1>1, <2>2 DEF Content, AllOfUse, AllHeard
  <2> QED
    BY <2>1, <2>2
<1> QED
  BY <1>1 DEF AllHeard

\* Every step keeps to what is heard.
LEMMA HeardStep ==
  ASSUME PayloadOK, FrameOK, RestOK, AllOfUse, [Next]_vars
  PROVE  AllOfUse'
<1>1. wire' = wire /\ strict' = strict
  BY DEF Next, Arm, Lift, Base, Build, Send, SendStop, vars
<1>2. \A c : Heard(c)' <=> Heard(c)
  BY <1>1 DEF Heard, Reads, Doubtful
<1>3. SUFFICES ASSUME strict, wire # None
               PROVE  /\ AllHeard(payload') /\ AllHeard(jog')
                      /\ frame' # None =>
                           \A g \in Lifts : frame'.lifts[g] \notin {None, 0} => Heard(<<g, "pos">>)
  BY <1>1, <1>2 DEF AllOfUse, AllHeard
<1>4. /\ AllHeard(payload) /\ AllHeard(jog)
      /\ frame # None =>
           \A g \in Lifts : frame.lifts[g] \notin {None, 0} => Heard(<<g, "pos">>)
  BY <1>3 DEF AllOfUse
<1>5. CASE Calls
  BY <1>3, <1>4, <1>5, CallHeard, CallsKeep
<1>6. CASE Build
  <2>1. \A g \in Lifts : <<g, "pos">> \in Cells
    BY CellKinds
  <2>2. ASSUME NEW g \in Lifts, frame'.lifts[g] \notin {None, 0}
        PROVE  Heard(<<g, "pos">>)
    BY <1>4, <1>6, <2>1, <2>2 DEF Build, AllHeard
  <2> QED
    BY <1>4, <1>6, <2>2 DEF Build
<1>7. CASE Send
  BY <1>3, <1>4, <1>7, ContentHeard DEF Send
<1>8. CASE SendStop
  <2>1. AllHeard(StopFrame)
    BY DEF AllHeard, StopFrame
  <2>2. ASSUME NEW j PROVE AllHeard(Zeroed(j))
    BY DEF AllHeard, Zeroed
  <2>3. AllHeard(jog')
    BY <1>8, <2>1, <2>2 DEF SendStop
  <2> QED
    BY <1>4, <1>8, <2>3 DEF SendStop
<1>9. CASE UNCHANGED vars
  BY <1>4, <1>9 DEF vars
<1> QED
  BY <1>5, <1>6, <1>7, <1>8, <1>9 DEF Next, Calls

\* No DOF that a strict builder lets through is dropped in silence by the robot, but for
\* those that are doubtful, whatever of the frame is added after it was built
\* (motion.py 88-91; mock/robot.py 314-345).
THEOREM NothingIsDropped == Spec => []NothingDropped
<1>1. Init => PayloadOK /\ FrameOK /\ RestOK /\ AllOfUse
  BY InitTypeOK DEF Init, AllOfUse, AllHeard
<1>2. PayloadOK /\ FrameOK /\ RestOK /\ AllOfUse /\ [Next]_vars
        => (PayloadOK /\ FrameOK /\ RestOK /\ AllOfUse)'
  BY TypeStep, HeardStep
<1>3. AllOfUse => NothingDropped
  BY DEF AllOfUse, AllHeard, Heard, NothingDropped
<1> QED
  BY <1>1, <1>2, <1>3, PTL DEF Spec

-----------------------------------------------------------------------------
(* Arithmetic *)

\* What brings a number into a range leaves it there, and keeps one that is there.
LEMMA Clamped ==
  ASSUME NEW v \in Int, NEW a \in Int, NEW b \in Int, a <= b
  PROVE  /\ Clamp(v, a, b) \in a .. b
         /\ v \in a .. b => Clamp(v, a, b) = v
  BY JogAssumption, SMT DEF Clamp

\* Products of integers are integers, and distribute.
LEMMA Products ==
  ASSUME NEW a \in Int, NEW b \in Int, NEW c \in Int
  PROVE  /\ a * b \in Int /\ a * b = b * a /\ (a * b) * c = a * (b * c)
         /\ (a + b) * c = a * c + b * c /\ (a - b) * c = a * c - b * c /\ (-a) * b = -(a * b)
         /\ a * (-b) = -(a * b)
  BY SMT

\* A part of a whole stays one when both are multiplied.
LEMMA PartScaled ==
  ASSUME NEW p \in Nat, NEW q \in Nat, NEW m \in Nat, p <= q
  PROVE  p * m \in 0 .. q * m
<1>1. p * m \in Nat /\ (q - p) * m \in Nat
  BY SMT
<1>2. (q - p) * m = q * m - p * m
  BY Products
<1> QED
  BY <1>1, <1>2, SMT

\* The part p of the whole q at which v is in a range from a to b, which may be reversed: how far
\* from a, and the value w that is there.
Whole(a, b)   == IF b - a < 0 THEN -(b - a) ELSE b - a
Part(a, b, v) == Clamp(IF b - a < 0 THEN a - v ELSE v - a, 0, Whole(a, b))

LEMMA PartOfRange ==
  ASSUME NEW a \in Int, NEW b \in Int, a # b, NEW v \in Int
  PROVE  LET q == Whole(a, b)
             p == Part(a, b, v)
             w == Between(v, a, b)
         IN  /\ q \in Nat \ {0} /\ p \in 0 .. q /\ w \in Int
             /\ a < b => w - a = p /\ q = b - a
             /\ ~(a < b) => a - w = p /\ q = a - b
             /\ w * q = a * q + p * (b - a)
<1> DEFINE q == Whole(a, b)
           p == Part(a, b, v)
           w == Between(v, a, b)
<1>1. CASE a < b
  <2>1. q = b - a /\ q \in Nat \ {0}
    BY <1>1, SMT DEF Whole
  <2>2. w = Clamp(v, a, b) /\ p = Clamp(v - a, 0, b - a)
    BY <1>1, <2>1, SMT DEF Between, Part
  <2>3. w - a = p /\ p \in 0 .. q /\ w \in Int
    BY <1>1, <2>1, <2>2, JogAssumption, SMT DEF Clamp
  <2> HIDE DEF q, p, w
  <2>4. w = a + p /\ p \in Int /\ q \in Int
    BY <2>1, <2>3, SMT
  <2>5. w * q = a * q + p * q
    BY <2>4, Products
  <2> QED
    BY <1>1, <2>1, <2>3, <2>5 DEF q, p, w
<1>2. CASE ~(a < b)
  <2>1. q = a - b /\ q \in Nat \ {0}
    BY <1>2, SMT DEF Whole
  <2>2. w = Clamp(v, b, a) /\ p = Clamp(a - v, 0, a - b)
    BY <1>2, <2>1, SMT DEF Between, Part
  <2>3. a - w = p /\ p \in 0 .. q /\ w \in Int
    BY <1>2, <2>1, <2>2, JogAssumption, SMT DEF Clamp
  <2> HIDE DEF q, p, w
  <2>4. w = a - p /\ p \in Int /\ q \in Int /\ b - a = -q
    BY <2>1, <2>3, SMT
  <2>5. w * q = a * q - p * q /\ p * (-q) = -(p * q) /\ p * q \in Int /\ a * q \in Int
    BY <2>4, Products
  <2>6. w * q = a * q + p * (b - a)
    BY <2>4, <2>5, SMT
  <2> QED
    BY <1>2, <2>1, <2>3, <2>6 DEF q, p, w
<1> QED
  BY <1>1, <1>2

\* A value at the part p of q from a to b, multiplied by q, is at the part p |b - a| of q |b - a|
\* when the range is divided by its own length.
Back(a, b, q, p) ==
  LET x == a * q + p * (b - a)
  IN  Clamp(IF b - a < 0 THEN a * q - x ELSE x - a * q, 0, q * Whole(a, b))

LEMMA PartBack ==
  ASSUME NEW a \in Int, NEW b \in Int, a # b, NEW q \in Nat \ {0}, NEW p \in 0 .. q
  PROVE  /\ Whole(a, b) \in Nat \ {0} /\ q * Whole(a, b) \in Nat /\ p * Whole(a, b) \in Int
         /\ Back(a, b, q, p) = p * Whole(a, b)
<1> DEFINE m == Whole(a, b)
           d == b - a
           x == a * q + p * d
<1>1. m \in Nat \ {0} /\ p \in Nat /\ q \in Nat /\ p <= q /\ d \in Int /\ a * q \in Int
      /\ (d < 0 => m = -d) /\ (~(d < 0) => m = d)
  BY SMT DEF Whole
<1> HIDE DEF m
<1>2. p * m \in 0 .. q * m
  BY <1>1, PartScaled
<1>3. p * d \in Int /\ p * (-d) = -(p * d) /\ q * m \in Int /\ p * m \in Int
  <2>1. p \in Int /\ q \in Int /\ m \in Int
    BY <1>1
  <2> QED
    BY <1>1, <2>1, Products
<1>4. (IF d < 0 THEN a * q - x ELSE x - a * q) = p * m
  <2>1. x = a * q + p * d /\ x \in Int
    <3>1. a * q + p * d \in Int
      BY <1>1, <1>3, SMT
    <3> QED
      BY <3>1
  <2> HIDE DEF d, x
  <2>2. CASE d < 0
    <3>1. p * m = -(p * d)
      BY <1>1, <1>3, <2>2
    <3>2. a * q - x = -(p * d)
      BY <1>1, <1>3, <2>1, SMT
    <3> QED
      BY <2>2, <3>1, <3>2
  <2>3. CASE ~(d < 0)
    <3>1. p * m = p * d
      BY <1>1, <2>3
    <3>2. x - a * q = p * d
      BY <1>1, <1>3, <2>1, SMT
    <3> QED
      BY <2>3, <3>1, <3>2
  <2> QED
    BY <2>2, <2>3
<1>5. q * m \in Nat
  BY <1>2, <1>3, SMT
<1>6. Clamp(p * m, 0, q * m) = p * m
  BY <1>2, <1>3, <1>5, Clamped
<1> QED
  BY <1>1, <1>3, <1>4, <1>5, <1>6 DEF m, d, Back

-----------------------------------------------------------------------------
(* What is made of a descriptor *)

\* Two bounds that are numbers.
Numbers(b) == Len(b) = 2 /\ b[1].is # "other" /\ b[2].is # "other"

\* A pair of bounds is parsed if both are numbers, and its order kept.
LEMMA SpanParsed ==
  ASSUME NEW raw \in [Keys -> Seq(Number)]
  PROVE  /\ Spans(raw) \in KnownSpans
         /\ \A k \in Keys :
              /\ Spans(raw)[k] # None <=> Numbers(raw[k])
              /\ Numbers(raw[k]) => /\ Spans(raw)[k] = <<raw[k][1].n, raw[k][2].n>>
                                    /\ raw[k][1].n \in Int /\ raw[k][2].n \in Int
<1>1. ASSUME NEW k \in Keys
      PROVE  /\ Numbers(raw[k]) => raw[k][1].n \in Int /\ raw[k][2].n \in Int
             /\ Spans(raw)[k] = IF Numbers(raw[k]) THEN <<raw[k][1].n, raw[k][2].n>> ELSE None
  <2>1. Len(raw[k]) = 2 => raw[k][1] \in Number /\ raw[k][2] \in Number
    <3>1. raw[k] \in Seq(Number)
      OBVIOUS
    <3>2. \A i \in 1 .. Len(raw[k]) : raw[k][i] \in Number
      BY <3>1, ElementOfSeq
    <3> QED
      BY <3>2
  <2>2. Numbers(raw[k]) <=> Len(raw[k]) = 2 /\ \A i \in 1 .. 2 : raw[k][i].is # "other"
    <3>1. 1 .. 2 = {1, 2}
      OBVIOUS
    <3> QED
      BY <3>1 DEF Numbers
  <2>3. Spans(raw)[k] = IF Len(raw[k]) = 2 /\ \A i \in 1 .. 2 : raw[k][i].is # "other"
                        THEN <<raw[k][1].n, raw[k][2].n>> ELSE None
    BY DEF Spans
  <2>4. Numbers(raw[k]) => raw[k][1].n \in Int /\ raw[k][2].n \in Int
    BY <2>1 DEF Numbers, Number
  <2>5. Spans(raw)[k] = IF Numbers(raw[k]) THEN <<raw[k][1].n, raw[k][2].n>> ELSE None
    BY <2>2, <2>3
  <2> QED
    BY <2>4, <2>5
<1>2. Spans(raw) = [k \in Keys |-> Spans(raw)[k]]
  BY DEF Spans
<1>3. ASSUME NEW k \in Keys, Numbers(raw[k])
      PROVE  <<raw[k][1].n, raw[k][2].n>> \in Int \X Int
  BY <1>1, <1>3
<1>4. \A k \in Keys : Spans(raw)[k] \in (Int \X Int) \cup {None}
  BY <1>1, <1>3
<1>5. Spans(raw) \in KnownSpans
  BY <1>2, <1>4 DEF KnownSpans
<1>6. ASSUME NEW k \in Keys PROVE Spans(raw)[k] # None <=> Numbers(raw[k])
  <2>1. None \notin Int \X Int
    BY JogAssumption
  <2>2. CASE Numbers(raw[k])
    <3>1. Spans(raw)[k] = <<raw[k][1].n, raw[k][2].n>>
      BY <1>1, <2>2
    <3>2. Spans(raw)[k] \in Int \X Int
      BY <1>3, <2>2, <3>1
    <3> QED
      BY <2>1, <2>2, <3>2
  <2>3. CASE ~Numbers(raw[k])
    <3>1. Spans(raw)[k] = None
      BY <1>1, <2>3
    <3> QED
      BY <2>3, <3>1
  <2> QED
    BY <2>2, <2>3
<1> QED
  BY <1>1, <1>5, <1>6

\* A rate is parsed if it is a positive number.
LEMMA RateParsed ==
  ASSUME NEW x \in Number
  PROVE  /\ Rate(x) \in Positive /\ x.n \in Int
         /\ Rate(x) = IF x.is = "number" /\ x.n > 0 THEN x.n ELSE None
  BY SMT DEF Rate, Positive, Number

\* The scale and the descriptor are parsed part by part.
LEMMA ScaleParsed ==
  ASSUME NEW raw \in SentScale
  PROVE  /\ Scale(raw) \in KnownScale /\ Scale(raw) # None
         /\ \A k \in Keys : Scale(raw).joints[k] = Rate(raw.joints[k])
         /\ \A v \in Dofs : Scale(raw).task[v] = Rate(raw.task[v])
         /\ \A v \in BaseDofs : Scale(raw).base[v] = Rate(raw.base[v])
         /\ Scale(raw).lift = Rate(raw.lift)
<1>1. /\ raw # None /\ DOMAIN raw.joints = Keys /\ DOMAIN raw.task = Dofs
      /\ DOMAIN raw.base = BaseDofs
  BY JogAssumption DEF SentScale
<1>2. Scale(raw) = [joints |-> [k \in Keys |-> Rate(raw.joints[k])],
                    task   |-> [v \in Dofs |-> Rate(raw.task[v])],
                    base   |-> [v \in BaseDofs |-> Rate(raw.base[v])],
                    lift   |-> Rate(raw.lift)]
  BY <1>1 DEF Scale
<1>3. /\ \A k \in Keys : Rate(raw.joints[k]) \in Positive
      /\ \A v \in Dofs : Rate(raw.task[v]) \in Positive
      /\ \A v \in BaseDofs : Rate(raw.base[v]) \in Positive
      /\ Rate(raw.lift) \in Positive
  BY RateParsed DEF SentScale
<1>4. Scale(raw) \in KnownScale
  BY <1>2, <1>3 DEF KnownScale
<1>5. Scale(raw) # None
  BY <1>4, JogAssumption
<1> QED
  BY <1>2, <1>4, <1>5

\* Neither a robot's descriptor nor what is parsed of it is None.
LEMMA DescriptorParsed ==
  ASSUME NEW w \in Wires
  PROVE  /\ w \in Sent /\ Descriptor(w) # None
         /\ Descriptor(w).ranges = Spans(w.ranges) /\ Descriptor(w).ranges_si = Spans(w.ranges_si)
         /\ Descriptor(w).scale = Scale(w.scale)
<1>1. w \in Sent /\ w # None
  BY JogAssumption
<1>2. Descriptor(w) = [joints |-> w.joints, aux |-> w.aux, base |-> w.base,
                       ranges |-> Spans(w.ranges), ranges_si |-> Spans(w.ranges_si),
                       scale |-> Scale(w.scale)]
  BY <1>1 DEF Descriptor
<1>3. Spans(w.ranges) \in KnownSpans /\ Spans(w.ranges_si) \in KnownSpans
  BY <1>1, SpanParsed DEF Sent
<1>4. Scale(w.scale) \in KnownScale \cup {None}
  <2>1. CASE w.scale = None
    BY <2>1 DEF Scale
  <2>2. CASE w.scale # None
    BY <1>1, <2>2, ScaleParsed DEF Sent
  <2> QED
    BY <2>1, <2>2
<1>5. w.joints \subseteq Keys /\ w.aux \subseteq STRING /\ w.base \subseteq STRING
  BY <1>1 DEF Sent
<1>6. Descriptor(w) \in Known
  BY <1>2, <1>3, <1>4, <1>5 DEF Known
<1>7. Descriptor(w) # None
  BY <1>6, JogAssumption
<1> QED
  BY <1>1, <1>2, <1>7

-----------------------------------------------------------------------------
(* Units *)

\* A pair of integers is not None.
LEMMA PairThere == ASSUME NEW a \in Int, NEW b \in Int PROVE <<a, b>> # None
  BY JogAssumption

\* What is at the part p of q of a range from a, of length n, is at p m of q m.
LEMMA Rescaled ==
  ASSUME NEW w \in Int, NEW q \in Int, NEW a \in Int, NEW p \in Int, NEW n \in Int, NEW m \in Int,
         w * q = a * q + p * n
  PROVE  a * (q * m) + (p * m) * n = w * (q * m)
<1>1. a * q \in Int /\ p * n \in Int /\ w * q \in Int /\ m * n \in Int
  BY Products
<1>2. w * (q * m) = (w * q) * m /\ a * (q * m) = (a * q) * m
  BY Products
<1>3. (w * q) * m = (a * q) * m + (p * n) * m
  BY <1>1, Products
<1>4. (p * n) * m = (p * m) * n
  <2>1. (p * n) * m = p * (n * m) /\ (p * m) * n = p * (m * n) /\ n * m = m * n
    BY Products
  <2> QED
    BY <2>1
<1> QED
  BY <1>2, <1>3, <1>4

\* A position converted is where both pairs of bounds put it, and comes back.
LEMMA KeptAtKey ==
  ASSUME NEW d, d # None, NEW k \in Keys,
         NEW n1 \in Int, NEW n2 \in Int, NEW s1 \in Int, NEW s2 \in Int, NEW v \in Int,
         d.ranges[k] = <<n1, n2>>, d.ranges_si[k] = <<s1, s2>>, n1 # n2
  PROVE  LET x == ToSi(d, k, v)
             w == Between(v, n1, n2)
             P == IF n1 < n2 THEN <<w - n1, n2 - n1>> ELSE <<n1 - w, n1 - n2>>
         IN  /\ SameRatio(<<x[1] - s1 * x[2], x[2]>>, <<P[1] * (s2 - s1), P[2]>>)
             /\ SameRatio(ScaleToRange(d, k, P), <<w, 1>>)
             /\ s1 # s2 => SameRatio(FromSi(d, k, x), <<w, 1>>)
<1> DEFINE x == ToSi(d, k, v)
           w == Between(v, n1, n2)
           P == IF n1 < n2 THEN <<w - n1, n2 - n1>> ELSE <<n1 - w, n1 - n2>>
           q == Whole(n1, n2)
           p == Part(n1, n2, v)
           x1 == s1 * q + p * (s2 - s1)
<1>1. /\ q \in Nat \ {0} /\ p \in 0 .. q /\ w \in Int
      /\ n1 < n2 => w - n1 = p /\ q = n2 - n1
      /\ ~(n1 < n2) => n1 - w = p /\ q = n1 - n2
      /\ w * q = n1 * q + p * (n2 - n1)
  BY PartOfRange
<1>2. x = <<x1, q>>
  <2>1. n2 - n1 # 0
    BY SMT
  <2>2. <<n1, n2>> # None /\ <<s1, s2>> # None
    BY PairThere
  <2> QED
    BY <2>1, <2>2 DEF ToSi, Whole, Part
<1>3. P = <<p, q>>
  <2> HIDE DEF w, p, q
  <2> QED
    BY <1>1
<1> DEFINE n == n2 - n1
           s == s2 - s1
<1> HIDE DEF x, w, P, q, p
<1>5. p \in Int /\ q \in Int /\ p \in Nat /\ q \in Nat /\ n \in Int /\ s \in Int
  BY <1>1
<1>6. s1 * q \in Int /\ p * s \in Int /\ x1 \in Int /\ n1 * q \in Int /\ p * n \in Int /\ n * p = p * n
  <2>1. s1 * q \in Int /\ p * s \in Int /\ n1 * q \in Int /\ p * n \in Int /\ n * p = p * n
    BY <1>5, Products
  <2>2. x1 = s1 * q + p * s
    OBVIOUS
  <2> HIDE DEF x1, s, n
  <2> QED
    BY <2>1, <2>2
<1>7. SameRatio(<<x[1] - s1 * x[2], x[2]>>, <<P[1] * (s2 - s1), P[2]>>)
  <2>1. x[1] = x1 /\ x[2] = q /\ P[1] = p /\ P[2] = q
    BY <1>2, <1>3
  <2>2. x1 - s1 * q = p * s
    <3>1. x1 = s1 * q + p * s
      OBVIOUS
    <3> HIDE DEF x1, s
    <3> QED
      BY <1>6, <3>1
  <2>3. x[1] - s1 * x[2] = P[1] * (s2 - s1)
    BY <2>1, <2>2
  <2> QED
    BY <2>1, <2>3 DEF SameRatio
<1>8. SameRatio(ScaleToRange(d, k, P), <<w, 1>>)
  <2>1. Clamp(p, 0, q) = p
    BY <1>1, <1>5, Clamped
  <2>2. ScaleToRange(d, k, <<p, q>>) = <<n1 * q + n * Clamp(p, 0, q), q>>
    <3>1. <<n1, n2>> # None
      BY PairThere
    <3> QED
      BY <3>1 DEF ScaleToRange
  <2>3. n1 * q + n * p = w * q
    BY <1>1, <1>6
  <2>4. (w * q) * 1 = w * q
    BY <1>1, <1>5, SMT
  <2> QED
    BY <1>3, <2>1, <2>2, <2>3, <2>4 DEF SameRatio
<1>9. ASSUME s1 # s2 PROVE SameRatio(FromSi(d, k, x), <<w, 1>>)
  <2> DEFINE m == Whole(s1, s2)
  <2>1. m \in Nat \ {0} /\ q * m \in Nat /\ p * m \in Int /\ Back(s1, s2, q, p) = p * m
    <3>1. q \in Nat \ {0} /\ p \in 0 .. q
      BY <1>1
    <3>2. ASSUME NEW b \in Nat \ {0}, NEW a \in 0 .. b
          PROVE  /\ Whole(s1, s2) \in Nat \ {0} /\ b * Whole(s1, s2) \in Nat
                 /\ a * Whole(s1, s2) \in Int /\ Back(s1, s2, b, a) = a * Whole(s1, s2)
      BY <1>9, PartBack
    <3> QED
      BY <3>1, <3>2
  <2> HIDE DEF m
  <2>2. FromSi(d, k, x) = <<n1 * (q * m) + (p * m) * (n2 - n1), q * m>>
    <3>1. s2 - s1 # 0
      BY <1>9, SMT
    <3>2. <<n1, n2>> # None /\ <<s1, s2>> # None
      BY PairThere
    <3>3. FromSi(d, k, <<x1, q>>) =
            <<n1 * (q * Whole(s1, s2)) + Back(s1, s2, q, p) * (n2 - n1), q * Whole(s1, s2)>>
      BY <3>1, <3>2 DEF FromSi, Whole, Back
    <3> QED
      BY <1>2, <2>1, <3>3 DEF m
  <2>3. n1 * (q * m) + (p * m) * (n2 - n1) = w * (q * m)
    <3>1. m \in Int /\ w * q = n1 * q + p * n
      BY <1>1, <2>1
    <3>2. n1 * (q * m) + (p * m) * n = w * (q * m)
      BY <1>1, <1>5, <3>1, Rescaled
    <3> QED
      BY <3>2
  <2>4. (w * (q * m)) * 1 = w * (q * m)
    BY <1>1, <2>1, SMT
  <2> QED
    BY <2>2, <2>3, <2>4 DEF SameRatio
<1> QED
  BY <1>7, <1>8, <1>9 DEF x, w, P

\* A state keeps the keys with both bounds, and they are calibrated: PositionsKept.
LEMMA PositionsAreKept == RestOK => PositionsKept
<1> SUFFICES ASSUME RestOK, wire # None, NEW v \in Places
             PROVE  LET d == Descriptor(wire)
                        si == StateToSi(d, [k \in Keys |-> v])
                        Bounds(b) == Len(b) = 2 /\ b[1].is # "other" /\ b[2].is # "other"
                    IN  /\ DOMAIN si = {k \in Keys : /\ Bounds(wire.ranges[k]) /\ Bounds(wire.ranges_si[k])
                                                     /\ wire.ranges[k][1].n # wire.ranges[k][2].n}
                        /\ \A k \in DOMAIN si :
                             LET n == wire.ranges[k]
                                 s == wire.ranges_si[k]
                                 w == Between(v, n[1].n, n[2].n)
                                 P == IF n[1].n < n[2].n THEN <<w - n[1].n, n[2].n - n[1].n>>
                                      ELSE <<n[1].n - w, n[1].n - n[2].n>>
                             IN  /\ SameRatio(<<si[k][1] - s[1].n * si[k][2], si[k][2]>>,
                                              <<P[1] * (s[2].n - s[1].n), P[2]>>)
                                 /\ SameRatio(ScaleToRange(d, k, P), <<w, 1>>)
                                 /\ s[1].n # s[2].n => SameRatio(FromSi(d, k, si[k]), <<w, 1>>)
  BY DEF PositionsKept
<1> DEFINE d == Descriptor(wire)
           state == [k \in Keys |-> v]
           si == StateToSi(d, state)
           K == {k \in Keys : /\ Numbers(wire.ranges[k]) /\ Numbers(wire.ranges_si[k])
                              /\ wire.ranges[k][1].n # wire.ranges[k][2].n}
<1>1. /\ wire \in Sent /\ d # None /\ v \in Int
      /\ d.ranges = Spans(wire.ranges) /\ d.ranges_si = Spans(wire.ranges_si)
  BY DescriptorParsed, JogAssumption DEF RestOK
<1>2. wire.ranges \in [Keys -> Seq(Number)] /\ wire.ranges_si \in [Keys -> Seq(Number)]
  BY <1>1 DEF Sent
<1> HIDE DEF d
<1>3. ASSUME NEW k \in Keys, Numbers(wire.ranges[k]), Numbers(wire.ranges_si[k])
      PROVE  /\ d.ranges[k] = <<wire.ranges[k][1].n, wire.ranges[k][2].n>>
             /\ d.ranges_si[k] = <<wire.ranges_si[k][1].n, wire.ranges_si[k][2].n>>
             /\ wire.ranges[k][1].n \in Int /\ wire.ranges[k][2].n \in Int
             /\ wire.ranges_si[k][1].n \in Int /\ wire.ranges_si[k][2].n \in Int
  BY <1>1, <1>2, <1>3, SpanParsed
<1>4. ASSUME NEW k \in Keys PROVE ToSi(d, k, v) # None <=> k \in K
  <2>1. CASE ~Numbers(wire.ranges[k]) \/ ~Numbers(wire.ranges_si[k])
    <3>1. d.ranges[k] = None \/ d.ranges_si[k] = None
      BY <1>1, <1>2, <2>1, SpanParsed
    <3>2. ToSi(d, k, v) = None
      BY <3>1 DEF ToSi
    <3> QED
      BY <2>1, <3>2
  <2>2. CASE Numbers(wire.ranges[k]) /\ Numbers(wire.ranges_si[k])
    <3> DEFINE n1 == wire.ranges[k][1].n
               n2 == wire.ranges[k][2].n
               s1 == wire.ranges_si[k][1].n
               s2 == wire.ranges_si[k][2].n
    <3>1. /\ n1 \in Int /\ n2 \in Int /\ s1 \in Int /\ s2 \in Int
          /\ d.ranges[k] = <<n1, n2>> /\ d.ranges_si[k] = <<s1, s2>>
      BY <1>3, <2>2
    <3>2. k \in K <=> n1 # n2
      BY <2>2
    <3> HIDE DEF n1, n2, s1, s2, K
    <3>3. ToSi(d, k, v) =
            IF n1 = n2 THEN None
            ELSE <<s1 * Whole(n1, n2) + Part(n1, n2, v) * (s2 - s1), Whole(n1, n2)>>
      <4>1. <<n1, n2>> # None /\ <<s1, s2>> # None
        BY <3>1, PairThere
      <4>2. n2 - n1 = 0 <=> n1 = n2
        BY <3>1, SMT
      <4> QED
        BY <1>1, <3>1, <4>1, <4>2 DEF ToSi, Whole, Part
    <3>4. n1 # n2 => <<s1 * Whole(n1, n2) + Part(n1, n2, v) * (s2 - s1), Whole(n1, n2)>> \in Int \X Int
      <4>1. ASSUME n1 # n2
            PROVE  s1 * Whole(n1, n2) + Part(n1, n2, v) * (s2 - s1) \in Int /\ Whole(n1, n2) \in Int
        <5>1. Whole(n1, n2) \in Nat \ {0} /\ Part(n1, n2, v) \in 0 .. Whole(n1, n2)
          BY <1>1, <3>1, <4>1, PartOfRange
        <5>2. Whole(n1, n2) \in Int /\ Part(n1, n2, v) \in Int /\ s2 - s1 \in Int
          BY <3>1, <5>1
        <5>3. s1 * Whole(n1, n2) \in Int /\ Part(n1, n2, v) * (s2 - s1) \in Int
          BY <3>1, <5>2, Products
        <5> QED
          BY <5>2, <5>3
      <4> QED
        BY <4>1
    <3>5. None \notin Int \X Int
      BY JogAssumption
    <3> QED
      BY <3>2, <3>3, <3>4, <3>5
  <2> QED
    BY <2>1, <2>2
<1>5. DOMAIN si = K /\ \A k \in K : si[k] = ToSi(d, k, v)
  <2>1. DOMAIN state = Keys /\ \A k \in Keys : state[k] = v
    OBVIOUS
  <2> DEFINE all == [k \in DOMAIN state |-> ToSi(d, k, state[k])]
  <2>2. DOMAIN all = Keys /\ \A k \in Keys : all[k] = ToSi(d, k, v)
    BY <2>1
  <2>3. si = [k \in {j \in DOMAIN all : all[j] # None} |-> all[k]]
    BY DEF StateToSi
  <2> HIDE DEF all, state, si
  <2>4. {j \in DOMAIN all : all[j] # None} = K
    BY <1>4, <2>2
  <2>5. \A k \in K : k \in Keys
    OBVIOUS
  <2> HIDE DEF K
  <2> QED
    BY <2>2, <2>3, <2>4, <2>5
<1>6. ASSUME NEW k \in K
      PROVE  LET n == wire.ranges[k]
                 s == wire.ranges_si[k]
                 w == Between(v, n[1].n, n[2].n)
                 P == IF n[1].n < n[2].n THEN <<w - n[1].n, n[2].n - n[1].n>>
                      ELSE <<n[1].n - w, n[1].n - n[2].n>>
             IN  /\ SameRatio(<<si[k][1] - s[1].n * si[k][2], si[k][2]>>,
                              <<P[1] * (s[2].n - s[1].n), P[2]>>)
                 /\ SameRatio(ScaleToRange(d, k, P), <<w, 1>>)
                 /\ s[1].n # s[2].n => SameRatio(FromSi(d, k, si[k]), <<w, 1>>)
  <2> DEFINE n1 == wire.ranges[k][1].n
             n2 == wire.ranges[k][2].n
             s1 == wire.ranges_si[k][1].n
             s2 == wire.ranges_si[k][2].n
  <2>1. /\ n1 \in Int /\ n2 \in Int /\ s1 \in Int /\ s2 \in Int /\ n1 # n2 /\ k \in Keys
        /\ d.ranges[k] = <<n1, n2>> /\ d.ranges_si[k] = <<s1, s2>>
    BY <1>3
  <2>2. si[k] = ToSi(d, k, v)
    BY <1>5
  <2> HIDE DEF n1, n2, s1, s2, si, K
  <2>3. LET x == ToSi(d, k, v)
            w == Between(v, n1, n2)
            P == IF n1 < n2 THEN <<w - n1, n2 - n1>> ELSE <<n1 - w, n1 - n2>>
        IN  /\ SameRatio(<<x[1] - s1 * x[2], x[2]>>, <<P[1] * (s2 - s1), P[2]>>)
            /\ SameRatio(ScaleToRange(d, k, P), <<w, 1>>)
            /\ s1 # s2 => SameRatio(FromSi(d, k, x), <<w, 1>>)
    BY <1>1, <2>1, KeptAtKey
  <2> QED
    BY <2>2, <2>3 DEF n1, n2, s1, s2
<1> HIDE DEF si
<1>7. DOMAIN si = {k \in Keys : /\ Len(wire.ranges[k]) = 2 /\ wire.ranges[k][1].is # "other"
                                /\ wire.ranges[k][2].is # "other"
                                /\ Len(wire.ranges_si[k]) = 2 /\ wire.ranges_si[k][1].is # "other"
                                /\ wire.ranges_si[k][2].is # "other"
                                /\ wire.ranges[k][1].n # wire.ranges[k][2].n}
  BY <1>5 DEF Numbers
<1> QED
  BY <1>5, <1>6, <1>7 DEF d, si

\* The rate of full deflection is the robot's own, read where the robot says it: SpeedReached.
LEMMA SpeedIsReached == RestOK => SpeedReached
<1> SUFFICES ASSUME RestOK, wire # None, wire.scale # None, NEW c \in Cells, NEW v \in Places
             PROVE  LET own == CASE c[1] \in Lifts     -> wire.scale.lift
                                 [] c[1] = "base"      -> wire.scale.base[c[2]]
                                 [] c[1] \in ArmGroups ->
                                      IF Rate(wire.scale.task[c[2]]) # None THEN wire.scale.task[c[2]]
                                      ELSE wire.scale.joints[c]
                                 [] OTHER              -> [is |-> "other", n |-> 0]
                        got == NormalizedFor(Descriptor(wire), c[1], c[2], v)
                    IN  IF own.is = "number" /\ own.n > 0
                        THEN SameRatio(got, <<Between(v, -own.n, own.n), own.n>>)
                        ELSE got = None
  BY DEF SpeedReached
<1> DEFINE d == Descriptor(wire)
           raw == wire.scale
           own == CASE c[1] \in Lifts     -> raw.lift
                    [] c[1] = "base"      -> raw.base[c[2]]
                    [] c[1] \in ArmGroups -> IF Rate(raw.task[c[2]]) # None THEN raw.task[c[2]]
                                             ELSE raw.joints[c]
                    [] OTHER              -> [is |-> "other", n |-> 0]
<1>1. d # None /\ d.scale = Scale(raw) /\ raw \in SentScale /\ v \in Int
  BY DescriptorParsed, JogAssumption DEF RestOK, Sent
<1> HIDE DEF d, raw
<1>2. /\ d.scale # None
      /\ \A k \in Keys : d.scale.joints[k] = Rate(raw.joints[k]) /\ raw.joints[k] \in Number
      /\ \A u \in Dofs : d.scale.task[u] = Rate(raw.task[u]) /\ raw.task[u] \in Number
      /\ \A u \in BaseDofs : d.scale.base[u] = Rate(raw.base[u]) /\ raw.base[u] \in Number
      /\ d.scale.lift = Rate(raw.lift) /\ raw.lift \in Number
  <2>1. /\ raw.joints \in [Keys -> Number] /\ raw.task \in [Dofs -> Number]
        /\ raw.base \in [BaseDofs -> Number] /\ raw.lift \in Number
    BY <1>1 DEF SentScale
  <2> QED
    BY <1>1, <2>1, ScaleParsed
<1>3. own \in Number /\ JogRate(d, c[1], c[2]) = Rate(own)
  <2>1. CASE c[1] \in Lifts
    <3>0. c[1] # "base" /\ c[1] \notin ArmGroups
      BY <2>1 DEF Lifts, LiftGroups, CentralLift, ArmGroups
    <3>1. own = raw.lift
      BY <2>1, <3>0
    <3>2. JogRate(d, c[1], c[2]) = d.scale.lift
      BY <1>1, <1>2, <2>1, <3>0 DEF JogRate
    <3> QED
      BY <1>2, <3>1, <3>2
  <2>2. CASE c[1] = "base"
    <3>1. c[1] \notin Lifts /\ c[1] \notin ArmGroups
      BY <2>2 DEF Lifts, LiftGroups, CentralLift, ArmGroups
    <3>2. c[2] \in BaseDofs
      <4>1. OddGroup # "base"
        BY JogAssumption
      <4> QED
        BY <2>2, <3>1, <4>1 DEF Cells
    <3>3. own = raw.base[c[2]]
      BY <2>2, <3>1
    <3>4. JogRate(d, c[1], c[2]) = d.scale.base[c[2]]
      BY <1>1, <1>2, <2>2, <3>1 DEF JogRate
    <3> QED
      BY <1>2, <3>2, <3>3, <3>4
  <2>3. CASE c[1] \in ArmGroups
    <3>1. c[1] \notin Lifts /\ c[1] # "base"
      BY <2>3 DEF Lifts, LiftGroups, CentralLift, ArmGroups
    <3>2. c[2] \in Dofs /\ c = <<c[1], c[2]>> /\ c \in Keys
      BY <2>3, <3>1 DEF Cells, Keys
    <3>3. own = IF Rate(raw.task[c[2]]) # None THEN raw.task[c[2]] ELSE raw.joints[c]
      BY <2>3, <3>1
    <3>4. JogRate(d, c[1], c[2]) = IF d.scale.task[c[2]] # None THEN d.scale.task[c[2]]
                                   ELSE d.scale.joints[<<c[1], c[2]>>]
      BY <1>1, <1>2, <2>3, <3>1 DEF JogRate
    <3>5. /\ d.scale.task[c[2]] = Rate(raw.task[c[2]]) /\ raw.task[c[2]] \in Number
          /\ d.scale.joints[<<c[1], c[2]>>] = Rate(raw.joints[c]) /\ raw.joints[c] \in Number
      BY <1>2, <3>2
    <3> HIDE DEF own
    <3> QED
      BY <3>3, <3>4, <3>5
  <2>4. CASE c[1] \notin Lifts /\ c[1] # "base" /\ c[1] \notin ArmGroups
    <3>1. own = [is |-> "other", n |-> 0]
      BY <2>4
    <3>2. JogRate(d, c[1], c[2]) = None
      BY <1>1, <1>2, <2>4 DEF JogRate
    <3>3. own \in Number /\ own.is = "other"
      BY <3>1, SMT DEF Number
    <3> QED
      BY <3>2, <3>3 DEF Rate
  <2> QED
    BY <2>1, <2>2, <2>3, <2>4
<1> HIDE DEF own
<1>4. IF own.is = "number" /\ own.n > 0
      THEN SameRatio(NormalizedFor(d, c[1], c[2], v), <<Between(v, -own.n, own.n), own.n>>)
      ELSE NormalizedFor(d, c[1], c[2], v) = None
  <2>1. own.n \in Int /\ Rate(own) = IF own.is = "number" /\ own.n > 0 THEN own.n ELSE None
    BY <1>3, RateParsed
  <2>2. CASE own.is = "number" /\ own.n > 0
    <3>1. own.n # None /\ JogRate(d, c[1], c[2]) = own.n
      BY <1>3, <2>1, <2>2, JogAssumption
    <3>2. NormalizedFor(d, c[1], c[2], v) = <<Clamp(v, -own.n, own.n), own.n>>
      BY <3>1 DEF NormalizedFor
    <3>3. Between(v, -own.n, own.n) = Clamp(v, -own.n, own.n)
      <4>1. -own.n <= own.n
        BY <2>1, <2>2
      <4> QED
        BY <4>1 DEF Between
    <3> QED
      BY <2>2, <3>2, <3>3 DEF SameRatio
  <2>3. CASE ~(own.is = "number" /\ own.n > 0)
    <3>1. JogRate(d, c[1], c[2]) = None
      BY <1>3, <2>1, <2>3
    <3> QED
      BY <2>3, <3>1 DEF NormalizedFor
  <2> QED
    BY <2>2, <2>3
<1> QED
  BY <1>4 DEF own, d, raw

\* A client that works in the robot's own units commands what it means, on every robot, for all
\* bounds, positions and rates: Calibrated (motion.py 210-347; types.py 177-262).
THEOREM EveryRobotCalibrated == Spec => []Calibrated
<1>1. Init => PayloadOK /\ FrameOK /\ RestOK
  BY InitTypeOK
<1>2. PayloadOK /\ FrameOK /\ RestOK /\ [Next]_vars => (PayloadOK /\ FrameOK /\ RestOK)'
  BY TypeStep
<1>3. RestOK => Calibrated
  BY PositionsAreKept, SpeedIsReached DEF Calibrated
<1> QED
  BY <1>1, <1>2, <1>3, PTL DEF Spec
=============================================================================
