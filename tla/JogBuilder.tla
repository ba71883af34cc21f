----------------------------- MODULE JogBuilder -----------------------------
(***************************************************************************)
(* Jog frames and units (src/src/nori_sdk/motion.py) on the descriptor     *)
(* that the robot sent (types.py), against what the robot then reads of a  *)
(* jog (mock/robot.py), which drops what it does not know in silence.      *)
(*                                                                         *)
(* Rates are integers of which Full is full deflection, positions and      *)
(* bounds are integers, and what is computed by a division is a pair       *)
(* <<n, d>> that stands for n / d, with d > 0.  A joint key is a pair: its *)
(* group, or what else its name begins with, and the rest of its name.     *)
(***************************************************************************)
EXTENDS Integers, Sequences, FiniteSets

CONSTANTS
  Dofs,       \* names of arm DOFs: of joints, and of task-space verbs
  OddGroup,   \* a name that ends in _arm, of no arm
  Wires,      \* the descriptors that a robot may send
  Asked,      \* rates a caller asks for
  Places,     \* positions and speeds a caller converts
  Full,       \* the integer for the rate 1.0
  MaxSet,     \* bound: DOFs set in one payload
  None,       \* absent, null
  NaN         \* the float

ArmGroups   == {"left_arm", "right_arm"}
LiftGroups  == {"left_lift", "right_lift"}
CentralLift == "lift"
Lifts       == LiftGroups \cup {CentralLift}
BaseDofs    == {"linear", "angular"}

Keys   == ((ArmGroups \cup {"head"}) \X Dofs) \cup (Lifts \X {"pos"})
Nested == ArmGroups \cup {OddGroup, "base"}    \* groups whose value is a dict
Cells  == ((ArmGroups \cup {OddGroup}) \X Dofs) \cup ({"base"} \X BaseDofs) \cup (Lifts \X {"pos"})
Rates  == (-Full .. Full) \cup {NaN}

\* What a robot may send as a number, as the bounds of each key and as its scale, ...
Number    == [is : {"number", "bool", "other"}, n : Int]
SentScale == [joints : [Keys -> Number], task : [Dofs -> Number], base : [BaseDofs -> Number],
              lift : Number]
Sent      == [joints : SUBSET Keys, aux : SUBSET STRING, base : SUBSET STRING,
              ranges : [Keys -> Seq(Number)], ranges_si : [Keys -> Seq(Number)],
              scale : SentScale \cup {None}]
\* ... and what is made of it.
Positive   == (Nat \ {0}) \cup {None}
KnownSpans == [Keys -> (Int \X Int) \cup {None}]
KnownScale == [joints : [Keys -> Positive], task : [Dofs -> Positive], base : [BaseDofs -> Positive],
               lift : Positive]
Known      == [joints : SUBSET Keys, aux : SUBSET STRING, base : SUBSET STRING,
               ranges : KnownSpans, ranges_si : KnownSpans, scale : KnownScale \cup {None}]

ASSUME JogAssumption ==
  /\ Full \in Nat \ {0} /\ Asked \subseteq Int \cup {NaN} /\ Places \subseteq Int
  /\ MaxSet \in Nat /\ NaN \notin Int /\ None \notin Int \cup {NaN}
  /\ None \notin (Int \X Int) \cup SentScale \cup Sent \cup KnownScale \cup Known
  /\ {"yaw", "shoulder_pan"} \subseteq Dofs /\ OddGroup \notin ArmGroups \cup Lifts \cup {"base"}
  /\ Wires \subseteq Sent

VARIABLES
  wire,       \* the descriptor as the robot sent it, or None
  strict,     \* the argument of JogBuilder
  payload,    \* _payload: the rate of each DOF set
  nested,     \* the dicts in it
  frame,      \* the frame built last: it has its own scalars, and shares its dicts
  jog         \* the robot's jog

vars == <<wire, strict, payload, nested, frame, jog>>

-----------------------------------------------------------------------------
(* types.py: the descriptor, parsed.  A number on the wire is a record that *)
(* says what JSON type it has.                                              *)

Rate(x) == IF x.is = "number" /\ x.n > 0 THEN x.n ELSE None

SortedPair(a, b) == IF a <= b THEN <<a, b>> ELSE <<b, a>>
SpansSorted(raw) ==    \* mutant: an inverted span is put in order
  [k \in DOMAIN raw |-> IF Len(raw[k]) = 2 /\ \A i \in 1 .. 2 : raw[k][i].is # "other"
                        THEN SortedPair(raw[k][1].n, raw[k][2].n) ELSE None]
\* A bound may be a bool, which is an int in Python; the order of a pair is kept.
Spans(raw) ==
  [k \in DOMAIN raw |-> IF Len(raw[k]) = 2 /\ \A i \in 1 .. 2 : raw[k][i].is # "other"
                        THEN <<raw[k][1].n, raw[k][2].n>> ELSE None]

Scale(raw) ==
  IF raw = None THEN None
  ELSE [joints |-> [k \in DOMAIN raw.joints |-> Rate(raw.joints[k])],
        task   |-> [v \in DOMAIN raw.task |-> Rate(raw.task[v])],
        base   |-> [v \in DOMAIN raw.base |-> Rate(raw.base[v])],
        lift   |-> Rate(raw.lift)]

Descriptor(w) ==
  IF w = None THEN None
  ELSE [joints |-> w.joints, aux |-> w.aux, base |-> w.base,
        ranges |-> Spans(w.ranges), ranges_si |-> Spans(w.ranges_si), scale |-> Scale(w.scale)]

-----------------------------------------------------------------------------
(* motion.py: JogBuilder                                                    *)

Clamp(v, low, high) == IF v = NaN THEN NaN ELSE IF v < low THEN low ELSE IF v < high THEN v ELSE high
Limit(v) == Clamp(v, -Full, Full)

JointsByGroup(d) ==
  [g \in ArmGroups |-> IF d = None THEN {} ELSE {k[2] : k \in {j \in d.joints : j[1] = g}}]

\* The task-space verbs that arm() takes: each spelling of yaw stands for the other.
Verbs(d) ==
  LET listed == IF d.scale = None THEN {} ELSE {v \in DOMAIN d.scale.task : d.scale.task[v] # None}
      yaw    == {"yaw", "shoulder_pan"}
  IN  IF listed \cap yaw # {} THEN listed \cup yaw ELSE listed

Strict == strict /\ wire # None

\* Mutant of ArmAccepts: a DOF of any arm will do.
ArmAcceptsAnyArm(g, dof) ==
  LET d == Descriptor(wire) IN
    Strict => \/ \E a \in ArmGroups : dof \in JointsByGroup(d)[a]
              \/ dof \in Verbs(d)
ArmAccepts(g, dof) ==
  LET d == Descriptor(wire) IN
    Strict => \/ g \in ArmGroups /\ dof \in JointsByGroup(d)[g]
              \/ dof \in Verbs(d)

\* A joint whose name holds the lift's will do for it.
LiftAccepts(g) ==
  LET d == Descriptor(wire) IN
    Strict => \/ g \in d.aux
              \/ g \in LiftGroups /\ \E k \in d.joints : k[1] = g

BaseAccepts == Strict => Descriptor(wire).base # {}

Fits == Cardinality({c \in Cells : payload'[c] # None}) <= MaxSet

\* What a builder call refuses it raises for, and changes nothing.
Arm(g, dof, v) ==
  /\ ArmAccepts(g, dof)
  /\ payload' = [payload EXCEPT ![<<g, dof>>] = Limit(v)]
  /\ Fits
  /\ nested' = nested \cup {g}
  /\ UNCHANGED <<wire, strict, frame, jog>>

\* lift() and central_lift()
Lift(g, v) ==
  /\ LiftAccepts(g)
  /\ payload' = [payload EXCEPT ![<<g, "pos">>] = Limit(v)]
  /\ Fits
  /\ UNCHANGED <<wire, strict, nested, frame, jog>>

Base(linear, angular) ==
  /\ BaseAccepts
  /\ payload' = [payload EXCEPT
       ![<<"base", "linear">>]  = IF linear = None THEN @ ELSE Limit(linear),
       ![<<"base", "angular">>] = IF angular = None THEN @ ELSE Limit(angular)]
  /\ Fits
  /\ nested' = nested \cup {"base"}
  /\ UNCHANGED <<wire, strict, frame, jog>>

\* build() copies the payload, and not the dicts in it.
Build ==
  /\ frame' = [nested |-> nested, lifts |-> [g \in Lifts |-> payload[<<g, "pos">>]]]
  /\ UNCHANGED <<wire, strict, payload, nested, jog>>

\* What a frame says when it is sent.
Content(f) ==
  [c \in Cells |-> IF c[1] \in Lifts THEN f.lifts[c[1]]
                   ELSE IF c[1] \in f.nested THEN payload[c] ELSE None]

\* A control frame arrives, of jog() or of the loop of set_jog().
Send ==
  /\ frame # None
  /\ jog' = Content(frame)
  /\ UNCHANGED <<wire, strict, payload, nested, frame>>

\* JogBuilder.stop(): the arms are there without their DOFs.
StopFrame == [c \in Cells |-> IF c[1] \in LiftGroups \cup {"base"} THEN 0 ELSE None]
\* _zeroed, of the frame that was streamed.
Zeroed(j) == [c \in Cells |-> IF j[c] = None THEN None ELSE 0]

SendStop ==
  /\ jog' = StopFrame \/ (frame # None /\ jog' = Zeroed(Content(frame)))
  /\ UNCHANGED <<wire, strict, payload, nested, frame>>

-----------------------------------------------------------------------------
(* motion.py: units                                                         *)

ToSi(d, k, v) ==
  IF d = None THEN None
  ELSE LET norm == d.ranges[k] si == d.ranges_si[k] IN
    IF norm = None \/ si = None THEN None
    ELSE LET span == norm[2] - norm[1] IN
      IF span = 0 THEN None
      ELSE LET q == IF span < 0 THEN -span ELSE span
               p == Clamp(IF span < 0 THEN norm[1] - v ELSE v - norm[1], 0, q)
           IN  <<si[1] * q + p * (si[2] - si[1]), q>>

\* Keys that cannot be converted are left out.
StateToSi(d, state) ==
  LET si == [k \in DOMAIN state |-> ToSi(d, k, state[k])]
  IN  [k \in {j \in DOMAIN si : si[j] # None} |-> si[k]]

\* Of an SI value x that is a pair.
FromSi(d, k, x) ==
  IF d = None THEN None
  ELSE LET norm == d.ranges[k] si == d.ranges_si[k] IN
    IF norm = None \/ si = None THEN None
    ELSE LET span == si[2] - si[1] IN
      IF span = 0 THEN None
      ELSE LET q == x[2] * (IF span < 0 THEN -span ELSE span)
               p == Clamp(IF span < 0 THEN si[1] * x[2] - x[1] ELSE x[1] - si[1] * x[2], 0, q)
           IN  <<norm[1] * q + p * (norm[2] - norm[1]), q>>

\* scale_to_range, of the fraction x[1] / x[2]
ScaleToRange(d, k, x) ==
  IF d = None \/ d.ranges[k] = None THEN None
  ELSE LET r == d.ranges[k] IN <<r[1] * x[2] + (r[2] - r[1]) * Clamp(x[1], 0, x[2]), x[2]>>

JogRate(d, g, dof) ==
  IF d = None \/ d.scale = None THEN None
  ELSE CASE g \in Lifts     -> d.scale.lift
         [] g = "base"      -> d.scale.base[dof]
         [] g \in ArmGroups -> IF d.scale.task[dof] # None THEN d.scale.task[dof]
                               ELSE d.scale.joints[<<g, dof>>]
         [] OTHER           -> None

\* The fraction of full deflection that asks for v units per second.
NormalizedFor(d, g, dof, v) ==
  LET full == JogRate(d, g, dof) IN
    IF full = None THEN None ELSE <<Clamp(v, -full, full), full>>

-----------------------------------------------------------------------------
Init ==
  /\ wire \in Wires \cup {None} /\ strict \in BOOLEAN
  /\ payload = [c \in Cells |-> None] /\ nested = {} /\ frame = None
  /\ jog = [c \in Cells |-> None]

Next ==
  \/ \E g \in ArmGroups \cup {OddGroup}, dof \in Dofs, v \in Asked : Arm(g, dof, v)
  \/ \E g \in Lifts, v \in Asked : Lift(g, v)
  \/ \E linear, angular \in Asked \cup {None} : Base(linear, angular)
  \/ Build \/ Send \/ SendStop

Spec == Init /\ [][Next]_vars

-----------------------------------------------------------------------------
(* The robot: mock/robot.py *)

TaskShorts == {"x", "y", "z", "pitch", "shoulder_pan"}

\* The robot integrates this DOF of a jog.
Reads(c) ==
  \/ wire = None
  \/ c[1] \in Lifts /\ c[1] \in wire.aux
  \/ c[1] = "base"
  \/ /\ c[1] \notin Lifts \cup {"base"} /\ \E k \in wire.joints : k[1] = c[1]
     /\ c \in wire.joints \/ c[2] \in TaskShorts

-----------------------------------------------------------------------------
(* Properties *)

\* Rates stay within full deflection, or are NaN, and a dict of the payload is there
\* for every DOF set in it (motion.py 88-197).
TypeOK ==
  /\ wire \in Wires \cup {None} /\ strict \in BOOLEAN
  /\ payload \in [Cells -> Rates \cup {None}] /\ jog \in [Cells -> Rates \cup {None}]
  /\ nested \subseteq Nested
  /\ frame = None \/ frame \in [nested : SUBSET Nested, lifts : [Lifts -> Rates \cup {None}]]
  /\ \A c \in Cells : payload[c] # None => c[1] \in nested \cup Lifts

\* A verb of the task space, and a rail named among the joints only, are taken by the
\* builder though this robot may not read them.
Doubtful(c) ==
  \/ wire.scale # None /\ c[1] \in ArmGroups \cup {OddGroup} /\ c[2] \in Verbs(Descriptor(wire))
  \/ c[1] \in LiftGroups /\ \E k \in wire.joints : k[1] = c[1]

\* A strict builder lets no DOF through that this robot drops in silence, whatever of
\* the frame is added after it was built (motion.py 88-91; mock/robot.py 314-345).
NothingDropped ==
  strict /\ wire # None =>
    \A c \in Cells : jog[c] \notin {None, 0} => Reads(c) \/ Doubtful(c)

SameRatio(x, y) == x[1] * y[2] = y[1] * x[2]
Between(v, a, b) == IF a <= b THEN Clamp(v, a, b) ELSE Clamp(v, b, a)

\* The SI value of a position is where the robot's own bounds put it, a reversed axis
\* included, and converting it back gives the position, as does the fraction of the
\* range that it is at; a state keeps exactly the keys for which the robot sent both
\* pairs of bounds (motion.py 210-223, 289-347; types.py 250-262).
PositionsKept ==
  wire # None => LET d == Descriptor(wire) IN \A v \in Places :
    LET si == StateToSi(d, [k \in Keys |-> v])
        Bounds(b) == Len(b) = 2 /\ b[1].is # "other" /\ b[2].is # "other"
    IN  /\ DOMAIN si = {k \in Keys : /\ Bounds(wire.ranges[k]) /\ Bounds(wire.ranges_si[k])
                                     /\ wire.ranges[k][1].n # wire.ranges[k][2].n}
        /\ \A k \in DOMAIN si :
             LET n == wire.ranges[k]
                 s == wire.ranges_si[k]
                 w == Between(v, n[1].n, n[2].n)
                 Part == IF n[1].n < n[2].n THEN <<w - n[1].n, n[2].n - n[1].n>>
                         ELSE <<n[1].n - w, n[1].n - n[2].n>>
             IN  /\ SameRatio(<<si[k][1] - s[1].n * si[k][2], si[k][2]>>,
                              <<Part[1] * (s[2].n - s[1].n), Part[2]>>)
                 /\ SameRatio(ScaleToRange(d, k, Part), <<w, 1>>)
                 /\ s[1].n # s[2].n => SameRatio(FromSi(d, k, si[k]), <<w, 1>>)

\* The rate that is asked for is the rate that the robot's own scale makes of the
\* deflection sent, or full deflection, and none is invented: there is one exactly if
\* the robot advertised a positive rate (motion.py 236-285; types.py 177-205).
SpeedReached ==
  wire # None /\ wire.scale # None => LET d == Descriptor(wire) IN \A c \in Cells :
    LET own  == CASE c[1] \in Lifts     -> wire.scale.lift
                  [] c[1] = "base"      -> wire.scale.base[c[2]]
                  [] c[1] \in ArmGroups -> IF Rate(wire.scale.task[c[2]]) # None THEN wire.scale.task[c[2]]
                                           ELSE wire.scale.joints[c]
                  [] OTHER              -> [is |-> "other", n |-> 0]
    IN  \A v \in Places :
          LET got == NormalizedFor(d, c[1], c[2], v) IN
            IF own.is = "number" /\ own.n > 0
            THEN SameRatio(got, <<Between(v, -own.n, own.n), own.n>>)
            ELSE got = None

\* A client that works in the robot's own units commands what it means, on every robot.
Calibrated == PositionsKept /\ SpeedReached

-----------------------------------------------------------------------------
(* Claims that the code does not keep *)

\* "Setting a DOF the robot doesn't have raises ValueError" (motion.py 88): not for a
\* task-space verb of an arm that does not exist, nor for yaw, which the robot knows by
\* its other name only, nor for a rail that is a joint and no aux.
EveryDofRead ==
  strict /\ wire # None => \A c \in Cells : jog[c] \notin {None, 0} => Reads(c)

\* "normalized RATES in [-1, 1] per DOF" (motion.py 14): clamp() lets NaN through.
RatesBounded == \A c \in Cells : jog[c] # NaN

\* "Accumulates one jog frame ... then emits it" (motion.py 80): a frame that was built,
\* and may be streaming, changes with later calls of the builder, in its dicts only.
BuiltIsFixed ==
  [][frame # None /\ frame' = frame => Content(frame)' = Content(frame)]_vars

\* "Each is accepted whenever the other is advertised" (motion.py 104): by arm(), while
\* jog_rate() has no rate for the other spelling.
AliasHasRate ==
  wire # None => \A c \in ArmGroups \X {"yaw", "shoulder_pan"} :
    c[2] \in Verbs(Descriptor(wire)) => JogRate(Descriptor(wire), c[1], c[2]) # None
=============================================================================
