---------------------------- MODULE MCJogBuilder ----------------------------
(* JogBuilder for TLC: the descriptors of four robots. *)
EXTENDS JogBuilder, TLC

N(i)  == [is |-> "number", n |-> i]
Bool  == [is |-> "bool", n |-> 1]      \* true, which counts as 1
Other == [is |-> "other", n |-> 0]     \* a string, null or nothing

Span(a, b)   == <<N(a), N(b)>>
NoSpans      == [k \in Keys |-> <<>>]
NoTask       == [v \in Dofs |-> Other]
LeftElbow    == <<"left_arm", "elbow">>
LeftPan      == <<"left_arm", "shoulder_pan">>
RightElbow   == <<"right_arm", "elbow">>
Rail         == <<"left_lift", "pos">>

\* One arm and its rail; what says how it moves is partly broken.
SeriesL ==
  [joints |-> {LeftElbow, LeftPan, <<"head", "yaw">>}, aux |-> {"left_lift"}, base |-> {"x.vel", "theta.vel"},
   ranges |-> [NoSpans EXCEPT ![LeftElbow] = Span(-4, 4), ![LeftPan] = Span(4, -2), ![Rail] = <<N(0), Other>>],
   ranges_si |-> [NoSpans EXCEPT ![LeftElbow] = Span(3, -3), ![LeftPan] = <<Bool, N(7)>>, ![Rail] = Span(0, 2)],
   scale |-> [joints |-> [k \in Keys |-> IF k = LeftElbow THEN N(3) ELSE IF k = LeftPan THEN N(0) ELSE Bool],
              task |-> NoTask,
              base |-> [v \in BaseDofs |-> IF v = "linear" THEN N(2) ELSE N(-1)],
              lift |-> N(0)]]

\* Two arms and a central lift, with verbs of the task space; no base.
SeriesA ==
  [joints |-> {LeftElbow, RightElbow}, aux |-> {"lift"}, base |-> {},
   ranges |-> [NoSpans EXCEPT ![LeftElbow] = Span(2, 2), ![RightElbow] = Span(0, 4)],
   ranges_si |-> [NoSpans EXCEPT ![LeftElbow] = Span(0, 1), ![RightElbow] = Span(2, 2)],
   scale |-> [joints |-> [k \in Keys |-> IF k \in {LeftElbow, RightElbow} THEN N(4) ELSE Other],
              task |-> [v \in Dofs |-> IF v = "yaw" THEN N(5) ELSE Other],
              base |-> [v \in BaseDofs |-> Other],
              lift |-> N(50)]]

\* The same, which names its verb the other way and has a rail among its joints.
Deprecated ==
  [SeriesA EXCEPT !.joints = @ \cup {Rail}, !.base = {"x.vel"},
                  !.scale.task = [v \in Dofs |-> IF v = "shoulder_pan" THEN N(1) ELSE Other]]

Bare == [joints |-> {}, aux |-> {}, base |-> {}, ranges |-> NoSpans, ranges_si |-> NoSpans, scale |-> None]

Robots    == {SeriesL, SeriesA, Deprecated, Bare}
SomeRates == {-3, NaN}
Positions == {-5, -1, 0, 3, 6}
=============================================================================
