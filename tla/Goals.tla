--------------------------------- MODULE Goals ---------------------------------
(***************************************************************************)
(* What the navigation requests of RemoteTeleop promise, whatever the      *)
(* channel loses, repeats or reorders: the robot carries out a request at  *)
(* most once, its caller is told the outcome of that one time or nothing,  *)
(* and one goal at a time is active, which ends once, and by no cancel     *)
(* that names another.                                                     *)
(***************************************************************************)
CONSTANTS
  Starts, Cancels, Polls, Remembers, Deletes,   \* requests of each action
  None                                          \* no goal

Requests == Starts \cup Cancels \cup Polls \cup Remembers \cup Deletes

VARIABLES
  aim,       \* the goal that each request names, or None
  outcome,   \* of each request at the robot: "none", "ok" or "refused"
  answer,    \* what its caller was told: "none", "ok", "refused" or "unreachable"
  fate,      \* of the goal each start asks for: "none", "active", then how it ended
  saved      \* the waypoint is saved on the robot's map

vars == <<aim, outcome, answer, fate, saved>>

NoGoal == \A g \in Starts : fate[g] # "active"

Init ==
  /\ outcome = [r \in Requests |-> "none"] /\ answer = [r \in Requests |-> "none"]
  /\ fate = [g \in Starts |-> "none"]
  /\ aim = [r \in Requests |-> None]
  /\ saved = FALSE

\* What a request does when the robot grants it.
Grant(r) ==
  \/ /\ r \in Starts /\ NoGoal /\ saved /\ fate[r] = "none"
     /\ fate' = [fate EXCEPT ![r] = "active"] /\ UNCHANGED saved
  \/ /\ r \in Cancels /\ UNCHANGED saved
     /\ \E g \in Starts :
          /\ fate[g] = "active" /\ aim[r] \in {None, g}
          /\ fate' = [fate EXCEPT ![g] = "canceled"]
  \/ r \in Polls /\ UNCHANGED <<fate, saved>>
  \/ r \in Remembers /\ NoGoal /\ saved' = TRUE /\ UNCHANGED fate
  \/ r \in Deletes /\ NoGoal /\ saved /\ saved' = FALSE /\ UNCHANGED fate

\* The caller of a request names a goal.
Name(r) ==
  /\ outcome[r] = "none" /\ answer[r] = "none" /\ aim[r] = None
  /\ \E g \in Starts : aim' = [aim EXCEPT ![r] = g]
  /\ UNCHANGED <<outcome, answer, fate, saved>>

Execute(r) ==
  /\ outcome[r] = "none"
  /\ \/ outcome' = [outcome EXCEPT ![r] = "ok"] /\ Grant(r)
     \/ outcome' = [outcome EXCEPT ![r] = "refused"] /\ UNCHANGED <<fate, saved>>
  /\ UNCHANGED <<aim, answer>>

Finish(g) ==
  /\ fate[g] = "active"
  /\ \E end \in {"succeeded", "canceled"} : fate' = [fate EXCEPT ![g] = end]
  /\ UNCHANGED <<aim, outcome, answer, saved>>

Answer(r) ==
  /\ answer[r] = "none" /\ outcome[r] # "none"
  /\ answer' = [answer EXCEPT ![r] = outcome[r]]
  /\ UNCHANGED <<aim, outcome, fate, saved>>

GiveUp(S) ==
  /\ \A r \in S : answer[r] = "none"
  /\ answer' = [r \in Requests |-> IF r \in S THEN "unreachable" ELSE answer[r]]
  /\ UNCHANGED <<aim, outcome, fate, saved>>

Next ==
  \/ \E r \in Requests : Name(r) \/ Execute(r) \/ Answer(r)
  \/ \E g \in Starts : Finish(g)
  \/ \E S \in SUBSET Requests : GiveUp(S)

Spec == Init /\ [][Next]_vars
=============================================================================
