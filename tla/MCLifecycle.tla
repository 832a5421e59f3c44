---------------------------- MODULE MCLifecycle -----------------------------
(* Instances of Lifecycle for TLC. *)
EXTENDS Lifecycle

MCCodes == {3}

\* What the run leaves out, of the steps that no fairness asks for: a direction
\* carries its second chunk only if nothing is forked, and the connection is made
\* when gg listens on both protocols.
Scenario ==
  /\ child' # "none" => sent' \in [Dir -> 0..1]
  /\ phase' = "accepted" => serve' = "serving"

MCSpec == Init /\ [][Next /\ Scenario]_vars /\ Fairness
=============================================================================
