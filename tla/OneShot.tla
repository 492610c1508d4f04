------------------------------- MODULE OneShot -------------------------------
(***************************************************************************)
(* What a single-use secret promises: it is issued once, somebody may win  *)
(* it once, and once it is won or void nobody wins it any more.            *)
(***************************************************************************)
EXTENDS Integers

CONSTANT Secrets

VARIABLES state, wins

vars == <<state, wins>>

States == {"unissued", "open", "spent"}

Init ==
    /\ state = [s \in Secrets |-> "unissued"]
    /\ wins = [s \in Secrets |-> 0]

Become(s, from, to) == state[s] = from /\ state' = [state EXCEPT ![s] = to]

Issue(s) == Become(s, "unissued", "open") /\ UNCHANGED wins

Win(s) == Become(s, "open", "spent") /\ wins' = [wins EXCEPT ![s] = @ + 1]

\* Void(S): secrets are withdrawn, several of them at once by an erasure.
Void(S) ==
    /\ \A s \in S : state[s] = "open"
    /\ state' = [s \in Secrets |-> IF s \in S THEN "spent" ELSE state[s]]
    /\ UNCHANGED wins

Next ==
    \/ \E s \in Secrets : Issue(s) \/ Win(s)
    \/ \E S \in SUBSET Secrets : Void(S)

Spec == Init /\ [][Next]_vars

=============================================================================
