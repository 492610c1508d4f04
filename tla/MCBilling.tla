------------------------------ MODULE MCBilling ------------------------------
EXTENDS Billing, TLC

CONSTANTS e1, e2, e3, s1, s2, u1, w1, w2

\* Two subscriptions of u1: the first becomes active and is canceled, the
\* second becomes active.
SubOfEvent == (e1 :> s1) @@ (e2 :> s1) @@ (e3 :> s2)
UserOfSub == (s1 :> u1) @@ (s2 :> u1)
KindOfEvent == [e \in Events |-> IF e = e2 THEN "terminal" ELSE "state"]
StatusOfEvent == (e1 :> "active") @@ (e2 :> "canceled") @@ (e3 :> "active")
=============================================================================
