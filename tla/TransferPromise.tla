--------------------------- MODULE TransferPromise ---------------------------
(***************************************************************************)
(* What a transfer promises its sender, without handlers, rows or objects: *)
(* it opens once, goes live at most once, is downloaded only while it is   *)
(* live and never more often than the sender allowed, and once it is       *)
(* closed (it expired, or its owner deleted it) it stays closed until it   *)
(* is removed for good.                                                    *)
(***************************************************************************)
EXTENDS Integers

CONSTANTS Transfers, MaxDownloads, NoLimit

VARIABLES phase, granted

vars == <<phase, granted>>

Phases == {"absent", "uploading", "live", "closed", "gone"}

Init ==
    /\ phase = [t \in Transfers |-> "absent"]
    /\ granted = [t \in Transfers |-> 0]

Become(t, from, to) ==
    /\ phase[t] \in from
    /\ phase' = [phase EXCEPT ![t] = to]
    /\ UNCHANGED granted

Open(t)   == Become(t, {"absent"}, "uploading")
GoLive(t) == Become(t, {"uploading"}, "live")
Close(t)  == Become(t, {"uploading", "live"}, "closed")

Grant(t) ==
    /\ phase[t] = "live"
    /\ MaxDownloads[t] = NoLimit \/ granted[t] < MaxDownloads[t]
    /\ granted' = [granted EXCEPT ![t] = @ + 1]
    /\ UNCHANGED phase

\* An upload may be removed before it is live; a live one only because a
\* removal that was decided before it went live is still under way.
Remove(t) == Become(t, {"uploading", "live", "closed"}, "gone")

Next ==
    \E t \in Transfers : Open(t) \/ GoLive(t) \/ Close(t) \/ Grant(t) \/ Remove(t)

Spec == Init /\ [][Next]_vars

=============================================================================
