------------------------------- MODULE Billing -------------------------------
(***************************************************************************)
(* The webhook receiver of routes/billing.routes.ts: Polar delivers each   *)
(* event until it is answered 200, and the handler applies it once to      *)
(* `subscriptions` and `users.tier`, behind the UNIQUE column              *)
(* billing_events.polar_event_id.  Deliveries of different events, and of  *)
(* the same one, may be served at the same time, every database call is    *)
(* one action, and a user may erase the account in between.                *)
(*                                                                         *)
(* Event types the handler does not know only get a row of their own; the  *)
(* period end and the customer id are data nothing here depends on.        *)
(***************************************************************************)
EXTENDS Integers

CONSTANTS
    Events,         \* polar_event_id
    Subs,           \* polar_subscription_id
    Users,
    NoUser,         \* customer.externalId is missing
    NoEvent,
    SubOf,          \* event -> data.id
    UserOf,         \* subscription -> customer.externalId
    Kind,           \* event -> the function the event's type is routed to
    StatusOf,       \* event -> data.status
    Workers,        \* webhook requests being served at the same time
    MaxFaults       \* bound: crashes and failed database calls

Statuses == {"active", "past_due", "trialing", "canceled", "incomplete"}

\* PRO_STATUSES, and the statuses the index subscriptions_one_live_per_user covers
ProStatuses  == {"active", "past_due", "trialing"}
LiveStatuses == {"active", "past_due", "trialing"}

ASSUME BillingConstants ==
    /\ SubOf \in [Events -> Subs]
    /\ UserOf \in [Subs -> Users \cup {NoUser}]
    /\ NoUser \notin Users
    /\ Kind \in [Events -> {"state", "terminal"}]
    /\ StatusOf \in [Events -> Statuses]
    /\ NoEvent \notin Events
    /\ MaxFaults \in Nat

VARIABLES
    event,      \* the event's row in billing_events
    sub,        \* the status in the subscription's row
    tier,       \* users.tier
    known,      \* is there a row of `users`?
    job,        \* the local state of each request
    acked,      \* events answered 200
    faults,
    writes,     \* history: how often an event was written to `subscriptions`
    crossed     \* history: users two of whose events were handled at once

tables  == <<event, sub, tier, known>>
history == <<writes, crossed>>
vars    == <<tables, job, acked, faults, history>>

PCs == {"idle", "user", "row", "write", "tier", "done", "skip", "fail"}

Job == [pc : PCs, event : Events \cup {NoEvent}, found : BOOLEAN]

Idle == [pc |-> "idle", event |-> NoEvent, found |-> FALSE]

TypeOK ==
    /\ event \in [Events -> {"none", "received", "processed", "failed"}]
    /\ sub \in [Subs -> Statuses \cup {"none"}]
    /\ tier \in [Users -> {"free", "pro"}]
    /\ known \in [Users -> BOOLEAN]
    /\ job \in [Workers -> Job]
    /\ acked \in SUBSET Events
    /\ faults \in 0..MaxFaults
    /\ writes \in [Events -> Nat]
    /\ crossed \in SUBSET Users

Init ==
    /\ event = [e \in Events |-> "none"]
    /\ sub = [s \in Subs |-> "none"]
    /\ tier = [u \in Users |-> "free"]
    /\ known = [u \in Users |-> TRUE]
    /\ job = [w \in Workers |-> Idle]
    /\ acked = {}
    /\ faults = 0
    /\ writes = [e \in Events |-> 0]
    /\ crossed = {}

-----------------------------------------------------------------------------

At(w, pc) == job[w].pc = pc

Goto(w, pc) == job' = [job EXCEPT ![w].pc = pc]

Finish(w) == job' = [job EXCEPT ![w] = Idle]

Target(e) == UserOf[SubOf[e]]

\* The user has a row: the foreign key of `subscriptions`, and the lookup.
Registered(u) == u \in Users /\ known[u]

Busy(w) == job[w].event \in Events

\* subscriptions_one_live_per_user: another row of the user is live.
Clash(s, status) ==
    /\ status \in LiveStatuses
    /\ \E other \in Subs \ {s} : UserOf[other] = UserOf[s] /\ sub[other] \in LiveStatuses

\* Mutant: the status itself is cached.
StatusAsTier(status) == status

TierFromStatus(status) == IF status \in ProStatuses THEN "pro" ELSE "free"

-----------------------------------------------------------------------------
(* POST /webhook *)

\* Mutant: only a processed event counts as a duplicate.
Retried(e) == event[e] # "processed"

\* The UNIQUE column: no row of this event yet.
Unseen(e) == event[e] = "none"

\* The INSERT of the billing_events row succeeds and the event is routed.
Receive(w, e) ==
    LET u == Target(e) IN
    /\ job[w] = Idle /\ Unseen(e)
    /\ event' = [event EXCEPT ![e] = "received"]
    /\ job' = [job EXCEPT ![w] =
                 [pc |-> IF u = NoUser THEN "skip" ELSE IF Kind[e] = "state" THEN "user" ELSE "row",
                  event |-> e, found |-> FALSE]]
    /\ crossed' = IF \E v \in Workers : Busy(v) /\ Target(job[v].event) = u
                    THEN crossed \cup ({u} \cap Users)
                    ELSE crossed
    /\ UNCHANGED <<sub, tier, known, acked, faults, writes>>

\* Mutant: a duplicate is answered 200 only when the first delivery succeeded.
DuplicateOfProcessed(e) ==
    /\ ~Unseen(e)
    /\ acked' = IF event[e] = "processed" THEN acked \cup {e} ELSE acked
    /\ UNCHANGED <<tables, job, faults, history>>

\* The INSERT violates the UNIQUE column: answered 200.
Duplicate(e) ==
    /\ ~Unseen(e)
    /\ acked' = acked \cup {e}
    /\ UNCHANGED <<tables, job, faults, history>>

\* Any other failure of that INSERT is taken for a duplicate.
ReceiveFails(e) ==
    /\ faults < MaxFaults
    /\ faults' = faults + 1
    /\ acked' = acked \cup {e}
    /\ UNCHANGED <<tables, job, history>>

\* applySubscriptionState looks the user up.
FindUser(w) ==
    /\ At(w, "user")
    /\ Goto(w, IF Registered(Target(job[w].event)) THEN "row" ELSE "skip")
    /\ UNCHANGED <<tables, acked, faults, history>>

\* Both functions look the subscription up by its Polar id.
FindRow(w) ==
    /\ At(w, "row")
    /\ job' = [job EXCEPT ![w].pc = "write", ![w].found = sub[SubOf[job[w].event]] # "none"]
    /\ UNCHANGED <<tables, acked, faults, history>>

\* The UPDATE (of no row, when the account was erased meanwhile) or the INSERT
\* (which needs the user's row and a new Polar id); either throws when the
\* user would have two live rows.
Accepted(w) ==
    LET s == SubOf[job[w].event]  present == sub[s] # "none" IN
    /\ ~job[w].found => ~present /\ Registered(UserOf[s])
    /\ present \/ ~job[w].found => ~Clash(s, StatusOf[job[w].event])

WriteRow(w) ==
    LET e == job[w].event  s == SubOf[e] IN
    /\ At(w, "write") /\ Accepted(w)
    /\ sub' = IF job[w].found /\ sub[s] = "none" THEN sub ELSE [sub EXCEPT ![s] = StatusOf[e]]
    /\ writes' = [writes EXCEPT ![e] = @ + 1]
    /\ Goto(w, "tier")
    /\ UNCHANGED <<event, tier, known, acked, faults, crossed>>

WriteRefused(w) ==
    /\ At(w, "write") /\ ~Accepted(w)
    /\ Goto(w, "fail")
    /\ UNCHANGED <<tables, acked, faults, history>>

\* Mutant: a cancellation closes the row and leaves the tier to expire.
SetTierUnlessTerminal(w) ==
    LET e == job[w].event  u == Target(e) IN
    /\ At(w, "tier")
    /\ tier' = IF Registered(u) /\ Kind[e] = "state"
                 THEN [tier EXCEPT ![u] = TierFromStatus(StatusOf[e])]
                 ELSE tier
    /\ Goto(w, "done")
    /\ UNCHANGED <<event, sub, known, acked, faults, history>>

\* UPDATE users: the status decides in applySubscriptionState, and
\* applyTerminalCancel always drops the user to Free.
SetTier(w) ==
    LET e == job[w].event  u == Target(e) IN
    /\ At(w, "tier")
    /\ tier' = IF Registered(u)
                 THEN [tier EXCEPT ![u] = IF Kind[e] = "state" THEN TierFromStatus(StatusOf[e]) ELSE "free"]
                 ELSE tier
    /\ Goto(w, "done")
    /\ UNCHANGED <<event, sub, known, acked, faults, history>>

\* The last UPDATE of the billing_events row, then 200.  Its subscription_id
\* references the row just written: the UPDATE throws, outside the try, when
\* that row was erased, and the event keeps neither processed_at nor error.
Done(w) ==
    LET e == job[w].event IN
    /\ At(w, "skip") \/ (At(w, "done") /\ sub[SubOf[e]] # "none")
    /\ event' = [event EXCEPT ![e] = "processed"]
    /\ acked' = acked \cup {e}
    /\ Finish(w)
    /\ UNCHANGED <<sub, tier, known, faults, history>>

DoneRefused(w) ==
    /\ At(w, "done") /\ sub[SubOf[job[w].event]] = "none"
    /\ Finish(w)
    /\ UNCHANGED <<tables, acked, faults, history>>

\* The catch: the error is kept in the row and the answer is 500.
Fail(w) ==
    /\ At(w, "fail")
    /\ event' = [event EXCEPT ![job[w].event] = "failed"]
    /\ Finish(w)
    /\ UNCHANGED <<sub, tier, known, acked, faults, history>>

-----------------------------------------------------------------------------
(* Failures, and the account's erasure *)

\* A database call throws: inside the try it leads to the catch, outside it to
\* a plain 500.
CallFails(w) ==
    /\ faults < MaxFaults
    /\ Busy(w)
    /\ faults' = faults + 1
    /\ IF job[w].pc \in {"user", "row", "write", "tier"} THEN Goto(w, "fail") ELSE Finish(w)
    /\ UNCHANGED <<tables, acked, history>>

Crash ==
    /\ faults < MaxFaults
    /\ faults' = faults + 1
    /\ job' = [w \in Workers |-> Idle]
    /\ UNCHANGED <<tables, acked, history>>

\* eraseAccount's transaction: the user's subscriptions go by cascade.
EraseUser(u) ==
    /\ known[u]
    /\ known' = [known EXCEPT ![u] = FALSE]
    /\ sub' = [s \in Subs |-> IF UserOf[s] = u THEN "none" ELSE sub[s]]
    /\ UNCHANGED <<event, tier, job, acked, faults, history>>

-----------------------------------------------------------------------------

Handle(w) ==
    \/ FindUser(w) \/ FindRow(w) \/ WriteRow(w) \/ WriteRefused(w)
    \/ SetTier(w) \/ Done(w) \/ DoneRefused(w) \/ Fail(w)

Deliver(e) == Duplicate(e) \/ \E w \in Workers : Receive(w, e)

Next ==
    \/ \E e \in Events : Deliver(e) \/ ReceiveFails(e)
    \/ \E w \in Workers : Handle(w) \/ CallFails(w)
    \/ Crash
    \/ \E u \in Users : EraseUser(u)

Spec == Init /\ [][Next]_vars

\* Polar delivers an event until it is answered 200, and every call of a
\* handler returns or throws.
FairSpec ==
    /\ Spec
    /\ \A e \in Events : WF_vars(e \notin acked /\ Deliver(e))
    /\ \A w \in Workers : WF_vars(Handle(w))

-----------------------------------------------------------------------------
(* Properties *)

\* However often an event is delivered, at the same time or again after a
\* failure or a crash, it is written to `subscriptions` at most once
\* (billing.routes.ts:272-287).
AppliedAtMostOnce == \A e \in Events : writes[e] <= 1

Handling(u) == \E w \in Workers : Busy(w) /\ Target(job[w].event) = u

\* As long as no two events of a user are handled at once, and no call fails,
\* a user whose tier is Pro has a live subscription behind it whenever no
\* event is being handled: in whatever order the events of several
\* subscriptions arrive, and whichever of them the index on live rows refuses
\* (billing.routes.ts:21-24, 52-162 and schema.ts:298-300, 326-330).
ProHasLiveRow ==
    faults = 0 =>
        \A u \in Users \ crossed :
            known[u] /\ tier[u] = "pro" /\ ~Handling(u) =>
                \E s \in Subs : UserOf[s] = u /\ sub[s] \in ProStatuses

\* Polar is answered 200 for every event in the end, although handlers fail
\* and answer 500 (billing.routes.ts:282-287, 308-330).
Settles == \A e \in Events : <>(e \in acked)

\* "UNIQUE violation on polar_event_id = already processed. Return 200 so
\* Polar stops retrying" (billing.routes.ts:283-284): an event Polar was told
\* not to send again is processed, or still being handled.  The code does not
\* keep this: the row of an event whose handler failed stays, and the retry
\* that "Return 500 so Polar retries" (line 315) asks for is deduplicated.
AckedIsProcessed ==
    \A e \in acked : event[e] = "processed" \/ \E w \in Workers : job[w].event = e

=============================================================================
