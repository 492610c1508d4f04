---------------------------- MODULE BillingProofs ----------------------------
(***************************************************************************)
(* Proofs about Billing, for any events, subscriptions, users and          *)
(* concurrent deliveries, and any number of faults.                        *)
(***************************************************************************)
EXTENDS Billing, TLAPS

-----------------------------------------------------------------------------
(* Typing *)

\* A request is at rest or handles an event, and one that looks for rows to
\* change handles an event with a user in it.
WellFormed(j) ==
    /\ j \in Job
    /\ j.event = NoEvent <=> j.pc = "idle"
    /\ j.pc \in {"user", "row", "write", "tier"} => Target(j.event) \in Users

Typed == TypeOK /\ \A w \in Workers : WellFormed(job[w])

LEMMA IdleOK == WellFormed(Idle)
  BY BillingConstants DEF WellFormed, Idle, Job, PCs

LEMMA TypedInit == Init => Typed
  BY IdleOK, BillingConstants DEF Init, Typed, TypeOK, Statuses, WellFormed

LEMMA JobSet ==
  ASSUME Typed, NEW w \in Workers, NEW j, WellFormed(j), job' = [job EXCEPT ![w] = j]
  PROVE  job' \in [Workers -> Job] /\ \A v \in Workers : WellFormed(job'[v])
  BY DEF Typed, TypeOK, WellFormed

\* A handler moves on with the same event.
LEMMA JobGoto ==
  ASSUME Typed, NEW w \in Workers, job[w].pc # "idle", NEW pc \in PCs \ {"idle"},
         pc \in {"user", "row", "write", "tier"} => Target(job[w].event) \in Users,
         NEW b \in BOOLEAN, job' = [job EXCEPT ![w].pc = pc, ![w].found = b]
  PROVE  job' \in [Workers -> Job] /\ \A v \in Workers : WellFormed(job'[v])
<1> DEFINE j == [job[w] EXCEPT !.pc = pc, !.found = b]
<1>1. WellFormed(j)
  BY DEF Typed, TypeOK, WellFormed, Job
<1>2. job' = [job EXCEPT ![w] = j]
  BY DEF Typed, TypeOK
<1> HIDE DEF j
<1> QED  BY <1>1, <1>2, JobSet

LEMMA JobMoves ==
  ASSUME Typed, NEW w \in Workers, job[w].pc # "idle", NEW pc \in PCs \ {"idle"},
         pc \in {"user", "row", "write", "tier"} => Target(job[w].event) \in Users, Goto(w, pc)
  PROVE  job' \in [Workers -> Job] /\ \A v \in Workers : WellFormed(job'[v])
<1>1. job[w].found \in BOOLEAN /\ job' = [job EXCEPT ![w].pc = pc, ![w].found = job[w].found]
  BY DEF Goto, Typed, TypeOK, Job
<1> QED  BY <1>1, JobGoto

LEMMA JobEnds ==
  ASSUME Typed, NEW w \in Workers, Finish(w)
  PROVE  job' \in [Workers -> Job] /\ \A v \in Workers : WellFormed(job'[v])
  BY JobSet, IdleOK DEF Finish

LEMMA TypedStep == Typed /\ [Next]_vars => Typed'
<1> SUFFICES ASSUME Typed, [Next]_vars PROVE Typed'
  OBVIOUS
<1> USE BillingConstants
<1>s. job' \in [Workers -> Job] /\ (\A w \in Workers : WellFormed(job'[w]))
        => job' \in [Workers -> Job] /\ \A w \in Workers : WellFormed(job[w])'
  BY DEF WellFormed, Target
<1>k. ASSUME NEW e \in Events PROVE SubOf[e] \in Subs /\ Target(e) \in Users \cup {NoUser}
  BY DEF Target
<1>b. ASSUME NEW w \in Workers, job[w].pc # "idle" PROVE job[w].event \in Events
  BY <1>b DEF Typed, TypeOK, WellFormed, Job
<1>1. ASSUME NEW e \in Events, NEW w \in Workers, Receive(w, e) PROVE Typed'
  <2> DEFINE j == [pc |-> IF Target(e) = NoUser THEN "skip" ELSE IF Kind[e] = "state" THEN "user" ELSE "row",
                   event |-> e, found |-> FALSE]
  <2>1. WellFormed(j)
    BY <1>k DEF WellFormed, Job, PCs
  <2>2. job' = [job EXCEPT ![w] = j]
    BY <1>1 DEF Receive
  <2> HIDE DEF j
  <2> QED  BY <1>1, <1>s, <2>1, <2>2, JobSet DEF Receive, Typed, TypeOK
<1>2. ASSUME NEW e \in Events, Duplicate(e) \/ ReceiveFails(e) PROVE Typed'
  BY <1>2, <1>s DEF Duplicate, ReceiveFails, Typed, TypeOK, tables, history
<1>3. ASSUME NEW w \in Workers, FindUser(w) PROVE Typed'
  <2>1. job[w].pc # "idle" /\ Target(job[w].event) \in Users
    BY <1>3 DEF FindUser, At, Typed, WellFormed
  <2> QED  BY <1>3, <1>s, <2>1, JobMoves DEF FindUser, PCs, Typed, TypeOK, tables, history
<1>4. ASSUME NEW w \in Workers, FindRow(w) PROVE Typed'
  <2>1. job[w].pc # "idle" /\ Target(job[w].event) \in Users
    BY <1>4 DEF FindRow, At, Typed, WellFormed
  <2> QED  BY <1>4, <1>s, <2>1, JobGoto DEF FindRow, PCs, Typed, TypeOK, tables, history
<1>5. ASSUME NEW w \in Workers, WriteRow(w) PROVE Typed'
  <2>1. job[w].pc # "idle" /\ Target(job[w].event) \in Users
    BY <1>5 DEF WriteRow, At, Typed, WellFormed
  <2>2. job[w].event \in Events
    BY <2>1, <1>b
  <2> QED  BY <1>5, <1>s, <1>k, <2>1, <2>2, JobMoves DEF WriteRow, PCs, Typed, TypeOK
<1>6. ASSUME NEW w \in Workers, WriteRefused(w) PROVE Typed'
  BY <1>6, <1>s, JobMoves DEF WriteRefused, At, PCs, Typed, TypeOK, tables, history
<1>7. ASSUME NEW w \in Workers, SetTier(w) PROVE Typed'
  BY <1>7, <1>s, JobMoves DEF SetTier, TierFromStatus, At, PCs, Typed, TypeOK, history
<1>8. ASSUME NEW w \in Workers, Done(w) \/ DoneRefused(w) \/ Fail(w) PROVE Typed'
  <2>1. job[w].event \in Events
    BY <1>8, <1>b DEF Done, DoneRefused, Fail, At
  <2> QED  BY <1>8, <1>s, <2>1, JobEnds DEF Done, DoneRefused, Fail, Typed, TypeOK, tables, history
<1>9. ASSUME NEW w \in Workers, CallFails(w) PROVE Typed'
  <2>1. CASE job[w].pc \in {"user", "row", "write", "tier"}
    BY <1>9, <1>s, <2>1, JobMoves DEF CallFails, PCs, Typed, TypeOK, tables, history
  <2>2. CASE job[w].pc \notin {"user", "row", "write", "tier"}
    BY <1>9, <1>s, <2>2, JobEnds DEF CallFails, Typed, TypeOK, tables, history
  <2> QED  BY <2>1, <2>2
<1>10. CASE Crash
  BY <1>10, <1>s, IdleOK DEF Crash, Typed, TypeOK, WellFormed, tables, history
<1>11. ASSUME NEW u \in Users, EraseUser(u) PROVE Typed'
  BY <1>11, <1>s DEF EraseUser, Typed, TypeOK, history
<1>12. CASE UNCHANGED vars
  BY <1>12, <1>s DEF vars, Typed, TypeOK, tables, history
<1> QED
  BY <1>1, <1>2, <1>3, <1>4, <1>5, <1>6, <1>7, <1>8, <1>9, <1>10, <1>11, <1>12
  DEF Next, Deliver, Handle

LEMMA Typing == Spec => []Typed
  BY TypedInit, TypedStep, PTL DEF Spec

\* Every variable keeps its type.
THEOREM BillingTypes == Spec => []TypeOK
<1>1. Typed => TypeOK
  BY DEF Typed
<1> QED  BY <1>1, Typing, PTL

-----------------------------------------------------------------------------
(* An event is applied at most once: whoever inserted its row is the only   *)
(* one to handle it, now and later.                                         *)

Early == {"user", "row", "write"}

AppliedInv ==
    /\ \A v, w \in Workers : Busy(v) /\ job[v].event = job[w].event => v = w
    /\ \A w \in Workers : Busy(w) => event[job[w].event] # "none"
    /\ \A w \in Workers : job[w].pc \in Early => writes[job[w].event] = 0
    /\ \A e \in Events : event[e] = "none" => writes[e] = 0
    /\ AppliedAtMostOnce

\* A handler goes on or ends, without a write to `subscriptions`.
Advances(w) ==
    /\ \A v \in Workers \ {w} : job'[v] = job[v]
    /\ job'[w].event \in {job[w].event, NoEvent}
    /\ job'[w].event = NoEvent => job'[w].pc = "idle"
    /\ job'[w].pc \in Early => job[w].pc \in Early
    /\ \A e \in Events : event'[e] = "none" => event[e] = "none"
    /\ writes' = writes

LEMMA AdvanceKeeps ==
  ASSUME Typed, AppliedInv, NEW w \in Workers, Advances(w)
  PROVE  AppliedInv'
<1>1. \A v \in Workers : job'[v].event \in {job[v].event, NoEvent}
  BY DEF Advances
<1>2. \A v \in Workers : Busy(v)' => Busy(v) /\ job'[v].event = job[v].event
  BY <1>1, BillingConstants DEF Busy
<1>3. \A v \in Workers : job'[v].pc \in Early => job[v].pc \in Early /\ job'[v].event = job[v].event
  BY DEF Advances, Early
<1>4. (\A v, x \in Workers : Busy(v) /\ job[v].event = job[x].event => v = x)'
  BY <1>1, <1>2, BillingConstants DEF AppliedInv, Busy
<1>5. (\A v \in Workers : Busy(v) => event[job[v].event] # "none")'
  BY <1>2 DEF AppliedInv, Busy, Advances
<1> QED  BY <1>3, <1>4, <1>5 DEF AppliedInv, AppliedAtMostOnce, Advances

\* The steps of a handler that do not write to `subscriptions`.
Quiet(w) ==
    \/ FindUser(w) \/ FindRow(w) \/ WriteRefused(w) \/ SetTier(w)
    \/ Done(w) \/ DoneRefused(w) \/ Fail(w) \/ CallFails(w)

LEMMA QuietAdvances ==
  ASSUME Typed, NEW w \in Workers, Quiet(w)
  PROVE  Advances(w)
<1>t. job \in [Workers -> Job] /\ event \in [Events -> {"none", "received", "processed", "failed"}]
  BY DEF Typed, TypeOK
<1>1. CASE FindUser(w) \/ FindRow(w) \/ WriteRefused(w) \/ SetTier(w)
  BY <1>1, <1>t DEF FindUser, FindRow, WriteRefused, SetTier, Typed, WellFormed, Advances, Goto, At, Early, Job, tables, history
<1>2. CASE Done(w) \/ DoneRefused(w) \/ Fail(w)
  BY <1>2, <1>t DEF Done, DoneRefused, Fail, Advances, Finish, Idle, Early, tables, history
<1>3. CASE CallFails(w)
  BY <1>3, <1>t DEF CallFails, Typed, WellFormed, Advances, Goto, Finish, Idle, Early, Job, Busy, tables, history
<1> QED  BY <1>1, <1>2, <1>3 DEF Quiet

LEMMA AppliedStep == Typed /\ AppliedInv /\ [Next]_vars => AppliedInv'
<1> SUFFICES ASSUME Typed, AppliedInv, [Next]_vars PROVE AppliedInv'
  OBVIOUS
<1>t. /\ job \in [Workers -> Job]
      /\ event \in [Events -> {"none", "received", "processed", "failed"}]
      /\ writes \in [Events -> Nat]
  BY DEF Typed, TypeOK
<1>1. ASSUME NEW e \in Events, NEW w \in Workers, Receive(w, e) PROVE AppliedInv'
  <2>1. \A v \in Workers : job'[v] = IF v = w THEN job'[w] ELSE job[v]
    BY <1>1, <1>t DEF Receive
  <2>2. job'[w].event = e /\ event[e] = "none" /\ event' = [event EXCEPT ![e] = "received"]
    BY <1>1, <1>t DEF Receive, Unseen
  <2>3. \A v \in Workers : job[v].event # e
    BY <2>2 DEF AppliedInv, Busy
  <2>4. writes' = writes /\ writes[e] = 0
    BY <1>1, <2>2 DEF Receive, AppliedInv
  <2>5. (\A v, x \in Workers : Busy(v) /\ job[v].event = job[x].event => v = x)'
    BY <2>1, <2>2, <2>3 DEF AppliedInv, Busy
  <2>6. (\A v \in Workers : Busy(v) => event[job[v].event] # "none")'
    BY <2>1, <2>2, <1>t DEF AppliedInv, Busy
  <2>7. (\A v \in Workers : job[v].pc \in Early => writes[job[v].event] = 0)'
    BY <2>1, <2>2, <2>4 DEF AppliedInv
  <2>8. (\A x \in Events : event[x] = "none" => writes[x] = 0)'
    BY <2>2, <2>4, <1>t DEF AppliedInv
  <2> QED  BY <2>4, <2>5, <2>6, <2>7, <2>8 DEF AppliedInv, AppliedAtMostOnce
<1>2. ASSUME NEW w \in Workers, WriteRow(w) PROVE AppliedInv'
  <2> DEFINE e == job[w].event
  <2>1. e \in Events /\ job[w].pc = "write"
    BY <1>2 DEF WriteRow, At, Typed, WellFormed, TypeOK, Job
  <2>2. /\ writes' = [writes EXCEPT ![e] = @ + 1] /\ writes[e] = 0 /\ event' = event
        /\ event[e] # "none"
    BY <1>2, <2>1 DEF WriteRow, AppliedInv, Early, Busy
  <2>3. \A v \in Workers : job'[v].event = job[v].event /\ (v # w => job'[v] = job[v])
    BY <1>2, <1>t DEF WriteRow, Goto, Job
  <2>4. job'[w].pc = "tier"
    BY <1>2, <1>t DEF WriteRow, Goto, Job
  <2>5. (\A v, x \in Workers : Busy(v) /\ job[v].event = job[x].event => v = x)'
    BY <2>3 DEF AppliedInv, Busy
  <2>6. \A v \in Workers : v # w => job[v].event # e
    BY <2>1 DEF AppliedInv, Busy
  <2>7. ASSUME NEW v \in Workers, (job[v].pc \in Early)' PROVE (writes[job[v].event] = 0)'
    <3>1. v # w /\ job[v].pc \in Early /\ writes[job[v].event] = 0
      BY <2>3, <2>4, <2>7 DEF AppliedInv, Early
    <3>2. job[v].event \in Events /\ job[v].event # e
      BY <3>1, <2>6 DEF Typed, TypeOK, WellFormed, Job, Early
    <3> QED  BY <3>1, <3>2, <2>2, <2>3, <1>t
  <2>8. (AppliedAtMostOnce)'
    BY <2>1, <2>2, <1>t DEF AppliedInv, AppliedAtMostOnce
  <2>9. (\A x \in Events : event[x] = "none" => writes[x] = 0)'
    BY <2>1, <2>2, <1>t DEF AppliedInv
  <2>10. (\A v \in Workers : Busy(v) => event[job[v].event] # "none")'
    BY <2>2, <2>3 DEF AppliedInv, Busy
  <2> QED  BY <2>5, <2>7, <2>8, <2>9, <2>10 DEF AppliedInv
<1>3. ASSUME NEW w \in Workers, Quiet(w) PROVE AppliedInv'
  BY <1>3, AdvanceKeeps, QuietAdvances
<1>4. CASE Crash
  BY <1>4, BillingConstants DEF Crash, AppliedInv, AppliedAtMostOnce, Busy, Idle, Early, tables, history
<1>5. ASSUME UNCHANGED <<job, event, writes>> PROVE AppliedInv'
  BY <1>5 DEF AppliedInv, AppliedAtMostOnce, Busy
<1>6. ASSUME NEW e \in Events, Duplicate(e) \/ ReceiveFails(e) PROVE AppliedInv'
  BY <1>6, <1>5 DEF Duplicate, ReceiveFails, tables, history
<1>7. ASSUME NEW u \in Users, EraseUser(u) PROVE AppliedInv'
  BY <1>7, <1>5 DEF EraseUser, history
<1>8. CASE UNCHANGED vars
  BY <1>8, <1>5 DEF vars, tables, history
<1> QED
  BY <1>1, <1>2, <1>3, <1>4, <1>6, <1>7, <1>8 DEF Next, Deliver, Handle, Quiet

\* Polar's retries, duplicates that overlap the first delivery, failed calls
\* and crashes never make the handler write an event a second time.
THEOREM AppliedOnce == Spec => []AppliedAtMostOnce
<1>1. Init => AppliedInv
  BY BillingConstants DEF Init, AppliedInv, AppliedAtMostOnce, Busy, Idle, Early
<1>2. AppliedInv => AppliedAtMostOnce
  BY DEF AppliedInv
<1> QED  BY <1>1, <1>2, AppliedStep, Typing, PTL DEF Spec

-----------------------------------------------------------------------------
(* Behind a Pro tier there is a live subscription.  A handler writes the    *)
(* row first and the tier second, so the tier may be wrong while it is      *)
(* between the two, and only then.                                          *)

On(w, u) == Busy(w) /\ Target(job[w].event) = u

HasLive(u) == \E s \in Subs : UserOf[s] = u /\ sub[s] \in ProStatuses

Alone(u) == \A v, w \in Workers : On(v, u) /\ On(w, u) => v = w

RowWritten(u) ==
    \A w \in Workers :
        On(w, u) /\ At(w, "tier") /\ Kind[job[w].event] = "state" /\ known[u] =>
            sub[SubOf[job[w].event]] = StatusOf[job[w].event]

TierBacked(u) ==
    known[u] /\ tier[u] = "pro" /\ (\A w \in Workers : On(w, u) => ~At(w, "tier")) => HasLive(u)

Backed(u) == Alone(u) /\ RowWritten(u) /\ TierBacked(u)

\* A row that was found is still there, unless the account was erased.
FoundIsThere ==
    \A w \in Workers :
        At(w, "write") /\ job[w].found /\ known[Target(job[w].event)] => sub[SubOf[job[w].event]] # "none"

ProInv ==
    /\ FoundIsThere
    /\ faults = 0 => \A u \in Users \ crossed : Backed(u)

\* A handler goes on or ends, away from the tier.
Passes(w) ==
    /\ \A v \in Workers \ {w} : job'[v] = job[v]
    /\ job'[w].event \in {job[w].event, NoEvent}
    /\ job[w].pc # "tier" /\ job'[w].pc # "tier"
    /\ UNCHANGED <<sub, tier, known, crossed>>

LEMMA PassKeeps ==
  ASSUME Typed, NEW u \in Users, Backed(u), NEW w \in Workers, Passes(w)
  PROVE  Backed(u)'
<1>1. \A v \in Workers : On(v, u)' => On(v, u) /\ job'[v].event = job[v].event
  BY BillingConstants DEF Passes, On, Busy, Target
<1>2. \A v \in Workers : At(v, "tier")' <=> At(v, "tier")
  BY DEF Passes, At
<1>3. \A v \in Workers : At(v, "tier") => job'[v] = job[v]
  BY DEF Passes, At
<1>4. \A v \in Workers : At(v, "tier") => (On(v, u)' <=> On(v, u))
  BY <1>3 DEF On, Busy, Target
<1>5. Alone(u)'
  BY <1>1 DEF Backed, Alone
<1>6. RowWritten(u)'
  BY <1>1, <1>2 DEF Backed, RowWritten, Passes
<1>7. HasLive(u)' <=> HasLive(u)
  BY DEF HasLive, Passes
<1>8. TierBacked(u)'
  BY <1>2, <1>4, <1>7 DEF Backed, TierBacked, Passes
<1> QED  BY <1>5, <1>6, <1>8 DEF Backed

LEMMA StepPasses ==
  ASSUME Typed, NEW w \in Workers,
         FindUser(w) \/ FindRow(w) \/ WriteRefused(w) \/ Done(w) \/ DoneRefused(w) \/ Fail(w)
  PROVE  Passes(w)
<1>t. job \in [Workers -> Job]
  BY DEF Typed, TypeOK
<1>1. CASE FindUser(w) \/ FindRow(w) \/ WriteRefused(w)
  BY <1>1, <1>t DEF FindUser, FindRow, WriteRefused, Passes, Goto, At, Job, tables, history
<1>2. CASE Done(w) \/ DoneRefused(w) \/ Fail(w)
  BY <1>2, <1>t DEF Done, DoneRefused, Fail, Passes, Finish, Idle, At, tables, history
<1> QED  BY <1>1, <1>2

LEMMA ReceiveKeeps ==
  ASSUME Typed, NEW u \in Users, Backed(u), NEW e \in Events, NEW w \in Workers, Receive(w, e),
         u \notin crossed'
  PROVE  Backed(u)'
<1>t. job \in [Workers -> Job]
  BY DEF Typed, TypeOK
<1>1. /\ \A v \in Workers \ {w} : job'[v] = job[v]
      /\ job'[w].event = e /\ job'[w].pc # "tier" /\ job[w].event = NoEvent
      /\ UNCHANGED <<sub, tier, known>>
  BY <1>t DEF Receive, Idle
<1>2. \A v \in Workers \ {w} : (On(v, u)' <=> On(v, u)) /\ (At(v, "tier")' <=> At(v, "tier"))
  BY <1>1 DEF On, Busy, Target, At
<1>3. ~At(w, "tier")' /\ ~On(w, u)
  BY <1>1, BillingConstants DEF At, On, Busy
<1>4. ASSUME On(w, u)', NEW v \in Workers, On(v, u) PROVE FALSE
  BY <1>1, <1>4 DEF Receive, On, Target
<1>5. Alone(u)'
  BY <1>2, <1>4 DEF Backed, Alone
<1>6. RowWritten(u)'
  BY <1>1, <1>2, <1>3 DEF Backed, RowWritten
<1>7. TierBacked(u)'
  BY <1>1, <1>2, <1>3 DEF Backed, TierBacked, HasLive
<1> QED  BY <1>5, <1>6, <1>7 DEF Backed

LEMMA WriteKeeps ==
  ASSUME Typed, FoundIsThere, NEW u \in Users, Backed(u), NEW w \in Workers, WriteRow(w)
  PROVE  Backed(u)'
<1> DEFINE e == job[w].event
<1> USE BillingConstants
<1>t. job \in [Workers -> Job] /\ sub \in [Subs -> Statuses \cup {"none"}]
  BY DEF Typed, TypeOK
<1>1. /\ \A v \in Workers \ {w} : job'[v] = job[v]
      /\ job'[w].event = e /\ job'[w].pc = "tier" /\ job[w].pc = "write"
      /\ UNCHANGED <<tier, known>>
  BY <1>t DEF WriteRow, Goto, At, Job
<1>2. e \in Events /\ SubOf[e] \in Subs /\ StatusOf[e] \in Statuses /\ Busy(w) /\ Target(e) \in Users
  BY <1>1, <1>t DEF Typed, WellFormed, Job, Busy
<1>3. \A v \in Workers : (On(v, u)' <=> On(v, u))
  BY <1>1 DEF On, Busy, Target
<1>4. Alone(u)'
  BY <1>3 DEF Backed, Alone
<1>5. CASE Target(e) = u
  <2>1. On(w, u) /\ At(w, "tier")'
    BY <1>1, <1>2, <1>5 DEF On, At
  <2>2. TierBacked(u)'
    BY <2>1, <1>3 DEF TierBacked
  <2>3. \A v \in Workers : On(v, u) => v = w
    BY <2>1 DEF Backed, Alone
  <2>4. known[u] => sub'[SubOf[e]] = StatusOf[e]
    BY <1>1, <1>2, <1>5, <1>t DEF WriteRow, FoundIsThere, At
  <2>5. RowWritten(u)'
    BY <1>1, <1>3, <2>3, <2>4 DEF RowWritten
  <2> QED  BY <1>4, <2>2, <2>5 DEF Backed
<1>6. CASE Target(e) # u
  <2>1. ~On(w, u)
    BY <1>6 DEF On
  <2>2. \A s \in Subs : UserOf[s] = u => sub'[s] = sub[s]
    BY <1>6, <1>2, <1>t DEF WriteRow, Target
  <2>3. \A v \in Workers : On(v, u) => job'[v] = job[v] /\ SubOf[job[v].event] \in Subs
                                    /\ UserOf[SubOf[job[v].event]] = u
    BY <2>1, <1>1 DEF On, Busy, Target
  <2>4. RowWritten(u)'
    BY <1>1, <1>3, <2>2, <2>3 DEF Backed, RowWritten, At
  <2>5. TierBacked(u)'
    BY <1>1, <1>3, <2>2, <2>3 DEF Backed, TierBacked, HasLive, At
  <2> QED  BY <1>4, <2>4, <2>5 DEF Backed
<1> QED  BY <1>5, <1>6

LEMMA TierKeeps ==
  ASSUME Typed, NEW u \in Users, Backed(u), NEW w \in Workers, SetTier(w)
  PROVE  Backed(u)'
<1> DEFINE e == job[w].event
<1> USE BillingConstants
<1>t. job \in [Workers -> Job] /\ tier \in [Users -> {"free", "pro"}]
  BY DEF Typed, TypeOK
<1>1. /\ \A v \in Workers \ {w} : job'[v] = job[v]
      /\ job'[w].event = e /\ job'[w].pc = "done" /\ job[w].pc = "tier"
      /\ UNCHANGED <<sub, known>>
  BY <1>t DEF SetTier, Goto, At, Job
<1>2. e \in Events /\ SubOf[e] \in Subs /\ StatusOf[e] \in Statuses /\ Busy(w) /\ Target(e) \in Users
  BY <1>1, <1>t DEF Typed, WellFormed, Job, Busy
<1>3. \A v \in Workers : (On(v, u)' <=> On(v, u))
  BY <1>1 DEF On, Busy, Target
<1>4. Alone(u)'
  BY <1>3 DEF Backed, Alone
<1>5. RowWritten(u)'
  BY <1>1, <1>3 DEF Backed, RowWritten, At
<1>6. CASE Target(e) = u
  <2>1. ASSUME known[u], tier'[u] = "pro" PROVE HasLive(u)'
    <3>1. Kind[e] = "state" /\ TierFromStatus(StatusOf[e]) = "pro"
      BY <2>1, <1>2, <1>6, <1>t DEF SetTier, Registered
    <3>2. sub[SubOf[e]] = StatusOf[e]
      BY <3>1, <2>1, <1>1, <1>2, <1>6 DEF Backed, RowWritten, On, At
    <3> QED  BY <3>1, <3>2, <1>1, <1>2, <1>6 DEF TierFromStatus, HasLive, Target
  <2>2. TierBacked(u)'
    BY <2>1, <1>1 DEF TierBacked
  <2> QED  BY <1>4, <1>5, <2>2 DEF Backed
<1>7. CASE Target(e) # u
  <2>1. tier'[u] = tier[u] /\ ~On(w, u)
    BY <1>7, <1>2, <1>t DEF SetTier, On, Registered
  <2>2. TierBacked(u)'
    BY <1>1, <1>3, <2>1 DEF Backed, TierBacked, HasLive, At
  <2> QED  BY <1>4, <1>5, <2>2 DEF Backed
<1> QED  BY <1>6, <1>7

LEMMA EraseKeeps ==
  ASSUME Typed, NEW u \in Users, Backed(u), NEW x \in Users, EraseUser(x)
  PROVE  Backed(u)'
<1> USE BillingConstants
<1>1. UNCHANGED <<job, tier>>
  BY DEF EraseUser
<1>2. CASE x = u
  BY <1>1, <1>2 DEF EraseUser, Backed, Alone, RowWritten, TierBacked, On, Busy, Target, Typed, TypeOK
<1>3. CASE x # u
  <2>1. known'[u] = known[u] /\ \A s \in Subs : UserOf[s] = u => sub'[s] = sub[s]
    BY <1>3 DEF EraseUser, Typed, TypeOK
  <2>2. \A w \in Workers : On(w, u) => SubOf[job[w].event] \in Subs /\ UserOf[SubOf[job[w].event]] = u
    BY DEF On, Busy, Target
  <2>3. \A w \in Workers : (On(w, u)' <=> On(w, u)) /\ (At(w, "tier")' <=> At(w, "tier"))
    BY <1>1 DEF On, Busy, Target, At
  <2>4. HasLive(u)' <=> HasLive(u)
    BY <2>1 DEF HasLive
  <2>5. Alone(u)' /\ TierBacked(u)'
    BY <1>1, <2>1, <2>3, <2>4 DEF Backed, Alone, TierBacked
  <2>6. RowWritten(u)'
    BY <1>1, <2>1, <2>2, <2>3 DEF Backed, RowWritten
  <2> QED  BY <2>5, <2>6 DEF Backed
<1> QED  BY <1>2, <1>3

\* A row goes only with the account of its user.
LEMMA FoundStep ==
  ASSUME Typed, FoundIsThere, [Next]_vars
  PROVE  FoundIsThere'
<1> USE BillingConstants
<1>t. job \in [Workers -> Job] /\ sub \in [Subs -> Statuses \cup {"none"}]
  BY DEF Typed, TypeOK
<1>w. ASSUME NEW w \in Workers, At(w, "write")
      PROVE  job[w].event \in Events /\ SubOf[job[w].event] \in Subs
  BY <1>w, <1>t DEF At, Typed, WellFormed, Job
<1>1. ASSUME UNCHANGED <<sub, known>>, NEW x \in Workers,
             \A v \in Workers \ {x} : job'[v] = job[v], job'[x].pc # "write" \/ job'[x].found = FALSE
      PROVE  FoundIsThere'
  BY <1>1 DEF FoundIsThere, At, Target
<1>2. ASSUME NEW e \in Events, NEW w \in Workers, Receive(w, e) PROVE FoundIsThere'
  BY <1>1, <1>2, <1>t DEF Receive
<1>3. ASSUME NEW w \in Workers, FindRow(w) PROVE FoundIsThere'
  <2>1. \A v \in Workers \ {w} : job'[v] = job[v]
    BY <1>3, <1>t DEF FindRow
  <2>2. job'[w].found = (sub[SubOf[job[w].event]] # "none") /\ job'[w].event = job[w].event
    BY <1>3, <1>t DEF FindRow, Job
  <2>3. UNCHANGED <<sub, known>>
    BY <1>3 DEF FindRow, tables
  <2> QED  BY <2>1, <2>2, <2>3 DEF FoundIsThere, At, Target
<1>4. ASSUME NEW w \in Workers, WriteRow(w) PROVE FoundIsThere'
  <2>1. \A s \in Subs : sub[s] # "none" => sub'[s] # "none"
    BY <1>4, <1>t, <1>w DEF WriteRow, At, Statuses
  <2>2. /\ \A v \in Workers \ {w} : job'[v] = job[v]
        /\ job'[w].pc = "tier" /\ known' = known
    BY <1>4, <1>t DEF WriteRow, Goto, Job
  <2> QED  BY <2>1, <2>2, <1>w DEF FoundIsThere, At, Target
<1>5. ASSUME NEW w \in Workers, FindUser(w) \/ WriteRefused(w) \/ SetTier(w) PROVE FoundIsThere'
  <2>1. UNCHANGED <<sub, known>> /\ (\A v \in Workers \ {w} : job'[v] = job[v])
    BY <1>5, <1>t DEF FindUser, WriteRefused, SetTier, Goto, Job, tables
  <2>2. job'[w].pc # "write"
    BY <1>5, <1>t DEF FindUser, WriteRefused, SetTier, Goto, Job, tables, At
  <2> QED  BY <1>1, <2>1, <2>2
<1>6. ASSUME NEW w \in Workers, Done(w) \/ DoneRefused(w) \/ Fail(w) PROVE FoundIsThere'
  <2>1. UNCHANGED <<sub, known>> /\ (\A v \in Workers \ {w} : job'[v] = job[v])
    BY <1>6, <1>t DEF Done, DoneRefused, Fail, Finish, Idle, tables
  <2>2. job'[w].pc # "write"
    BY <1>6, <1>t DEF Done, DoneRefused, Fail, Finish, Idle, tables, At
  <2> QED  BY <1>1, <2>1, <2>2
<1>7. ASSUME NEW w \in Workers, CallFails(w) PROVE FoundIsThere'
  <2>1. UNCHANGED <<sub, known>> /\ (\A v \in Workers \ {w} : job'[v] = job[v])
    BY <1>7, <1>t DEF CallFails, Goto, Finish, Idle, Job, tables
  <2>2. job'[w].pc # "write"
    BY <1>7, <1>t DEF CallFails, Goto, Finish, Idle, Job, tables, At
  <2> QED  BY <1>1, <2>1, <2>2
<1>8. CASE Crash
  BY <1>8 DEF Crash, FoundIsThere, At, Idle
<1>9. ASSUME NEW u \in Users, EraseUser(u) PROVE FoundIsThere'
  <2>1. ASSUME NEW w \in Workers, At(w, "write"), job[w].found, known'[Target(job[w].event)],
               Target(job[w].event) \in Users
        PROVE  sub'[SubOf[job[w].event]] # "none"
    BY <1>9, <2>1, <1>w, <1>t DEF EraseUser, FoundIsThere, Target, Typed, TypeOK
  <2>2. \A w \in Workers : At(w, "write") => Target(job[w].event) \in Users
    BY DEF At, Typed, WellFormed
  <2> QED  BY <1>9, <2>1, <2>2 DEF EraseUser, FoundIsThere, At, Target
<1>10. ASSUME UNCHANGED <<job, sub, known>> PROVE FoundIsThere'
  BY <1>10 DEF FoundIsThere, At, Target
<1>11. ASSUME NEW e \in Events, Duplicate(e) \/ ReceiveFails(e) PROVE FoundIsThere'
  BY <1>10, <1>11 DEF Duplicate, ReceiveFails, tables
<1>12. CASE UNCHANGED vars
  BY <1>10, <1>12 DEF vars, tables
<1> QED
  BY <1>2, <1>3, <1>4, <1>5, <1>6, <1>7, <1>8, <1>9, <1>11, <1>12 DEF Next, Deliver, Handle

LEMMA BackedStep ==
  ASSUME Typed, ProInv, [Next]_vars, faults' = 0, NEW u \in Users \ crossed'
  PROVE  Backed(u)'
<1>0. faults = 0 /\ u \notin crossed
  <2>1. faults \in Nat
    BY BillingConstants DEF Typed, TypeOK
  <2>2. crossed \subseteq crossed'
    BY DEF Next, Deliver, Handle, Receive, Duplicate, ReceiveFails, FindUser, FindRow, WriteRow, WriteRefused,
           SetTier, Done, DoneRefused, Fail, CallFails, Crash, EraseUser, history, vars
  <2>3. faults' \in {faults, faults + 1}
    BY DEF Next, Deliver, Handle, Receive, Duplicate, ReceiveFails, FindUser, FindRow, WriteRow, WriteRefused,
           SetTier, Done, DoneRefused, Fail, CallFails, Crash, EraseUser, vars
  <2> QED  BY <2>1, <2>2, <2>3
<1>1. Backed(u) /\ FoundIsThere
  BY <1>0 DEF ProInv
<1>2. ASSUME NEW e \in Events, NEW w \in Workers, Receive(w, e) PROVE Backed(u)'
  BY <1>1, <1>2, ReceiveKeeps
<1>3. ASSUME NEW w \in Workers,
             FindUser(w) \/ FindRow(w) \/ WriteRefused(w) \/ Done(w) \/ DoneRefused(w) \/ Fail(w)
      PROVE  Backed(u)'
  BY <1>1, <1>3, PassKeeps, StepPasses
<1>4. ASSUME NEW w \in Workers, WriteRow(w) PROVE Backed(u)'
  BY <1>1, <1>4, WriteKeeps
<1>5. ASSUME NEW w \in Workers, SetTier(w) PROVE Backed(u)'
  BY <1>1, <1>5, TierKeeps
<1>6. ASSUME NEW x \in Users, EraseUser(x) PROVE Backed(u)'
  BY <1>1, <1>6, EraseKeeps
<1>7. ASSUME UNCHANGED <<job, tables>> PROVE Backed(u)'
  BY <1>1, <1>7 DEF Backed, Alone, RowWritten, TierBacked, HasLive, On, Busy, At, Target, tables
<1>8. ASSUME NEW e \in Events, Duplicate(e) PROVE Backed(u)'
  BY <1>7, <1>8 DEF Duplicate
<1>9. CASE UNCHANGED vars
  BY <1>7, <1>9 DEF vars
<1>10. (\A e \in Events : ~ReceiveFails(e)) /\ (\A w \in Workers : ~CallFails(w))
  BY <1>0 DEF ReceiveFails, CallFails
<1>11. ~Crash
  BY <1>0 DEF Crash
<1> QED
  BY <1>2, <1>3, <1>4, <1>5, <1>6, <1>8, <1>9, <1>10, <1>11 DEF Next, Deliver, Handle

\* Absent failed calls and events of one user handled at once, nobody is Pro
\* without a live subscription, whatever the order of the events.
THEOREM ProIsBacked == Spec => []ProHasLiveRow
<1>1. Init => ProInv
  BY BillingConstants
  DEF Init, ProInv, FoundIsThere, Backed, Alone, RowWritten, TierBacked, On, Busy, At, Idle
<1>2. Typed /\ ProInv /\ [Next]_vars => ProInv'
  BY FoundStep, BackedStep DEF ProInv
<1>3. ProInv => ProHasLiveRow
  BY DEF ProInv, ProHasLiveRow, Backed, TierBacked, HasLive, Handling, On
<1> QED  BY <1>1, <1>2, <1>3, Typing, PTL DEF Spec

=============================================================================
