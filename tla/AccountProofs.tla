---------------------------- MODULE AccountProofs ----------------------------
(***************************************************************************)
(* Proofs about Account, for any devices, transfers and concurrent         *)
(* requests, any size of the pool and any number of faults.                *)
(***************************************************************************)
EXTENDS Account, TLAPS, FiniteSetTheorems

-----------------------------------------------------------------------------
(* Typing *)

WellFormed(j) ==
    /\ j \in Job
    /\ j.pc # "idle" => j.device \in Devices
    /\ j.pc \in {"create", "complete", "close"} => j.transfer \in Transfers
    /\ j.batch # {} => j.pc = "purge"
    /\ j.out # {} => j.pc \in {"salt", "drop"}

Typed == TypeOK /\ \A r \in Requests : WellFormed(job[r])

LEMMA IdleOK == WellFormed(Idle)
<1>1. {} \in SUBSET Transfers /\ {} \in SUBSET Devices
  OBVIOUS
<1>2. Idle \in Job
  BY <1>1 DEF Idle, Job, PCs, Keys
<1> QED  BY <1>2 DEF WellFormed, Idle

LEMMA TypedInit == Init => Typed
<1> SUFFICES ASSUME Init PROVE Typed
  OBVIOUS
<1>1. /\ NoVault \in [password : Keys, phrase : Keys] /\ {} \in SUBSET Devices
      /\ Nothing \in Keys /\ 0 \in 0..MaxFaults
  BY AccountConstants DEF NoVault, Keys
<1>2. job \in [Requests -> Job] /\ \A r \in Requests : WellFormed(job[r])
  BY IdleOK DEF Init, WellFormed
<1>3. \A r \in Requests : job[r].batch = {} /\ job[r].out = {}
  BY DEF Init, Idle
<1> QED  BY <1>1, <1>2, <1>3 DEF Init, Typed, TypeOK

LEMMA JobSet ==
  ASSUME Typed, NEW r \in Requests, NEW j, WellFormed(j), job' = [job EXCEPT ![r] = j]
  PROVE  job' \in [Requests -> Job] /\ \A v \in Requests : WellFormed(job'[v])
  BY DEF Typed, TypeOK, WellFormed

LEMMA JobEnds ==
  ASSUME Typed, NEW r \in Requests, Finish(r)
  PROVE  job' \in [Requests -> Job] /\ \A v \in Requests : WellFormed(job'[v])
  BY JobSet, IdleOK DEF Finish

\* A request goes on, to a step that is not about one transfer.
LEMMA JobGoto ==
  ASSUME Typed, NEW r \in Requests, job[r].pc # "idle",
         NEW pc \in PCs \ {"idle", "create", "complete", "close"},
         NEW batch \in SUBSET Transfers, NEW out \in SUBSET Devices,
         batch # {} => pc = "purge", out # {} => pc \in {"salt", "drop"},
         job' = [job EXCEPT ![r].pc = pc, ![r].batch = batch, ![r].out = out]
  PROVE  job' \in [Requests -> Job] /\ \A v \in Requests : WellFormed(job'[v])
<1> DEFINE j == [job[r] EXCEPT !.pc = pc, !.batch = batch, !.out = out]
<1>1. WellFormed(j)
  BY DEF Typed, TypeOK, WellFormed, Job
<1>2. job' = [job EXCEPT ![r] = j]
  BY DEF Typed, TypeOK
<1> HIDE DEF j
<1> QED  BY <1>1, <1>2, JobSet

LEMMA JobMoves ==
  ASSUME Typed, NEW r \in Requests, job[r].pc # "idle",
         NEW pc \in PCs \ {"idle", "create", "complete", "close"}, Goto(r, pc),
         job[r].batch # {} => pc = "purge", job[r].out # {} => pc \in {"salt", "drop"}
  PROVE  job' \in [Requests -> Job] /\ \A v \in Requests : WellFormed(job'[v])
<1>1. /\ job[r].batch \in SUBSET Transfers /\ job[r].out \in SUBSET Devices
      /\ job' = [job EXCEPT ![r].pc = pc, ![r].batch = job[r].batch, ![r].out = job[r].out]
  BY DEF Goto, Typed, TypeOK, Job
<1> QED  BY <1>1, JobGoto

\* What a request may begin as.
Starts(j, d) ==
    /\ j.pc \in PCs \ {"idle"}
    /\ j.pc \in {"create", "complete", "close"} => j.transfer \in Transfers
    /\ j.pc \in {"peek", "password", "phrase"} => j.key # Nothing
    /\ j.pc \in {"complete", "password", "phrase"} => j.key = known[d]
    /\ j.pc \in {"create", "complete", "close", "peek", "password", "phrase", "list"}
    /\ j.pc = "close" => j.key = Nothing
    /\ j.batch = {} /\ j.out = {}
    /\ j \in Job

LEMMA ArriveStarts ==
  ASSUME Typed, NEW r \in Requests, NEW d \in Devices, Arrive(r, d)
  PROVE  \E j \in Job : Starts(j, d) /\ Begin(r, d, j)
<1> USE AccountConstants DEF Starts, Idle, Job, PCs, Keys
<1>k. known[d] \in Keys /\ d # Nothing
  BY DEF Typed, TypeOK
<1>1. ASSUME NEW t \in Transfers, Begin(r, d, [Idle EXCEPT !.pc = "create", !.transfer = t])
      PROVE  \E j \in Job : Starts(j, d) /\ Begin(r, d, j)
  BY <1>1
<1>2. ASSUME NEW t \in Transfers,
             Begin(r, d, [Idle EXCEPT !.pc = "complete", !.transfer = t, !.key = known[d]])
      PROVE  \E j \in Job : Starts(j, d) /\ Begin(r, d, j)
  BY <1>2, <1>k
<1>3. ASSUME NEW t \in Transfers, Begin(r, d, [Idle EXCEPT !.pc = "close", !.transfer = t])
      PROVE  \E j \in Job : Starts(j, d) /\ Begin(r, d, j)
  BY <1>3
<1>4. ASSUME Begin(r, d, [Idle EXCEPT !.pc = "peek", !.key = d])
      PROVE  \E j \in Job : Starts(j, d) /\ Begin(r, d, j)
  BY <1>4, <1>k
<1>5. ASSUME NEW pc \in {"password", "phrase"}, known[d] # Nothing,
             Begin(r, d, [Idle EXCEPT !.pc = pc, !.key = known[d]])
      PROVE  \E j \in Job : Starts(j, d) /\ Begin(r, d, j)
  BY <1>5, <1>k
<1>6. ASSUME Begin(r, d, [Idle EXCEPT !.pc = "list"])
      PROVE  \E j \in Job : Starts(j, d) /\ Begin(r, d, j)
  BY <1>6
<1> QED  BY <1>1, <1>2, <1>3, <1>4, <1>5, <1>6 DEF Arrive

LEMMA TypedStep == Typed /\ [Next]_vars => Typed'
<1> SUFFICES ASSUME Typed, [Next]_vars PROVE Typed'
  OBVIOUS
<1> USE AccountConstants
<1>s. job' \in [Requests -> Job] /\ (\A r \in Requests : WellFormed(job'[r]))
        => /\ job' \in [Requests -> Job] /\ \A r \in Requests : WellFormed(job[r])'
           /\ \A r \in Requests : /\ job'[r].batch # {} => job'[r].pc = "purge"
                                  /\ job'[r].out # {} => job'[r].pc \in {"salt", "drop"}
  BY DEF WellFormed
<1>b. ASSUME NEW r \in Requests, job[r].pc # "idle"
      PROVE  /\ job[r].device \in Devices /\ job[r].key \in Keys
             /\ job[r].batch \in SUBSET Transfers /\ job[r].out \in SUBSET Devices
             /\ job[r].pc \in {"create", "complete", "close"} => job[r].transfer \in Transfers
             /\ job[r].batch # {} => job[r].pc = "purge"
             /\ job[r].out # {} => job[r].pc \in {"salt", "drop"}
  BY <1>b DEF Typed, TypeOK, WellFormed, Job
<1>1. ASSUME NEW r \in Requests, NEW d \in Devices, Arrive(r, d) PROVE Typed'
  <2>1. PICK j \in Job : Starts(j, d) /\ Begin(r, d, j)
    BY <1>1, ArriveStarts
  <2> DEFINE i == [j EXCEPT !.device = d]
  <2>2. WellFormed(i)
    BY <2>1 DEF WellFormed, Starts, Job
  <2>3. job' = [job EXCEPT ![r] = i] /\ UNCHANGED <<rows, known, salted, faults>>
    BY <2>1 DEF Begin
  <2> HIDE DEF i
  <2> QED  BY <1>s, <2>2, <2>3, JobSet DEF Typed, TypeOK, rows
<1>2. ASSUME NEW r \in Requests, CreateTransfer(r) PROVE Typed'
  <2>1. job[r].transfer \in Transfers
    BY <1>2, <1>b DEF CreateTransfer, At
  <2>2. transfer' \in [Transfers -> {"none", "live", "closed"}]
    BY <1>2, <2>1 DEF CreateTransfer, Typed, TypeOK
  <2> QED  BY <1>2, <1>s, <2>2, JobEnds DEF CreateTransfer, Typed, TypeOK
<1>3. ASSUME NEW r \in Requests, CompleteTransfer(r) PROVE Typed'
  <2>1. job[r].transfer \in Transfers /\ job[r].key \in Keys
    BY <1>3, <1>b DEF CompleteTransfer, At
  <2>2. wrapped' \in [Transfers -> Keys]
    BY <1>3, <2>1 DEF CompleteTransfer, Typed, TypeOK
  <2> QED  BY <1>3, <1>s, <2>2, JobEnds DEF CompleteTransfer, Typed, TypeOK
<1>4. ASSUME NEW r \in Requests, SoftDelete(r) PROVE Typed'
  <2>1. job[r].pc # "idle" /\ job[r].transfer \in Transfers
    BY <1>4, <1>b DEF SoftDelete, At
  <2>2. transfer' \in [Transfers -> {"none", "live", "closed"}]
    BY <1>4, <2>1 DEF SoftDelete, Typed, TypeOK
  <2>3. job' \in [Requests -> Job] /\ \A v \in Requests : WellFormed(job'[v])
    BY <1>4, <1>b, <2>1, JobEnds, JobMoves DEF SoftDelete, At, PCs
  <2> QED  BY <1>4, <1>s, <2>2, <2>3 DEF SoftDelete, Typed, TypeOK
<1>5. ASSUME NEW r \in Requests, PeekVault(r) PROVE Typed'
  <2>1. job[r].pc # "idle"
    BY <1>5 DEF PeekVault, At
  <2>2. job' \in [Requests -> Job] /\ \A v \in Requests : WellFormed(job'[v])
    BY <1>5, <1>b, <2>1, JobEnds, JobMoves DEF PeekVault, At, PCs
  <2> QED  BY <1>5, <1>s, <2>2 DEF PeekVault, Typed, TypeOK, rows
<1>6. ASSUME NEW r \in Requests, InsertVault(r) \/ RewrapPassword(r) \/ RewrapPhrase(r) PROVE Typed'
  <2>1. /\ job[r].pc # "idle" /\ job[r].key \in Keys
        /\ job[r].batch = {} /\ job[r].out = {}
    BY <1>6, <1>b DEF InsertVault, RewrapPassword, RewrapPhrase, At
  <2>2. vault' \in [password : Keys, phrase : Keys]
    BY <1>6, <2>1 DEF InsertVault, RewrapPassword, RewrapPhrase, Typed, TypeOK
  <2>3. Finish(r) \/ Goto(r, "log")
    BY <1>6 DEF InsertVault, RewrapPassword, RewrapPhrase
  <2>4. job' \in [Requests -> Job] /\ \A v \in Requests : WellFormed(job'[v])
    BY <2>1, <2>3, JobEnds, JobMoves DEF PCs
  <2> QED  BY <1>6, <1>s, <2>2, <2>4 DEF InsertVault, RewrapPassword, RewrapPhrase, Typed, TypeOK
<1>7. ASSUME NEW r \in Requests, LogEvent(r) PROVE Typed'
  <2>1. job[r].device \in Devices /\ job[r].key \in Keys
    BY <1>7, <1>b DEF LogEvent, At
  <2>2. known' \in [Devices -> Keys]
    BY <1>7, <2>1 DEF LogEvent, Typed, TypeOK
  <2> QED  BY <1>7, <1>s, <2>2, JobEnds DEF LogEvent, Typed, TypeOK, rows
<1>8. ASSUME NEW r \in Requests, ListOwned(r) PROVE Typed'
  <2> DEFINE live == {t \in Transfers : transfer[t] = "live"}
  <2>1. job[r].pc # "idle" /\ job[r].out = {} /\ {} \in SUBSET Devices /\ live \in SUBSET Transfers
    BY <1>8, <1>b DEF ListOwned, At
  <2>2. job' = [job EXCEPT ![r].pc = "purge", ![r].batch = live, ![r].out = job[r].out]
    BY <1>8 DEF ListOwned, Typed, TypeOK, Job
  <2> HIDE DEF live
  <2>3. job' \in [Requests -> Job] /\ \A v \in Requests : WellFormed(job'[v])
    BY <2>1, <2>2, JobGoto DEF PCs
  <2> QED  BY <1>8, <1>s, <2>3 DEF ListOwned, Typed, TypeOK, rows
<1>9. ASSUME NEW r \in Requests, NEW t \in Transfers, job[r].pc # "idle", job[r].pc = "purge",
             job' = [job EXCEPT ![r].batch = @ \ {t}]
      PROVE  job' \in [Requests -> Job] /\ \A v \in Requests : WellFormed(job'[v])
  <2> DEFINE rest == job[r].batch \ {t}
  <2>0. job[r].pc # "idle"
    BY <1>9
  <2>1. job[r].out = {} /\ {} \in SUBSET Devices /\ rest \in SUBSET Transfers
    BY <1>9, <1>b
  <2>2. job' = [job EXCEPT ![r].pc = "purge", ![r].batch = rest, ![r].out = job[r].out]
    BY <1>9 DEF Typed, TypeOK, Job
  <2> HIDE DEF rest
  <2> QED  BY <2>0, <2>1, <2>2, JobGoto DEF PCs
<1>10. ASSUME NEW r \in Requests, PurgeOwned(r) PROVE Typed'
  <2>1. PICK t \in job[r].batch :
          /\ IF HasRow(t) THEN Removed(t) ELSE UNCHANGED <<transfer, wrapped>>
          /\ job' = [job EXCEPT ![r].batch = @ \ {t}]
    BY <1>10 DEF PurgeOwned
  <2>2. t \in Transfers /\ job[r].pc = "purge"
    BY <1>10, <1>b DEF PurgeOwned, At
  <2>3. /\ transfer' \in [Transfers -> {"none", "live", "closed"}]
        /\ wrapped' \in [Transfers -> Keys]
    BY <2>1, <2>2 DEF Removed, Typed, TypeOK, Keys
  <2> QED  BY <1>10, <1>s, <1>9, <2>1, <2>2, <2>3 DEF PurgeOwned, Typed, TypeOK
<1>11. ASSUME NEW r \in Requests, PurgeThrows(r) PROVE Typed'
  <2>1. PICK t \in job[r].batch : job' = [job EXCEPT ![r].batch = @ \ {t}]
    BY <1>11 DEF PurgeThrows
  <2>2. t \in Transfers /\ job[r].pc = "purge"
    BY <1>11, <1>b DEF PurgeThrows, At
  <2>3. faults' \in 0..MaxFaults
    BY <1>11 DEF PurgeThrows, Typed, TypeOK
  <2> QED  BY <1>11, <1>s, <1>9, <2>1, <2>2, <2>3 DEF PurgeThrows, Typed, TypeOK, rows
<1>12. ASSUME NEW r \in Requests, AllPurged(r) \/ OpenTransaction(r) PROVE Typed'
  <2>1. /\ job[r].pc # "idle" /\ (Goto(r, "open") \/ Goto(r, "cascade"))
        /\ job[r].batch = {} /\ job[r].out = {}
    BY <1>12, <1>b DEF AllPurged, OpenTransaction, At
  <2>2. job' \in [Requests -> Job] /\ \A v \in Requests : WellFormed(job'[v])
    BY <2>1, JobMoves DEF PCs
  <2> QED  BY <1>12, <1>s, <2>2 DEF AllPurged, OpenTransaction, Typed, TypeOK, rows
<1>13. ASSUME NEW r \in Requests, Cascade(r) PROVE Typed'
  <2>1. job[r].pc # "idle" /\ job[r].batch = {} /\ {} \in SUBSET Transfers /\ session \in SUBSET Devices
    BY <1>13, <1>b DEF Cascade, At, Typed, TypeOK
  <2>2. job' = [job EXCEPT ![r].pc = "salt", ![r].batch = job[r].batch, ![r].out = session]
    BY <1>13 DEF Cascade, Typed, TypeOK, Job
  <2>3. job' \in [Requests -> Job] /\ \A v \in Requests : WellFormed(job'[v])
    BY <2>1, <2>2, JobGoto DEF PCs
  <2> QED  BY <1>13, <1>s, <2>3 DEF Cascade, Typed, TypeOK, rows
<1>14. ASSUME NEW r \in Requests, ReadSalt(r) PROVE Typed'
  <2>1. job[r].pc # "idle"
    BY <1>14 DEF ReadSalt, At
  <2>2. job' \in [Requests -> Job] /\ \A v \in Requests : WellFormed(job'[v])
    BY <1>14, <1>b, <2>1, JobMoves DEF ReadSalt, At, PCs
  <2> QED  BY <1>14, <1>s, <2>2 DEF ReadSalt, Typed, TypeOK, rows
<1>15. ASSUME NEW r \in Requests, DropUser(r) PROVE Typed'
  <2>1. user' \in BOOLEAN /\ session' \in SUBSET Devices /\ vault' \in [password : Keys, phrase : Keys]
    <3>1. NoVault \in [password : Keys, phrase : Keys] /\ {} \in SUBSET Devices
      BY DEF NoVault, Keys
    <3> QED  BY <1>15, <3>1 DEF DropUser, Typed, TypeOK
  <2> QED  BY <1>15, <1>s, <2>1, JobEnds DEF DropUser, Typed, TypeOK
<1>16. ASSUME NEW r \in Requests, CallFails(r) PROVE Typed'
  <2>1. faults' \in 0..MaxFaults
    BY <1>16 DEF CallFails, Typed, TypeOK
  <2> QED  BY <1>16, <1>s, <2>1, JobEnds DEF CallFails, Typed, TypeOK, rows
<1>17. ASSUME NEW d \in Devices, SignIn(d) PROVE Typed'
  <2>1. session' \in SUBSET Devices
    BY <1>17 DEF SignIn, Typed, TypeOK
  <2>2. ASSUME NEW r \in Requests PROVE WellFormed([job[r] EXCEPT !.out = @ \ {d}])
    <3> DEFINE out == job[r].out \ {d}
    <3>1. out \in SUBSET Devices /\ (out # {} => job[r].pc \in {"salt", "drop"})
      BY DEF Typed, TypeOK, Job
    <3>2. [job[r] EXCEPT !.out = @ \ {d}] = [job[r] EXCEPT !.out = out]
      BY DEF Typed, TypeOK, Job
    <3> HIDE DEF out
    <3> QED  BY <3>1, <3>2 DEF Typed, TypeOK, WellFormed, Job
  <2>3. job' \in [Requests -> Job] /\ \A v \in Requests : WellFormed(job'[v])
    BY <1>17, <2>2 DEF SignIn, WellFormed
  <2> QED  BY <1>17, <1>s, <2>1, <2>3 DEF SignIn, Typed, TypeOK
<1>22. ASSUME NEW d \in Devices, ReadVault(d) PROVE Typed'
  <2>1. known' \in [Devices -> Keys]
    BY <1>22 DEF ReadVault, Typed, TypeOK, rows
  <2> QED  BY <1>22, <2>1 DEF ReadVault, Typed, TypeOK, WellFormed, rows
<1>18. ASSUME NEW t \in Transfers, Sweep(t) PROVE Typed'
  <2>1. /\ transfer' \in [Transfers -> {"none", "live", "closed"}]
        /\ wrapped' \in [Transfers -> Keys]
    BY <1>18 DEF Sweep, Removed, Typed, TypeOK, Keys
  <2> QED  BY <1>18, <2>1 DEF Sweep, Typed, TypeOK, WellFormed
<1>19. ASSUME SaltCacheEnds PROVE Typed'
  BY <1>19 DEF SaltCacheEnds, Typed, TypeOK, WellFormed, rows
<1>20. ASSUME Crash PROVE Typed'
  <2>1. faults' \in 0..MaxFaults
    BY <1>20 DEF Crash, Typed, TypeOK
  <2>2. job' \in [Requests -> Job] /\ \A v \in Requests : WellFormed(job'[v])
    BY <1>20, IdleOK DEF Crash, WellFormed
  <2> QED  BY <1>20, <1>s, <2>1, <2>2 DEF Crash, Typed, TypeOK, rows
<1>21. ASSUME UNCHANGED vars PROVE Typed'
  BY <1>21 DEF vars, rows, Typed, TypeOK, WellFormed
<1> QED  BY <1>1, <1>2, <1>3, <1>4, <1>5, <1>6, <1>7, <1>8, <1>10, <1>11, <1>12, <1>13, <1>14, <1>15,
            <1>16, <1>17, <1>18, <1>19, <1>20, <1>21, <1>22 DEF Next, Handle, Erase

LEMMA Typing == Spec => []Typed
  BY TypedInit, TypedStep, PTL DEF Spec

\* Every request only ever stands at a step its handler has, for a device and a
\* transfer of this user; an erasure opens its transaction with every transfer of its
\* list purged or given up (vault.routes.ts:58-268, users.ts:65-116).
THEOREM AccountTypes == Spec => []TypeOK
<1>1. Typed => TypeOK
  BY DEF Typed
<1> QED  BY <1>1, Typing, PTL

-----------------------------------------------------------------------------
(* Nothing of an erased account is left *)

LEMMA ErasedInit == Init => ErasedLeavesNothing
  BY DEF Init, ErasedLeavesNothing

LEMMA ErasedStep == Typed /\ ErasedLeavesNothing /\ [Next]_vars => ErasedLeavesNothing'
<1> SUFFICES ASSUME Typed, ErasedLeavesNothing, [Next]_vars PROVE ErasedLeavesNothing'
  OBVIOUS
<1>n. user \in BOOLEAN /\ \A t \in Transfers : transfer[t] \in {"none", "live", "closed"}
  BY DEF Typed, TypeOK
<1>s. ASSUME UNCHANGED <<user, session, vault>>, \A t \in Transfers : ~user /\ HasRow(t)' => HasRow(t)
      PROVE  ErasedLeavesNothing'
  BY <1>s DEF ErasedLeavesNothing
<1>1. ASSUME NEW r \in Requests, CreateTransfer(r) PROVE ErasedLeavesNothing'
  BY <1>1, <1>s DEF CreateTransfer, HasRow
<1>2. ASSUME NEW r \in Requests, SoftDelete(r) PROVE ErasedLeavesNothing'
  BY <1>2, <1>s DEF SoftDelete, HasRow, Typed, TypeOK
<1>3. ASSUME NEW r \in Requests, InsertVault(r) PROVE ErasedLeavesNothing'
  BY <1>3 DEF InsertVault, ErasedLeavesNothing, HasRow
<1>4. ASSUME NEW r \in Requests, RewrapPassword(r) \/ RewrapPhrase(r) PROVE ErasedLeavesNothing'
  BY <1>4 DEF RewrapPassword, RewrapPhrase, ErasedLeavesNothing, HasRow
<1>5. ASSUME NEW r \in Requests, DropUser(r) PROVE ErasedLeavesNothing'
  <2>1. CASE Referring(r) = {}
    <3>1. \A t \in Transfers : ~HasRow(t)
      BY <2>1 DEF Referring
    <3>2. session' = {} /\ vault' = NoVault /\ UNCHANGED transfer
      BY <1>5, <2>1 DEF DropUser
    <3> QED  BY <3>1, <3>2 DEF ErasedLeavesNothing, HasRow
  <2>2. CASE Referring(r) # {}
    BY <1>5, <2>2, <1>s DEF DropUser, HasRow
  <2> QED  BY <2>1, <2>2
<1>6. ASSUME NEW t \in Transfers, Removed(t), UNCHANGED <<user, session, vault>>
      PROVE  ErasedLeavesNothing'
  BY <1>6, <1>s DEF Removed, HasRow, Typed, TypeOK
<1>7. ASSUME NEW r \in Requests, PurgeOwned(r) PROVE ErasedLeavesNothing'
  <2>1. PICK t \in job[r].batch : IF HasRow(t) THEN Removed(t) ELSE UNCHANGED <<transfer, wrapped>>
    BY <1>7 DEF PurgeOwned
  <2>2. t \in Transfers
    BY DEF Typed, TypeOK, Job
  <2>3. UNCHANGED <<user, session, vault>>
    BY <1>7 DEF PurgeOwned
  <2> QED  BY <1>6, <1>s, <2>1, <2>2, <2>3 DEF HasRow
<1>8. ASSUME NEW d \in Devices, SignIn(d) PROVE ErasedLeavesNothing'
  BY <1>8 DEF SignIn, ErasedLeavesNothing, HasRow
<1>9. ASSUME UNCHANGED <<user, session, vault, transfer>> PROVE ErasedLeavesNothing'
  BY <1>9 DEF ErasedLeavesNothing, HasRow
<1>10. ASSUME NEW r \in Requests, Handle(r) PROVE ErasedLeavesNothing'
  BY <1>10, <1>1, <1>2, <1>3, <1>4, <1>5, <1>7, <1>9
     DEF Handle, Erase, CompleteTransfer, PeekVault, LogEvent, ListOwned, AllPurged, OpenTransaction,
         Cascade, ReadSalt, rows
<1>11. ASSUME NEW t \in Transfers, Sweep(t) PROVE ErasedLeavesNothing'
  BY <1>11, <1>6 DEF Sweep
<1>12. ASSUME NEW r \in Requests, NEW d \in Devices, Arrive(r, d) PROVE ErasedLeavesNothing'
  BY <1>12, <1>9 DEF Arrive, Begin, rows
<1>13. ASSUME NEW r \in Requests, PurgeThrows(r) \/ CallFails(r) PROVE ErasedLeavesNothing'
  BY <1>13, <1>9 DEF PurgeThrows, CallFails, rows
<1>14. ASSUME NEW d \in Devices, ReadVault(d) PROVE ErasedLeavesNothing'
  BY <1>14, <1>9 DEF ReadVault, rows
<1>15. ASSUME SaltCacheEnds \/ Crash \/ UNCHANGED vars PROVE ErasedLeavesNothing'
  BY <1>15, <1>9 DEF SaltCacheEnds, Crash, vars, rows
<1> QED  BY <1>8, <1>10, <1>11, <1>12, <1>13, <1>14, <1>15 DEF Next

\* When the row of `users` goes, no session, transfer or vault row is left, and
\* none of the requests still running brings one back (users.ts:84-115).
THEOREM ErasureComplete == Spec => []ErasedLeavesNothing
  BY ErasedInit, ErasedStep, Typing, PTL DEF Spec

-----------------------------------------------------------------------------
(* One key opens everything *)

Holds(k) == k = Nothing \/ k = vault.password

\* A wrapped key lives with its row; whatever a request or a device holds is
\* nothing or the one key of the vault, unless it is a setup still to be tried.
KeysInv ==
    /\ \A t \in Transfers : wrapped[t] # Nothing => HasRow(t)
    /\ \A r \in Requests :
           job[r].pc \in {"peek", "setup", "password", "phrase"} => job[r].key # Nothing
    /\ user =>
           /\ vault.phrase = vault.password
           /\ \A d \in Devices : Holds(known[d])
           /\ \A t \in Transfers : Holds(wrapped[t])
           /\ \A r \in Requests :
                  job[r].pc \in {"complete", "close", "password", "phrase", "log"} => Holds(job[r].key)

LEMMA KeysInit == Init => KeysInv
  BY DEF Init, KeysInv, Holds, NoVault, Idle, HasRow

\* Nobody's key changes, and a request that moves on keeps the one it has.
KeepsKeys ==
    /\ UNCHANGED <<vault, known>>
    /\ user' => user
    /\ \A t \in Transfers :
           wrapped'[t] = Nothing \/ (wrapped'[t] = wrapped[t] /\ (HasRow(t) => HasRow(t)'))
    /\ \A r \in Requests :
           /\ job'[r].pc \in {"peek", "setup", "password", "phrase"} => job'[r].key # Nothing
           /\ user /\ job'[r].pc \in {"complete", "close", "password", "phrase", "log"}
                => Holds(job'[r].key)

LEMMA KeepsKeysInv ==
  ASSUME KeysInv, KeepsKeys PROVE KeysInv'
  BY DEF KeysInv, KeepsKeys, Holds, HasRow

Keyless == PCs \ {"peek", "setup", "complete", "close", "password", "phrase", "log"}

\* One request goes on to a step without a key, and the others stay where they are.
Quiet(r) ==
    /\ job'[r].pc \in Keyless
    /\ \A v \in Requests \ {r} : job'[v] = job[v]

LEMMA QuietKeeps ==
  ASSUME KeysInv, NEW r \in Requests, Quiet(r), UNCHANGED <<vault, known, wrapped>>, user' => user,
         \A t \in Transfers : HasRow(t) => HasRow(t)'
  PROVE  KeysInv'
<1>1. KeepsKeys
  BY DEF Quiet, KeepsKeys, KeysInv, Holds, Keyless
<1> QED  BY <1>1, KeepsKeysInv

LEMMA FinishQuiet ==
  ASSUME Typed, NEW r \in Requests, Finish(r) PROVE Quiet(r)
  BY DEF Finish, Quiet, Idle, Keyless, PCs, Typed, TypeOK

LEMMA GotoQuiet ==
  ASSUME Typed, NEW r \in Requests, NEW pc \in Keyless, Goto(r, pc)
  PROVE  Quiet(r)
  BY DEF Goto, Quiet, Typed, TypeOK, Job

LEMMA KeysStep == Typed /\ ErasedLeavesNothing /\ KeysInv /\ [Next]_vars => KeysInv'
<1> SUFFICES ASSUME Typed, ErasedLeavesNothing, KeysInv, [Next]_vars PROVE KeysInv'
  OBVIOUS
<1>v. UNCHANGED transfer => \A t \in Transfers : HasRow(t) => HasRow(t)'
  BY DEF HasRow
<1>1. ASSUME NEW r \in Requests, NEW d \in Devices, Arrive(r, d) PROVE KeysInv'
  <2>1. PICK j \in Job : Starts(j, d) /\ Begin(r, d, j)
    BY <1>1, ArriveStarts
  <2>2. /\ job'[r].pc = j.pc /\ job'[r].key = j.key
        /\ \A v \in Requests \ {r} : job'[v] = job[v]
    BY <2>1 DEF Begin, Typed, TypeOK, Job
  <2>3. user => Holds(known[d])
    BY DEF KeysInv
  <2>4. KeepsKeys
    BY <2>1, <2>2, <2>3, <1>v DEF Begin, Starts, KeepsKeys, KeysInv, Holds, rows
  <2> QED  BY <2>4, KeepsKeysInv
<1>2. ASSUME NEW r \in Requests, CreateTransfer(r) PROVE KeysInv'
  <2>1. \A t \in Transfers : HasRow(t) => HasRow(t)'
    BY <1>2 DEF CreateTransfer, HasRow, Typed, TypeOK
  <2> QED  BY <1>2, <2>1, FinishQuiet, QuietKeeps DEF CreateTransfer
<1>3. ASSUME NEW r \in Requests, CompleteTransfer(r) PROVE KeysInv'
  <2>1. Quiet(r) /\ (user => Holds(job[r].key)) /\ job[r].transfer \in Transfers
    BY <1>3, FinishQuiet DEF CompleteTransfer, At, KeysInv, Typed, WellFormed
  <2>2. \A t \in Transfers : wrapped'[t] # Nothing => HasRow(t)' /\ (user => Holds(wrapped'[t]))
    BY <1>3, <2>1 DEF CompleteTransfer, KeysInv, HasRow, Holds, Typed, TypeOK
  <2> QED  BY <1>3, <2>1, <2>2 DEF CompleteTransfer, Quiet, Keyless, KeysInv, Holds
<1>4. ASSUME NEW r \in Requests, SoftDelete(r) PROVE KeysInv'
  <2>1. /\ job'[r].pc \in {"log", "idle"} /\ (job'[r].pc = "log" => job'[r].key = job[r].key)
        /\ \A v \in Requests \ {r} : job'[v] = job[v]
    BY <1>4 DEF SoftDelete, Finish, Goto, Idle, Typed, TypeOK, Job
  <2>2. \A t \in Transfers : HasRow(t) => HasRow(t)'
    BY <1>4 DEF SoftDelete, HasRow, Typed, TypeOK
  <2>3. KeepsKeys
    BY <1>4, <2>1, <2>2 DEF SoftDelete, At, KeepsKeys, KeysInv
  <2> QED  BY <2>3, KeepsKeysInv
<1>5. ASSUME NEW r \in Requests, PeekVault(r) PROVE KeysInv'
  <2>1. /\ job'[r].pc \in {"setup", "idle"} /\ (job'[r].pc = "setup" => job'[r].key = job[r].key)
        /\ \A v \in Requests \ {r} : job'[v] = job[v]
    BY <1>5 DEF PeekVault, Finish, Goto, Idle, Typed, TypeOK, Job
  <2>2. KeepsKeys
    BY <1>5, <2>1, <1>v DEF PeekVault, At, KeepsKeys, KeysInv, rows
  <2> QED  BY <2>2, KeepsKeysInv
<1>6. ASSUME NEW r \in Requests, InsertVault(r) PROVE KeysInv'
  <2>1. CASE user /\ vault = NoVault
    <3>1. /\ job'[r].pc = "log" /\ job'[r].key = job[r].key
          /\ \A v \in Requests \ {r} : job'[v] = job[v]
      BY <1>6, <2>1 DEF InsertVault, Goto, Typed, TypeOK, Job
    <3>2. /\ vault'.password = job[r].key /\ vault'.phrase = job[r].key
          /\ UNCHANGED <<user, known, wrapped, transfer>>
      BY <1>6, <2>1 DEF InsertVault
    <3>3. /\ vault.password = Nothing
          /\ \A d \in Devices : known[d] = Nothing
          /\ \A t \in Transfers : wrapped[t] = Nothing
          /\ \A v \in Requests :
                 job[v].pc \in {"complete", "close", "password", "phrase", "log"} => job[v].key = Nothing
      BY <2>1 DEF KeysInv, Holds, NoVault
    <3> QED  BY <3>1, <3>2, <3>3, <1>v DEF KeysInv, Holds
  <2>2. CASE ~(user /\ vault = NoVault)
    BY <1>6, <2>2, <1>v, FinishQuiet, QuietKeeps DEF InsertVault
  <2> QED  BY <2>1, <2>2
<1>7. ASSUME NEW r \in Requests, RewrapPassword(r) \/ RewrapPhrase(r) PROVE KeysInv'
  <2>1. CASE vault # NoVault
    <3>1. user /\ job[r].key = vault.password /\ vault.phrase = vault.password
      BY <1>7, <2>1 DEF RewrapPassword, RewrapPhrase, At, ErasedLeavesNothing, KeysInv, Holds
    <3>2. UNCHANGED vault
      <4>1. vault \in [password : Keys, phrase : Keys]
        BY DEF Typed, TypeOK
      <4>2. [vault EXCEPT !.password = job[r].key] = vault /\ [vault EXCEPT !.phrase = job[r].key] = vault
        BY <3>1, <4>1
      <4> QED  BY <1>7, <2>1, <4>2 DEF RewrapPassword, RewrapPhrase
    <3>3. /\ job'[r].pc = "log" /\ job'[r].key = job[r].key
          /\ \A v \in Requests \ {r} : job'[v] = job[v]
      BY <1>7, <2>1 DEF RewrapPassword, RewrapPhrase, Goto, Typed, TypeOK, Job
    <3>4. KeepsKeys
      BY <1>7, <1>v, <3>1, <3>2, <3>3 DEF RewrapPassword, RewrapPhrase, KeepsKeys, KeysInv, Holds
    <3> QED  BY <3>4, KeepsKeysInv
  <2>2. CASE vault = NoVault
    BY <1>7, <2>2, <1>v, FinishQuiet, QuietKeeps DEF RewrapPassword, RewrapPhrase
  <2> QED  BY <2>1, <2>2
<1>8. ASSUME NEW r \in Requests, LogEvent(r) PROVE KeysInv'
  <2>1. Quiet(r) /\ (user => Holds(job[r].key)) /\ UNCHANGED rows
    BY <1>8, FinishQuiet DEF LogEvent, At, KeysInv
  <2>2. \A d \in Devices : user => Holds(known'[d])
    BY <1>8, <2>1 DEF LogEvent, KeysInv, Typed, TypeOK
  <2> QED  BY <2>1, <2>2, <1>v DEF Quiet, Keyless, KeysInv, Holds, rows
<1>9. ASSUME NEW r \in Requests, ListOwned(r) \/ Cascade(r) PROVE KeysInv'
  <2>1. Quiet(r)
    BY <1>9 DEF ListOwned, Cascade, Quiet, Keyless, PCs, Typed, TypeOK, Job
  <2> QED  BY <1>9, <2>1, <1>v, QuietKeeps DEF ListOwned, Cascade, rows
<1>10. ASSUME NEW t \in Transfers, Removed(t) \/ UNCHANGED <<transfer, wrapped>>,
              UNCHANGED <<user, vault, known>>,
              \A v \in Requests : job'[v].pc = job[v].pc /\ job'[v].key = job[v].key
       PROVE  KeysInv'
  <2>1. \A u \in Transfers :
          wrapped'[u] = Nothing \/ (wrapped'[u] = wrapped[u] /\ (HasRow(u) => HasRow(u)'))
    BY <1>10 DEF Removed, HasRow, Typed, TypeOK
  <2>2. KeepsKeys
    BY <1>10, <2>1 DEF KeepsKeys, KeysInv
  <2> QED  BY <2>2, KeepsKeysInv
<1>11. ASSUME NEW r \in Requests, PurgeOwned(r) \/ PurgeThrows(r) PROVE KeysInv'
  <2>1. PICK t \in job[r].batch :
          /\ Removed(t) \/ UNCHANGED <<transfer, wrapped>>
          /\ job' = [job EXCEPT ![r].batch = @ \ {t}]
    BY <1>11 DEF PurgeOwned, PurgeThrows, rows
  <2>2. t \in Transfers /\ \A v \in Requests : job'[v].pc = job[v].pc /\ job'[v].key = job[v].key
    BY <2>1 DEF Typed, TypeOK, Job
  <2>3. UNCHANGED <<user, vault, known>>
    BY <1>11 DEF PurgeOwned, PurgeThrows, rows
  <2> QED  BY <1>10, <2>1, <2>2, <2>3
<1>12. ASSUME NEW r \in Requests, AllPurged(r) \/ OpenTransaction(r) \/ ReadSalt(r) PROVE KeysInv'
  <2>1. Quiet(r)
    BY <1>12, GotoQuiet DEF AllPurged, OpenTransaction, ReadSalt, Keyless, PCs
  <2> QED  BY <1>12, <2>1, <1>v, QuietKeeps DEF AllPurged, OpenTransaction, ReadSalt, rows
<1>13. ASSUME NEW r \in Requests, DropUser(r) PROVE KeysInv'
  <2>1. Quiet(r) /\ UNCHANGED <<transfer, wrapped, known>>
    BY <1>13, FinishQuiet DEF DropUser
  <2>2. CASE Referring(r) = {}
    BY <1>13, <2>1, <2>2, <1>v DEF DropUser, Quiet, Keyless, KeysInv
  <2>3. CASE Referring(r) # {}
    BY <1>13, <2>1, <2>3, <1>v, QuietKeeps DEF DropUser
  <2> QED  BY <2>2, <2>3
<1>14. ASSUME NEW r \in Requests, CallFails(r) PROVE KeysInv'
  BY <1>14, <1>v, FinishQuiet, QuietKeeps DEF CallFails, rows
<1>15. ASSUME NEW t \in Transfers, Sweep(t) PROVE KeysInv'
  BY <1>15, <1>10 DEF Sweep
<1>16. ASSUME NEW d \in Devices, ReadVault(d) PROVE KeysInv'
  <2>1. PICK wrap \in {vault.password, vault.phrase} : known' = [known EXCEPT ![d] = wrap]
    BY <1>16 DEF ReadVault
  <2>2. \A e \in Devices : user => Holds(known'[e])
    BY <1>16, <2>1 DEF KeysInv, Holds, Typed, TypeOK
  <2> QED  BY <1>16, <2>2, <1>v DEF ReadVault, KeysInv, Holds, rows
<1>17. ASSUME NEW d \in Devices, SignIn(d) PROVE KeysInv'
  <2>1. \A v \in Requests : job'[v].pc = job[v].pc /\ job'[v].key = job[v].key
    BY <1>17 DEF SignIn, Typed, TypeOK, Job
  <2> QED  BY <1>17, <2>1, <1>v DEF SignIn, KeysInv, Holds
<1>18. ASSUME SaltCacheEnds \/ UNCHANGED vars PROVE KeysInv'
  BY <1>18, <1>v DEF SaltCacheEnds, vars, KeysInv, Holds, rows
<1>19. ASSUME Crash PROVE KeysInv'
  <2>1. \A v \in Requests : job'[v].pc = "idle"
    BY <1>19 DEF Crash, Idle
  <2> QED  BY <1>19, <2>1, <1>v DEF Crash, KeysInv, Holds, rows
<1> QED  BY <1>1, <1>2, <1>3, <1>4, <1>5, <1>6, <1>7, <1>8, <1>9, <1>11, <1>12, <1>13, <1>14, <1>15,
            <1>16, <1>17, <1>18, <1>19 DEF Next, Handle, Erase

\* Whatever setups, password changes and phrase changes race with each other and with
\* an erasure, everything the user has wrapped opens with one key
\* (vault.service.ts:49-131).
THEOREM OneKey == Spec => []KeysOpen
<1>1. Typed /\ ErasedLeavesNothing /\ KeysInv => KeysOpen
  <2> SUFFICES ASSUME Typed, ErasedLeavesNothing, KeysInv PROVE KeysOpen
    OBVIOUS
  <2>1. CASE user
    BY <2>1 DEF KeysInv, KeysOpen, Holds
  <2>2. CASE ~user
    BY <2>2 DEF ErasedLeavesNothing, NoVault, KeysInv, KeysOpen
  <2> QED  BY <2>1, <2>2
<1> QED  BY <1>1, Typing, ErasedInit, ErasedStep, KeysInit, KeysStep, PTL DEF Spec

-----------------------------------------------------------------------------
(* Waiting *)

\* The calls that take a connection of their own from the pool.
Statements == PCs \ {"idle", "purge", "cascade", "salt", "drop"}

\* What a request waits for: a connection, or the row locks of another erasure.
Waits(r) ==
    \/ job[r].pc \in Statements /\ ~Connection
    \/ At(r, "purge") /\ job[r].batch # {} /\ ~Connection
    \/ At(r, "cascade") /\ Locking # {}
    \/ At(r, "salt") /\ ~salted /\ ~Connection

\* Open transactions never exceed the pool, and one at most has the row locks: two
\* erasures of the account never delete under each other (users.ts:84-115).
ErasuresExclude ==
    /\ Cardinality(InTransaction) <= PoolSize
    /\ \A r, q \in Locking : r = q

\* Requests never all wait, for the pool or for each other, but when they are jammed
\* (users.ts:84 and 100, saltService.ts:55).
OnlyJamsBlock ==
    (\E r \in Requests : ~At(r, "idle")) /\ (\A r \in Requests : At(r, "idle") \/ Waits(r)) => Jammed

\* And a jam is for ever, unless a call fails or the process restarts: no timeout is
\* set, and no request that could end it gets a connection (users.ts:84 and 100).
JamStays == [][Jammed /\ faults' = faults => Jammed']_vars

LEMMA Counting ==
  ASSUME NEW S \in SUBSET Requests
  PROVE  IsFiniteSet(S) /\ Cardinality(S) \in Nat
  BY AccountConstants, FS_Subset, FS_CardinalityType

\* A step after which nobody is in a transaction, or has its locks, who was not before.
LEMMA FewerTransactions ==
  ASSUME ErasuresExclude,
         \A v \in Requests : /\ job'[v].pc \in {"cascade", "salt", "drop"} => job[v].pc \in {"cascade", "salt", "drop"}
                             /\ job'[v].pc \in {"salt", "drop"} => job[v].pc \in {"salt", "drop"}
  PROVE  ErasuresExclude'
<1>1. InTransaction' \in SUBSET InTransaction /\ Locking' \subseteq Locking
  BY DEF InTransaction, Locking
<1>2. InTransaction \in SUBSET Requests /\ InTransaction' \in SUBSET Requests
  BY DEF InTransaction
<1>3. /\ Cardinality(InTransaction') <= Cardinality(InTransaction)
      /\ Cardinality(InTransaction') \in Nat /\ Cardinality(InTransaction) \in Nat
  BY <1>1, <1>2, Counting, FS_Subset
<1>4. Cardinality(InTransaction') <= PoolSize
  BY <1>3, AccountConstants DEF ErasuresExclude
<1> QED  BY <1>1, <1>4 DEF ErasuresExclude

\* A request that is in no transaction after its step.
LEMMA StaysOut ==
  ASSUME Typed, ErasuresExclude, NEW r \in Requests,
         \A v \in Requests \ {r} : job'[v] = job[v],
         job'[r].pc \notin {"cascade", "salt", "drop"}
  PROVE  ErasuresExclude'
  BY FewerTransactions

LEMMA GotoPc ==
  ASSUME Typed, NEW r \in Requests, NEW pc, Goto(r, pc)
  PROVE  job'[r].pc = pc /\ \A v \in Requests \ {r} : job'[v] = job[v]
  BY DEF Goto, Typed, TypeOK, Job

LEMMA FinishPc ==
  ASSUME Typed, NEW r \in Requests, Finish(r)
  PROVE  job'[r].pc = "idle" /\ \A v \in Requests \ {r} : job'[v] = job[v]
  BY DEF Finish, Idle, Typed, TypeOK

LEMMA HandleExclude ==
  ASSUME Typed, ErasuresExclude, NEW r \in Requests, Handle(r)
  PROVE  ErasuresExclude'
<1>1. CASE Finish(r)
  BY <1>1, FinishPc, StaysOut
<1>2. ASSUME NEW pc \in {"log", "setup", "open"}, Goto(r, pc)
      PROVE  ErasuresExclude'
  BY <1>2, GotoPc, StaysOut
<1>3. CASE \/ CreateTransfer(r) \/ CompleteTransfer(r) \/ SoftDelete(r) \/ PeekVault(r) \/ InsertVault(r)
           \/ RewrapPassword(r) \/ RewrapPhrase(r) \/ LogEvent(r) \/ AllPurged(r) \/ DropUser(r)
  BY <1>1, <1>2, <1>3 DEF CreateTransfer, CompleteTransfer, SoftDelete, PeekVault, InsertVault,
     RewrapPassword, RewrapPhrase, LogEvent, AllPurged, DropUser
<1>4. CASE ListOwned(r) \/ PurgeOwned(r)
  <2>1. job'[r].pc = "purge" /\ \A v \in Requests \ {r} : job'[v] = job[v]
    BY <1>4 DEF ListOwned, PurgeOwned, At, Typed, TypeOK, Job
  <2> QED  BY <2>1, StaysOut
<1>5. CASE OpenTransaction(r)
  <2>1. At(r, "open") /\ Connection /\ job'[r].pc = "cascade" /\ \A v \in Requests \ {r} : job'[v] = job[v]
    BY <1>5, GotoPc DEF OpenTransaction
  <2>2. InTransaction' = InTransaction \cup {r} /\ r \notin InTransaction /\ Locking' = Locking
    BY <2>1 DEF InTransaction, Locking, At
  <2>3. IsFiniteSet(InTransaction) /\ Cardinality(InTransaction) \in Nat
    BY Counting DEF InTransaction
  <2>4. Cardinality(InTransaction') = Cardinality(InTransaction) + 1
    BY <2>2, <2>3, FS_AddElement
  <2> QED  BY <2>1, <2>2, <2>3, <2>4, AccountConstants DEF ErasuresExclude, Connection
<1>6. CASE Cascade(r)
  <2>1. /\ At(r, "cascade") /\ Locking = {} /\ job'[r].pc = "salt"
        /\ \A v \in Requests \ {r} : job'[v] = job[v]
    BY <1>6 DEF Cascade, Typed, TypeOK, Job
  <2>2. InTransaction' = InTransaction /\ Locking' = {r}
    BY <2>1 DEF InTransaction, Locking, At
  <2> QED  BY <2>2 DEF ErasuresExclude
<1>7. CASE ReadSalt(r)
  <2>1. At(r, "salt") /\ job'[r].pc = "drop" /\ \A v \in Requests \ {r} : job'[v] = job[v]
    BY <1>7, GotoPc DEF ReadSalt
  <2> QED  BY <2>1, FewerTransactions DEF At
<1> QED  BY <1>3, <1>4, <1>5, <1>6, <1>7 DEF Handle, Erase

LEMMA ExcludeStep == Typed /\ ErasuresExclude /\ [Next]_vars => ErasuresExclude'
<1> SUFFICES ASSUME Typed, ErasuresExclude, [Next]_vars PROVE ErasuresExclude'
  OBVIOUS
<1>0. ASSUME job' = job PROVE ErasuresExclude'
  BY <1>0, FewerTransactions
<1>1. ASSUME NEW r \in Requests, NEW d \in Devices, Arrive(r, d)
      PROVE  ErasuresExclude'
  <2>1. PICK j \in Job : Starts(j, d) /\ Begin(r, d, j)
    BY <1>1, ArriveStarts
  <2>2. job'[r].pc = j.pc /\ \A v \in Requests \ {r} : job'[v] = job[v]
    BY <2>1 DEF Begin, Typed, TypeOK, Job
  <2> QED  BY <2>1, <2>2, StaysOut DEF Starts
<1>2. ASSUME NEW r \in Requests, PurgeThrows(r)
      PROVE  ErasuresExclude'
  <2>1. job'[r].pc = "purge" /\ \A v \in Requests \ {r} : job'[v] = job[v]
    BY <1>2 DEF PurgeThrows, At, Typed, TypeOK, Job
  <2> QED  BY <2>1, StaysOut
<1>3. ASSUME NEW r \in Requests, CallFails(r)
      PROVE  ErasuresExclude'
  BY <1>3, FinishPc, StaysOut DEF CallFails
<1>4. CASE Crash
  <2>1. \A v \in Requests : job'[v].pc = "idle"
    BY <1>4 DEF Crash, Idle
  <2> QED  BY <2>1, FewerTransactions
<1>5. ASSUME NEW d \in Devices, SignIn(d) \/ ReadVault(d)
      PROVE  ErasuresExclude'
  <2>1. \A v \in Requests : job'[v].pc = job[v].pc
    BY <1>5 DEF SignIn, ReadVault, Typed, TypeOK, Job
  <2> QED  BY <2>1, FewerTransactions
<1>6. ASSUME NEW t \in Transfers, Sweep(t)
      PROVE  ErasuresExclude'
  BY <1>0, <1>6 DEF Sweep
<1>7. SaltCacheEnds \/ UNCHANGED vars => ErasuresExclude'
  BY <1>0 DEF SaltCacheEnds, vars
<1> QED  BY <1>1, <1>2, <1>3, <1>4, <1>5, <1>6, <1>7, HandleExclude DEF Next

LEMMA ExcludeInit == Init => ErasuresExclude
<1> SUFFICES ASSUME Init PROVE ErasuresExclude
  OBVIOUS
<1>1. InTransaction = {} /\ Locking = {}
  BY DEF Init, Idle, InTransaction, Locking
<1> QED  BY <1>1, FS_EmptySet, AccountConstants DEF ErasuresExclude

\* Whatever requests erase the account at once, fail or are cut off by a restart, the
\* pool is never overdrawn and one erasure at a time has the rows (users.ts:84-115).
THEOREM ErasuresTakeTurns == Spec => []ErasuresExclude
<1> QED  BY ExcludeInit, ExcludeStep, Typing, PTL DEF Spec

\* The case analysis of a deadlock: whoever waits for a lock waits for an erasure that
\* itself waits for a connection, and whoever waits for a connection for erasures that
\* all wait (users.ts:84 and 100, saltService.ts:55).
THEOREM BlockedOnlyByJam == Spec => []OnlyJamsBlock
<1>1. Typed => OnlyJamsBlock
  <2> SUFFICES ASSUME Typed, NEW q \in Requests, ~At(q, "idle"),
                      \A r \in Requests : At(r, "idle") \/ Waits(r)
               PROVE  Jammed
    BY DEF OnlyJamsBlock
  <2>1. \A r \in Requests : job[r].pc \in PCs
    BY DEF Typed, TypeOK, Job
  <2>2. \A r \in Requests : ~At(r, "drop")
    BY DEF Waits, At, Statements
  <2>3. ASSUME Connection PROVE FALSE
    <3>1. PICK l \in Locking : TRUE
      BY <2>3 DEF Waits, At, Statements
    <3>2. l \in Requests /\ At(l, "salt")
      BY <2>2, <3>1 DEF Locking, At
    <3> QED  BY <2>3, <3>2 DEF Waits, At, Statements
  <2>4. InTransaction # {}
    BY <2>3, FS_EmptySet, AccountConstants DEF Connection
  <2>5. PICK l \in Requests : At(l, "salt")
    <3>1. PICK r \in Requests : At(r, "cascade") \/ At(r, "salt")
      BY <2>2, <2>4 DEF InTransaction, At
    <3>2. CASE At(r, "cascade")
      BY <2>2, <3>2 DEF Waits, At, Statements, Locking
    <3> QED  BY <3>1, <3>2
  <2>6. ~salted /\ l \in Locking
    BY <2>5 DEF Waits, At, Statements, Locking
  <2> QED  BY <2>2, <2>3, <2>6 DEF Jammed, InTransaction
<1> QED  BY <1>1, Typing, PTL

\* Only a failed call or a restart ends a jam (users.ts:84 and 100).
THEOREM JamsStay == Spec => JamStays
<1>1. Typed /\ Jammed /\ [Next]_vars /\ faults' = faults => Jammed'
  <2> SUFFICES ASSUME Typed, Jammed, [Next]_vars, faults' = faults PROVE Jammed'
    OBVIOUS
  <2>n. faults \in Nat
    BY AccountConstants DEF Typed, TypeOK
  <2>j. ~Connection /\ ~salted /\ Locking # {} /\ \A r \in InTransaction : ~At(r, "drop")
    BY DEF Jammed
  <2>1. CASE UNCHANGED vars
    BY <2>1, <2>j DEF vars, Jammed, Connection, InTransaction, Locking, At
  <2>2. ASSUME NEW r \in Requests, AllPurged(r)
        PROVE  Jammed'
    <3>1. job[r].pc = "purge" /\ job'[r].pc = "open" /\ salted' = salted /\ \A v \in Requests \ {r} : job'[v] = job[v]
      BY <2>2, GotoPc DEF AllPurged, At
    <3>2. InTransaction' = InTransaction /\ Locking' = Locking
      BY <3>1 DEF InTransaction, Locking
    <3>3. \A v \in InTransaction : job'[v] = job[v]
      BY <3>1 DEF InTransaction
    <3> QED  BY <2>j, <3>1, <3>2, <3>3 DEF Jammed, Connection, At
  <2>3. ASSUME NEW r \in Requests, Handle(r), ~AllPurged(r)
        PROVE  FALSE
    <3>1. ~DropUser(r)
      BY <2>j DEF DropUser, InTransaction, At
    <3> QED
      BY <2>j, <2>3, <3>1 DEF Handle, Erase, CreateTransfer, CompleteTransfer, SoftDelete, PeekVault,
         InsertVault, RewrapPassword, RewrapPhrase, LogEvent, ListOwned, PurgeOwned, OpenTransaction,
         Cascade, ReadSalt
  <2>4. ASSUME NEW r \in Requests, NEW d \in Devices, Arrive(r, d)
        PROVE  FALSE
    BY <2>j, <2>4 DEF Arrive, Begin
  <2>5. ASSUME NEW r \in Requests, PurgeThrows(r) \/ CallFails(r)
        PROVE  FALSE
    BY <2>n, <2>5 DEF PurgeThrows, CallFails
  <2>6. ASSUME NEW d \in Devices, SignIn(d) \/ ReadVault(d)
        PROVE  FALSE
    BY <2>j, <2>6 DEF SignIn, ReadVault
  <2>7. ASSUME NEW t \in Transfers, Sweep(t)
        PROVE  FALSE
    BY <2>j, <2>7 DEF Sweep
  <2>8. ~SaltCacheEnds /\ ~Crash
    BY <2>n, <2>j DEF SaltCacheEnds, Crash
  <2> QED  BY <2>1, <2>2, <2>3, <2>4, <2>5, <2>6, <2>7, <2>8 DEF Next
<1>2. Typed /\ [Next]_vars => [Jammed /\ faults' = faults => Jammed']_vars
  BY <1>1
<1> QED  BY <1>2, Typing, PTL DEF Spec, JamStays

=============================================================================
