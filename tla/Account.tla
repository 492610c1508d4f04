------------------------------- MODULE Account -------------------------------
(***************************************************************************)
(* One account, the rows that refer to it, and its erasure: DELETE /api/me *)
(* (routes/me.routes.ts, eraseAccount of auth/users.ts), the vault of      *)
(* routes/vault.routes.ts and services/vault.service.ts, and the rows of   *)
(* `transfers` as far as they are the user's.                              *)
(*                                                                         *)
(* The erasure lists and purges the user's transfers, then removes the     *)
(* rest in one transaction, which holds a connection of the pool while it  *)
(* looks up the active salt on another one.  Requests let in before go on  *)
(* meanwhile.  One statement is one action; what a transaction did shows   *)
(* when it commits.  A key is the K_vault a device made at setup.          *)
(***************************************************************************)
EXTENDS Integers, FiniteSets

CONSTANTS
    Devices,        \* the user's devices
    Transfers,      \* rows of `transfers` with the user's id, at one time
    Requests,       \* HTTP requests being served at the same time
    Nothing,        \* no key, no device, no transfer
    PoolSize,       \* connections of the postgres.js pool
    MaxFaults       \* bound: crashes and failed calls

ASSUME AccountConstants ==
    /\ Nothing \notin Devices \cup Transfers
    /\ IsFiniteSet(Requests)
    /\ PoolSize \in Nat \ {0} /\ MaxFaults \in Nat

VARIABLES
    user,           \* is the row of `users` there?
    session,        \* devices with a row in `sessions`
    transfer,       \* the row of a transfer, if any; "closed" when is_deleted
    wrapped,        \* the key that transfers.wrapped_key is wrapped under
    vault,          \* the key in each wrap of the row of `user_vaults`, or no row
    known,          \* the K_vault a device has unwrapped or made
    salted,         \* the auth_events salt is cached
    job,            \* the local state of each request
    faults

rows == <<user, session, transfer, wrapped, vault>>
vars == <<rows, known, salted, job, faults>>

Keys == Devices \cup {Nothing}

NoVault == [password |-> Nothing, phrase |-> Nothing]

PCs == { "idle", "create", "complete", "close", "peek", "setup", "password", "phrase",
         "log", "list", "purge", "open", "cascade", "salt", "drop" }

Job == [pc : PCs, device : Devices \cup {Nothing}, transfer : Transfers \cup {Nothing},
        key : Keys,                 \* of the wraps in the body
        batch : SUBSET Transfers,   \* still to be purged
        out : SUBSET Devices]       \* devices whose every session the transaction deleted

Idle == [pc |-> "idle", device |-> Nothing, transfer |-> Nothing, key |-> Nothing,
         batch |-> {}, out |-> {}]

\* Nothing is left to purge when the transaction begins, and nothing deleted before.
TypeOK ==
    /\ user \in BOOLEAN /\ salted \in BOOLEAN
    /\ session \in SUBSET Devices
    /\ transfer \in [Transfers -> {"none", "live", "closed"}]
    /\ wrapped \in [Transfers -> Keys]
    /\ vault \in [password : Keys, phrase : Keys]
    /\ known \in [Devices -> Keys]
    /\ job \in [Requests -> Job]
    /\ \A r \in Requests : /\ job[r].batch # {} => job[r].pc = "purge"
                           /\ job[r].out # {} => job[r].pc \in {"salt", "drop"}
    /\ faults \in 0..MaxFaults

Init ==
    /\ user = TRUE /\ salted = FALSE
    /\ session = {}
    /\ transfer = [t \in Transfers |-> "none"]
    /\ wrapped = [t \in Transfers |-> Nothing]
    /\ vault = NoVault
    /\ known = [d \in Devices |-> Nothing]
    /\ job = [r \in Requests |-> Idle]
    /\ faults = 0

-----------------------------------------------------------------------------

At(r, pc) == job[r].pc = pc

Goto(r, pc) == job' = [job EXCEPT ![r].pc = pc]

Finish(r) == job' = [job EXCEPT ![r] = Idle]

HasRow(t) == transfer[t] # "none"

\* A new id: no row, and no request that has an earlier transfer under it in hand.
Free(t) == ~HasRow(t) /\ \A r \in Requests : job[r].transfer # t /\ t \notin job[r].batch

InTransaction == {r \in Requests : job[r].pc \in {"cascade", "salt", "drop"}}

\* Requests whose transaction has rows locked.
Locking == {r \in Requests : job[r].pc \in {"salt", "drop"}}

\* A statement outside a transaction waits for a connection nobody holds.
Connection == Cardinality(InTransaction) < PoolSize

-----------------------------------------------------------------------------
(* A device signs in, any number of times, and makes its requests with a session. *)
(* validateSession and the look-up of the user are one step: both rows go in one   *)
(* commit.                                                                         *)

\* A transaction that has deleted the sessions does not see the new one.
SignIn(d) ==
    /\ Connection /\ user
    /\ session' = session \cup {d}
    /\ job' = [r \in Requests |-> [job[r] EXCEPT !.out = @ \ {d}]]
    /\ UNCHANGED <<user, transfer, wrapped, vault, known, salted, faults>>

Begin(r, d, start) ==
    /\ Connection /\ user /\ d \in session
    /\ job[r] = Idle
    /\ job' = [job EXCEPT ![r] = [start EXCEPT !.device = d]]
    /\ UNCHANGED <<rows, known, salted, faults>>

\* Requests that change nothing, whatever runs meanwhile, are left out.
Arrive(r, d) ==
    \/ \E t \in Transfers :
           \/ Free(t) /\ Begin(r, d, [Idle EXCEPT !.pc = "create", !.transfer = t])
           \/ /\ transfer[t] = "live"
              /\ \/ Begin(r, d, [Idle EXCEPT !.pc = "complete", !.transfer = t, !.key = known[d]])
                 \/ Begin(r, d, [Idle EXCEPT !.pc = "close", !.transfer = t])
    \/ vault = NoVault /\ Begin(r, d, [Idle EXCEPT !.pc = "peek", !.key = d])
    \/ \E pc \in {"password", "phrase"} :
           known[d] # Nothing /\ Begin(r, d, [Idle EXCEPT !.pc = pc, !.key = known[d]])
    \/ Begin(r, d, [Idle EXCEPT !.pc = "list"])

-----------------------------------------------------------------------------
(* The user's transfers *)

\* Mutant: transfers.user_id is no foreign key.
CreateTransferAnyway(r) ==
    LET t == job[r].transfer IN
    /\ At(r, "create") /\ Connection
    /\ transfer' = [transfer EXCEPT ![t] = "live"]
    /\ Finish(r)
    /\ UNCHANGED <<user, session, wrapped, vault, known, salted, faults>>

\* The INSERT, refused when the user is gone.
CreateTransfer(r) ==
    LET t == job[r].transfer IN
    /\ At(r, "create") /\ Connection
    /\ transfer' = IF user THEN [transfer EXCEPT ![t] = "live"] ELSE transfer
    /\ Finish(r)
    /\ UNCHANGED <<user, session, wrapped, vault, known, salted, faults>>

\* completeTransfer writes the wrapped key, by id alone.
CompleteTransfer(r) ==
    LET t == job[r].transfer IN
    /\ At(r, "complete") /\ Connection
    /\ wrapped' = IF HasRow(t) /\ job[r].key # Nothing THEN [wrapped EXCEPT ![t] = job[r].key] ELSE wrapped
    /\ Finish(r)
    /\ UNCHANGED <<user, session, transfer, vault, known, salted, faults>>

\* softDeleteOwnedTransfer
SoftDelete(r) ==
    LET t == job[r].transfer IN
    /\ At(r, "close") /\ Connection
    /\ IF transfer[t] = "live"
         THEN transfer' = [transfer EXCEPT ![t] = "closed"] /\ Goto(r, "log")
         ELSE UNCHANGED transfer /\ Finish(r)
    /\ UNCHANGED <<user, session, wrapped, vault, known, salted, faults>>

Removed(t) ==
    /\ transfer' = [transfer EXCEPT ![t] = "none"]
    /\ wrapped' = [wrapped EXCEPT ![t] = Nothing]


\* The cleanup job, sweep by sweep: a live row once it is due, a closed one at once.
Sweep(t) ==
    /\ HasRow(t) /\ Connection
    /\ Removed(t)
    /\ UNCHANGED <<user, session, vault, known, salted, job, faults>>

-----------------------------------------------------------------------------
(* The vault *)

\* GET /vault; the device opens either wrap with what its user knows.
ReadVault(d) ==
    /\ Connection /\ user /\ d \in session /\ vault # NoVault
    /\ \E wrap \in {vault.password, vault.phrase} : known' = [known EXCEPT ![d] = wrap]
    /\ UNCHANGED <<rows, salted, job, faults>>

PeekVault(r) ==
    /\ At(r, "peek") /\ Connection
    /\ IF vault = NoVault THEN Goto(r, "setup") ELSE Finish(r)
    /\ UNCHANGED <<rows, known, salted, faults>>

\* Mutant: the second setup replaces the first.
InsertVaultAgain(r) ==
    /\ At(r, "setup") /\ Connection
    /\ IF user
         THEN vault' = [password |-> job[r].key, phrase |-> job[r].key] /\ Goto(r, "log")
         ELSE UNCHANGED vault /\ Finish(r)
    /\ UNCHANGED <<user, session, transfer, wrapped, known, salted, faults>>

\* INSERT ... ON CONFLICT DO NOTHING; refused when the user is gone.
InsertVault(r) ==
    /\ At(r, "setup") /\ Connection
    /\ IF user /\ vault = NoVault
         THEN vault' = [password |-> job[r].key, phrase |-> job[r].key] /\ Goto(r, "log")
         ELSE UNCHANGED vault /\ Finish(r)
    /\ UNCHANGED <<user, session, transfer, wrapped, known, salted, faults>>

\* updateVaultPasswordWrap
RewrapPassword(r) ==
    /\ At(r, "password") /\ Connection
    /\ IF vault # NoVault
         THEN vault' = [vault EXCEPT !.password = job[r].key] /\ Goto(r, "log")
         ELSE UNCHANGED vault /\ Finish(r)
    /\ UNCHANGED <<user, session, transfer, wrapped, known, salted, faults>>

\* updateVaultPhraseWrap
RewrapPhrase(r) ==
    /\ At(r, "phrase") /\ Connection
    /\ IF vault # NoVault
         THEN vault' = [vault EXCEPT !.phrase = job[r].key] /\ Goto(r, "log")
         ELSE UNCHANGED vault /\ Finish(r)
    /\ UNCHANGED <<user, session, transfer, wrapped, known, salted, faults>>

\* logAuthEvent, best effort, and the answer: the device keeps its key.
LogEvent(r) ==
    /\ At(r, "log") /\ Connection
    /\ salted' = TRUE
    /\ known' = IF job[r].key # Nothing THEN [known EXCEPT ![job[r].device] = job[r].key] ELSE known
    /\ Finish(r)
    /\ UNCHANGED <<rows, faults>>

-----------------------------------------------------------------------------
(* eraseAccount *)

\* The transfers that are not soft-deleted.
ListOwned(r) ==
    /\ At(r, "list") /\ Connection
    /\ job' = [job EXCEPT ![r].pc = "purge", ![r].batch = {t \in Transfers : transfer[t] = "live"}]
    /\ UNCHANGED <<rows, known, salted, faults>>

\* purgeOwnerDeletedTransfer, of the row as it is now.
PurgeOwned(r) ==
    /\ At(r, "purge") /\ Connection
    /\ \E t \in job[r].batch :
           /\ IF HasRow(t) THEN Removed(t) ELSE UNCHANGED <<transfer, wrapped>>
           /\ job' = [job EXCEPT ![r].batch = @ \ {t}]
    /\ UNCHANGED <<user, session, vault, known, salted, faults>>

\* It throws: logged, and the cascade goes on.
PurgeThrows(r) ==
    /\ At(r, "purge") /\ faults < MaxFaults
    /\ faults' = faults + 1
    /\ \E t \in job[r].batch : job' = [job EXCEPT ![r].batch = @ \ {t}]
    /\ UNCHANGED <<rows, known, salted>>

\* Mutant: the purges are not waited for.
AllPurgedUnawaited(r) ==
    /\ At(r, "purge")
    /\ Goto(r, "open")
    /\ UNCHANGED <<rows, known, salted, faults>>

AllPurged(r) ==
    /\ At(r, "purge") /\ job[r].batch = {}
    /\ Goto(r, "open")
    /\ UNCHANGED <<rows, known, salted, faults>>

\* BEGIN takes a connection for the whole transaction.
OpenTransaction(r) ==
    /\ At(r, "open") /\ Connection
    /\ Goto(r, "cascade")
    /\ UNCHANGED <<rows, known, salted, faults>>

\* The DELETEs of links and sessions and the scrub of the events, which wait for
\* another transaction on the same rows.
Cascade(r) ==
    /\ At(r, "cascade") /\ Locking = {}
    /\ job' = [job EXCEPT ![r].pc = "salt", ![r].out = session]
    /\ UNCHANGED <<rows, known, salted, faults>>

\* getActiveSalt, inside the transaction, but on a connection of its own.
ReadSalt(r) ==
    /\ At(r, "salt") /\ (salted \/ Connection)
    /\ salted' = TRUE
    /\ Goto(r, "drop")
    /\ UNCHANGED <<rows, known, faults>>

\* Rows that refer to the user without ON DELETE CASCADE.
Referring(r) == {t \in Transfers : HasRow(t)} \cup (session \ job[r].out)

\* Mutant: a transaction that was rolled back keeps its connection.
DropUserLeaking(r) ==
    /\ At(r, "drop")
    /\ IF Referring(r) = {}
         THEN user' = FALSE /\ session' = {} /\ vault' = NoVault /\ Finish(r)
         ELSE UNCHANGED <<user, session, vault, job>>
    /\ UNCHANGED <<transfer, wrapped, known, salted, faults>>

\* The event, the DELETE of the user and COMMIT; or the foreign key's refusal,
\* ROLLBACK and an answer of 500.
DropUser(r) ==
    /\ At(r, "drop")
    /\ IF Referring(r) = {}
         THEN user' = FALSE /\ session' = {} /\ vault' = NoVault
         ELSE UNCHANGED <<user, session, vault>>
    /\ Finish(r)
    /\ UNCHANGED <<transfer, wrapped, known, salted, faults>>

-----------------------------------------------------------------------------
(* Time and failures *)

\* CACHE_TTL_MS has passed.
SaltCacheEnds ==
    /\ salted /\ salted' = FALSE
    /\ UNCHANGED <<rows, known, job, faults>>

\* A call throws; an open transaction is rolled back and gives its connection back.
CallFails(r) ==
    /\ faults < MaxFaults
    /\ job[r].pc \notin {"idle", "purge", "log"}
    /\ faults' = faults + 1
    /\ Finish(r)
    /\ UNCHANGED <<rows, known, salted>>

Crash ==
    /\ faults < MaxFaults
    /\ faults' = faults + 1
    /\ job' = [r \in Requests |-> Idle]
    /\ salted' = FALSE
    /\ UNCHANGED <<rows, known>>

-----------------------------------------------------------------------------

Erase(r) ==
    \/ ListOwned(r) \/ PurgeOwned(r) \/ AllPurged(r)
    \/ OpenTransaction(r) \/ Cascade(r) \/ ReadSalt(r) \/ DropUser(r)

Handle(r) ==
    \/ CreateTransfer(r) \/ CompleteTransfer(r) \/ SoftDelete(r)
    \/ PeekVault(r) \/ InsertVault(r) \/ RewrapPassword(r) \/ RewrapPhrase(r)
    \/ LogEvent(r) \/ Erase(r)

Next ==
    \/ \E r \in Requests :
           \/ \E d \in Devices : Arrive(r, d)
           \/ Handle(r) \/ PurgeThrows(r) \/ CallFails(r)
    \/ \E d \in Devices : SignIn(d) \/ ReadVault(d)
    \/ \E t \in Transfers : Sweep(t)
    \/ SaltCacheEnds \/ Crash

Spec == Init /\ [][Next]_vars

\* The event loop serves every request and runs the cleanup job.  What a statement
\* waits for, a connection or a row lock, is granted in the order it was asked for, by
\* postgres.js and by PostgreSQL: hence strong fairness.  Users, clocks and failures
\* are under no obligation.
FairSpec ==
    /\ Spec
    /\ \A r \in Requests : SF_vars(Handle(r))
    /\ \A t \in Transfers : SF_vars(Sweep(t))

-----------------------------------------------------------------------------
(* Properties *)

\* Once the user's row is gone nothing of the account is left or comes back, though
\* requests let in before go on creating transfers, setting up the vault and signing
\* in while and after the transaction runs (users.ts:84-115, schema.ts:22, 115, 282).
ErasedLeavesNothing ==
    ~user => session = {} /\ vault = NoVault /\ \A t \in Transfers : ~HasRow(t)

\* Whatever setups, password changes and phrase changes race, both wraps and every
\* wrapped key of a transfer open with one key: none of the user's data is lost to a
\* setup that lost the race (vault.service.ts:49-131, file.service.ts:77-88).
KeysOpen ==
    \A k, l \in {vault.password, vault.phrase} \cup {wrapped[t] : t \in Transfers} :
        k # Nothing /\ l # Nothing => k = l

\* Every connection is held by an erasure that waits: one for a connection to read
\* the salt on, the others for its row locks.
Jammed ==
    /\ ~Connection /\ ~salted
    /\ \A r \in InTransaction : ~At(r, "drop")
    /\ Locking # {}

\* An erasure ends, whether it commits or not, unless the erasures hold every
\* connection of the pool at once, which nothing in the code undoes
\* (users.ts:84 and 100, saltService.ts:55).
EndsUnlessJammed ==
    \A r \in Requests : At(r, "list") ~> (At(r, "idle") \/ Jammed)

\* From some point on the user signs in and begins transfers no more.
Settled ==
    <>[][/\ \A d \in Devices : ~SignIn(d)
         /\ \A r \in Requests : ~CreateTransfer(r)]_vars


\* What the comment before the DELETE of the user says: "Safe now: child rows are
\* gone" (users.ts:113).
ChildRowsGone ==
    \A r \in Requests : At(r, "drop") /\ faults = 0 => Referring(r) = {}

=============================================================================
