------------------------------- MODULE Salts ---------------------------------
(***************************************************************************)
(* The rotating salts of one namespace: services/saltService.ts, the job   *)
(* that rotates and purges them (services/cleanup.service.ts), and the     *)
(* events auth/events.ts writes under them.  Each process caches the       *)
(* active salt.                                                            *)
(*                                                                         *)
(* A statement, or a stretch of code without an await, is one action.  The *)
(* unit of the clock is longer than a call takes.                          *)
(***************************************************************************)
EXTENDS Integers, FiniteSets

CONSTANTS
    Processes,
    Tasks,          \* calls of logAuthEvent and rotateSalts under way at the same time
    Nobody,         \* no process
    ROTATE, RETAIN, \* rotateAfterMs and retainForMs of the namespace
    CACHE,          \* CACHE_TTL_MS
    Interval,       \* longest time between two rotations
    MaxSalts,       \* bound: salts ever minted
    MaxTime,        \* bound: of the clock
    MaxFaults       \* bound: crashes and failed calls

ASSUME SaltsConstants ==
    /\ {ROTATE, RETAIN, CACHE, Interval, MaxSalts, MaxTime, MaxFaults} \subseteq Nat
    /\ 0 < CACHE /\ CACHE <= RETAIN
    /\ 0 < ROTATE /\ 0 < Interval
    /\ Nobody \notin Processes

VARIABLES
    now,            \* the clock
    minted,         \* the last id of the sequence
    salt,           \* the row of each salt
    cache,          \* activeCache of each process
    job,            \* the local state of each task
    ran,            \* when rotateSalts last came to its end
    faults,
    last            \* history: when the last event was written under each salt

vars == <<now, minted, salt, cache, job, ran, faults, last>>

Ids   == 1..MaxSalts
NoId  == 0
Times == 0..MaxTime
Never == -1

\* stored: the row is there; retired: Never while the salt is active.
Salt == [stored : BOOLEAN, created : Times, retired : Times \cup {Never}]

NoSalt == [stored |-> FALSE, created |-> 0, retired |-> Never]

Entry == [salt : Ids \cup {NoId}, until : Nat]

NoEntry == [salt |-> NoId, until |-> 0]

PCs == {"idle", "select", "keep", "mint", "insert", "use", "purge"}

Job == [pc : PCs, process : Processes \cup {Nobody}, rotates : BOOLEAN,
        salt : Ids \cup {NoId},
        batch : SUBSET Ids]         \* salts its transaction found active

Idle == [pc |-> "idle", process |-> Nobody, rotates |-> FALSE, salt |-> NoId, batch |-> {}]

TypeOK ==
    /\ now \in Times /\ ran \in Times /\ minted \in 0..MaxSalts /\ faults \in 0..MaxFaults
    /\ salt \in [Ids -> Salt]
    /\ cache \in [Processes -> Entry]
    /\ job \in [Tasks -> Job]
    /\ last \in [Ids -> Times \cup {Never}]

Init ==
    /\ now = 0 /\ ran = 0 /\ minted = 0 /\ faults = 0
    /\ salt = [i \in Ids |-> NoSalt]
    /\ cache = [p \in Processes |-> NoEntry]
    /\ job = [t \in Tasks |-> Idle]
    /\ last = [i \in Ids |-> Never]

-----------------------------------------------------------------------------

At(t, pc) == job[t].pc = pc

Goto(t, pc) == job' = [job EXCEPT ![t].pc = pc]

Finish(t) == job' = [job EXCEPT ![t] = Idle]

Active(i) == salt[i].stored /\ salt[i].retired = Never

Actives == {i \in Ids : Active(i)}

\* Mutant: rotateSalts never finds a salt too old.
TooOldNever(i) == now - salt[i].created > ROTATE + RETAIN

TooOld(i) == now - salt[i].created >= ROTATE

\* What a task does with the salt getActiveSalt has returned: an event is written under
\* it, and rotateSalts looks at its age.
With(j, i) ==
    IF ~j.rotates THEN [j EXCEPT !.pc = "use", !.salt = i]
    ELSE IF TooOld(i) THEN [j EXCEPT !.pc = "mint", !.salt = NoId]
    ELSE [j EXCEPT !.pc = "purge", !.salt = NoId]

-----------------------------------------------------------------------------
(* getActiveSalt *)

Cached(p) == cache[p] # NoEntry /\ cache[p].until > now

\* logAuthEvent, or the job's rotateSalts, one at a time in a process, up to the first
\* await.
Begin(t, p, rotates) ==
    /\ job[t] = Idle
    /\ rotates => \A u \in Tasks : job[u].process = p => ~job[u].rotates
    /\ LET j == [Idle EXCEPT !.process = p, !.rotates = rotates]
       IN  job' = [job EXCEPT ![t] = IF Cached(p) THEN With(j, cache[p].salt) ELSE [j EXCEPT !.pc = "select"]]
    /\ UNCHANGED <<now, minted, salt, cache, ran, faults, last>>

\* The row that ORDER BY created_at DESC LIMIT 1 returns.
Newest(i) == Active(i) /\ \A j \in Actives : salt[j].created <= salt[i].created

SelectActive(t) ==
    /\ At(t, "select")
    /\ IF Actives = {}
         THEN Goto(t, "mint")
         ELSE \E i \in Ids : Newest(i) /\ job' = [job EXCEPT ![t].pc = "keep", ![t].salt = i]
    /\ UNCHANGED <<now, minted, salt, cache, ran, faults, last>>

\* activeCache.set, after the await: it may replace a newer entry.
KeepActive(t) ==
    /\ At(t, "keep")
    /\ cache' = [cache EXCEPT ![job[t].process] = [salt |-> job[t].salt, until |-> now + CACHE]]
    /\ job' = [job EXCEPT ![t] = With(@, job[t].salt)]
    /\ UNCHANGED <<now, minted, salt, ran, faults, last>>

-----------------------------------------------------------------------------
(* mintSalt *)

\* BEGIN, and the UPDATE, of the salts it finds active.
RetireActive(t) ==
    /\ At(t, "mint")
    /\ job' = [job EXCEPT ![t].pc = "insert", ![t].batch = Actives]
    /\ UNCHANGED <<now, minted, salt, cache, ran, faults, last>>

\* Mutant: of the salts side by side only the newest is retired.
RetiredNewest(t) == {i \in job[t].batch : i = minted /\ Active(i)}

\* The UPDATE waits for another transaction on the same rows, and leaves alone what that
\* one has retired.
Retired(t) == {i \in job[t].batch : Active(i)}

\* INSERT and COMMIT; the process keeps the salt.
InsertSalt(t) ==
    /\ At(t, "insert") /\ minted < MaxSalts
    /\ minted' = minted + 1
    /\ salt' = [i \in Ids |->
                   IF i = minted + 1 THEN [stored |-> TRUE, created |-> now, retired |-> Never]
                   ELSE IF i \in Retired(t) THEN [salt[i] EXCEPT !.retired = now]
                   ELSE salt[i]]
    /\ cache' = [cache EXCEPT ![job[t].process] = [salt |-> minted + 1, until |-> now + CACHE]]
    /\ job' = [job EXCEPT ![t].pc = IF job[t].rotates THEN "purge" ELSE "use",
                          ![t].salt = IF job[t].rotates THEN NoId ELSE minted + 1,
                          ![t].batch = {}]
    /\ UNCHANGED <<now, ran, faults, last>>

-----------------------------------------------------------------------------
(* Events, and the purge *)

\* logAuthEvent: the INSERT, with the id of the salt, which must be there.
InsertEvent(t) ==
    LET i == job[t].salt IN
    /\ At(t, "use")
    /\ last' = IF salt[i].stored THEN [last EXCEPT ![i] = now] ELSE last
    /\ Finish(t)
    /\ UNCHANGED <<now, minted, salt, cache, ran, faults>>

\* Mutant: a salt is purged by its age.
PurgeableByAge(i) == salt[i].stored /\ salt[i].retired # Never /\ salt[i].created < now - RETAIN

Purgeable(i) == salt[i].stored /\ salt[i].retired # Never /\ salt[i].retired < now - RETAIN

PurgeSalts(t) ==
    /\ At(t, "purge")
    /\ salt' = [i \in Ids |-> IF Purgeable(i) THEN NoSalt ELSE salt[i]]
    /\ last' = [i \in Ids |-> IF Purgeable(i) THEN Never ELSE last[i]]
    /\ ran' = now
    /\ Finish(t)
    /\ UNCHANGED <<now, minted, cache, faults>>

-----------------------------------------------------------------------------
(* Time and failures *)

\* A call ends within a unit, and some process rotates the salts every Interval.  An
\* entry of a cache counts for nothing once it is due.
Tick ==
    /\ now < MaxTime
    /\ \A t \in Tasks : job[t] = Idle
    /\ now - ran < Interval
    /\ now' = now + 1
    /\ cache' = [p \in Processes |-> IF cache[p].until > now + 1 THEN cache[p] ELSE NoEntry]
    /\ UNCHANGED <<minted, salt, job, ran, faults, last>>

CallFails(t) ==
    /\ faults < MaxFaults /\ job[t] # Idle
    /\ faults' = faults + 1
    /\ Finish(t)
    /\ UNCHANGED <<now, minted, salt, cache, ran, last>>

\* A process is restarted: one with nothing in its memory would only count a fault.
Crash(p) ==
    /\ faults < MaxFaults
    /\ cache[p] # NoEntry \/ \E t \in Tasks : job[t].process = p
    /\ faults' = faults + 1
    /\ cache' = [cache EXCEPT ![p] = NoEntry]
    /\ job' = [t \in Tasks |-> IF job[t].process = p THEN Idle ELSE job[t]]
    /\ UNCHANGED <<now, minted, salt, ran, last>>

-----------------------------------------------------------------------------

Step(t) ==
    \/ SelectActive(t) \/ KeepActive(t) \/ RetireActive(t) \/ InsertSalt(t)
    \/ InsertEvent(t) \/ PurgeSalts(t)

Next ==
    \/ \E t \in Tasks :
           \/ \E p \in Processes, rotates \in BOOLEAN : Begin(t, p, rotates)
           \/ Step(t) \/ CallFails(t)
    \/ \E p \in Processes : Crash(p)
    \/ Tick

Spec == Init /\ [][Next]_vars

-----------------------------------------------------------------------------
(* Properties *)

\* A salt that one process has retired is used by the others for CACHE at most, though a
\* SELECT that overtakes the rotation may put it back into a cache (saltService.ts:39-43).
RetiredFadesOut ==
    \A i \in Ids : salt[i].retired # Never => last[i] < salt[i].retired + CACHE

\* Events further apart than ROTATE, but for a late rotation and the caches, are never
\* keyed under one salt, whichever processes mint at the same time (saltService.ts:5-6,
\* 120-128).
LinkageBounded ==
    \A i \in Ids : last[i] < salt[i].created + ROTATE + Interval + CACHE

\* An event's correlator can be reproduced for as long as the event is kept: its salt is
\* purged RETAIN after it at the earliest, but for the caches (saltService.ts:105-113).
CorrelatorsKept ==
    [][\A i \in Ids : salt[i].stored /\ ~salt'[i].stored => now + CACHE > last[i] + RETAIN]_vars

\* And no longer: every salt goes in time, those too that two mints at once have left
\* active side by side (saltService.ts:49-68, 84-100).
SaltsExpire ==
    \A i \in Ids : salt[i].stored => now - salt[i].created < ROTATE + RETAIN + 2 * Interval

\* No event is lost because the salt of some cache is no longer there (events.ts:41-58,
\* schema.ts:187).
SaltsInUseAreStored ==
    \A t \in Tasks : At(t, "use") => salt[job[t].salt].stored

=============================================================================
