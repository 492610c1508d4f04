---------------------------- MODULE VolumeCounter ----------------------------
(***************************************************************************)
(* The monthly volume counter of one user (services/ratelimit.service.ts): *)
(* checkVolumeLimit charges an upload, releaseVolumeLimit gives it back.   *)
(* The counter is a key in Redis; while Redis is unavailable, and for a    *)
(* request whose call to Redis fails, it is an entry of memoryCounters.    *)
(*                                                                         *)
(* One call to Redis is one action; the memory counter is read and written *)
(* without an await.  Sizes are in arbitrary units.                        *)
(***************************************************************************)
EXTENDS Integers, FiniteSets

CONSTANTS
    Uploads,
    Size,           \* units of each upload
    MaxSize,        \* the largest of them
    Requests,       \* requests being served at the same time
    NoUpload,
    MaxBytes,       \* the tier's cap
    MaxRepeats,     \* bound: releases of uploads that were released before
    MaxFaults,      \* bound: failed calls, lost connections and crashes
    MaxWindows      \* bound: ends of a window

ASSUME VolumeConstants ==
    /\ Size \in [Uploads -> 1..MaxSize]
    /\ NoUpload \notin Uploads
    /\ MaxSize \in Nat \ {0} /\ MaxBytes \in Nat \ {0}
    /\ MaxRepeats \in Nat /\ MaxFaults \in Nat /\ MaxWindows \in Nat
    /\ IsFiniteSet(Requests) /\ Requests # {}

VARIABLES
    redis,          \* the value of the key, 0 when there is none
    memory,         \* the value in memoryCounters, 0 when there is no entry
    client,         \* the connection: "new", "up", "retrying" or "ended"
    job,            \* the local state of each request
    asked,          \* uploads a charge was asked for
    admitted,       \* uploads admitted
    returned,       \* uploads released at least once
    repeats, faults, windows,
    inRedis,        \* history: admitted by Redis in its present window, not given back
    inMemory,       \* history: the same of the memory counter
    lostRedis,      \* history: units by which Redis may be short in its present window
    lostMemory,     \* history: the same of the memory counter
    mixed           \* history: a release met another request, store or window

counters == <<redis, memory, client>>
uploads  == <<asked, admitted, returned>>
bounds   == <<repeats, faults, windows>>
ledger   == <<inRedis, inMemory, lostRedis, lostMemory>>
history  == <<ledger, mixed>>
vars     == <<counters, job, uploads, bounds, history>>

Charging  == {"get", "ttl", "incr"}
Releasing == {"read", "delete", "expiry", "set"}

Job == [pc : {"idle"} \cup Charging \cup Releasing, upload : Uploads \cup {NoUpload}, current : Nat]

Idle == [pc |-> "idle", upload |-> NoUpload, current |-> 0]

TypeOK ==
    /\ redis \in Nat /\ memory \in Nat
    /\ client \in {"new", "up", "retrying", "ended"}
    /\ job \in [Requests -> Job]
    /\ asked \in SUBSET Uploads /\ admitted \in SUBSET asked /\ returned \in SUBSET admitted
    /\ repeats \in 0..MaxRepeats /\ faults \in 0..MaxFaults /\ windows \in 0..MaxWindows
    /\ inRedis \in SUBSET Uploads /\ inMemory \in SUBSET Uploads
    /\ lostRedis \in Nat /\ lostMemory \in Nat
    /\ mixed \in BOOLEAN

Init ==
    /\ redis = 0 /\ memory = 0 /\ client = "new"
    /\ job = [r \in Requests |-> Idle]
    /\ asked = {} /\ admitted = {} /\ returned = {}
    /\ repeats = 0 /\ faults = 0 /\ windows = 0
    /\ inRedis = {} /\ inMemory = {} /\ lostRedis = 0 /\ lostMemory = 0 /\ mixed = FALSE

-----------------------------------------------------------------------------

\* redisAvailable
available == client \in {"new", "up"}

At(r, pc) == job[r].pc = pc

Goto(r, pc) == job' = [job EXCEPT ![r].pc = pc]

Finish(r) == job' = [job EXCEPT ![r] = Idle]

Begin(r, pc, u) ==
    job[r] = Idle /\ job' = [job EXCEPT ![r] = [pc |-> pc, upload |-> u, current |-> 0]]

Bytes(r) == Size[job[r].upload]

\* Mutant: the difference is not clamped.
LessUnclamped(value, bytes) == value - bytes

Less(value, bytes) == IF value > bytes THEN value - bytes ELSE 0

Busy(r) == job[r].pc # "idle"

InRelease(r) == job[r].pc \in Releasing

\* A release that has read the counter and not yet written it.
PastGet(r) == job[r].pc \in {"delete", "expiry", "set"}

\* What is taken off a value by a release of so many bytes.
Taken(value, bytes) == value - Less(value, bytes)

-----------------------------------------------------------------------------
(* checkVolumeLimit *)

Admits(value, u) == value + Size[u] <= MaxBytes

\* Mutant: the fallback counts without comparing.
ChargeMemoryUnchecked(u) ==
    /\ memory' = memory + Size[u]
    /\ admitted' = admitted \cup {u} /\ inMemory' = inMemory \cup {u}

\* checkMemoryVolumeLimit
ChargeMemory(u) ==
    IF Admits(memory, u)
      THEN /\ memory' = memory + Size[u]
           /\ admitted' = admitted \cup {u} /\ inMemory' = inMemory \cup {u}
      ELSE UNCHANGED <<memory, admitted, inMemory>>

Charge(r, u) ==
    /\ u \notin asked
    /\ asked' = asked \cup {u}
    /\ IF available
         THEN /\ Begin(r, "get", u)
              /\ mixed' = (mixed \/ \E v \in Requests : InRelease(v))
              /\ UNCHANGED <<memory, admitted, inMemory>>
         ELSE /\ job[r] = Idle /\ ChargeMemory(u)
              /\ UNCHANGED <<job, mixed>>
    /\ UNCHANGED <<redis, client, returned, bounds, inRedis, lostRedis, lostMemory>>

\* Mutant: the size of the upload is not part of the comparison.
GetVolumeBelowCap(r) ==
    /\ At(r, "get")
    /\ Goto(r, IF redis <= MaxBytes THEN "incr" ELSE "ttl")
    /\ UNCHANGED <<counters, uploads, bounds, history>>

\* GET, and the comparison with the cap.
GetVolume(r) ==
    /\ At(r, "get")
    /\ Goto(r, IF Admits(redis, job[r].upload) THEN "incr" ELSE "ttl")
    /\ UNCHANGED <<counters, uploads, bounds, history>>

\* TTL, for the answer that refuses.
Refuse(r) ==
    /\ At(r, "ttl")
    /\ Finish(r)
    /\ UNCHANGED <<counters, uploads, bounds, history>>

\* A charge that lands between the GET of a release and its SET or DEL may be
\* overwritten by it.
Admitted(r) ==
    /\ admitted' = admitted \cup {job[r].upload}
    /\ inRedis' = inRedis \cup {job[r].upload}
    /\ lostRedis' = IF \E v \in Requests : PastGet(v) THEN lostRedis + Bytes(r) ELSE lostRedis

\* Mutant: SET in place of INCRBY.
SetVolume(r) ==
    /\ At(r, "incr")
    /\ redis' = Bytes(r)
    /\ Admitted(r)
    /\ Finish(r)
    /\ UNCHANGED <<memory, client, asked, returned, bounds, inMemory, lostMemory, mixed>>

\* MULTI, INCRBY and EXPIRE.
AddVolume(r) ==
    /\ At(r, "incr")
    /\ redis' = redis + Bytes(r)
    /\ Admitted(r)
    /\ Finish(r)
    /\ UNCHANGED <<memory, client, asked, returned, bounds, inMemory, lostMemory, mixed>>

-----------------------------------------------------------------------------
(* releaseVolumeLimit *)

\* The memory counter.  What is taken off for an upload it does not count, or no
\* longer, is taken from the others.
ReleaseMemory(u) ==
    /\ memory' = Less(memory, Size[u])
    /\ inMemory' = inMemory \ {u}
    /\ lostMemory' = IF u \in inMemory THEN lostMemory ELSE lostMemory + Taken(memory, Size[u])

\* The release of an admitted upload, by init-multipart or abort-multipart: aborts
\* that overlap, with one another or with the rollback of init-multipart, release
\* it again.
Release(r, u) ==
    /\ u \in admitted /\ job[r] = Idle
    /\ repeats' = IF u \in returned THEN repeats + 1 ELSE repeats
    /\ repeats' <= MaxRepeats
    /\ returned' = returned \cup {u}
    /\ IF available
         THEN /\ Begin(r, "read", u)
              /\ mixed' = (mixed \/ u \notin inRedis \/ \E v \in Requests : Busy(v))
              /\ UNCHANGED <<memory, inMemory, lostMemory>>
         ELSE /\ ReleaseMemory(u)
              /\ mixed' = (mixed \/ u \notin inMemory)
              /\ UNCHANGED job
    /\ UNCHANGED <<redis, client, asked, admitted, faults, windows, inRedis, lostRedis>>

\* GET
ReadVolume(r) ==
    /\ At(r, "read")
    /\ job' = [job EXCEPT ![r].current = redis,
                          ![r].pc = IF Less(redis, Bytes(r)) = 0 THEN "delete" ELSE "expiry"]
    /\ UNCHANGED <<counters, uploads, bounds, history>>

\* What a release writes, from the value it read.
TakeOff(r) ==
    LET u == job[r].upload IN
    /\ redis' = Less(job[r].current, Bytes(r))
    /\ inRedis' = inRedis \ {u}
    /\ lostRedis' = IF u \in inRedis THEN lostRedis ELSE lostRedis + Taken(job[r].current, Bytes(r))

\* DEL
DeleteVolume(r) ==
    /\ At(r, "delete")
    /\ TakeOff(r)
    /\ Finish(r)
    /\ UNCHANGED <<memory, client, uploads, bounds, inMemory, lostMemory, mixed>>

\* TTL
ReadExpiry(r) ==
    /\ At(r, "expiry")
    /\ Goto(r, "set")
    /\ UNCHANGED <<counters, uploads, bounds, history>>

\* SET, with the expiry that was read, or the whole window.
WriteVolume(r) ==
    /\ At(r, "set")
    /\ TakeOff(r)
    /\ Finish(r)
    /\ UNCHANGED <<memory, client, uploads, bounds, inMemory, lostMemory, mixed>>

-----------------------------------------------------------------------------
(* Windows, failures *)

\* The key expires.  A release under way would write it again.
RedisWindowEnds ==
    /\ windows < MaxWindows /\ redis > 0
    /\ windows' = windows + 1
    /\ redis' = 0 /\ inRedis' = {} /\ lostRedis' = 0
    /\ mixed' = (mixed \/ \E r \in Requests : InRelease(r))
    /\ UNCHANGED <<memory, client, job, uploads, repeats, faults, inMemory, lostMemory>>

MemoryWindowEnds ==
    /\ windows < MaxWindows /\ memory > 0
    /\ windows' = windows + 1
    /\ memory' = 0 /\ inMemory' = {} /\ lostMemory' = 0
    /\ UNCHANGED <<redis, client, job, uploads, repeats, faults, inRedis, lostRedis, mixed>>

\* A call of a charge fails, possibly after Redis has run it: the charge is
\* made to the memory counter.
ChargeFails(r) ==
    /\ faults < MaxFaults
    /\ job[r].pc \in Charging
    /\ faults' = faults + 1
    /\ redis' \in IF At(r, "incr") THEN {redis, redis + Bytes(r)} ELSE {redis}
    /\ ChargeMemory(job[r].upload)
    /\ Finish(r)
    /\ UNCHANGED <<client, asked, returned, repeats, windows, inRedis, lostRedis, lostMemory, mixed>>

\* The same of a release: it is made to the memory counter, though Redis may have
\* run it.
ReleaseFails(r) ==
    /\ faults < MaxFaults
    /\ InRelease(r)
    /\ faults' = faults + 1
    /\ \/ job[r].pc \in {"delete", "set"} /\ TakeOff(r)
       \/ UNCHANGED <<redis, inRedis, lostRedis>>
    /\ ReleaseMemory(job[r].upload)
    /\ mixed' = TRUE
    /\ Finish(r)
    /\ UNCHANGED <<client, uploads, repeats, windows>>

\* The first connection fails, while the client keeps trying.
FirstConnectFails ==
    /\ faults < MaxFaults /\ client = "new"
    /\ faults' = faults + 1
    /\ client' = "retrying"
    /\ UNCHANGED <<redis, memory, job, uploads, repeats, windows, history>>

Connect ==
    /\ client \in {"new", "retrying"}
    /\ client' = "up"
    /\ UNCHANGED <<redis, memory, job, uploads, bounds, history>>

\* retryStrategy stops retrying: nothing in this process connects again.
GiveUp ==
    /\ faults < MaxFaults /\ client \in {"up", "retrying"}
    /\ faults' = faults + 1
    /\ client' = "ended"
    /\ UNCHANGED <<redis, memory, job, uploads, repeats, windows, history>>

\* The memory counter goes with the process.
Crash ==
    /\ faults < MaxFaults
    /\ faults' = faults + 1
    /\ job' = [r \in Requests |-> Idle]
    /\ memory' = 0 /\ inMemory' = {} /\ lostMemory' = 0
    /\ mixed' = (mixed \/ \E r \in Requests : InRelease(r))
    /\ client' = "new"
    /\ UNCHANGED <<redis, uploads, repeats, windows, inRedis, lostRedis>>

-----------------------------------------------------------------------------

Handle(r) ==
    \/ GetVolume(r) \/ Refuse(r) \/ AddVolume(r)
    \/ ReadVolume(r) \/ DeleteVolume(r) \/ ReadExpiry(r) \/ WriteVolume(r)

Next ==
    \/ \E r \in Requests, u \in Uploads : Charge(r, u) \/ Release(r, u)
    \/ \E r \in Requests : Handle(r) \/ ChargeFails(r) \/ ReleaseFails(r)
    \/ RedisWindowEnds \/ MemoryWindowEnds
    \/ FirstConnectFails \/ Connect \/ GiveUp \/ Crash

Spec == Init /\ [][Next]_vars

-----------------------------------------------------------------------------
(* Properties *)

\* The sum of the sizes of S: its uploads, unit by unit.
Units(S) == {x \in S \X (1..MaxSize) : x[2] <= Size[x[1]]}

Total(S) == Cardinality(Units(S))

\* What the counters forget of what they admitted: however charges and releases
\* overlap, repeat, fail and fall back to memory, each counter is short of the
\* uploads it admitted in its window, and that were not given back, by no more
\* than the charges that landed between the GET of a release and its SET or DEL,
\* which the release may overwrite, and what was taken off for uploads the counter
\* did not count any more (ratelimit.service.ts:336-368 and 456-531).
CountersCover ==
    /\ redis + lostRedis >= Total(inRedis)
    /\ memory + lostMemory >= Total(inMemory)

\* While no release meets another request, store or window, charges that overlap
\* exceed the cap by less than one upload for each request that is not about to
\* add its own (ratelimit.service.ts:463-480).
OvershootBounded ==
    ~mixed => redis <= MaxBytes - 1 + MaxSize * Cardinality({r \in Requests : ~At(r, "incr")})

\* In the same behaviours an outage of Redis, its failed calls included, at most
\* doubles the cap: what a user is let to upload is that, and one upload for each
\* other request (ratelimit.service.ts:487-489 and 500-530).
OutageAtMostDoubles ==
    ~mixed => Total(inRedis \cup inMemory) <= 2 * MaxBytes + MaxSize * (Cardinality(Requests) - 1)

=============================================================================
