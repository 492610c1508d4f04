-------------------------- MODULE VolumeCounterProofs --------------------------
(***************************************************************************)
(* Proofs about VolumeCounter, for any set of uploads, finite or not, of   *)
(* any sizes, any cap, any number of requests, faults and windows.         *)
(***************************************************************************)
EXTENDS VolumeCounter, TLAPS, FiniteSetTheorems

-----------------------------------------------------------------------------
(* Sums of sizes *)

LEMMA SizeType ==
  ASSUME NEW u \in Uploads
  PROVE  Size[u] \in 1..MaxSize /\ Size[u] \in Nat /\ Size[u] > 0 /\ Size[u] <= MaxSize
  BY VolumeConstants

LEMMA UnitsFinite ==
  ASSUME NEW S \in SUBSET Uploads, IsFiniteSet(S)
  PROVE  IsFiniteSet(Units(S)) /\ Total(S) \in Nat
<1>1. IsFiniteSet(1..MaxSize)
  BY VolumeConstants, FS_Interval
<1>2. IsFiniteSet(S \X (1..MaxSize))
  BY <1>1, FS_Product
<1>3. IsFiniteSet(Units(S))
  BY <1>2, FS_Subset DEF Units
<1> QED  BY <1>3, FS_CardinalityType DEF Total

LEMMA TotalEmpty == Total({}) = 0
<1>1. Units({}) = {}
  BY DEF Units
<1> QED  BY <1>1, FS_EmptySet DEF Total

LEMMA TotalMonotone ==
  ASSUME NEW S \in SUBSET Uploads, IsFiniteSet(S), NEW T \in SUBSET S
  PROVE  Total(T) <= Total(S)
<1>1. Units(T) \subseteq Units(S)
  BY DEF Units
<1> QED  BY <1>1, UnitsFinite, FS_Subset DEF Total

LEMMA TotalUnion ==
  ASSUME NEW S \in SUBSET Uploads, IsFiniteSet(S), NEW T \in SUBSET Uploads, IsFiniteSet(T)
  PROVE  /\ Total(S \cup T) <= Total(S) + Total(T)
         /\ S \cap T = {} => Total(S \cup T) = Total(S) + Total(T)
<1>1. Units(S \cup T) = Units(S) \cup Units(T)
  BY DEF Units
<1>2. IsFiniteSet(Units(S)) /\ IsFiniteSet(Units(T)) /\ Total(S) \in Nat /\ Total(T) \in Nat
  BY UnitsFinite
<1>3. Cardinality(Units(S) \cup Units(T)) = Total(S) + Total(T) - Cardinality(Units(S) \cap Units(T))
  BY <1>2, FS_Union DEF Total
<1>4. IsFiniteSet(Units(S) \cap Units(T)) /\ Cardinality(Units(S) \cap Units(T)) \in Nat
  BY <1>2, FS_Intersection, FS_CardinalityType
<1>5. S \cap T = {} => Cardinality(Units(S) \cap Units(T)) = 0
  <2>1. S \cap T = {} => Units(S) \cap Units(T) = {}
    BY DEF Units
  <2> QED  BY <2>1, FS_EmptySet
<1>6. Total(S \cup T) = Total(S) + Total(T) - Cardinality(Units(S) \cap Units(T))
  BY <1>1, <1>3 DEF Total
<1> QED  BY <1>2, <1>4, <1>5, <1>6

LEMMA TotalOne ==
  ASSUME NEW u \in Uploads
  PROVE  Total({u}) = Size[u]
<1> DEFINE f == [n \in 1..Size[u] |-> <<u, n>>]
<1>1. f \in Bijection(1..Size[u], Units({u}))
  <2>1. \A n \in 1..Size[u] : <<u, n>> \in Units({u})
    BY SizeType, VolumeConstants DEF Units
  <2>2. \A x \in Units({u}) : x[2] \in 1..Size[u] /\ x = <<u, x[2]>>
    BY SizeType, VolumeConstants DEF Units
  <2>3. f \in Injection(1..Size[u], Units({u}))
    BY <2>1 DEF Injection, IsInjective
  <2>4. f \in Surjection(1..Size[u], Units({u}))
    BY <2>1, <2>2 DEF Surjection
  <2> QED  BY <2>3, <2>4 DEF Bijection
<1>2. ExistsBijection(1..Size[u], Units({u}))
  BY <1>1 DEF ExistsBijection
<1> QED  BY <1>2, SizeType, FS_CountingElements DEF Total

LEMMA TotalAdd ==
  ASSUME NEW S \in SUBSET Uploads, IsFiniteSet(S), NEW u \in Uploads
  PROVE  Total(S \cup {u}) <= Total(S) + Size[u]
  BY TotalUnion, TotalOne, FS_Singleton

LEMMA TotalRemove ==
  ASSUME NEW S \in SUBSET Uploads, IsFiniteSet(S), NEW u \in S
  PROVE  Total(S) = Total(S \ {u}) + Size[u]
<1>1. S = (S \ {u}) \cup {u} /\ (S \ {u}) \cap {u} = {}
  OBVIOUS
<1>2. IsFiniteSet(S \ {u}) /\ IsFiniteSet({u})
  BY FS_RemoveElement, FS_Singleton
<1> QED  BY <1>1, <1>2, TotalUnion, TotalOne

-----------------------------------------------------------------------------
(* Typing *)

\* Whoever is in a handler works on an upload; a charge is of one that was asked for.
JobsOK ==
    \A r \in Requests :
        /\ job[r].pc # "idle" => job[r].upload \in Uploads
        /\ job[r].pc \in Charging => job[r].upload \in asked

Typed ==
    /\ TypeOK
    /\ JobsOK
    /\ IsFiniteSet(asked)
    /\ inRedis \in SUBSET asked /\ inMemory \in SUBSET asked
    /\ memory <= MaxBytes

-----------------------------------------------------------------------------
(* Coverage *)

\* What a release has read covers what the counter covers: its write leaves it covered.
Balanced ==
    /\ redis + lostRedis >= Total(inRedis)
    /\ memory + lostMemory >= Total(inMemory)
    /\ \A r \in Requests : PastGet(r) => job[r].current + lostRedis >= Total(inRedis)

\* A release that met nothing: no other request is at the counter, which counts its
\* upload and has not changed since it was read.
Alone(r) ==
    /\ \A v \in Requests \ {r} : ~Busy(v)
    /\ job[r].upload \in inRedis
    /\ PastGet(r) => job[r].current = redis

Calm ==
    /\ lostRedis = 0 /\ lostMemory = 0
    /\ \A r \in Requests : InRelease(r) => Alone(r)

CalmInv == ~mixed => Calm

-----------------------------------------------------------------------------
(* Overshoot *)

\* Who is not about to add an upload it compared with the cap.
Elsewhere == {r \in Requests : ~At(r, "incr")}

Others == Cardinality(Elsewhere)

\* The last to pass the comparison has added its upload, or has yet to.
Overshoot ==
    \/ redis <= MaxBytes + MaxSize * (Others - 1)
    \/ \E e \in Requests : At(e, "incr") /\ redis + Bytes(e) <= MaxBytes + MaxSize * Others

CapInv == ~mixed => redis <= MaxBytes - 1 + MaxSize * Others /\ Overshoot

-----------------------------------------------------------------------------
(* Steps of one request *)

PCs == {"idle"} \cup Charging \cup Releasing

Local(r) == \A v \in Requests \ {r} : job'[v] = job[v]

LEMMA Types ==
  ASSUME Typed
  PROVE  /\ redis \in Nat /\ memory \in Nat
         /\ job \in [Requests -> Job]
         /\ \A r \in Requests : /\ job[r] \in Job /\ job[r].pc \in PCs /\ job[r].current \in Nat
                                /\ Busy(r) => job[r].upload \in Uploads /\ Bytes(r) \in Nat
                                              /\ 0 < Bytes(r) /\ Bytes(r) <= MaxSize
         /\ lostRedis \in Nat /\ lostMemory \in Nat
         /\ IsFiniteSet(inRedis) /\ IsFiniteSet(inMemory)
         /\ inRedis \in SUBSET Uploads /\ inMemory \in SUBSET Uploads
         /\ Total(inRedis) \in Nat /\ Total(inMemory) \in Nat
<1>1. redis \in Nat /\ memory \in Nat /\ job \in [Requests -> Job]
      /\ lostRedis \in Nat /\ lostMemory \in Nat
      /\ inRedis \in SUBSET Uploads /\ inMemory \in SUBSET Uploads
  BY DEF Typed, TypeOK
<1>2. ASSUME NEW r \in Requests
      PROVE  /\ job[r] \in Job /\ job[r].pc \in PCs /\ job[r].current \in Nat
             /\ Busy(r) => job[r].upload \in Uploads /\ Bytes(r) \in Nat
                           /\ 0 < Bytes(r) /\ Bytes(r) <= MaxSize
  <2>1. job[r] \in Job /\ job[r].pc \in PCs /\ job[r].current \in Nat
    BY <1>1 DEF Job, PCs
  <2> QED  BY <2>1, SizeType DEF Typed, JobsOK, Busy, Bytes
<1>3. IsFiniteSet(inRedis) /\ IsFiniteSet(inMemory)
  BY FS_Subset DEF Typed
<1> QED  BY <1>1, <1>2, <1>3, UnitsFinite

LEMMA LessType ==
  ASSUME NEW value \in Nat, NEW bytes \in Nat
  PROVE  /\ Less(value, bytes) \in Nat /\ Less(value, bytes) <= value
         /\ Less(value, bytes) >= value - bytes
         /\ Taken(value, bytes) \in Nat /\ Less(value, bytes) + Taken(value, bytes) = value
  BY DEF Less, Taken

LEMMA IdleType == Idle \in Job /\ Idle.pc = "idle"
  BY DEF Idle, Job

LEMMA Phases ==
  /\ Charging \cap Releasing = {} /\ "idle" \notin Charging \cup Releasing
  /\ \A r : (InRelease(r) => Busy(r)) /\ (job[r].pc \in Charging => Busy(r) /\ ~InRelease(r))
  /\ \A r : PastGet(r) => InRelease(r)
  BY DEF Charging, Releasing, InRelease, Busy, PastGet

LEMMA GotoStep ==
  ASSUME Typed, NEW r \in Requests, NEW pc \in PCs, Goto(r, pc)
  PROVE  /\ job' \in [Requests -> Job] /\ Local(r)
         /\ job'[r].pc = pc /\ job'[r].upload = job[r].upload /\ job'[r].current = job[r].current
  BY Types DEF Goto, Local, Job, PCs

LEMMA FinishStep ==
  ASSUME Typed, NEW r \in Requests, Finish(r)
  PROVE  job' \in [Requests -> Job] /\ Local(r) /\ job'[r].pc = "idle"
  BY Types, IdleType DEF Finish, Local

LEMMA BeginStep ==
  ASSUME Typed, NEW r \in Requests, NEW pc \in PCs, NEW u \in Uploads, Begin(r, pc, u)
  PROVE  /\ job' \in [Requests -> Job] /\ Local(r)
         /\ job[r].pc = "idle" /\ job'[r].pc = pc /\ job'[r].upload = u /\ job'[r].current = 0
  BY Types, IdleType DEF Begin, Local, Job, PCs

LEMMA ReadStep ==
  ASSUME Typed, NEW r \in Requests, ReadVolume(r)
  PROVE  /\ job' \in [Requests -> Job] /\ Local(r)
         /\ job'[r].upload = job[r].upload /\ job'[r].current = redis
         /\ job'[r].pc = IF Less(redis, Bytes(r)) = 0 THEN "delete" ELSE "expiry"
<1> DEFINE pc == IF Less(redis, Bytes(r)) = 0 THEN "delete" ELSE "expiry"
<1>1. job' = [job EXCEPT ![r].current = redis, ![r].pc = pc]
  BY DEF ReadVolume
<1>2. pc \in PCs
  BY DEF PCs, Releasing
<1> HIDE DEF pc
<1>3. /\ job' \in [Requests -> Job] /\ Local(r)
      /\ job'[r].upload = job[r].upload /\ job'[r].current = redis /\ job'[r].pc = pc
  BY <1>1, <1>2, Types DEF Local, Job, PCs
<1> QED  BY <1>3 DEF pc

\* Only the request's own job changes, and what it changes is one of its uploads.
LEMMA JobsStep ==
  ASSUME Typed, NEW r \in Requests, job' \in [Requests -> Job], Local(r), asked \subseteq asked',
         job'[r].pc # "idle" => job'[r].upload \in Uploads,
         job'[r].pc \in Charging => job'[r].upload \in asked'
  PROVE  JobsOK'
  BY DEF Local, Typed, JobsOK

\* What the memory counter does with a charge.
LEMMA ChargeMemoryStep ==
  ASSUME Typed, NEW u \in Uploads, ChargeMemory(u)
  PROVE  /\ memory' \in Nat /\ memory' <= MaxBytes
         /\ admitted' \subseteq admitted \cup {u} /\ inMemory' \subseteq inMemory \cup {u}
         /\ memory + lostMemory >= Total(inMemory) => memory' + lostMemory >= Total(inMemory')
<1>1. memory \in Nat /\ memory <= MaxBytes /\ Size[u] \in Nat /\ MaxBytes \in Nat
      /\ lostMemory \in Nat
  BY Types, SizeType, VolumeConstants DEF Typed
<1>2. CASE Admits(memory, u)
  <2>1. memory' = memory + Size[u] /\ admitted' = admitted \cup {u} /\ inMemory' = inMemory \cup {u}
    BY <1>2 DEF ChargeMemory
  <2>2. Total(inMemory \cup {u}) <= Total(inMemory) + Size[u]
    BY Types, TotalAdd
  <2>3. Total(inMemory) \in Nat /\ Total(inMemory \cup {u}) \in Nat
    <3>1. IsFiniteSet(inMemory \cup {u}) /\ inMemory \cup {u} \subseteq Uploads
      BY Types, FS_AddElement
    <3> QED  BY <3>1, Types, UnitsFinite
  <2> QED  BY <1>1, <1>2, <2>1, <2>2, <2>3 DEF Admits
<1>3. CASE ~Admits(memory, u)
  BY <1>1, <1>3 DEF ChargeMemory
<1> QED  BY <1>2, <1>3

-----------------------------------------------------------------------------
(* Types are preserved *)

LEMMA ChargeTyped ==
  ASSUME Typed, NEW r \in Requests, NEW u \in Uploads, Charge(r, u)
  PROVE  Typed'
<1>1. asked' = asked \cup {u} /\ IsFiniteSet(asked') /\ asked' \in SUBSET Uploads
  BY FS_AddElement DEF Charge, Typed, TypeOK
<1>2. CASE available
  <2>1. /\ Begin(r, "get", u) /\ mixed' \in BOOLEAN
        /\ UNCHANGED <<redis, memory, client, admitted, returned, bounds, ledger>>
    BY <1>2 DEF Charge, Typed, TypeOK, ledger
  <2>2. /\ job' \in [Requests -> Job] /\ Local(r) /\ job'[r].pc = "get" /\ job'[r].upload = u
    BY <2>1, BeginStep DEF PCs, Charging
  <2>3. JobsOK'
    BY <1>1, <2>2, JobsStep
  <2> QED  BY <1>1, <2>1, <2>2, <2>3 DEF Typed, TypeOK, bounds, ledger
<1>3. CASE ~available
  <2>1. /\ ChargeMemory(u)
        /\ UNCHANGED <<redis, client, job, returned, bounds, inRedis, lostRedis, lostMemory, mixed>>
    BY <1>3 DEF Charge
  <2>2. JobsOK'
    BY <1>1, <2>1 DEF Typed, JobsOK
  <2>3. admitted \subseteq admitted'
    BY <2>1 DEF ChargeMemory
  <2> QED  BY <1>1, <2>1, <2>2, <2>3, ChargeMemoryStep DEF Typed, TypeOK, bounds
<1> QED  BY <1>2, <1>3

\* What the memory counter does with a release.
LEMMA ReleaseMemoryStep ==
  ASSUME Typed, NEW u \in Uploads, ReleaseMemory(u)
  PROVE  /\ memory' \in Nat /\ memory' <= MaxBytes
         /\ inMemory' = inMemory \ {u} /\ lostMemory' \in Nat
<1>1. memory \in Nat /\ memory <= MaxBytes /\ Size[u] \in Nat /\ MaxBytes \in Nat /\ lostMemory \in Nat
  BY Types, SizeType, VolumeConstants DEF Typed
<1>2. /\ Less(memory, Size[u]) \in Nat /\ Less(memory, Size[u]) <= memory
      /\ Taken(memory, Size[u]) \in Nat
  BY <1>1, LessType
<1> QED  BY <1>1, <1>2 DEF ReleaseMemory

LEMMA ReleaseTyped ==
  ASSUME Typed, NEW r \in Requests, NEW u \in Uploads, Release(r, u)
  PROVE  Typed'
<1>1. /\ UNCHANGED <<redis, client, asked, admitted, faults, windows, inRedis, lostRedis>>
      /\ mixed' \in BOOLEAN /\ returned' \in SUBSET admitted
  BY DEF Release, Typed, TypeOK
<1>2. /\ memory' \in Nat /\ memory' <= MaxBytes /\ lostMemory' \in Nat
      /\ inMemory' \subseteq inMemory
  <2>1. UNCHANGED <<memory, inMemory, lostMemory>> \/ ReleaseMemory(u)
    BY DEF Release
  <2>2. memory \in Nat /\ memory <= MaxBytes /\ lostMemory \in Nat
    BY DEF Typed, TypeOK
  <2> QED  BY <2>1, <2>2, ReleaseMemoryStep
<1>3. job' \in [Requests -> Job] /\ JobsOK'
  <2>1. CASE available
    <3>1. job' \in [Requests -> Job] /\ Local(r) /\ job'[r].pc = "read" /\ job'[r].upload = u
      BY <2>1, BeginStep DEF Release, PCs, Releasing
    <3> QED  BY <1>1, <3>1, JobsStep DEF Charging
  <2>2. CASE ~available
    BY <1>1, <2>2, Types DEF Release, Typed, JobsOK
  <2> QED  BY <2>1, <2>2
<1>4. repeats' \in 0..MaxRepeats
  <2>1. repeats' \in {repeats, repeats + 1} /\ repeats' <= MaxRepeats
    BY DEF Release
  <2>2. repeats \in 0..MaxRepeats
    BY DEF Typed, TypeOK
  <2> QED  BY <2>1, <2>2, VolumeConstants
<1> QED  BY <1>1, <1>2, <1>3, <1>4 DEF Typed, TypeOK

\* What a release writes.
LEMMA TakeOffStep ==
  ASSUME Typed, NEW r \in Requests, InRelease(r), TakeOff(r)
  PROVE  redis' \in Nat /\ lostRedis' \in Nat /\ inRedis' \subseteq inRedis
<1>1. job[r].current \in Nat /\ Bytes(r) \in Nat /\ lostRedis \in Nat
  BY Types, Phases
<1>2. Less(job[r].current, Bytes(r)) \in Nat /\ Taken(job[r].current, Bytes(r)) \in Nat
  BY <1>1, LessType
<1> QED  BY <1>1, <1>2 DEF TakeOff

LEMMA HandleTyped ==
  ASSUME Typed, NEW r \in Requests, Handle(r)
  PROVE  Typed'
<1>1. ASSUME job' \in [Requests -> Job], Local(r), UNCHANGED <<counters, uploads, bounds, history>>,
             job'[r].pc # "idle" => job[r].pc # "idle" /\ job'[r].upload = job[r].upload,
             job'[r].pc \in Charging => job[r].pc \in Charging
      PROVE  Typed'
  <2>1. JobsOK'
    BY <1>1, JobsStep DEF Typed, JobsOK, Charging, uploads
  <2> QED  BY <1>1, <2>1 DEF Typed, TypeOK, counters, uploads, bounds, history, ledger
<1>2. CASE GetVolume(r)
  <2>1. PICK pc \in {"incr", "ttl"} : Goto(r, pc)
    BY <1>2 DEF GetVolume
  <2> QED  BY <1>1, <1>2, <2>1, GotoStep DEF GetVolume, At, PCs, Charging
<1>3. CASE Refuse(r)
  BY <1>1, <1>3, FinishStep DEF Refuse, Charging
<1>4. CASE AddVolume(r)
  <2>1. job' \in [Requests -> Job] /\ Local(r) /\ job'[r].pc = "idle" /\ asked' = asked
    BY <1>4, FinishStep DEF AddVolume
  <2>2. JobsOK'
    BY <2>1, JobsStep DEF Charging
  <2>3. job[r].upload \in asked /\ job[r].upload \in Uploads /\ Bytes(r) \in Nat
    BY <1>4, Types DEF AddVolume, At, Typed, JobsOK, Charging, Busy
  <2>4. /\ admitted' = admitted \cup {job[r].upload} /\ inRedis' = inRedis \cup {job[r].upload}
        /\ redis' = redis + Bytes(r) /\ lostRedis' \in {lostRedis, lostRedis + Bytes(r)}
        /\ UNCHANGED <<memory, client, asked, returned, bounds, inMemory, lostMemory, mixed>>
    BY <1>4 DEF AddVolume, Admitted
  <2>5. redis' \in Nat /\ lostRedis' \in Nat
    BY <2>3, <2>4, Types
  <2> QED  BY <2>1, <2>2, <2>3, <2>4, <2>5 DEF Typed, TypeOK, bounds
<1>5. CASE ReadVolume(r)
  <2>1. /\ job' \in [Requests -> Job] /\ Local(r) /\ job'[r].upload = job[r].upload
        /\ job'[r].pc \in {"delete", "expiry"}
    BY <1>5, ReadStep
  <2> QED  BY <1>1, <1>5, <2>1 DEF ReadVolume, At, Charging
<1>6. CASE ReadExpiry(r)
  BY <1>1, <1>6, GotoStep DEF ReadExpiry, At, PCs, Charging, Releasing
<1>7. CASE DeleteVolume(r) \/ WriteVolume(r)
  <2>1. /\ job' \in [Requests -> Job] /\ Local(r) /\ job'[r].pc = "idle"
        /\ UNCHANGED <<memory, client, uploads, bounds, inMemory, lostMemory, mixed>>
    BY <1>7, FinishStep DEF DeleteVolume, WriteVolume
  <2>2. redis' \in Nat /\ lostRedis' \in Nat /\ inRedis' \subseteq inRedis
    BY <1>7, TakeOffStep DEF DeleteVolume, WriteVolume, At, InRelease, Releasing
  <2>3. JobsOK'
    BY <2>1, JobsStep DEF Charging, uploads
  <2> QED  BY <2>1, <2>2, <2>3 DEF Typed, TypeOK, uploads, bounds
<1> QED  BY <1>2, <1>3, <1>4, <1>5, <1>6, <1>7 DEF Handle

LEMMA FailTyped ==
  ASSUME Typed, NEW r \in Requests, ChargeFails(r) \/ ReleaseFails(r)
  PROVE  Typed'
<1>1. faults' \in 0..MaxFaults
  BY VolumeConstants DEF ChargeFails, ReleaseFails, Typed, TypeOK
<1>2. /\ job' \in [Requests -> Job] /\ Local(r) /\ job'[r].pc = "idle"
      /\ UNCHANGED <<client, asked, returned, repeats, windows>>
  BY FinishStep DEF ChargeFails, ReleaseFails, uploads
<1>3. JobsOK'
  BY <1>2, JobsStep DEF Charging
<1>4. CASE ChargeFails(r)
  <2>1. job[r].upload \in asked /\ job[r].upload \in Uploads /\ Bytes(r) \in Nat
    BY <1>4, Types DEF ChargeFails, Typed, JobsOK, Charging, Busy
  <2>2. redis' \in Nat
    BY <1>4, <2>1, Types DEF ChargeFails
  <2>3. ChargeMemory(job[r].upload) /\ UNCHANGED <<inRedis, lostRedis, lostMemory, mixed>>
    BY <1>4 DEF ChargeFails
  <2>4. /\ memory' \in Nat /\ memory' <= MaxBytes
        /\ admitted' \subseteq admitted \cup {job[r].upload}
        /\ inMemory' \subseteq inMemory \cup {job[r].upload}
    BY <2>1, <2>3, ChargeMemoryStep
  <2>5. admitted \subseteq admitted'
    BY <2>3 DEF ChargeMemory
  <2> QED  BY <1>1, <1>2, <1>3, <2>1, <2>2, <2>3, <2>4, <2>5 DEF Typed, TypeOK
<1>5. CASE ReleaseFails(r)
  <2>1. InRelease(r) /\ job[r].upload \in Uploads
    BY <1>5, Types, Phases DEF ReleaseFails
  <2>2. redis' \in Nat /\ lostRedis' \in Nat /\ inRedis' \subseteq inRedis
    <3>1. TakeOff(r) \/ UNCHANGED <<redis, inRedis, lostRedis>>
      BY <1>5 DEF ReleaseFails
    <3>2. redis \in Nat /\ lostRedis \in Nat
      BY Types
    <3> QED  BY <2>1, <3>1, <3>2, TakeOffStep
  <2>3. /\ memory' \in Nat /\ memory' <= MaxBytes /\ lostMemory' \in Nat
        /\ inMemory' \subseteq inMemory
    BY <1>5, <2>1, ReleaseMemoryStep DEF ReleaseFails
  <2>4. mixed' = TRUE /\ admitted' = admitted
    BY <1>5 DEF ReleaseFails, uploads
  <2> QED  BY <1>1, <1>2, <1>3, <2>2, <2>3, <2>4 DEF Typed, TypeOK
<1> QED  BY <1>4, <1>5

LEMMA WindowTyped ==
  ASSUME Typed, RedisWindowEnds \/ MemoryWindowEnds
  PROVE  Typed'
<1>1. windows' \in 0..MaxWindows
  BY VolumeConstants DEF RedisWindowEnds, MemoryWindowEnds, Typed, TypeOK
<1>2. UNCHANGED <<client, job, uploads, repeats, faults>>
  BY DEF RedisWindowEnds, MemoryWindowEnds
<1>3. mixed' \in BOOLEAN
  BY Zenon DEF RedisWindowEnds, MemoryWindowEnds, Typed, TypeOK
<1>4. /\ redis' \in {redis, 0} /\ memory' \in {memory, 0}
      /\ lostRedis' \in {lostRedis, 0} /\ lostMemory' \in {lostMemory, 0}
      /\ inRedis' \subseteq inRedis /\ inMemory' \subseteq inMemory
  BY DEF RedisWindowEnds, MemoryWindowEnds
<1>5. JobsOK'
  BY <1>2 DEF Typed, JobsOK, uploads
<1> QED  BY <1>1, <1>2, <1>3, <1>4, <1>5, VolumeConstants DEF Typed, TypeOK, uploads

LEMMA ConnectionTyped ==
  ASSUME Typed, FirstConnectFails \/ Connect \/ GiveUp
  PROVE  Typed'
<1>1. client' \in {"up", "retrying", "ended"} /\ faults' \in 0..MaxFaults
  BY VolumeConstants DEF FirstConnectFails, Connect, GiveUp, Typed, TypeOK, bounds
<1>2. UNCHANGED <<redis, memory, job, uploads, repeats, windows, history>>
  BY DEF FirstConnectFails, Connect, GiveUp, bounds
<1>3. JobsOK'
  BY <1>2 DEF Typed, JobsOK, uploads
<1> QED  BY <1>1, <1>2, <1>3 DEF Typed, TypeOK, uploads, history, ledger

LEMMA CrashTyped ==
  ASSUME Typed, Crash
  PROVE  Typed'
<1>1. /\ faults' \in 0..MaxFaults /\ memory' = 0 /\ inMemory' = {} /\ lostMemory' = 0
      /\ mixed' \in BOOLEAN
      /\ client' = "new" /\ UNCHANGED <<redis, uploads, repeats, windows, inRedis, lostRedis>>
  BY VolumeConstants DEF Crash, Typed, TypeOK
<1>2. job' \in [Requests -> Job] /\ \A r \in Requests : job'[r].pc = "idle"
  BY IdleType DEF Crash
<1>3. JobsOK'
  BY <1>2 DEF JobsOK, Charging
<1> QED  BY <1>1, <1>2, <1>3, VolumeConstants DEF Typed, TypeOK, uploads

LEMMA TypedStep == Typed /\ [Next]_vars => Typed'
<1> SUFFICES ASSUME Typed, [Next]_vars
             PROVE  Typed'
  OBVIOUS
<1>1. CASE UNCHANGED vars
  <2>1. UNCHANGED <<redis, memory, client, job, asked, admitted, returned, repeats, faults, windows,
                    inRedis, inMemory, lostRedis, lostMemory, mixed>>
    BY <1>1 DEF vars, counters, uploads, bounds, history, ledger
  <2>2. JobsOK'
    BY <2>1 DEF Typed, JobsOK
  <2> QED  BY <2>1, <2>2 DEF Typed, TypeOK
<1> QED
  BY <1>1, ChargeTyped, ReleaseTyped, HandleTyped, FailTyped, WindowTyped, ConnectionTyped, CrashTyped
  DEF Next

LEMMA TypedInit == Init => Typed
<1> SUFFICES ASSUME Init PROVE Typed
  OBVIOUS
<1>1. job \in [Requests -> Job] /\ JobsOK
  BY IdleType DEF Init, JobsOK, Charging
<1>2. IsFiniteSet(asked)
  BY FS_EmptySet DEF Init
<1>3. /\ redis = 0 /\ memory = 0 /\ client = "new"
      /\ asked = {} /\ admitted = {} /\ returned = {}
      /\ repeats = 0 /\ faults = 0 /\ windows = 0
      /\ inRedis = {} /\ inMemory = {} /\ lostRedis = 0 /\ lostMemory = 0 /\ mixed = FALSE
  BY DEF Init
<1>4. /\ repeats \in 0..MaxRepeats /\ faults \in 0..MaxFaults /\ windows \in 0..MaxWindows
      /\ memory <= MaxBytes
  BY <1>3, VolumeConstants
<1>5. /\ asked \in SUBSET Uploads /\ admitted \in SUBSET asked /\ returned \in SUBSET admitted
      /\ inRedis \in SUBSET asked /\ inMemory \in SUBSET asked
  BY <1>3
<1>6. /\ redis \in Nat /\ memory \in Nat /\ client \in {"new", "up", "retrying", "ended"}
      /\ lostRedis \in Nat /\ lostMemory \in Nat /\ mixed \in BOOLEAN
  BY <1>3
<1> QED  BY <1>1, <1>2, <1>4, <1>5, <1>6 DEF Typed, TypeOK

THEOREM VolumeTyping == Spec => []Typed
<1> QED  BY TypedInit, TypedStep, PTL DEF Spec

\* The counters, and what a request keeps of them, are never negative, whatever
\* releases overlap with charges, with one another or with the end of a window.
THEOREM VolumeTypes == Spec => []TypeOK
<1>1. Typed => TypeOK
  BY DEF Typed
<1> QED  BY <1>1, VolumeTyping, PTL

-----------------------------------------------------------------------------
(* What the counters are short of is accounted for *)

LEMMA TotalWithout ==
  ASSUME NEW S \in SUBSET Uploads, IsFiniteSet(S), NEW u \in Uploads
  PROVE  /\ Total(S \ {u}) \in Nat /\ Total(S \ {u}) <= Total(S)
         /\ u \in S => Total(S) = Total(S \ {u}) + Size[u]
<1>1. IsFiniteSet(S \ {u})
  BY FS_RemoveElement
<1> QED  BY <1>1, UnitsFinite, TotalMonotone, TotalRemove

\* Taking an upload off a value: what covered the set covers what is left of it, and
\* what is taken for an upload that is not in it is noted as lost.
LEMMA TakenOff ==
  ASSUME NEW S \in SUBSET Uploads, IsFiniteSet(S), NEW u \in Uploads,
         NEW value \in Nat, NEW lost \in Nat, NEW after \in Nat,
         value + lost >= Total(S),
         after = IF u \in S THEN lost ELSE lost + Taken(value, Size[u])
  PROVE  Less(value, Size[u]) + after >= Total(S \ {u})
<1>1. /\ Total(S) \in Nat /\ Total(S \ {u}) \in Nat /\ Total(S \ {u}) <= Total(S)
      /\ u \in S => Total(S) = Total(S \ {u}) + Size[u]
  BY UnitsFinite, TotalWithout
<1>2. Size[u] \in Nat
  BY SizeType
<1>3. /\ Less(value, Size[u]) \in Nat /\ Less(value, Size[u]) >= value - Size[u]
      /\ Taken(value, Size[u]) \in Nat /\ Less(value, Size[u]) + Taken(value, Size[u]) = value
  BY <1>2, LessType
<1> QED  BY <1>1, <1>2, <1>3

\* Requests that have read the counter go on with what they read.
LEMMA Unread ==
  ASSUME Typed, Balanced, NEW r \in Requests, Local(r), ~PastGet(r)',
         redis' + lostRedis' >= Total(inRedis'), memory' + lostMemory' >= Total(inMemory'),
         \A v \in Requests \ {r} : PastGet(v) => job[v].current + lostRedis' >= Total(inRedis')
  PROVE  Balanced'
<1>1. ASSUME NEW v \in Requests, PastGet(v)'
      PROVE  job'[v].current + lostRedis' >= Total(inRedis')
  <2>1. v # r /\ job'[v] = job[v]
    BY <1>1 DEF Local
  <2>2. PastGet(v)
    BY <1>1, <2>1 DEF PastGet
  <2> QED  BY <2>1, <2>2
<1> QED  BY <1>1 DEF Balanced

\* Nothing that Redis counts, or that was read of it, changes.
LEMMA RedisAlone ==
  ASSUME Typed, Balanced, job' = job, UNCHANGED <<redis, inRedis, lostRedis>>,
         memory' + lostMemory' >= Total(inMemory')
  PROVE  Balanced'
  BY DEF Balanced, PastGet

LEMMA ReleaseMemoryBalanced ==
  ASSUME Typed, Balanced, NEW u \in Uploads, ReleaseMemory(u)
  PROVE  memory' + lostMemory' >= Total(inMemory')
<1>1. /\ memory \in Nat /\ lostMemory \in Nat /\ inMemory \in SUBSET Uploads /\ IsFiniteSet(inMemory)
      /\ lostMemory' \in Nat
  BY Types, ReleaseMemoryStep
<1> QED  BY <1>1, TakenOff DEF ReleaseMemory, Balanced

LEMMA ChargeBalanced ==
  ASSUME Typed, Balanced, NEW r \in Requests, NEW u \in Uploads, Charge(r, u)
  PROVE  Balanced'
<1>1. CASE available
  <2>1. UNCHANGED <<redis, memory, ledger>>
    BY <1>1 DEF Charge, ledger
  <2>2. Local(r) /\ ~PastGet(r)'
    BY <1>1, BeginStep DEF Charge, PCs, Charging, PastGet
  <2> QED  BY <2>1, <2>2, Unread DEF Balanced, ledger
<1>2. CASE ~available
  <2>1. ChargeMemory(u) /\ UNCHANGED <<job, redis, inRedis, lostRedis, lostMemory>>
    BY <1>2 DEF Charge
  <2> QED  BY <2>1, ChargeMemoryStep, RedisAlone DEF Balanced
<1> QED  BY <1>1, <1>2

LEMMA ReleaseBalanced ==
  ASSUME Typed, Balanced, NEW r \in Requests, NEW u \in Uploads, Release(r, u)
  PROVE  Balanced'
<1>1. CASE available
  <2>1. UNCHANGED <<redis, memory, ledger>>
    BY <1>1 DEF Release, ledger
  <2>2. Local(r) /\ ~PastGet(r)'
    BY <1>1, BeginStep DEF Release, PCs, Releasing, PastGet
  <2> QED  BY <2>1, <2>2, Unread DEF Balanced, ledger
<1>2. CASE ~available
  BY <1>2, ReleaseMemoryBalanced, RedisAlone DEF Release
<1> QED  BY <1>1, <1>2

\* A charge that lands behind the GET of a release is noted as lost.
LEMMA AddBalanced ==
  ASSUME Typed, Balanced, NEW r \in Requests, AddVolume(r)
  PROVE  Balanced'
<1>1. job[r].upload \in Uploads /\ Bytes(r) \in Nat
  BY Types DEF AddVolume, At, Busy
<1>2. /\ redis' = redis + Bytes(r) /\ inRedis' = inRedis \cup {job[r].upload}
      /\ UNCHANGED <<memory, inMemory, lostMemory>>
      /\ lostRedis' = IF \E v \in Requests : PastGet(v) THEN lostRedis + Bytes(r) ELSE lostRedis
  BY DEF AddVolume, Admitted
<1>3. Local(r) /\ ~PastGet(r)'
  BY FinishStep DEF AddVolume, PastGet
<1>4. Total(inRedis') <= Total(inRedis) + Bytes(r) /\ Total(inRedis') \in Nat
  <2>1. IsFiniteSet(inRedis \cup {job[r].upload}) /\ inRedis \cup {job[r].upload} \subseteq Uploads
    BY <1>1, Types, FS_AddElement
  <2> QED  BY <1>1, <1>2, <2>1, Types, TotalAdd, UnitsFinite DEF Bytes
<1>5. redis \in Nat /\ lostRedis \in Nat /\ Total(inRedis) \in Nat
  BY Types
<1>6. redis' + lostRedis' >= Total(inRedis')
  BY <1>1, <1>2, <1>4, <1>5 DEF Balanced
<1>7. ASSUME NEW v \in Requests, PastGet(v)
      PROVE  job[v].current + lostRedis' >= Total(inRedis')
  <2>1. lostRedis' = lostRedis + Bytes(r) /\ job[v].current \in Nat
    BY <1>2, <1>7, Types
  <2> QED  BY <1>1, <1>4, <1>5, <1>7, <2>1 DEF Balanced
<1> QED  BY <1>2, <1>3, <1>6, <1>7, Unread DEF Balanced

\* The write of a release, whatever happened since it read the counter.
LEMMA TakeOffBalanced ==
  ASSUME Typed, Balanced, NEW r \in Requests, PastGet(r), TakeOff(r)
  PROVE  /\ redis' + lostRedis' >= Total(inRedis')
         /\ \A v \in Requests : PastGet(v) => job[v].current + lostRedis' >= Total(inRedis')
<1> DEFINE u == job[r].upload
<1>1. /\ u \in Uploads /\ Bytes(r) = Size[u] /\ Bytes(r) \in Nat
      /\ job[r].current \in Nat /\ lostRedis \in Nat
      /\ inRedis \in SUBSET Uploads /\ IsFiniteSet(inRedis) /\ Total(inRedis) \in Nat
  BY Types, Phases DEF Bytes
<1>2. lostRedis' \in Nat
  BY TakeOffStep, Phases
<1>3. /\ redis' = Less(job[r].current, Size[u]) /\ inRedis' = inRedis \ {u}
      /\ lostRedis' = IF u \in inRedis THEN lostRedis ELSE lostRedis + Taken(job[r].current, Size[u])
  BY <1>1 DEF TakeOff
<1>4. job[r].current + lostRedis >= Total(inRedis)
  BY DEF Balanced
<1> HIDE DEF u
<1>5. redis' + lostRedis' >= Total(inRedis')
  BY <1>1, <1>2, <1>3, <1>4, TakenOff
<1>6. lostRedis' >= lostRedis
  <2>1. Size[u] \in Nat
    BY <1>1, SizeType
  <2>2. Taken(job[r].current, Size[u]) \in Nat
    BY <1>1, <2>1, LessType
  <2> QED  BY <1>1, <1>3, <2>2
<1>7. Total(inRedis') <= Total(inRedis) /\ Total(inRedis') \in Nat
  BY <1>1, <1>3, TotalWithout
<1>8. ASSUME NEW v \in Requests, PastGet(v)
      PROVE  job[v].current + lostRedis' >= Total(inRedis')
  <2>1. job[v].current \in Nat /\ job[v].current + lostRedis >= Total(inRedis)
    BY <1>8, Types DEF Balanced
  <2> QED  BY <1>1, <1>2, <1>6, <1>7, <2>1
<1> QED  BY <1>5, <1>8

LEMMA HandleBalanced ==
  ASSUME Typed, Balanced, NEW r \in Requests, Handle(r)
  PROVE  Balanced'
<1>1. ASSUME Local(r), ~PastGet(r)', UNCHANGED <<counters, history>>
      PROVE  Balanced'
  BY <1>1, Unread DEF Balanced, counters, history, ledger
<1>2. CASE GetVolume(r)
  <2>1. PICK pc \in {"incr", "ttl"} : Goto(r, pc)
    BY <1>2 DEF GetVolume
  <2> QED  BY <1>1, <1>2, <2>1, GotoStep DEF GetVolume, PCs, Charging, PastGet
<1>3. CASE Refuse(r)
  BY <1>1, <1>3, FinishStep DEF Refuse, PastGet
<1>4. CASE ReadVolume(r) \/ ReadExpiry(r)
  <2>1. UNCHANGED <<counters, history>>
    BY <1>4 DEF ReadVolume, ReadExpiry
  <2>2. /\ Local(r)
        /\ job'[r].current = redis \/ (PastGet(r) /\ job'[r].current = job[r].current)
    <3>1. CASE ReadVolume(r)
      BY <3>1, ReadStep
    <3>2. CASE ReadExpiry(r)
      BY <3>2, GotoStep DEF ReadExpiry, PCs, Releasing, At, PastGet
    <3> QED  BY <1>4, <3>1, <3>2
  <2>3. ASSUME NEW v \in Requests, PastGet(v)'
        PROVE  job'[v].current + lostRedis >= Total(inRedis)
    <3>1. CASE v = r
      BY <2>2, <3>1 DEF Balanced
    <3>2. CASE v # r
      BY <2>2, <2>3, <3>2 DEF Balanced, Local, PastGet
    <3> QED  BY <3>1, <3>2
  <2> QED  BY <2>1, <2>3 DEF Balanced, counters, history, ledger
<1>5. CASE DeleteVolume(r) \/ WriteVolume(r)
  <2>1. PastGet(r) /\ TakeOff(r) /\ UNCHANGED <<memory, inMemory, lostMemory>>
    BY <1>5 DEF DeleteVolume, WriteVolume, At, PastGet
  <2>2. Local(r) /\ ~PastGet(r)'
    BY <1>5, FinishStep DEF DeleteVolume, WriteVolume, PastGet
  <2> QED  BY <2>1, <2>2, TakeOffBalanced, Unread DEF Balanced
<1> QED  BY <1>2, <1>3, <1>4, <1>5, AddBalanced DEF Handle

LEMMA FailBalanced ==
  ASSUME Typed, Balanced, NEW r \in Requests, ChargeFails(r) \/ ReleaseFails(r)
  PROVE  Balanced'
<1>1. Local(r) /\ ~PastGet(r)' /\ job[r].upload \in Uploads /\ Bytes(r) \in Nat
  BY FinishStep, Types, Phases DEF ChargeFails, ReleaseFails, PastGet
<1>2. CASE ChargeFails(r)
  <2>1. /\ redis' \in {redis, redis + Bytes(r)} /\ ChargeMemory(job[r].upload)
        /\ UNCHANGED <<inRedis, lostRedis, lostMemory>>
    BY <1>2 DEF ChargeFails
  <2>2. redis' + lostRedis' >= Total(inRedis')
    BY <1>1, <2>1, Types DEF Balanced
  <2>3. memory' + lostMemory' >= Total(inMemory')
    BY <1>1, <2>1, ChargeMemoryStep DEF Balanced
  <2> QED  BY <1>1, <2>1, <2>2, <2>3, Unread DEF Balanced
<1>3. CASE ReleaseFails(r)
  <2>1. ReleaseMemory(job[r].upload)
    BY <1>3 DEF ReleaseFails
  <2>2. memory' + lostMemory' >= Total(inMemory')
    BY <1>1, <2>1, ReleaseMemoryBalanced
  <2>3. CASE UNCHANGED <<redis, inRedis, lostRedis>>
    BY <1>1, <2>2, <2>3, Unread DEF Balanced
  <2>4. CASE job[r].pc \in {"delete", "set"} /\ TakeOff(r)
    BY <1>1, <2>2, <2>4, TakeOffBalanced, Unread DEF PastGet
  <2> QED  BY <1>3, <2>3, <2>4 DEF ReleaseFails
<1> QED  BY <1>2, <1>3

LEMMA EnvironmentBalanced ==
  ASSUME Typed, Balanced,
         RedisWindowEnds \/ MemoryWindowEnds \/ FirstConnectFails \/ Connect \/ GiveUp \/ Crash
  PROVE  Balanced'
<1>1. CASE RedisWindowEnds
  <2>1. /\ redis' = 0 /\ inRedis' = {} /\ lostRedis' = 0
        /\ UNCHANGED <<job, memory, inMemory, lostMemory>>
    BY <1>1 DEF RedisWindowEnds
  <2>2. \A v \in Requests : job'[v].current + 0 >= 0
    BY <2>1, Types
  <2> QED  BY <2>1, <2>2, TotalEmpty DEF Balanced
<1>2. CASE MemoryWindowEnds
  <2>1. /\ memory' = 0 /\ inMemory' = {} /\ lostMemory' = 0
        /\ UNCHANGED <<job, redis, inRedis, lostRedis>>
    BY <1>2 DEF MemoryWindowEnds
  <2>2. memory' + lostMemory' >= Total(inMemory')
    BY <2>1, TotalEmpty
  <2> QED  BY <2>1, <2>2, RedisAlone
<1>3. CASE FirstConnectFails \/ Connect \/ GiveUp
  BY <1>3, RedisAlone DEF FirstConnectFails, Connect, GiveUp, Balanced, history, ledger
<1>4. CASE Crash
  <2>1. /\ memory' = 0 /\ inMemory' = {} /\ lostMemory' = 0
        /\ UNCHANGED <<redis, inRedis, lostRedis>>
    BY <1>4 DEF Crash
  <2>2. \A v \in Requests : ~PastGet(v)'
    BY <1>4, IdleType DEF Crash, PastGet
  <2>3. memory' + lostMemory' >= Total(inMemory')
    BY <2>1, TotalEmpty
  <2> QED  BY <2>1, <2>2, <2>3 DEF Balanced
<1> QED  BY <1>1, <1>2, <1>3, <1>4

LEMMA BalancedStep == Typed /\ Balanced /\ [Next]_vars => Balanced'
<1> SUFFICES ASSUME Typed, Balanced, [Next]_vars PROVE Balanced'
  OBVIOUS
<1>1. CASE UNCHANGED vars
  BY <1>1 DEF vars, counters, history, ledger, Balanced, PastGet
<1> QED
  BY <1>1, ChargeBalanced, ReleaseBalanced, HandleBalanced, FailBalanced, EnvironmentBalanced DEF Next

LEMMA BalancedInit == Init => Balanced
<1> SUFFICES ASSUME Init PROVE Balanced
  OBVIOUS
<1>1. redis = 0 /\ memory = 0 /\ inRedis = {} /\ inMemory = {} /\ lostRedis = 0 /\ lostMemory = 0
  BY DEF Init
<1>2. \A r \in Requests : ~PastGet(r)
  BY IdleType DEF Init, PastGet
<1> QED  BY <1>1, <1>2, TotalEmpty DEF Balanced

THEOREM BalancedInvariant == Spec => []Balanced
<1> QED  BY BalancedInit, BalancedStep, VolumeTyping, PTL DEF Spec

\* However charges and releases overlap, repeat, fail and fall back to memory, a counter
\* is short of what it admitted in its window and that was not given back by no more than
\* the charges that landed behind the GET of a release, and what was taken off for uploads
\* it did not count any more.
THEOREM NothingForgotten == Spec => []CountersCover
<1>1. Balanced => CountersCover
  BY DEF Balanced, CountersCover
<1> QED  BY <1>1, BalancedInvariant, PTL

-----------------------------------------------------------------------------
(* Behaviours in which no release meets another request, store or window *)

NoRelease == \A v \in Requests : ~InRelease(v)

\* No release is under way while another request is at a counter.
LEMMA ChargingAlone ==
  ASSUME Calm, NEW r \in Requests, job[r].pc \in Charging
  PROVE  NoRelease
<1> SUFFICES ASSUME NEW v \in Requests, InRelease(v) PROVE FALSE
  BY DEF NoRelease
<1>1. v # r /\ Busy(r)
  BY Phases
<1>2. ~Busy(r)
  BY <1>1 DEF Calm, Alone
<1> QED  BY <1>1, <1>2

LEMMA StillNoRelease ==
  ASSUME NoRelease, NEW r \in Requests, Local(r), job'[r].pc \notin Releasing
  PROVE  NoRelease'
  BY DEF NoRelease, Local, InRelease

LEMMA NothingReleased ==
  ASSUME NoRelease', lostRedis' = 0, lostMemory' = 0
  PROVE  Calm'
  BY DEF NoRelease, Calm

\* The release under way, if there is one, stays where it is.
LEMMA CalmStays ==
  ASSUME Calm, job' = job, UNCHANGED <<redis, inRedis, lostRedis>>, lostMemory' = 0
  PROVE  Calm'
  BY DEF Calm, Alone, InRelease, PastGet, Busy

LEMMA ChargeCalm ==
  ASSUME Typed, Calm, ~mixed', NEW r \in Requests, NEW u \in Uploads, Charge(r, u)
  PROVE  Calm'
<1>1. lostRedis' = 0 /\ lostMemory' = 0
  BY DEF Charge, Calm
<1>2. CASE available
  <2>1. NoRelease
    BY <1>2 DEF Charge, NoRelease
  <2>2. Local(r) /\ job'[r].pc = "get"
    BY <1>2, BeginStep DEF Charge, PCs, Charging
  <2> QED  BY <1>1, <2>1, <2>2, StillNoRelease, NothingReleased DEF Releasing
<1>3. CASE ~available
  BY <1>1, <1>3, CalmStays DEF Charge
<1> QED  BY <1>2, <1>3

LEMMA ReleaseCalm ==
  ASSUME Typed, Calm, ~mixed', NEW r \in Requests, NEW u \in Uploads, Release(r, u)
  PROVE  Calm'
<1>1. CASE available
  <2>1. /\ u \in inRedis /\ \A v \in Requests : ~Busy(v)
        /\ UNCHANGED <<redis, inRedis, lostRedis, lostMemory>>
    BY <1>1 DEF Release
  <2>2. Local(r) /\ job'[r].pc = "read" /\ job'[r].upload = u
    BY <1>1, BeginStep DEF Release, PCs, Releasing
  <2>3. \A v \in Requests \ {r} : ~Busy(v)' /\ ~InRelease(v)'
    BY <2>1, <2>2 DEF Local, Busy, InRelease, Releasing
  <2>4. Alone(r)'
    BY <2>1, <2>2, <2>3 DEF Alone, PastGet
  <2> QED  BY <2>1, <2>3, <2>4 DEF Calm
<1>2. CASE ~available
  <2>1. ReleaseMemory(u) /\ u \in inMemory /\ UNCHANGED <<job, redis, inRedis, lostRedis>>
    BY <1>2 DEF Release
  <2>2. lostMemory' = 0
    BY <2>1 DEF ReleaseMemory, Calm
  <2> QED  BY <2>1, <2>2, CalmStays
<1> QED  BY <1>1, <1>2

LEMMA HandleCalm ==
  ASSUME Typed, Calm, NEW r \in Requests, Handle(r)
  PROVE  Calm'
<1>1. CASE GetVolume(r) \/ Refuse(r) \/ AddVolume(r)
  <2>1. job[r].pc \in Charging
    BY <1>1 DEF GetVolume, Refuse, AddVolume, At, Charging
  <2>2. NoRelease
    BY <2>1, ChargingAlone
  <2>3. Local(r) /\ job'[r].pc \notin Releasing
    <3>1. CASE GetVolume(r)
      <4>1. PICK pc \in {"incr", "ttl"} : Goto(r, pc)
        BY <3>1 DEF GetVolume
      <4> QED  BY <4>1, GotoStep DEF PCs, Charging, Releasing
    <3>2. CASE Refuse(r) \/ AddVolume(r)
      BY <3>2, FinishStep, Phases DEF Refuse, AddVolume
    <3> QED  BY <1>1, <3>1, <3>2
  <2>4. lostRedis' = 0 /\ lostMemory' = 0
    BY <1>1, <2>2, Phases DEF GetVolume, Refuse, AddVolume, Admitted, NoRelease, Calm, history, ledger
  <2> QED  BY <2>2, <2>3, <2>4, StillNoRelease, NothingReleased
<1>2. CASE ReadVolume(r) \/ ReadExpiry(r)
  <2>1. InRelease(r) /\ Alone(r) /\ UNCHANGED <<redis, inRedis, lostRedis, lostMemory>>
    BY <1>2 DEF ReadVolume, ReadExpiry, At, InRelease, Releasing, Calm, counters, history, ledger
  <2>2. Local(r) /\ job'[r].upload = job[r].upload /\ job'[r].current = redis
    <3>1. CASE ReadVolume(r)
      BY <3>1, ReadStep
    <3>2. CASE ReadExpiry(r)
      BY <2>1, <3>2, GotoStep DEF ReadExpiry, At, PCs, Releasing, PastGet, Alone
    <3> QED  BY <1>2, <3>1, <3>2
  <2>3. \A v \in Requests \ {r} : ~Busy(v)' /\ ~InRelease(v)'
    BY <2>1, <2>2, Phases DEF Local, Alone, Busy, InRelease
  <2>4. Alone(r)'
    BY <2>1, <2>2, <2>3 DEF Alone
  <2> QED  BY <2>1, <2>3, <2>4 DEF Calm
<1>3. CASE DeleteVolume(r) \/ WriteVolume(r)
  <2>1. InRelease(r) /\ Alone(r) /\ TakeOff(r) /\ lostMemory' = lostMemory
    BY <1>3 DEF DeleteVolume, WriteVolume, At, InRelease, Releasing, Calm
  <2>2. Local(r) /\ job'[r].pc = "idle"
    BY <1>3, FinishStep DEF DeleteVolume, WriteVolume
  <2>3. NoRelease'
    BY <2>1, <2>2, Phases DEF Local, Alone, Busy, InRelease, NoRelease
  <2>4. lostRedis' = lostRedis
    BY <2>1 DEF TakeOff, Alone
  <2> QED  BY <2>1, <2>3, <2>4, NothingReleased DEF Calm
<1> QED  BY <1>1, <1>2, <1>3 DEF Handle

LEMMA FailCalm ==
  ASSUME Typed, Calm, ~mixed', NEW r \in Requests, ChargeFails(r) \/ ReleaseFails(r)
  PROVE  Calm'
<1>1. ChargeFails(r)
  BY DEF ReleaseFails
<1>2. NoRelease
  BY <1>1, ChargingAlone DEF ChargeFails
<1>3. Local(r) /\ job'[r].pc \notin Releasing
  BY <1>1, FinishStep, Phases DEF ChargeFails
<1>4. lostRedis' = 0 /\ lostMemory' = 0
  BY <1>1 DEF ChargeFails, Calm
<1> QED  BY <1>2, <1>3, <1>4, StillNoRelease, NothingReleased

LEMMA EnvironmentCalm ==
  ASSUME Typed, Calm, ~mixed',
         RedisWindowEnds \/ MemoryWindowEnds \/ FirstConnectFails \/ Connect \/ GiveUp \/ Crash
  PROVE  Calm'
<1>1. CASE RedisWindowEnds
  <2>1. NoRelease' /\ lostRedis' = 0 /\ lostMemory' = 0
    BY <1>1 DEF RedisWindowEnds, NoRelease, InRelease, Calm
  <2> QED  BY <2>1, NothingReleased
<1>2. CASE MemoryWindowEnds \/ FirstConnectFails \/ Connect \/ GiveUp
  <2>1. /\ UNCHANGED <<job, redis, inRedis, lostRedis>> /\ lostMemory' = 0
    BY <1>2 DEF MemoryWindowEnds, FirstConnectFails, Connect, GiveUp, Calm, history, ledger
  <2> QED  BY <2>1, CalmStays
<1>3. CASE Crash
  <2>1. NoRelease'
    BY <1>3, IdleType, Phases DEF Crash, NoRelease, InRelease
  <2> QED  BY <1>3, <2>1, NothingReleased DEF Crash, Calm
<1> QED  BY <1>1, <1>2, <1>3

\* A behaviour that is mixed stays so.
LEMMA MixedStays == Typed /\ [Next]_vars /\ mixed => mixed'
<1> SUFFICES ASSUME [Next]_vars, mixed, mixed \in BOOLEAN PROVE mixed'
  BY DEF Typed, TypeOK
<1>1. ASSUME NEW r \in Requests, NEW u \in Uploads, Charge(r, u) \/ Release(r, u)
      PROVE  mixed'
  BY <1>1 DEF Charge, Release
<1>2. ASSUME NEW r \in Requests, Handle(r) \/ ChargeFails(r) \/ ReleaseFails(r)
      PROVE  mixed'
  BY <1>2 DEF Handle, GetVolume, Refuse, AddVolume, ReadVolume, DeleteVolume, ReadExpiry, WriteVolume,
     ChargeFails, ReleaseFails, history
<1>3. RedisWindowEnds \/ MemoryWindowEnds \/ FirstConnectFails \/ Connect \/ GiveUp \/ Crash => mixed'
  BY DEF RedisWindowEnds, MemoryWindowEnds, FirstConnectFails, Connect, GiveUp, Crash, history
<1>4. UNCHANGED vars => mixed'
  BY DEF vars, history
<1> QED  BY <1>1, <1>2, <1>3, <1>4 DEF Next

LEMMA CalmStep == Typed /\ CalmInv /\ [Next]_vars => CalmInv'
<1> SUFFICES ASSUME Typed, CalmInv, [Next]_vars, ~mixed'
             PROVE  Calm'
  BY DEF CalmInv
<1>1. Calm
  BY MixedStays DEF CalmInv
<1>2. CASE UNCHANGED vars
  BY <1>1, <1>2, CalmStays DEF vars, counters, history, ledger, Calm
<1> QED
  BY <1>1, <1>2, ChargeCalm, ReleaseCalm, HandleCalm, FailCalm, EnvironmentCalm DEF Next

LEMMA CalmInit == Init => CalmInv
<1> SUFFICES ASSUME Init PROVE Calm
  BY DEF CalmInv
<1>1. \A r \in Requests : ~InRelease(r)
  BY IdleType, Phases DEF Init, InRelease
<1> QED  BY <1>1 DEF Calm, Init

THEOREM CalmInvariant == Spec => []CalmInv
<1> QED  BY CalmInit, CalmStep, VolumeTyping, PTL DEF Spec

-----------------------------------------------------------------------------
(* How far charges that overlap exceed the cap *)

LEMMA CountingRequests ==
  ASSUME NEW S \in SUBSET Requests
  PROVE  /\ IsFiniteSet(S) /\ Cardinality(S) \in Nat
         /\ Cardinality(Requests) \in Nat /\ Cardinality(Requests) > 0
         /\ Cardinality(S) <= Cardinality(Requests)
         /\ S # Requests => Cardinality(S) <= Cardinality(Requests) - 1
<1>1. IsFiniteSet(Requests) /\ Requests # {}
  BY VolumeConstants
<1>2. Cardinality(Requests) \in Nat /\ Cardinality(Requests) > 0
  BY <1>1, FS_CardinalityType, FS_EmptySet
<1>3. /\ IsFiniteSet(S) /\ Cardinality(S) <= Cardinality(Requests)
      /\ Cardinality(Requests) = Cardinality(S) => Requests = S
  BY <1>1, FS_Subset
<1>4. Cardinality(S) \in Nat
  BY <1>3, FS_CardinalityType
<1> QED  BY <1>2, <1>3, <1>4

LEMMA OthersType ==
  /\ Others \in Nat /\ Others <= Cardinality(Requests)
  /\ Cardinality(Requests) \in Nat /\ Cardinality(Requests) > 0
  /\ (\E e \in Requests : At(e, "incr")) => Others <= Cardinality(Requests) - 1
<1>1. Elsewhere \in SUBSET Requests
  BY DEF Elsewhere
<1>2. (\E e \in Requests : At(e, "incr")) => Elsewhere # Requests
  BY DEF Elsewhere
<1> QED  BY <1>1, <1>2, CountingRequests DEF Others

LEMMA Scaled ==
  ASSUME NEW k \in Nat
  PROVE  MaxSize * k \in Nat
  BY VolumeConstants

LEMMA OthersPrimed == Others' \in Nat
<1>1. Elsewhere' \in SUBSET Requests
  BY DEF Elsewhere
<1> QED  BY <1>1, CountingRequests DEF Others

LEMMA OthersSame ==
  ASSUME NEW r \in Requests, Local(r), ~At(r, "incr"), ~At(r, "incr")'
  PROVE  Others' = Others
<1>1. Elsewhere' = Elsewhere
  BY DEF Local, Elsewhere, At
<1> QED  BY <1>1 DEF Others

LEMMA OneMore ==
  ASSUME NEW r \in Requests, Local(r), At(r, "incr"), ~At(r, "incr")'
  PROVE  Others' = Others + 1
<1>1. Elsewhere' = Elsewhere \cup {r} /\ r \notin Elsewhere
  BY DEF Local, Elsewhere, At
<1>2. IsFiniteSet(Elsewhere)
  BY CountingRequests DEF Elsewhere
<1> QED  BY <1>1, <1>2, FS_AddElement DEF Others

Capped == redis <= MaxBytes - 1 + MaxSize * Others /\ Overshoot

LEMMA Constants ==
  /\ MaxSize \in Nat /\ MaxSize > 0 /\ MaxBytes \in Nat /\ MaxBytes > 0
  /\ MaxSize * Others \in Nat /\ MaxSize * (Others - 1) = MaxSize * Others - MaxSize
  BY VolumeConstants, OthersType

\* Whoever is about to add stays, and the counter does not grow.
LEMMA CapKept ==
  ASSUME Typed, Capped, redis' \in Nat, redis' <= redis, Others' = Others,
         \A e \in Requests : At(e, "incr") => At(e, "incr")' /\ Bytes(e)' = Bytes(e)
  PROVE  Capped'
<1>1. redis \in Nat /\ \A e \in Requests : At(e, "incr") => Bytes(e) \in Nat
  BY Types DEF At, Busy
<1>2. redis' <= MaxBytes - 1 + MaxSize * Others'
  BY <1>1, Constants DEF Capped
<1>3. CASE redis <= MaxBytes + MaxSize * (Others - 1)
  <2>1. redis' <= MaxBytes + MaxSize * (Others' - 1)
    BY <1>1, <1>3, Constants
  <2> QED  BY <1>2, <2>1 DEF Capped, Overshoot
<1>4. ASSUME NEW e \in Requests, At(e, "incr"), redis + Bytes(e) <= MaxBytes + MaxSize * Others
      PROVE  Capped'
  <2>1. redis' + Bytes(e) <= MaxBytes + MaxSize * Others
    BY <1>1, <1>4, Constants
  <2>2. At(e, "incr")' /\ redis' + Bytes(e)' <= MaxBytes + MaxSize * Others'
    BY <1>4, <2>1
  <2> QED  BY <1>2, <2>2 DEF Capped, Overshoot
<1> QED  BY <1>3, <1>4 DEF Capped, Overshoot

LEMMA OthersGoOn ==
  ASSUME NEW r \in Requests, Local(r), ~At(r, "incr")
  PROVE  \A e \in Requests : At(e, "incr") => At(e, "incr")' /\ Bytes(e)' = Bytes(e)
  BY DEF Local, At, Bytes

\* A request of another phase goes on, and the counter does not grow.
LEMMA QuietStep ==
  ASSUME Typed, Capped, NEW r \in Requests, Local(r), ~At(r, "incr"), ~At(r, "incr")',
         redis' \in Nat, redis' <= redis
  PROVE  Capped'
  BY OthersSame, OthersGoOn, CapKept

LEMMA StandStill ==
  ASSUME Typed, Capped, job' = job, redis' \in Nat, redis' <= redis
  PROVE  Capped'
<1>1. Others' = Others
  BY DEF Others, Elsewhere, At
<1>2. \A e \in Requests : At(e, "incr") => At(e, "incr")' /\ Bytes(e)' = Bytes(e)
  BY DEF At, Bytes
<1> QED  BY <1>1, <1>2, CapKept

\* A request that was about to add has done so, or has failed to.
LEMMA AddCapped ==
  ASSUME Typed, Capped, NEW r \in Requests, At(r, "incr"), Local(r), ~At(r, "incr")',
         redis' \in {redis, redis + Bytes(r)}
  PROVE  Capped'
<1>1. /\ redis \in Nat /\ \A e \in Requests : At(e, "incr") => Bytes(e) \in Nat /\ Bytes(e) > 0
                                                              /\ Bytes(e) <= MaxSize
  BY Types DEF At, Busy
<1>2. Others' = Others + 1
  BY OneMore
<1>3. MaxSize * Others' = MaxSize * Others + MaxSize /\ MaxSize * (Others' - 1) = MaxSize * Others
  BY <1>2, OthersType, VolumeConstants
<1>4. redis' <= MaxBytes - 1 + MaxSize * Others'
  BY <1>1, <1>3, Constants DEF Capped
<1>5. ASSUME redis <= MaxBytes + MaxSize * (Others - 1)
      PROVE  redis' <= MaxBytes + MaxSize * (Others' - 1)
  BY <1>1, <1>3, <1>5, Constants
<1>6. ASSUME redis + Bytes(r) <= MaxBytes + MaxSize * Others
      PROVE  redis' <= MaxBytes + MaxSize * (Others' - 1)
  BY <1>1, <1>3, <1>6, Constants
<1>7. ASSUME NEW e \in Requests \ {r}, At(e, "incr"), redis + Bytes(e) <= MaxBytes + MaxSize * Others
      PROVE  At(e, "incr")' /\ redis' + Bytes(e)' <= MaxBytes + MaxSize * Others'
  <2>1. At(e, "incr")' /\ Bytes(e)' = Bytes(e)
    BY <1>7 DEF Local, At, Bytes
  <2>2. redis' + Bytes(e) <= MaxBytes + MaxSize * Others'
    BY <1>1, <1>3, <1>7, Constants
  <2> QED  BY <2>1, <2>2
<1> QED  BY <1>4, <1>5, <1>6, <1>7 DEF Capped, Overshoot

\* A charge that passes the comparison is itself the last to have.
LEMMA GetCapped ==
  ASSUME Typed, Capped, NEW r \in Requests, GetVolume(r)
  PROVE  Capped'
<1>1. /\ job[r].pc = "get" /\ redis' = redis /\ redis \in Nat
      /\ job[r].upload \in Uploads /\ Bytes(r) \in Nat /\ Bytes(r) > 0
  BY Types DEF GetVolume, At, Busy, counters
<1>2. CASE Admits(redis, job[r].upload)
  <2>1. Goto(r, "incr")
    BY <1>2 DEF GetVolume
  <2>2. Local(r) /\ At(r, "incr")' /\ Bytes(r)' = Bytes(r)
    BY <2>1, GotoStep DEF PCs, Charging, At, Bytes
  <2>3. redis + Bytes(r) <= MaxBytes
    BY <1>2 DEF Admits, Bytes
  <2>4. MaxSize * Others' \in Nat
    BY OthersPrimed, Scaled
  <2>5. redis' <= MaxBytes - 1 + MaxSize * Others' /\ redis' + Bytes(r)' <= MaxBytes + MaxSize * Others'
    BY <1>1, <2>2, <2>3, <2>4, Constants
  <2> QED  BY <2>2, <2>5 DEF Capped, Overshoot
<1>3. CASE ~Admits(redis, job[r].upload)
  <2>1. Goto(r, "ttl")
    BY <1>3 DEF GetVolume
  <2>2. Local(r) /\ ~At(r, "incr") /\ ~At(r, "incr")'
    BY <1>1, <2>1, GotoStep DEF PCs, Charging, At
  <2> QED  BY <1>1, <2>2, QuietStep
<1> QED  BY <1>2, <1>3

LEMMA HandleCapped ==
  ASSUME Typed, Calm, Capped, NEW r \in Requests, Handle(r)
  PROVE  Capped'
<1>t. redis \in Nat
  BY Types
<1>1. CASE Refuse(r) \/ ReadVolume(r) \/ ReadExpiry(r)
  <2>1. redis' = redis /\ ~At(r, "incr")
    BY <1>1 DEF Refuse, ReadVolume, ReadExpiry, At, counters
  <2>2. Local(r) /\ job'[r].pc # "incr"
    <3>1. CASE Refuse(r)
      BY <3>1, FinishStep DEF Refuse
    <3>2. CASE ReadVolume(r)
      BY <3>2, ReadStep
    <3>3. CASE ReadExpiry(r)
      BY <3>3, GotoStep DEF ReadExpiry, PCs, Releasing
    <3> QED  BY <1>1, <3>1, <3>2, <3>3
  <2> QED  BY <1>t, <2>1, <2>2, QuietStep DEF At
<1>2. CASE AddVolume(r)
  BY <1>2, AddCapped, FinishStep DEF AddVolume, At
<1>3. CASE DeleteVolume(r) \/ WriteVolume(r)
  <2>1. InRelease(r) /\ ~At(r, "incr") /\ Bytes(r) \in Nat
    BY <1>3, Types, Phases DEF DeleteVolume, WriteVolume, At, InRelease, Releasing
  <2>2. Local(r) /\ ~At(r, "incr")'
    BY <1>3, FinishStep DEF DeleteVolume, WriteVolume, At
  <2>3. Less(redis, Bytes(r)) \in Nat /\ Less(redis, Bytes(r)) <= redis
    BY <1>t, <2>1, LessType
  <2>4. redis' = Less(redis, Bytes(r))
    BY <1>3, <2>1 DEF DeleteVolume, WriteVolume, TakeOff, At, PastGet, Calm, Alone
  <2> QED  BY <1>t, <2>1, <2>2, <2>3, <2>4, QuietStep
<1> QED  BY <1>1, <1>2, <1>3, GetCapped DEF Handle

LEMMA FailCapped ==
  ASSUME Typed, Capped, NEW r \in Requests, ChargeFails(r)
  PROVE  Capped'
<1>1. Local(r) /\ ~At(r, "incr")' /\ redis \in Nat
  BY FinishStep, Types DEF ChargeFails, At
<1>2. CASE At(r, "incr")
  BY <1>1, <1>2, AddCapped DEF ChargeFails
<1>3. CASE ~At(r, "incr")
  BY <1>1, <1>3, QuietStep DEF ChargeFails
<1> QED  BY <1>2, <1>3

LEMMA BeginCapped ==
  ASSUME Typed, Capped, NEW r \in Requests, NEW u \in Uploads, Charge(r, u) \/ Release(r, u)
  PROVE  Capped'
<1>1. redis' = redis /\ redis \in Nat
  BY Types DEF Charge, Release
<1>2. CASE available
  <2>1. PICK pc \in {"get", "read"} : Begin(r, pc, u)
    BY <1>2 DEF Charge, Release
  <2>2. Local(r) /\ ~At(r, "incr") /\ ~At(r, "incr")'
    BY <2>1, BeginStep DEF PCs, Charging, Releasing, At
  <2> QED  BY <1>1, <2>2, QuietStep
<1>3. CASE ~available
  <2>1. job' = job
    BY <1>3 DEF Charge, Release
  <2> QED  BY <1>1, <2>1, StandStill
<1> QED  BY <1>2, <1>3

\* Were everybody elsewhere: whoever is about to add counts for its own upload.
LEMMA LastAdds ==
  ASSUME Typed, Capped
  PROVE  redis <= MaxBytes + MaxSize * (Cardinality(Requests) - 1)
<1>1. /\ redis \in Nat /\ \A e \in Requests : At(e, "incr") => Bytes(e) \in Nat /\ Bytes(e) > 0
  BY Types DEF At, Busy
<1>2. ASSUME NEW k \in Nat, NEW n \in Nat, k <= n
      PROVE  /\ MaxSize * k \in Nat /\ MaxSize * n \in Nat /\ MaxSize * k <= MaxSize * n
             /\ MaxSize * (k - 1) = MaxSize * k - MaxSize
             /\ MaxSize * (n - 1) = MaxSize * n - MaxSize
  BY <1>2, VolumeConstants
<1>3. /\ MaxSize * Others \in Nat /\ MaxSize * Cardinality(Requests) \in Nat
      /\ MaxSize * Others <= MaxSize * Cardinality(Requests)
      /\ MaxSize * (Cardinality(Requests) - 1) = MaxSize * Cardinality(Requests) - MaxSize
  BY <1>2, OthersType
<1>4. CASE redis <= MaxBytes + MaxSize * (Others - 1)
  BY <1>1, <1>3, <1>4, Constants
<1>5. ASSUME NEW e \in Requests, At(e, "incr"), redis + Bytes(e) <= MaxBytes + MaxSize * Others
      PROVE  redis <= MaxBytes + MaxSize * (Cardinality(Requests) - 1)
  <2>1. Others <= Cardinality(Requests) - 1 /\ Cardinality(Requests) - 1 \in Nat
    BY <1>5, OthersType
  <2>2. MaxSize * Others <= MaxSize * (Cardinality(Requests) - 1)
    BY <1>2, <2>1, OthersType
  <2> QED  BY <1>1, <1>3, <1>5, <2>2, Constants
<1> QED  BY <1>4, <1>5 DEF Capped, Overshoot

\* After a restart nobody is about to add.
LEMMA CrashCapped ==
  ASSUME Typed, Capped, Crash
  PROVE  Capped'
<1>1. redis' = redis /\ \A r \in Requests : ~At(r, "incr")'
  BY IdleType DEF Crash, At
<1>2. Elsewhere' = Requests
  BY <1>1 DEF Elsewhere
<1>3. Others' = Cardinality(Requests)
  BY <1>2 DEF Others
<1>4. redis <= MaxBytes + MaxSize * (Cardinality(Requests) - 1)
  BY LastAdds
<1>5. redis <= MaxBytes - 1 + MaxSize * Cardinality(Requests)
  BY <1>4, OthersType, VolumeConstants, Types
<1> QED  BY <1>1, <1>3, <1>4, <1>5 DEF Capped, Overshoot

LEMMA EnvironmentCapped ==
  ASSUME Typed, Capped,
         RedisWindowEnds \/ MemoryWindowEnds \/ FirstConnectFails \/ Connect \/ GiveUp
  PROVE  Capped'
<1>1. job' = job /\ redis' \in {redis, 0}
  BY DEF RedisWindowEnds, MemoryWindowEnds, FirstConnectFails, Connect, GiveUp
<1>2. redis \in Nat
  BY Types
<1> QED  BY <1>1, <1>2, StandStill

LEMMA CapStep == Typed /\ CalmInv /\ CapInv /\ [Next]_vars => CapInv'
<1> SUFFICES ASSUME Typed, CalmInv, CapInv, [Next]_vars, ~mixed'
             PROVE  Capped'
  BY DEF CapInv, Capped
<1>1. Calm /\ Capped
  BY MixedStays DEF CalmInv, CapInv, Capped
<1>2. CASE UNCHANGED vars
  <2>1. job' = job /\ redis' = redis /\ redis \in Nat
    BY <1>2, Types DEF vars, counters
  <2> QED  BY <1>1, <2>1, StandStill
<1>3. ASSUME NEW r \in Requests, ReleaseFails(r) PROVE FALSE
  BY <1>3 DEF ReleaseFails
<1> QED
  BY <1>1, <1>2, <1>3, BeginCapped, HandleCapped, FailCapped, EnvironmentCapped, CrashCapped DEF Next

LEMMA CapInit == Init => CapInv
<1> SUFFICES ASSUME Init PROVE Capped
  BY DEF CapInv, Capped
<1>1. redis = 0 /\ \A r \in Requests : ~At(r, "incr")
  BY IdleType DEF Init, At
<1>2. Elsewhere = Requests
  BY <1>1 DEF Elsewhere
<1>3. Others = Cardinality(Requests)
  BY <1>2 DEF Others
<1>4. Others - 1 \in Nat
  BY <1>3, OthersType
<1>5. MaxSize * (Others - 1) \in Nat
  BY <1>4, VolumeConstants
<1> QED  BY <1>1, <1>5, Constants DEF Capped, Overshoot

THEOREM CapInvariant == Spec => []CapInv
<1> QED  BY CapInit, CapStep, VolumeTyping, CalmInvariant, PTL DEF Spec

\* Charges that overlap take the counter past the cap by less than one upload for each
\* request that has not itself passed the comparison and still to add.
THEOREM OvershootIsBounded == Spec => []OvershootBounded
<1>1. CapInv => OvershootBounded
  BY DEF CapInv, Others, Elsewhere, OvershootBounded
<1> QED  BY <1>1, CapInvariant, PTL

\* What Redis and the memory counter admit together is at most twice the cap, and one
\* upload for each request but one.
THEOREM OutageDoublesAtMost == Spec => []OutageAtMostDoubles
<1> DEFINE n == Cardinality(Requests)
<1>1. ASSUME Typed, Balanced, CalmInv, CapInv, ~mixed
      PROVE  Total(inRedis \cup inMemory) <= 2 * MaxBytes + MaxSize * (n - 1)
  <2>1. redis >= Total(inRedis) /\ memory >= Total(inMemory) /\ memory <= MaxBytes
    BY <1>1, Types DEF CalmInv, Calm, Balanced, Typed
  <2>2. /\ redis \in Nat /\ memory \in Nat /\ Total(inRedis) \in Nat /\ Total(inMemory) \in Nat
        /\ \A e \in Requests : At(e, "incr") => Bytes(e) \in Nat /\ Bytes(e) > 0
    BY <1>1, Types DEF At, Busy
  <2>3. redis <= MaxBytes + MaxSize * (n - 1)
    BY <1>1, <2>2, LastAdds DEF CapInv, Capped
  <2>4. Total(inRedis \cup inMemory) <= Total(inRedis) + Total(inMemory)
    BY <1>1, Types, TotalUnion
  <2>5. Total(inRedis \cup inMemory) \in Nat
    <3>1. IsFiniteSet(inRedis \cup inMemory) /\ inRedis \cup inMemory \subseteq Uploads
      BY <1>1, Types, FS_Union
    <3> QED  BY <3>1, UnitsFinite
  <2>6. MaxSize * (n - 1) \in Nat
    <3>1. n - 1 \in Nat
      BY OthersType
    <3> QED  BY <3>1, VolumeConstants
  <2> QED  BY <2>1, <2>2, <2>3, <2>4, <2>5, <2>6, Constants
<1>2. Typed /\ Balanced /\ CalmInv /\ CapInv => OutageAtMostDoubles
  BY <1>1 DEF OutageAtMostDoubles
<1> QED  BY <1>2, VolumeTyping, CalmInvariant, BalancedInvariant, CapInvariant, PTL

=============================================================================
