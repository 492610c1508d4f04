---------------------------- MODULE SaltsProofs ------------------------------
(***************************************************************************)
(* Proofs about Salts, for any processes and tasks, any periods and any    *)
(* number of faults.                                                       *)
(***************************************************************************)
EXTENDS Salts, TLAPS

-----------------------------------------------------------------------------
(* Typing *)

WellFormed(j) ==
    /\ j \in Job
    /\ j.pc # "idle" => j.process \in Processes
    /\ j.pc \in {"keep", "use"} => j.salt \in Ids

WellKept(e) == e \in Entry /\ (e # NoEntry => e.salt \in Ids)

Typed ==
    /\ TypeOK
    /\ \A t \in Tasks : WellFormed(job[t])
    /\ \A p \in Processes : WellKept(cache[p])

LEMMA Numbers ==
  /\ ROTATE \in Nat /\ RETAIN \in Nat /\ CACHE \in Nat /\ Interval \in Nat
  /\ MaxSalts \in Nat /\ MaxTime \in Nat /\ MaxFaults \in Nat
  /\ 0 < CACHE /\ CACHE <= RETAIN /\ 0 < ROTATE /\ 0 < Interval
  /\ Nobody \notin Processes
  /\ Ids \subseteq Nat /\ NoId \notin Ids /\ Times \subseteq Nat /\ 0 \in Times /\ Never \notin Times
  BY SaltsConstants DEF Ids, NoId, Times, Never

LEMMA NoSaltOK == NoSalt \in Salt
  BY Numbers DEF NoSalt, Salt

LEMMA NoEntryOK == WellKept(NoEntry)
  BY DEF WellKept, NoEntry, Entry

LEMMA IdleOK == WellFormed(Idle)
  BY DEF WellFormed, Idle, Job, PCs

LEMMA TypedInit == Init => Typed
<1> SUFFICES ASSUME Init PROVE Typed
  OBVIOUS
<1>1. job \in [Tasks -> Job] /\ \A t \in Tasks : WellFormed(job[t])
  BY IdleOK DEF Init, WellFormed
<1>2. cache \in [Processes -> Entry] /\ \A p \in Processes : WellKept(cache[p])
  BY NoEntryOK DEF Init, WellKept
<1>3. salt \in [Ids -> Salt] /\ last \in [Ids -> Times \cup {Never}]
  BY NoSaltOK DEF Init
<1> QED  BY <1>1, <1>2, <1>3, Numbers DEF Init, Typed, TypeOK

LEMMA JobSet ==
  ASSUME Typed, NEW t \in Tasks, NEW j, WellFormed(j), job' = [job EXCEPT ![t] = j]
  PROVE  job' \in [Tasks -> Job] /\ \A u \in Tasks : WellFormed(job'[u])
  BY DEF Typed, TypeOK, WellFormed

LEMMA CacheSet ==
  ASSUME Typed, NEW p, NEW e, WellKept(e), cache' = [cache EXCEPT ![p] = e]
  PROVE  cache' \in [Processes -> Entry] /\ \A q \in Processes : WellKept(cache'[q])
  BY DEF Typed, TypeOK, WellKept

LEMMA WithOK ==
  ASSUME NEW j, j \in Job, j.process \in Processes, NEW i \in Ids
  PROVE  WellFormed(With(j, i))
  BY Numbers DEF With, WellFormed, Job, PCs

\* The whole state of a task after each step that touches no other task.
BeginJob(p, rotates) ==
    LET j == [Idle EXCEPT !.process = p, !.rotates = rotates]
    IN  IF Cached(p) THEN With(j, cache[p].salt) ELSE [j EXCEPT !.pc = "select"]

InsertedJob(t) ==
    [job[t] EXCEPT !.pc = IF job[t].rotates THEN "purge" ELSE "use",
                   !.salt = IF job[t].rotates THEN NoId ELSE minted + 1,
                   !.batch = {}]

LEMMA BeginJobOK ==
  ASSUME Typed, NEW p \in Processes, NEW rotates \in BOOLEAN
  PROVE  WellFormed(BeginJob(p, rotates))
<1> DEFINE j == [Idle EXCEPT !.process = p, !.rotates = rotates]
<1>1. j \in Job /\ j.process \in Processes
  BY DEF Idle, Job, PCs
<1>2. CASE Cached(p)
  <2>1. cache[p].salt \in Ids
    BY <1>2 DEF Typed, WellKept, Cached
  <2>2. BeginJob(p, rotates) = With(j, cache[p].salt)
    BY <1>2 DEF BeginJob
  <2> HIDE DEF j
  <2> QED  BY <1>1, <2>1, <2>2, WithOK
<1>3. CASE ~Cached(p)
  <2>1. BeginJob(p, rotates) = [j EXCEPT !.pc = "select"]
    BY <1>3 DEF BeginJob
  <2> QED  BY <2>1 DEF WellFormed, Job, PCs, Idle
<1> QED  BY <1>2, <1>3

\* What the task works on.
LEMMA Working ==
  ASSUME Typed, NEW t \in Tasks, job[t].pc # "idle"
  PROVE  /\ job[t] \in Job /\ job[t].process \in Processes /\ job[t].rotates \in BOOLEAN
         /\ job[t].batch \subseteq Ids
         /\ job[t].pc \in {"keep", "use"} => job[t].salt \in Ids
  BY DEF Typed, TypeOK, WellFormed, Job

LEMMA TypedStep == Typed /\ [Next]_vars => Typed'
<1> SUFFICES ASSUME Typed, [Next]_vars PROVE Typed'
  OBVIOUS
<1> USE Numbers
<1>j. ASSUME NEW t \in Tasks, NEW j, WellFormed(j), job' = [job EXCEPT ![t] = j]
      PROVE  job' \in [Tasks -> Job] /\ (\A u \in Tasks : WellFormed(job[u]))'
  BY <1>j, JobSet DEF WellFormed
<1>c. ASSUME NEW p, NEW e, WellKept(e), cache' = [cache EXCEPT ![p] = e]
      PROVE  cache' \in [Processes -> Entry] /\ (\A q \in Processes : WellKept(cache[q]))'
  BY <1>c, CacheSet DEF WellKept
<1>f. ASSUME NEW t \in Tasks, Finish(t)
      PROVE  job' \in [Tasks -> Job] /\ (\A u \in Tasks : WellFormed(job[u]))'
  BY <1>f, <1>j, IdleOK DEF Finish
<1>k. UNCHANGED cache => cache' \in [Processes -> Entry] /\ (\A q \in Processes : WellKept(cache[q]))'
  BY DEF Typed, TypeOK, WellKept
<1>1. ASSUME NEW t \in Tasks, NEW p \in Processes, NEW rotates \in BOOLEAN, Begin(t, p, rotates)
      PROVE  Typed'
  <2>1. job' = [job EXCEPT ![t] = BeginJob(p, rotates)]
    BY <1>1 DEF Begin, BeginJob
  <2> QED  BY <1>1, <1>j, <1>k, <2>1, BeginJobOK DEF Begin, Typed, TypeOK
<1>2. ASSUME NEW t \in Tasks, SelectActive(t) PROVE Typed'
  <2>1. job[t].pc # "idle"
    BY <1>2 DEF SelectActive, At
  <2>2. PICK j : WellFormed(j) /\ job' = [job EXCEPT ![t] = j]
    <3>1. CASE Actives = {}
      <4>1. WellFormed([job[t] EXCEPT !.pc = "mint"])
        BY <2>1, Working DEF WellFormed, Job, PCs
      <4>2. job' = [job EXCEPT ![t] = [job[t] EXCEPT !.pc = "mint"]]
        BY <1>2, <3>1 DEF SelectActive, Goto, Typed, TypeOK
      <4> QED  BY <4>1, <4>2
    <3>2. ASSUME NEW i \in Ids, job' = [job EXCEPT ![t].pc = "keep", ![t].salt = i]
          PROVE  \E j : WellFormed(j) /\ job' = [job EXCEPT ![t] = j]
      <4>1. WellFormed([job[t] EXCEPT !.pc = "keep", !.salt = i])
        BY <2>1, Working DEF WellFormed, Job, PCs
      <4>2. job' = [job EXCEPT ![t] = [job[t] EXCEPT !.pc = "keep", !.salt = i]]
        BY <3>2 DEF Typed, TypeOK
      <4> QED  BY <4>1, <4>2
    <3> QED  BY <1>2, <3>1, <3>2 DEF SelectActive
  <2> QED  BY <1>2, <1>j, <1>k, <2>2 DEF SelectActive, Typed, TypeOK
<1>3. ASSUME NEW t \in Tasks, KeepActive(t) PROVE Typed'
  <2> DEFINE e == [salt |-> job[t].salt, until |-> now + CACHE]
  <2>1. job[t].pc = "keep"
    BY <1>3 DEF KeepActive, At
  <2>2. WellFormed(With(job[t], job[t].salt))
    BY <2>1, Working, WithOK
  <2>3. job' = [job EXCEPT ![t] = With(job[t], job[t].salt)]
    BY <1>3 DEF KeepActive, Typed, TypeOK
  <2>4. WellKept(e) /\ cache' = [cache EXCEPT ![job[t].process] = e]
    BY <1>3, <2>1, Working DEF KeepActive, WellKept, Entry, Typed, TypeOK
  <2> HIDE DEF e
  <2> QED  BY <1>3, <1>j, <1>c, <2>2, <2>3, <2>4 DEF KeepActive, Typed, TypeOK
<1>4. ASSUME NEW t \in Tasks, RetireActive(t) PROVE Typed'
  <2>1. job[t].pc # "idle"
    BY <1>4 DEF RetireActive, At
  <2>2. WellFormed([job[t] EXCEPT !.pc = "insert", !.batch = Actives])
    BY <2>1, Working DEF WellFormed, Job, PCs, Actives
  <2>3. job' = [job EXCEPT ![t] = [job[t] EXCEPT !.pc = "insert", !.batch = Actives]]
    BY <1>4 DEF RetireActive, Typed, TypeOK
  <2> QED  BY <1>4, <1>j, <1>k, <2>2, <2>3 DEF RetireActive, Typed, TypeOK
<1>5. ASSUME NEW t \in Tasks, InsertSalt(t) PROVE Typed'
  <2> DEFINE e == [salt |-> minted + 1, until |-> now + CACHE]
  <2>1. job[t].pc # "idle" /\ minted + 1 \in Ids
    BY <1>5 DEF InsertSalt, At, Ids, Typed, TypeOK
  <2>2. WellFormed(InsertedJob(t))
    BY <2>1, Working DEF InsertedJob, WellFormed, Job, PCs
  <2>3. job' = [job EXCEPT ![t] = InsertedJob(t)]
    BY <1>5 DEF InsertSalt, InsertedJob, Typed, TypeOK
  <2>4. WellKept(e) /\ cache' = [cache EXCEPT ![job[t].process] = e]
    BY <1>5, <2>1 DEF InsertSalt, WellKept, Entry, Typed, TypeOK
  <2>5. salt' \in [Ids -> Salt]
    BY <1>5 DEF InsertSalt, Salt, Typed, TypeOK
  <2>6. minted' \in 0..MaxSalts
    BY <1>5 DEF InsertSalt, Typed, TypeOK
  <2> HIDE DEF e
  <2> QED  BY <1>5, <1>j, <1>c, <2>2, <2>3, <2>4, <2>5, <2>6 DEF InsertSalt, Typed, TypeOK
<1>6. ASSUME NEW t \in Tasks, InsertEvent(t) PROVE Typed'
  <2>1. last' \in [Ids -> Times \cup {Never}]
    BY <1>6 DEF InsertEvent, Typed, TypeOK
  <2> QED  BY <1>6, <1>f, <1>k, <2>1 DEF InsertEvent, Typed, TypeOK
<1>7. ASSUME NEW t \in Tasks, PurgeSalts(t) PROVE Typed'
  <2>1. salt' \in [Ids -> Salt] /\ last' \in [Ids -> Times \cup {Never}]
    BY <1>7, NoSaltOK DEF PurgeSalts, Typed, TypeOK
  <2> QED  BY <1>7, <1>f, <1>k, <2>1 DEF PurgeSalts, Typed, TypeOK
<1>8. ASSUME Tick PROVE Typed'
  <2>1. now' \in Times
    BY <1>8 DEF Tick, Typed, TypeOK, Times
  <2>2. cache' \in [Processes -> Entry] /\ (\A q \in Processes : WellKept(cache[q]))'
    BY <1>8, NoEntryOK DEF Tick, Typed, TypeOK, WellKept
  <2>3. (\A u \in Tasks : WellFormed(job[u]))'
    BY <1>8 DEF Tick, Typed, WellFormed
  <2> QED  BY <1>8, <2>1, <2>2, <2>3 DEF Tick, Typed, TypeOK
<1>9. ASSUME NEW t \in Tasks, CallFails(t) PROVE Typed'
  <2>1. faults' \in 0..MaxFaults
    BY <1>9 DEF CallFails, Typed, TypeOK
  <2> QED  BY <1>9, <1>f, <1>k, <2>1 DEF CallFails, Typed, TypeOK
<1>10. ASSUME NEW p \in Processes, Crash(p) PROVE Typed'
  <2>1. faults' \in 0..MaxFaults
    BY <1>10 DEF Crash, Typed, TypeOK
  <2>2. job' \in [Tasks -> Job] /\ (\A u \in Tasks : WellFormed(job[u]))'
    BY <1>10, IdleOK DEF Crash, Typed, TypeOK, WellFormed
  <2> QED  BY <1>10, <1>c, <2>1, <2>2, NoEntryOK DEF Crash, Typed, TypeOK
<1>11. CASE UNCHANGED vars
  BY <1>11 DEF vars, Typed, TypeOK, WellFormed, WellKept
<1> QED  BY <1>1, <1>2, <1>3, <1>4, <1>5, <1>6, <1>7, <1>8, <1>9, <1>10, <1>11 DEF Next, Step

LEMMA AlwaysTyped == Spec => []Typed
  BY TypedInit, TypedStep, PTL DEF Spec

\* The values of the variables are those the schema and saltService.ts declare.
THEOREM SaltsTypes == Spec => []TypeOK
<1>1. Typed => TypeOK
  BY DEF Typed
<1> QED  BY <1>1, AlwaysTyped, PTL

-----------------------------------------------------------------------------
(* The inductive invariant *)

\* The row of a salt, and the last event under it: a salt leaves nothing behind, a retired
\* one was retired in time and is not yet due at the last purge, and an active one was not
\* too old at the last rotation.
RowOK(i) ==
    /\ i > minted => salt[i] = NoSalt
    /\ ~salt[i].stored => salt[i].retired = Never /\ last[i] = Never
    /\ salt[i].created <= now /\ salt[i].retired <= now /\ last[i] <= now
    /\ salt[i].retired # Never =>
          /\ last[i] < salt[i].retired + CACHE
          /\ salt[i].retired < salt[i].created + ROTATE + Interval
          /\ ran <= salt[i].retired + RETAIN
    /\ Active(i) => ran < salt[i].created + ROTATE

RowsOK == \A i \in Ids : RowOK(i)

\* No salt is younger than an active one.
ActiveIsNewest == \A i \in Ids, j \in Ids : salt[i].stored /\ Active(j) => salt[i].created <= salt[j].created

\* An event may be written under the salt: it is retired for less than CACHE.
Fresh(i) == salt[i].stored /\ (salt[i].retired # Never => now < salt[i].retired + CACHE)

\* The salt has been read as active within this unit of the clock.
JustActive(i) == salt[i].stored /\ salt[i].retired \in {Never, now}

EntryOK(e) ==
    e.until > now =>
        /\ salt[e.salt].stored /\ e.until <= now + CACHE
        /\ salt[e.salt].retired # Never => e.until <= salt[e.salt].retired + CACHE

\* A transaction leaves active what has been minted beside it, and a rotation is over when
\* no active salt is too old.
JobOK(j) ==
    /\ j.pc = "keep" => JustActive(j.salt)
    /\ j.pc = "use" => Fresh(j.salt)
    /\ j.pc = "insert" => \A i \in Ids : Active(i) /\ i \notin j.batch => salt[i].created = now
    /\ j.pc = "purge" => \A i \in Ids : Active(i) => now < salt[i].created + ROTATE

Inv ==
    /\ Typed
    /\ RowsOK
    /\ ActiveIsNewest
    /\ \A p \in Processes : EntryOK(cache[p])
    /\ \A t \in Tasks : JobOK(job[t])
    /\ ran <= now /\ now <= ran + Interval

LEMMA InvInit == Init => Inv
<1> SUFFICES ASSUME Init PROVE Inv
  OBVIOUS
<1>1. RowsOK
  BY Numbers DEF Init, RowsOK, RowOK, NoSalt, Never, Active
<1>2. ActiveIsNewest
  BY DEF Init, ActiveIsNewest, NoSalt, Active
<1>3. \A p \in Processes : EntryOK(cache[p])
  BY DEF Init, EntryOK, NoEntry
<1>4. \A t \in Tasks : JobOK(job[t])
  BY DEF Init, JobOK, Idle
<1> QED  BY <1>1, <1>2, <1>3, <1>4, TypedInit, Numbers DEF Init, Inv

\* The types the arithmetic needs.
LEMMA InvTypes ==
  ASSUME Typed
  PROVE  /\ now \in Nat /\ ran \in Nat /\ minted \in Nat
         /\ \A i \in Ids : /\ salt[i] \in Salt /\ salt[i].created \in Nat /\ salt[i].stored \in BOOLEAN
                           /\ salt[i].retired \in Int /\ last[i] \in Int
                           /\ salt[i].retired # Never => salt[i].retired \in Nat
                           /\ last[i] # Never => last[i] \in Nat
         /\ \A p \in Processes : cache[p].until \in Nat /\ (cache[p] # NoEntry => cache[p].salt \in Ids)
         /\ \A t \in Tasks : job[t].pc \in {"keep", "use"} => job[t].salt \in Ids
<1>1. Times \subseteq Nat /\ Never \in Int
  BY DEF Times, Never
<1>2. now \in Nat /\ ran \in Nat /\ minted \in Nat
  BY <1>1 DEF Typed, TypeOK
<1>3. ASSUME NEW i \in Ids
      PROVE  /\ salt[i] \in Salt /\ salt[i].created \in Nat /\ salt[i].stored \in BOOLEAN
             /\ salt[i].retired \in Int /\ last[i] \in Int
             /\ salt[i].retired # Never => salt[i].retired \in Nat
             /\ last[i] # Never => last[i] \in Nat
  <2>1. salt[i] \in Salt /\ last[i] \in Times \cup {Never}
    BY DEF Typed, TypeOK
  <2>2. salt[i].created \in Times /\ salt[i].stored \in BOOLEAN /\ salt[i].retired \in Times \cup {Never}
    BY <2>1 DEF Salt
  <2>3. \A x \in Times \cup {Never} : x \in Int /\ (x # Never => x \in Nat)
    BY <1>1
  <2> QED  BY <1>1, <2>1, <2>2, <2>3
<1>4. ASSUME NEW p \in Processes PROVE cache[p].until \in Nat /\ (cache[p] # NoEntry => cache[p].salt \in Ids)
  BY DEF Typed, WellKept, Entry
<1>5. ASSUME NEW t \in Tasks PROVE job[t].pc \in {"keep", "use"} => job[t].salt \in Ids
  BY DEF Typed, WellFormed
<1> QED  BY <1>2, <1>3, <1>4, <1>5

\* A salt an entry that counts still names cannot be due for the purge.
LEMMA FreshIsKept ==
  ASSUME Inv, NEW i \in Ids, Fresh(i) \/ JustActive(i) PROVE ~Purgeable(i)
  BY InvTypes, Numbers DEF Inv, Fresh, JustActive, Purgeable

LEMMA EntryIsFresh ==
  ASSUME Inv, NEW p \in Processes, cache[p].until > now
  PROVE  cache[p].salt \in Ids /\ Fresh(cache[p].salt)
<1>1. cache[p] # NoEntry
  BY InvTypes DEF NoEntry, Inv
<1>2. cache[p].salt \in Ids /\ cache[p].until \in Nat /\ salt[cache[p].salt].retired \in Int
  BY <1>1, InvTypes DEF Inv
<1> QED  BY <1>2, InvTypes, Numbers DEF Inv, EntryOK, Fresh

LEMMA JustActiveIsFresh ==
  ASSUME Inv, NEW i \in Ids, JustActive(i) PROVE Fresh(i)
  BY InvTypes, Numbers DEF Inv, JustActive, Fresh

LEMMA WithFields ==
  ASSUME NEW j, j \in Job, NEW i \in Ids
  PROVE  /\ ~j.rotates => With(j, i).pc = "use" /\ With(j, i).salt = i
         /\ j.rotates /\ TooOld(i) => With(j, i).pc = "mint"
         /\ j.rotates /\ ~TooOld(i) => With(j, i).pc = "purge"
  BY Numbers DEF With, Job, PCs

\* What a task goes on with is in order when the salt is fresh.
LEMMA WithFresh ==
  ASSUME Inv, NEW j, j \in Job, NEW i \in Ids, Fresh(i)
  PROVE  JobOK(With(j, i))
<1> DEFINE w == With(j, i)
<1> SUFFICES JobOK(w)
  OBVIOUS
<1>0. /\ ~j.rotates => w.pc = "use" /\ w.salt = i
      /\ j.rotates /\ TooOld(i) => w.pc = "mint"
      /\ j.rotates /\ ~TooOld(i) => w.pc = "purge"
  BY WithFields
<1> HIDE DEF w
<1>1. CASE ~j.rotates
  <2>1. w.pc = "use" /\ w.salt = i
    BY <1>1, <1>0
  <2> QED  BY <2>1 DEF JobOK
<1>2. CASE j.rotates /\ TooOld(i)
  <2>1. w.pc = "mint"
    BY <1>2, <1>0
  <2> QED  BY <2>1 DEF JobOK
<1>3. CASE j.rotates /\ ~TooOld(i)
  <2>1. w.pc = "purge"
    BY <1>3, <1>0
  <2>2. ASSUME NEW k \in Ids, Active(k) PROVE now < salt[k].created + ROTATE
    <3>1. salt[i].created <= salt[k].created
      BY <2>2 DEF Inv, ActiveIsNewest, Fresh
    <3>2. now - salt[i].created < ROTATE
      BY <1>3, InvTypes, Numbers DEF Inv, TooOld
    <3> QED  BY <3>1, <3>2, InvTypes, Numbers DEF Inv
  <2> QED  BY <2>1, <2>2 DEF JobOK
<1> QED  BY <1>1, <1>2, <1>3

\* A step of one task on nothing but its own state.
LEMMA JobStep ==
  ASSUME Inv, Typed', NEW t \in Tasks, NEW j, JobOK(j), job' = [job EXCEPT ![t] = j],
         UNCHANGED <<now, minted, salt, cache, ran, last>>
  PROVE  Inv'
<1>1. RowsOK' /\ ActiveIsNewest'
  BY DEF Inv, RowsOK, RowOK, ActiveIsNewest, Active
<1>2. (\A p \in Processes : EntryOK(cache[p]))'
  BY DEF Inv, EntryOK
<1>3. ASSUME NEW u \in Tasks PROVE JobOK(job[u])'
  <2>1. JobOK(job'[u])
    BY DEF Inv, Typed, TypeOK
  <2> QED  BY <2>1 DEF JobOK, JustActive, Fresh, Active
<1> QED  BY <1>1, <1>2, <1>3 DEF Inv

\* Ending a call is such a step.
LEMMA EndStep ==
  ASSUME Inv, Typed', NEW t \in Tasks, Finish(t), UNCHANGED <<now, minted, salt, cache, ran, last>>
  PROVE  Inv'
<1>1. JobOK(Idle)
  BY DEF JobOK, Idle
<1> QED  BY <1>1, JobStep DEF Finish

LEMMA BeginInv ==
  ASSUME Inv, Typed', NEW t \in Tasks, NEW p \in Processes, NEW rotates \in BOOLEAN, Begin(t, p, rotates)
  PROVE  Inv'
<1> DEFINE j == [Idle EXCEPT !.process = p, !.rotates = rotates]
<1>1. j \in Job
  BY DEF Idle, Job, PCs
<1>2. JobOK(BeginJob(p, rotates))
  <2>1. CASE Cached(p)
    <3>1. cache[p].salt \in Ids /\ Fresh(cache[p].salt)
      BY <2>1, EntryIsFresh DEF Cached
    <3>2. BeginJob(p, rotates) = With(j, cache[p].salt)
      BY <2>1 DEF BeginJob
    <3> HIDE DEF j
    <3> QED  BY <1>1, <3>1, <3>2, WithFresh
  <2>2. CASE ~Cached(p)
    <3> DEFINE b == BeginJob(p, rotates)
    <3>1. b.pc = "select"
      BY <2>2 DEF BeginJob, Idle
    <3> HIDE DEF b
    <3> QED  BY <3>1 DEF JobOK, b
  <2> QED  BY <2>1, <2>2
<1>3. job' = [job EXCEPT ![t] = BeginJob(p, rotates)]
  BY DEF Begin, BeginJob
<1> QED  BY <1>2, <1>3, JobStep DEF Begin

LEMMA SelectInv ==
  ASSUME Inv, Typed', NEW t \in Tasks, SelectActive(t) PROVE Inv'
<1>1. job[t] \in Job
  BY DEF Inv, Typed, TypeOK
<1>2. PICK j : JobOK(j) /\ job' = [job EXCEPT ![t] = j]
  <2>1. CASE Actives = {}
    <3>1. JobOK([job[t] EXCEPT !.pc = "mint"])
      BY <1>1 DEF JobOK, Job
    <3>2. job' = [job EXCEPT ![t] = [job[t] EXCEPT !.pc = "mint"]]
      BY <2>1 DEF SelectActive, Goto, Inv, Typed, TypeOK
    <3> QED  BY <3>1, <3>2
  <2>2. ASSUME NEW i \in Ids, Newest(i), job' = [job EXCEPT ![t].pc = "keep", ![t].salt = i]
        PROVE  \E j : JobOK(j) /\ job' = [job EXCEPT ![t] = j]
    <3> DEFINE w == [job[t] EXCEPT !.pc = "keep", !.salt = i]
    <3>1. w.pc = "keep" /\ w.salt = i
      BY <1>1 DEF Job
    <3>2. JustActive(i)
      BY <2>2 DEF Newest, Active, JustActive
    <3>3. job' = [job EXCEPT ![t] = w]
      BY <2>2 DEF Inv, Typed, TypeOK
    <3> HIDE DEF w
    <3> QED  BY <3>1, <3>2, <3>3 DEF JobOK
  <2> QED  BY <2>1, <2>2 DEF SelectActive
<1> QED  BY <1>2, JobStep DEF SelectActive

\* A salt read in this unit of the clock may be kept: if it has been retired since, then
\* in this unit too.
LEMMA KeepInv ==
  ASSUME Inv, Typed', NEW t \in Tasks, KeepActive(t) PROVE Inv'
<1> DEFINE i == job[t].salt
           e == [salt |-> i, until |-> now + CACHE]
<1>1. i \in Ids /\ JustActive(i) /\ job[t] \in Job
  BY DEF KeepActive, At, Inv, JobOK, Typed, TypeOK, WellFormed
<1>2. JobOK(With(job[t], i))
  BY <1>1, JustActiveIsFresh, WithFresh
<1>3. RowsOK' /\ ActiveIsNewest'
  BY DEF KeepActive, Inv, RowsOK, RowOK, ActiveIsNewest, Active
<1>4. EntryOK(e)
  BY <1>1, InvTypes, Numbers DEF EntryOK, JustActive, Inv
<1>5. (\A p \in Processes : EntryOK(cache[p]))'
  <2>1. ASSUME NEW p \in Processes PROVE EntryOK(cache'[p])
    BY <1>4 DEF KeepActive, Inv, Typed, TypeOK
  <2> QED  BY <2>1 DEF KeepActive, EntryOK
<1>6. ASSUME NEW u \in Tasks PROVE JobOK(job[u])'
  <2>1. JobOK(job'[u])
    BY <1>2 DEF KeepActive, Inv, Typed, TypeOK
  <2> QED  BY <2>1 DEF KeepActive, JobOK, JustActive, Fresh, Active
<1> QED  BY <1>3, <1>5, <1>6 DEF KeepActive, Inv

LEMMA RetireInv ==
  ASSUME Inv, Typed', NEW t \in Tasks, RetireActive(t) PROVE Inv'
<1> DEFINE j == [job[t] EXCEPT !.pc = "insert", !.batch = Actives]
<1>1. j.pc = "insert" /\ j.batch = Actives
  BY DEF Inv, Typed, TypeOK, Job
<1>2. job' = [job EXCEPT ![t] = j]
  BY DEF RetireActive, Inv, Typed, TypeOK
<1> HIDE DEF j
<1>3. JobOK(j)
  BY <1>1 DEF JobOK, Actives
<1> QED  BY <1>2, <1>3, JobStep DEF RetireActive

\* The transaction commits: the salts it found active are retired, and those that stay
\* active were minted beside it, in this unit of the clock, like the new one.
LEMMA InsertInv ==
  ASSUME Inv, Typed', NEW t \in Tasks, InsertSalt(t) PROVE Inv'
<1> USE Numbers
<1> DEFINE n == minted + 1
           new == [stored |-> TRUE, created |-> now, retired |-> Never]
           e == [salt |-> n, until |-> now + CACHE]
<1>t. /\ now \in Nat /\ ran \in Nat /\ minted \in Nat /\ ran <= now /\ now <= ran + Interval
      /\ \A i \in Ids : /\ salt[i] \in Salt /\ salt[i].created \in Nat /\ salt[i].stored \in BOOLEAN
                        /\ salt[i].retired \in Int /\ last[i] \in Int
      /\ \A i \in Ids : i \in Nat
  BY InvTypes DEF Inv
<1>1. n \in Ids /\ salt'[n] = new /\ salt[n] = NoSalt /\ last[n] = Never
  <2>1. n \in Ids
    BY <1>t DEF InsertSalt, Ids
  <2>2. salt[n] = NoSalt
    BY <2>1, <1>t DEF Inv, RowsOK, RowOK
  <2> QED  BY <2>1, <2>2, <1>t DEF InsertSalt, NoSalt, Inv, RowsOK, RowOK
<1>2. ASSUME NEW i \in Ids, i # n, i \in Retired(t)
      PROVE  salt'[i] = [salt[i] EXCEPT !.retired = now]
  BY <1>2, <1>t DEF InsertSalt, Inv, Typed, TypeOK
<1>3. ASSUME NEW i \in Ids, i # n, i \notin Retired(t)
      PROVE  salt'[i] = salt[i]
  BY <1>3, <1>t DEF InsertSalt, Inv, Typed, TypeOK
<1>4. job[t].batch \subseteq Ids /\ job[t] \in Job
  BY DEF Inv, Typed, TypeOK, Job
<1>5. ASSUME NEW i \in Ids
      PROVE  /\ i = n => salt'[i].stored /\ salt'[i].created = now /\ salt'[i].retired = Never
             /\ i # n => /\ salt'[i].stored = salt[i].stored /\ salt'[i].created = salt[i].created
                         /\ i \in Retired(t) => Active(i) /\ salt'[i].retired = now
                         /\ i \notin Retired(t) => salt'[i].retired = salt[i].retired
  <2>1. i = n => salt'[i].stored /\ salt'[i].created = now /\ salt'[i].retired = Never
    BY <1>1
  <2>2. ASSUME i # n, i \in Retired(t)
        PROVE  /\ salt'[i].stored = salt[i].stored /\ salt'[i].created = salt[i].created
               /\ salt'[i].retired = now
    BY <2>2, <1>2, <1>t DEF Salt
  <2>3. ASSUME i # n, i \notin Retired(t)
        PROVE  /\ salt'[i].stored = salt[i].stored /\ salt'[i].created = salt[i].created
               /\ salt'[i].retired = salt[i].retired
    BY <2>3, <1>3
  <2>4. i \in Retired(t) => Active(i)
    BY DEF Retired
  <2> QED  BY <2>1, <2>2, <2>3, <2>4
<1> HIDE DEF n, new
<1>m. n = minted + 1
  BY DEF n
<1>6. ASSUME NEW i \in Ids, Active(i)' PROVE salt'[i].created = now
  <2>1. CASE i = n
    BY <2>1, <1>5
  <2>2. CASE i # n
    <3>1. Active(i) /\ i \notin Retired(t)
      BY <1>6, <2>2, <1>5, <1>t DEF Active, Never
    <3>2. i \notin job[t].batch
      BY <3>1 DEF Retired
    <3> QED  BY <2>2, <3>1, <3>2, <1>5 DEF InsertSalt, At, Inv, JobOK
  <2> QED  BY <2>1, <2>2
<1>r. ASSUME NEW i \in Ids, Active(i)' PROVE salt'[i].created = now /\ now < salt'[i].created + ROTATE
  <2>1. now < now + ROTATE
    BY <1>t
  <2>2. salt'[i].created = now
    BY <1>6, <1>r
  <2> QED  BY <2>1, <2>2
<1>7. ASSUME NEW i \in Ids PROVE RowOK(i)'
  <2>u. now' = now /\ ran' = ran /\ last' = last /\ minted' = n
    BY <1>m DEF InsertSalt
  <2>r. RowOK(i)
    BY DEF Inv, RowsOK
  <2>1. CASE i = n
    BY <2>1, <2>u, <1>1, <1>5, <1>t DEF RowOK, Active, Never
  <2>2. CASE i # n /\ i \in Retired(t)
    <3>1. /\ salt'[i].stored = salt[i].stored /\ salt'[i].retired = now
          /\ salt'[i].created = salt[i].created /\ Active(i)
      BY <2>2, <1>5
    <3>s. salt[i].stored /\ salt'[i].stored
      BY <3>1 DEF Active
    <3>m. ~(i > n)
      <4>1. ~(i > minted)
        BY <3>s, <2>r DEF RowOK, NoSalt
      <4> QED  BY <4>1, <1>t, <1>m
    <3>2. now < salt[i].created + ROTATE + Interval
      <4>1. ran < salt[i].created + ROTATE
        BY <3>1, <2>r DEF RowOK
      <4> QED  BY <4>1, <1>t
    <3>3. salt[i].created <= now /\ last[i] <= now
      BY <2>r DEF RowOK
    <3>4. last[i] < now + CACHE /\ ran <= now + RETAIN /\ now <= now /\ now # Never
      BY <3>3, <1>t DEF Never
    <3> QED  BY <3>1, <3>s, <3>m, <3>2, <3>3, <3>4, <2>u DEF RowOK, Active
  <2>3. CASE i # n /\ i \notin Retired(t)
    <3>1. salt'[i] = salt[i]
      BY <2>3, <1>3
    <3>2. i > n => i > minted
      BY <1>t, <1>m
    <3> QED  BY <3>1, <3>2, <2>u, <2>r DEF RowOK, Active
  <2> QED  BY <2>1, <2>2, <2>3
<1>8. ActiveIsNewest'
  <2>1. ASSUME NEW i \in Ids, NEW j \in Ids, Active(j)' PROVE salt'[i].created <= salt'[j].created
    <3>1. salt'[i].created <= now
      BY <1>7, <1>t DEF RowOK, InsertSalt
    <3> QED  BY <3>1, <1>6, <2>1
  <2> QED  BY <2>1 DEF ActiveIsNewest
<1>9. ASSUME NEW i \in Ids
      PROVE  (Fresh(i) => Fresh(i)') /\ (JustActive(i) => JustActive(i)')
  <2>1. CASE i = n
    BY <2>1, <1>1 DEF Fresh, JustActive, NoSalt
  <2>2. CASE i # n /\ i \in Retired(t)
    <3>1. salt'[i].stored = salt[i].stored /\ salt'[i].retired = now /\ now' = now
      BY <2>2, <1>5 DEF InsertSalt
    <3>2. now < now + CACHE
      BY <1>t
    <3> QED  BY <3>1, <3>2 DEF Fresh, JustActive
  <2>3. CASE i # n /\ i \notin Retired(t)
    BY <2>3, <1>3 DEF Fresh, JustActive, InsertSalt
  <2> QED  BY <2>1, <2>2, <2>3
<1>10. ASSUME NEW p \in Processes PROVE EntryOK(cache[p])'
  <2>1. CASE cache'[p] = e
    <3>1. cache'[p].salt = n /\ cache'[p].until = now + CACHE /\ now' = now
      BY <2>1 DEF InsertSalt
    <3>2. salt'[n].stored /\ salt'[n].retired = Never
      BY <1>1, <1>5
    <3> QED  BY <3>1, <3>2, <1>t DEF EntryOK
  <2>2. CASE cache'[p] = cache[p] /\ ~(cache[p].until > now)
    BY <2>2 DEF EntryOK, InsertSalt
  <2>3. CASE cache'[p] = cache[p] /\ cache[p].until > now
    <3> DEFINE i == cache[p].salt
    <3>1. i \in Ids /\ Fresh(i)
      BY <2>3, EntryIsFresh
    <3>2. EntryOK(cache[p]) /\ cache[p].until \in Nat
      BY InvTypes DEF Inv
    <3>3. salt'[i].stored
      BY <3>1, <1>9 DEF Fresh
    <3>4. salt'[i].retired # Never => cache[p].until <= salt'[i].retired + CACHE
      <4>1. i # n
        BY <3>1, <1>1 DEF Fresh, NoSalt
      <4>2. salt'[i].retired \in {salt[i].retired, now}
        BY <4>1, <3>1, <1>5
      <4>3. cache[p].until <= now + CACHE /\ (salt[i].retired # Never => cache[p].until <= salt[i].retired + CACHE)
        BY <3>2, <2>3 DEF EntryOK
      <4> QED  BY <4>2, <4>3
    <3>5. cache[p].until <= now + CACHE
      BY <3>2, <2>3 DEF EntryOK
    <3> QED  BY <3>3, <3>4, <3>5, <2>3 DEF EntryOK, InsertSalt
  <2>4. cache' = [cache EXCEPT ![job[t].process] = e] /\ cache \in [Processes -> Entry]
    BY DEF InsertSalt, n, Inv, Typed, TypeOK
  <2> HIDE DEF e
  <2>5. cache'[p] \in {e, cache[p]}
    BY <2>4
  <2> QED  BY <2>1, <2>2, <2>3, <2>5
<1>11. ASSUME NEW u \in Tasks PROVE JobOK(job[u])'
  <2>1. CASE u = t
    <3>1. job'[t].pc = (IF job[t].rotates THEN "purge" ELSE "use")
          /\ (~job[t].rotates => job'[t].salt = n)
      <4> DEFINE pc == IF job[t].rotates THEN "purge" ELSE "use"
                 id == IF job[t].rotates THEN NoId ELSE n
      <4>1. job'[t] = [job[t] EXCEPT !.pc = pc, !.salt = id, !.batch = {}]
        BY DEF InsertSalt, Inv, Typed, TypeOK, n
      <4> HIDE DEF pc, id
      <4>2. job'[t].pc = pc /\ job'[t].salt = id
        BY <4>1, <1>4 DEF Job
      <4> QED  BY <4>2 DEF pc, id
    <3>2. salt'[n].stored /\ salt'[n].retired = Never
      BY <1>5, <1>1
    <3>3. \A i \in Ids : Active(i)' => now < salt'[i].created + ROTATE
      BY <1>r
    <3>4. CASE job[t].rotates
      BY <2>1, <3>1, <3>3, <3>4 DEF JobOK, InsertSalt
    <3>5. CASE ~job[t].rotates
      BY <2>1, <3>1, <3>2, <3>5 DEF JobOK, Fresh
    <3> QED  BY <3>4, <3>5
  <2>2. CASE u # t
    <3>1. job'[u] = job[u] /\ JobOK(job[u]) /\ now' = now
      BY <2>2 DEF InsertSalt, Inv, Typed, TypeOK
    <3>2. job[u].pc \in {"keep", "use"} => job[u].salt \in Ids
      BY DEF Inv, Typed, WellFormed
    <3>3. \A i \in Ids : Active(i)' => salt'[i].created = now /\ now < salt'[i].created + ROTATE
      BY <1>r
    <3> QED  BY <3>1, <3>2, <3>3, <1>9 DEF JobOK
  <2> QED  BY <2>1, <2>2
<1> QED  BY <1>7, <1>8, <1>10, <1>11 DEF Inv, RowsOK, InsertSalt

\* An event is only written under a salt retired for less than CACHE.
LEMMA EventInv ==
  ASSUME Inv, Typed', NEW t \in Tasks, InsertEvent(t) PROVE Inv'
<1> DEFINE k == job[t].salt
<1>1. k \in Ids /\ Fresh(k)
  BY DEF InsertEvent, At, Inv, JobOK, Typed, WellFormed
<1>2. last' = [last EXCEPT ![k] = now]
  BY <1>1 DEF InsertEvent, Fresh
<1>3. ASSUME NEW i \in Ids PROVE RowOK(i)'
  <2>1. RowOK(i)
    BY DEF Inv, RowsOK
  <2>2. CASE i = k
    <3>1. last'[i] = now
      BY <1>1, <1>2, <2>2 DEF Inv, Typed, TypeOK
    <3> QED  BY <1>1, <2>1, <2>2, <3>1, InvTypes DEF Inv, InsertEvent, RowOK, Fresh, Active
  <2>3. CASE i # k
    <3>1. last'[i] = last[i]
      BY <1>2, <2>3 DEF Inv, Typed, TypeOK
    <3> QED  BY <2>1, <3>1 DEF InsertEvent, RowOK, Active
  <2> QED  BY <2>2, <2>3
<1>4. ASSUME NEW u \in Tasks PROVE JobOK(job[u])'
  <2>1. JobOK(Idle)
    BY DEF JobOK, Idle
  <2>2. JobOK(job'[u])
    BY <2>1 DEF InsertEvent, Finish, Inv, Typed, TypeOK
  <2> QED  BY <2>2 DEF JobOK, InsertEvent, JustActive, Fresh, Active
<1> QED  BY <1>3, <1>4 DEF Inv, RowsOK, InsertEvent, EntryOK, ActiveIsNewest, Active

\* No salt that a task or an entry still counts on is due.
LEMMA PurgeInv ==
  ASSUME Inv, Typed', NEW t \in Tasks, PurgeSalts(t) PROVE Inv'
<1> USE Numbers
<1>1. ASSUME NEW i \in Ids
      PROVE  /\ Purgeable(i) => salt'[i] = NoSalt /\ last'[i] = Never
             /\ ~Purgeable(i) => salt'[i] = salt[i] /\ last'[i] = last[i]
  BY DEF PurgeSalts
<1>u. now' = now /\ ran' = now /\ minted' = minted /\ cache' = cache
  BY DEF PurgeSalts
<1>2. ASSUME NEW i \in Ids, Active(i)' PROVE Active(i) /\ salt'[i] = salt[i]
  BY <1>1, <1>2 DEF Active, NoSalt
<1>3. ASSUME NEW i \in Ids PROVE RowOK(i)'
  <2>1. RowOK(i)
    BY DEF Inv, RowsOK
  <2>2. CASE Purgeable(i)
    BY <2>1, <2>2, <1>1, <1>u, InvTypes DEF Inv, RowOK, NoSalt, Active, Never, Purgeable
  <2>3. CASE ~Purgeable(i)
    <3>1. Active(i) => now < salt[i].created + ROTATE
      BY DEF PurgeSalts, At, Inv, JobOK
    <3>2. salt[i].retired # Never => now <= salt[i].retired + RETAIN
      <4>1. salt[i].retired # Never => salt[i].stored
        BY <2>1 DEF RowOK
      <4> QED  BY <4>1, <2>3, InvTypes DEF Inv, Purgeable
    <3> QED  BY <2>1, <2>3, <3>1, <3>2, <1>1, <1>u DEF RowOK, Active
  <2> QED  BY <2>2, <2>3
<1>4. ActiveIsNewest'
  BY <1>1, <1>2 DEF Inv, ActiveIsNewest, NoSalt
<1>5. ASSUME NEW p \in Processes PROVE EntryOK(cache[p])'
  <2>1. CASE ~(cache[p].until > now)
    BY <2>1, <1>u DEF EntryOK
  <2>2. CASE cache[p].until > now
    <3>1. cache[p].salt \in Ids /\ ~Purgeable(cache[p].salt)
      BY <2>2, EntryIsFresh, FreshIsKept
    <3> QED  BY <3>1, <1>1, <1>u DEF Inv, EntryOK
  <2> QED  BY <2>1, <2>2
<1>6. ASSUME NEW u \in Tasks PROVE JobOK(job[u])'
  <2>1. JobOK(Idle)
    BY DEF JobOK, Idle
  <2>2. CASE job'[u] = Idle
    BY <2>2 DEF JobOK, Idle
  <2>3. CASE job'[u] = job[u]
    <3>1. job[u].pc \in {"keep", "use"} => job[u].salt \in Ids
      BY DEF Inv, Typed, WellFormed
    <3>2. job[u].pc = "keep" => JustActive(job[u].salt)'
      <4>1. ASSUME job[u].pc = "keep" PROVE JustActive(job[u].salt) /\ ~Purgeable(job[u].salt)
        BY <3>1, <4>1, FreshIsKept DEF Inv, JobOK
      <4>2. ASSUME job[u].pc = "keep" PROVE salt'[job[u].salt] = salt[job[u].salt]
        BY <3>1, <4>1, <4>2, <1>1
      <4> QED  BY <2>3, <4>1, <4>2, <1>u DEF JustActive
    <3>3. job[u].pc = "use" => Fresh(job[u].salt)'
      <4>1. ASSUME job[u].pc = "use" PROVE Fresh(job[u].salt) /\ ~Purgeable(job[u].salt)
        BY <3>1, <4>1, FreshIsKept DEF Inv, JobOK
      <4>2. ASSUME job[u].pc = "use" PROVE salt'[job[u].salt] = salt[job[u].salt]
        BY <3>1, <4>1, <4>2, <1>1
      <4> QED  BY <2>3, <4>1, <4>2, <1>u DEF Fresh
    <3> QED  BY <2>3, <3>2, <3>3, <1>2, <1>u DEF Inv, JobOK
  <2> QED  BY <2>2, <2>3 DEF PurgeSalts, Finish, Inv, Typed, TypeOK
<1> QED  BY <1>3, <1>4, <1>5, <1>6, <1>u, InvTypes DEF Inv, RowsOK

LEMMA TickInv ==
  ASSUME Inv, Typed', Tick PROVE Inv'
<1> USE Numbers
<1>t. now \in Nat /\ ran \in Nat
  BY InvTypes DEF Inv
<1>u. UNCHANGED <<minted, salt, job, ran, last>> /\ now' = now + 1
  BY DEF Tick
<1>1. ASSUME NEW i \in Ids PROVE RowOK(i)'
  <2>1. RowOK(i) /\ salt[i].created \in Nat /\ salt[i].retired \in Int /\ last[i] \in Int
    BY InvTypes DEF Inv, RowsOK
  <2> QED  BY <2>1, <1>t, <1>u DEF RowOK, Active
<1>2. ASSUME NEW p \in Processes PROVE EntryOK(cache[p])'
  <2>1. CASE cache'[p] = NoEntry
    BY <2>1, <1>t, <1>u DEF EntryOK, NoEntry
  <2>2. CASE cache'[p] = cache[p]
    <3>1. EntryOK(cache[p]) /\ cache[p].until \in Nat
      BY InvTypes DEF Inv
    <3> QED  BY <2>2, <3>1, <1>t, <1>u DEF EntryOK
  <2> QED  BY <2>1, <2>2 DEF Tick, Inv, Typed, TypeOK
<1>3. ASSUME NEW u \in Tasks PROVE JobOK(job[u])'
  BY DEF Tick, JobOK, Idle
<1> QED  BY <1>1, <1>2, <1>3, <1>t, <1>u DEF Inv, RowsOK, ActiveIsNewest, Active, Tick

LEMMA CrashInv ==
  ASSUME Inv, Typed', NEW p \in Processes, Crash(p) PROVE Inv'
<1>1. RowsOK' /\ ActiveIsNewest'
  BY DEF Crash, Inv, RowsOK, RowOK, ActiveIsNewest, Active
<1>2. ASSUME NEW q \in Processes PROVE EntryOK(cache[q])'
  <2>1. CASE cache'[q] = NoEntry
    BY <2>1, InvTypes DEF EntryOK, NoEntry, Crash, Inv
  <2>2. CASE cache'[q] = cache[q]
    BY <2>2 DEF EntryOK, Crash, Inv
  <2> QED  BY <2>1, <2>2 DEF Crash, Inv, Typed, TypeOK
<1>3. ASSUME NEW u \in Tasks PROVE JobOK(job[u])'
  <2>1. JobOK(Idle)
    BY DEF JobOK, Idle
  <2>2. JobOK(job'[u])
    BY <2>1 DEF Crash, Inv
  <2> QED  BY <2>2 DEF JobOK, Crash, JustActive, Fresh, Active
<1> QED  BY <1>1, <1>2, <1>3 DEF Crash, Inv

LEMMA InvStep == Inv /\ [Next]_vars => Inv'
<1> SUFFICES ASSUME Inv, [Next]_vars PROVE Inv'
  OBVIOUS
<1>t. Typed'
  BY TypedStep DEF Inv
<1>1. ASSUME NEW t \in Tasks, NEW p \in Processes, NEW rotates \in BOOLEAN, Begin(t, p, rotates)
      PROVE  Inv'
  BY <1>1, <1>t, BeginInv
<1>2. ASSUME NEW t \in Tasks, Step(t) PROVE Inv'
  BY <1>2, <1>t, SelectInv, KeepInv, RetireInv, InsertInv, EventInv, PurgeInv DEF Step
<1>3. ASSUME NEW t \in Tasks, CallFails(t) PROVE Inv'
  BY <1>3, <1>t, EndStep DEF CallFails
<1>4. ASSUME NEW p \in Processes, Crash(p) PROVE Inv'
  BY <1>4, <1>t, CrashInv
<1>5. CASE Tick
  BY <1>5, <1>t, TickInv
<1>6. CASE UNCHANGED vars
  BY <1>6, <1>t DEF vars, Inv, RowsOK, RowOK, ActiveIsNewest, Active, EntryOK, JobOK, JustActive, Fresh
<1> QED  BY <1>1, <1>2, <1>3, <1>4, <1>5, <1>6 DEF Next

LEMMA AlwaysInv == Spec => []Inv
  BY InvInit, InvStep, PTL DEF Spec

-----------------------------------------------------------------------------
(* The theorems *)

\* No process writes an event under a salt that was retired CACHE ago.
THEOREM RetiredSaltsFadeOut == Spec => []RetiredFadesOut
<1>1. Inv => RetiredFadesOut
  BY DEF Inv, RowsOK, RowOK, RetiredFadesOut
<1> QED  BY <1>1, AlwaysInv, PTL

\* The events under one salt lie within ROTATE, a late rotation and a cache's life.
THEOREM LinkageIsBounded == Spec => []LinkageBounded
<1>1. ASSUME Inv, NEW i \in Ids PROVE last[i] < salt[i].created + ROTATE + Interval + CACHE
  <2>1. /\ RowOK(i) /\ salt[i].created \in Nat /\ salt[i].retired \in Int /\ last[i] \in Int
        /\ now \in Nat /\ ran \in Nat /\ salt[i].stored \in BOOLEAN
    BY InvTypes, <1>1 DEF Inv, RowsOK
  <2>2. CASE Active(i)
    BY <2>1, <2>2, <1>1, Numbers DEF RowOK, Inv
  <2>3. CASE salt[i].retired # Never
    BY <2>1, <2>3, Numbers DEF RowOK
  <2>4. CASE ~salt[i].stored
    BY <2>1, <2>4, Numbers DEF RowOK, Never
  <2> QED  BY <2>2, <2>3, <2>4 DEF Active
<1>2. Inv => LinkageBounded
  BY <1>1 DEF LinkageBounded
<1> QED  BY <1>2, AlwaysInv, PTL

\* Every salt goes in time, however many were active side by side.
THEOREM EverySaltExpires == Spec => []SaltsExpire
<1>1. ASSUME Inv, NEW i \in Ids, salt[i].stored
      PROVE  now - salt[i].created < ROTATE + RETAIN + 2 * Interval
  <2>1. /\ RowOK(i) /\ salt[i].created \in Nat /\ salt[i].retired \in Int
        /\ now \in Nat /\ ran \in Nat /\ now <= ran + Interval
    BY InvTypes, <1>1 DEF Inv, RowsOK
  <2>2. CASE salt[i].retired = Never
    BY <1>1, <2>1, <2>2, Numbers DEF RowOK, Active
  <2>3. CASE salt[i].retired # Never
    BY <2>1, <2>3, Numbers DEF RowOK
  <2> QED  BY <2>2, <2>3
<1>2. Inv => SaltsExpire
  BY <1>1 DEF SaltsExpire
<1> QED  BY <1>2, AlwaysInv, PTL

\* No event names a salt that has been purged.
THEOREM NoEventIsLost == Spec => []SaltsInUseAreStored
<1>1. Inv => SaltsInUseAreStored
  BY DEF Inv, JobOK, Fresh, SaltsInUseAreStored, At
<1> QED  BY <1>1, AlwaysInv, PTL

\* A salt outlives its last event by RETAIN, less a cache's life.
THEOREM CorrelatorsAreKept == Spec => CorrelatorsKept
<1>1. ASSUME Inv, [Next]_vars, NEW i \in Ids, salt[i].stored, ~salt'[i].stored
      PROVE  now + CACHE > last[i] + RETAIN
  <2>1. /\ RowOK(i) /\ salt[i].retired \in Int /\ last[i] \in Int /\ now \in Nat
    BY InvTypes, <1>1 DEF Inv, RowsOK
  <2>2. Purgeable(i)
    <3>1. ASSUME NEW t \in Tasks, InsertSalt(t) PROVE FALSE
      <4>1. i # minted + 1
        BY <1>1, InvTypes, Numbers DEF Inv, RowsOK, RowOK, NoSalt
      <4> QED  BY <1>1, <3>1, <4>1 DEF InsertSalt, Inv, Typed, TypeOK, Salt
    <3>2. ASSUME NEW t \in Tasks, PurgeSalts(t) PROVE Purgeable(i)
      BY <1>1, <3>2 DEF PurgeSalts
    <3> QED  BY <1>1, <3>1, <3>2 DEF Next, Step, Begin, SelectActive, KeepActive, RetireActive, InsertEvent,
                                     CallFails, Crash, Tick, vars
  <2> QED  BY <2>1, <2>2, Numbers DEF RowOK, Purgeable
<1>2. Inv /\ [Next]_vars =>
        \A i \in Ids : salt[i].stored /\ ~salt'[i].stored => now + CACHE > last[i] + RETAIN
  BY <1>1
<1> QED  BY <1>2, AlwaysInv, PTL DEF Spec, CorrelatorsKept

=============================================================================
