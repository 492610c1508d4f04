--------------------------- MODULE SessionsProofs ----------------------------
(***************************************************************************)
(* Proofs about Sessions, for any sessions, networks and concurrent        *)
(* requests, any durations and any number of faults.                       *)
(***************************************************************************)
EXTENDS Sessions, TLAPS

-----------------------------------------------------------------------------
(* Typing *)

WellFormed(j) == j \in Job /\ (j.pc # "idle" => j.session \in Sessions)

Typed == TypeOK /\ \A r \in Requests : WellFormed(job[r])

LEMMA Numbers ==
  /\ IDLE \in Nat /\ ABSOLUTE \in Nat /\ THROTTLE \in Nat /\ DEDUP \in Nat /\ RETAIN \in Nat
  /\ Serving \in Nat /\ LastSignIn \in Nat /\ MaxFaults \in Nat
  /\ ABSOLUTE >= IDLE /\ Home \in Networks /\ Nobody \notin Sessions
  /\ Times \subseteq Nat /\ Moments \subseteq Int /\ 0 \in Times /\ Never \in Moments
  /\ LastExpiry \in Nat /\ LastExpiry = LastSignIn + ABSOLUTE
  BY SessionsConstants DEF Times, Moments, Never, MaxTime, LastExpiry

LEMMA NoRowOK == NoRow \in Row
  BY Numbers DEF NoRow, Row

LEMMA IdleOK == Idle \in Job /\ WellFormed(Idle)
<1>1. Idle \in Job
  BY Numbers, NoRowOK DEF Idle, Job, PCs
<1> QED  BY <1>1 DEF WellFormed, Idle

LEMMA NoReportOK == NoReport \in Report
  BY Numbers DEF NoReport, Report

LEMMA TypedInit == Init => Typed
<1> SUFFICES ASSUME Init PROVE Typed
  OBVIOUS
<1>1. NothingReported \in [Sessions -> [Networks -> Moments]] /\ 0 \in 0..MaxFaults
  BY Numbers DEF NothingReported
<1>2. job \in [Requests -> Job] /\ \A r \in Requests : WellFormed(job[r])
  BY IdleOK DEF Init
<1> QED  BY <1>1, <1>2, Numbers, NoRowOK, NoReportOK DEF Init, Typed, TypeOK

LEMMA JobSet ==
  ASSUME Typed, NEW r \in Requests, NEW j, WellFormed(j), job' = [job EXCEPT ![r] = j]
  PROVE  job' \in [Requests -> Job] /\ \A v \in Requests : WellFormed(job'[v])
  BY DEF Typed, TypeOK, WellFormed

LEMMA JobEnds ==
  ASSUME Typed, NEW r \in Requests, Finish(r)
  PROVE  job' \in [Requests -> Job] /\ \A v \in Requests : WellFormed(job'[v])
  BY JobSet, IdleOK DEF Finish

LEMMA JobMoves ==
  ASSUME Typed, NEW r \in Requests, job[r].pc # "idle", NEW pc \in PCs, NEW x \in Row,
         job' = [job EXCEPT ![r].pc = pc, ![r].copy = x]
  PROVE  job' \in [Requests -> Job] /\ \A v \in Requests : WellFormed(job'[v])
<1> DEFINE j == [job[r] EXCEPT !.pc = pc, !.copy = x]
<1>1. WellFormed(j)
  BY DEF Typed, TypeOK, WellFormed, Job
<1>2. job' = [job EXCEPT ![r] = j]
  BY DEF Typed, TypeOK
<1> HIDE DEF j
<1> QED  BY <1>1, <1>2, JobSet

LEMMA RowSet ==
  ASSUME Typed, NEW s \in Sessions, NEW x \in Row, row' = [row EXCEPT ![s] = x]
  PROVE  row' \in [Sessions -> Row]
  BY DEF Typed, TypeOK

LEMMA RevokedOK ==
  ASSUME Typed, NEW s \in Sessions PROVE Revoked(row[s]) \in Row
  BY Numbers DEF Typed, TypeOK, Row, Revoked, Moments

LEMMA TypedStep == Typed /\ [Next]_vars => Typed'
<1> SUFFICES ASSUME Typed, [Next]_vars PROVE Typed'
  OBVIOUS
<1> USE Numbers
<1>s. job' \in [Requests -> Job] /\ (\A r \in Requests : WellFormed(job'[r]))
        => job' \in [Requests -> Job] /\ \A r \in Requests : WellFormed(job[r])'
  BY DEF WellFormed
<1>b. ASSUME NEW r \in Requests, job[r].pc # "idle"
      PROVE  /\ job[r].session \in Sessions /\ job[r].at \in Times /\ job[r].network \in Networks
             /\ job[r].copy \in Row
  BY <1>b DEF Typed, TypeOK, WellFormed, Job
<1>1. ASSUME NEW s \in Sessions, CreateSession(s) PROVE Typed'
  <2> DEFINE x == [lives |-> TRUE, seen |-> now, expires |-> now + IDLE,
                   absolute |-> now + ABSOLUTE, revoked |-> Never, secret |-> TRUE]
  <2>1. x \in Row
    <3>1. now \in Nat /\ now <= LastSignIn
      BY <1>1 DEF CreateSession, Typed, TypeOK
    <3>2. now + IDLE \in 0..LastExpiry /\ now + ABSOLUTE \in 0..LastExpiry
      BY <3>1
    <3> QED  BY <3>2 DEF Typed, TypeOK, Row
  <2>2. row' = [row EXCEPT ![s] = x]
    BY <1>1 DEF CreateSession
  <2> HIDE DEF x
  <2>3. active' \in [Sessions -> Moments]
    BY <1>1 DEF CreateSession, Typed, TypeOK, Moments
  <2> QED  BY <1>1, <2>1, <2>2, <2>3, RowSet DEF CreateSession, Typed, TypeOK, WellFormed
<1>2. ASSUME NEW r \in Requests, NEW s \in Sessions, NEW n \in Networks, Arrive(r, s, n) PROVE Typed'
  <2> DEFINE j == [Idle EXCEPT !.pc = "select", !.session = s, !.network = n,
                               !.at = now, !.late = ~Standing(s)]
  <2>1. WellFormed(j)
    BY IdleOK DEF WellFormed, Job, PCs, Idle, Typed, TypeOK, Standing
  <2>2. job' = [job EXCEPT ![r] = j]
    BY <1>2 DEF Arrive
  <2> HIDE DEF j
  <2> QED  BY <1>2, <1>s, <2>1, <2>2, JobSet DEF Arrive, Typed, TypeOK
<1>3. ASSUME NEW r \in Requests, SelectSession(r) PROVE Typed'
  <2>1. job[r].pc # "idle" /\ job[r].session \in Sessions
    BY <1>3, <1>b DEF SelectSession, At
  <2>2. job' \in [Requests -> Job] /\ \A v \in Requests : WellFormed(job'[v])
    <3>1. CASE Valid(job[r].session, job[r].at)
      <4> DEFINE pc == IF Stale(job[r].session, job[r].at) THEN "slide" ELSE "user"
      <4>1. pc \in PCs /\ row[job[r].session] \in Row
        BY <2>1 DEF PCs, Typed, TypeOK
      <4>2. job' = [job EXCEPT ![r].pc = pc, ![r].copy = row[job[r].session]]
        BY <1>3, <3>1 DEF SelectSession
      <4> HIDE DEF pc
      <4> QED  BY <2>1, <4>1, <4>2, JobMoves
    <3>2. CASE ~Valid(job[r].session, job[r].at)
      BY <1>3, <3>2, JobEnds DEF SelectSession
    <3> QED  BY <3>1, <3>2
  <2> QED  BY <1>3, <1>s, <2>2 DEF SelectSession, Typed, TypeOK
<1>4. ASSUME NEW r \in Requests, SlideExpiry(r) PROVE Typed'
  <2> DEFINE s == job[r].session
             e == Lesser(job[r].at + IDLE, job[r].copy.absolute)
  <2>1. job[r].pc # "idle" /\ s \in Sessions /\ job[r].at \in Times /\ job[r].copy \in Row
    BY <1>4, <1>b DEF SlideExpiry, At
  <2>2. e \in 0..LastExpiry
    <3>1. job[r].copy.absolute \in 0..LastExpiry
      BY <2>1 DEF Row
    <3>2. job[r].at \in Nat
      BY <2>1
    <3>3. job[r].at + IDLE \in Nat
      BY <3>2
    <3> QED  BY <3>1, <3>3 DEF Lesser
  <2>3. row' \in [Sessions -> Row]
    <3>1. CASE row[s].lives
      <4>1. row' = [row EXCEPT ![s].seen = job[r].at, ![s].expires = e]
        BY <1>4, <3>1 DEF SlideExpiry
      <4> HIDE DEF e
      <4> QED  BY <2>1, <2>2, <4>1 DEF Typed, TypeOK, Row
    <3>2. CASE ~row[s].lives
      BY <1>4, <3>2 DEF SlideExpiry, Typed, TypeOK
    <3> QED  BY <3>1, <3>2
  <2>4. job' = [job EXCEPT ![r].pc = "user", ![r].copy = job[r].copy]
    BY <1>4 DEF SlideExpiry, Goto, Typed, TypeOK, Job
  <2>5. job' \in [Requests -> Job] /\ \A v \in Requests : WellFormed(job'[v])
    BY <2>1, <2>4, JobMoves DEF PCs
  <2> QED  BY <1>4, <1>s, <2>3, <2>5 DEF SlideExpiry, Typed, TypeOK
<1>5. ASSUME NEW r \in Requests, NEW pc \in {"idle", "logout", "logout-all"}, LoadUser(r, pc)
      PROVE  Typed'
  <2> DEFINE j == IF pc = "idle" THEN Idle ELSE [Idle EXCEPT !.pc = pc, !.session = job[r].session]
             n == [session |-> job[r].session, network |-> job[r].network, at |-> now]
  <2>1. job[r].pc # "idle" /\ job[r].session \in Sessions /\ job[r].at \in Times /\ job[r].network \in Networks
    BY <1>5, <1>b DEF LoadUser, At
  <2>2. WellFormed(j)
    BY <2>1, IdleOK DEF WellFormed, Job, PCs, Idle
  <2>3. job' = [job EXCEPT ![r] = j]
    BY <1>5 DEF LoadUser
  <2>4. n \in Report
    BY <2>1 DEF Report, Typed, TypeOK
  <2>5. report' \in [Requests -> Report] /\ dedupCache' \in [Sessions -> [Networks -> Moments]]
    <3>1. report' = [report EXCEPT ![r] = n] \/ report' = report
      BY <1>5 DEF LoadUser, Detect
    <3>2. /\ \/ dedupCache' = [dedupCache EXCEPT ![job[r].session][job[r].network] = now]
             \/ dedupCache' = dedupCache
          /\ now \in Moments
      BY <1>5 DEF LoadUser, Detect, Remember, Typed, TypeOK, Moments
    <3> HIDE DEF n
    <3>3. report' \in [Requests -> Report]
      BY <2>4, <3>1 DEF Typed, TypeOK
    <3>4. dedupCache' \in [Sessions -> [Networks -> Moments]]
      <4>1. [dedupCache[job[r].session] EXCEPT ![job[r].network] = now] \in [Networks -> Moments]
        BY <2>1, <3>2 DEF Typed, TypeOK
      <4> QED  BY <2>1, <3>2, <4>1 DEF Typed, TypeOK
    <3> QED  BY <3>3, <3>4
  <2>6. active' \in [Sessions -> Moments]
    BY <1>5, <2>1 DEF LoadUser, Typed, TypeOK, Moments
  <2> HIDE DEF j
  <2>7. job' \in [Requests -> Job] /\ \A v \in Requests : WellFormed(job'[v])
    BY <2>2, <2>3, JobSet
  <2> QED  BY <1>5, <1>s, <2>5, <2>6, <2>7 DEF LoadUser, Typed, TypeOK
<1>6. ASSUME NEW r \in Requests, RevokeSession(r) PROVE Typed'
  <2>1. job[r].session \in Sessions
    BY <1>6, <1>b DEF RevokeSession, At
  <2>2. row' \in [Sessions -> Row]
    BY <1>6, <2>1, RevokedOK, RowSet DEF RevokeSession, Typed, TypeOK
  <2> QED  BY <1>6, <1>s, <2>2, JobEnds DEF RevokeSession, Typed, TypeOK
<1>7. ASSUME NEW r \in Requests, RevokeAllSessions(r) PROVE Typed'
  <2>1. row' \in [Sessions -> Row]
    BY <1>7, RevokedOK DEF RevokeAllSessions, Typed, TypeOK
  <2> QED  BY <1>7, <1>s, <2>1, JobEnds DEF RevokeAllSessions, Typed, TypeOK
<1>8. ASSUME NEW r \in Requests, MailAnomaly(r) PROVE Typed'
  BY <1>8, NoReportOK DEF MailAnomaly, Typed, TypeOK, WellFormed
<1>9. ASSUME NEW r \in Requests, CallFails(r) PROVE Typed'
  <2>1. faults' \in 0..MaxFaults
    BY <1>9 DEF CallFails, Typed, TypeOK
  <2> QED  BY <1>9, <1>s, <2>1, JobEnds DEF CallFails, Typed, TypeOK
<1>10. ASSUME PurgeSessions PROVE Typed'
  <2>1. row' \in [Sessions -> Row]
    BY <1>10, NoRowOK DEF PurgeSessions, Typed, TypeOK
  <2> QED  BY <1>10, <2>1 DEF PurgeSessions, Typed, TypeOK, WellFormed
<1>11. ASSUME Tick PROVE Typed'
  <2>1. now' \in Times
    BY <1>11 DEF Tick, Typed, TypeOK, Times, MaxTime
  <2> QED  BY <1>11, <2>1 DEF Tick, Typed, TypeOK, WellFormed
<1>12. ASSUME Crash PROVE Typed'
  <2>1. faults' \in 0..MaxFaults /\ dedupCache' \in [Sessions -> [Networks -> Moments]]
    BY <1>12 DEF Crash, Typed, TypeOK, NothingReported
  <2>2. /\ job' \in [Requests -> Job] /\ \A v \in Requests : WellFormed(job'[v])
        /\ report' \in [Requests -> Report]
    BY <1>12, IdleOK, NoReportOK DEF Crash
  <2> QED  BY <1>12, <1>s, <2>1, <2>2 DEF Crash, Typed, TypeOK
<1>13. ASSUME UNCHANGED vars PROVE Typed'
  BY <1>13 DEF vars, Typed, TypeOK, WellFormed
<1> QED  BY <1>1, <1>2, <1>3, <1>4, <1>5, <1>6, <1>7, <1>8, <1>9, <1>10, <1>11, <1>12, <1>13
         DEF Next, Handle

LEMMA Typing == Spec => []Typed
  BY TypedInit, TypedStep, PTL DEF Spec

\* Every request stands at a step of its handler, for a session of this user, and no
\* session expires later than the last sign-in's absolute expiry (sessions.ts:67-85 and
\* 117-127, middleware.ts:52-98, auth.routes.ts:439-483).
THEOREM SessionsTypes == Spec => []TypeOK
<1>1. Typed => TypeOK
  BY DEF Typed
<1> QED  BY <1>1, Typing, PTL

-----------------------------------------------------------------------------
(* The sessions and the requests that read them *)

Slack == Greater(THROTTLE, Serving)

\* A session is there only once it was created; revoked, it has no secret; its expiry
\* follows from when it was seen, which lags its activity by the slack at most.
RowInv(s) ==
    /\ row[s].lives => Begun(s)
    /\ row[s].revoked # Never => row[s].lives /\ ~row[s].secret
    /\ row[s].lives => row[s].expires = Lesser(row[s].seen + IDLE, row[s].absolute)
    /\ active[s] <= now
    /\ row[s].lives => active[s] <= row[s].seen + Slack

\* A request that came late has not been let in; one about to slide read the absolute
\* expiry of the row; one let in came within the slack of when the session was seen.
JobInv(r) ==
    LET s == job[r].session IN
    /\ job[r].at <= now
    /\ job[r].pc # "idle" => Begun(s)
    /\ job[r].late => job[r].pc = "select" /\ ~Standing(s)
    /\ job[r].pc \in {"select", "slide"} => now - job[r].at <= Serving
    /\ job[r].pc = "slide" /\ row[s].lives => job[r].copy.absolute = row[s].absolute
    /\ job[r].pc = "user" /\ row[s].lives => job[r].at <= row[s].seen + Slack

Inv == (\A s \in Sessions : RowInv(s)) /\ (\A r \in Requests : JobInv(r))

LEMMA SlackBounds == Slack \in Nat /\ THROTTLE <= Slack /\ Serving <= Slack
  BY Numbers DEF Slack, Greater

LEMMA InvInit == Init => Inv
  BY Numbers DEF Init, Inv, RowInv, JobInv, NoRow, Idle, Begun, Standing, Never

\* What a statement may do to the rows under a request that has read them.
RowsKept ==
    /\ now' = now
    /\ \A s \in Sessions :
           /\ Begun(s) => Begun(s)'
           /\ Begun(s) /\ row'[s].lives => row[s].lives /\ row'[s].absolute = row[s].absolute
           /\ Begun(s) /\ Standing(s)' => Standing(s)
           /\ row'[s].lives => row'[s].seen = row[s].seen \/ now <= row'[s].seen + Serving

LEMMA Typings ==
  ASSUME Typed
  PROVE  /\ now \in Nat
         /\ \A r \in Requests :
                /\ job[r].at \in Nat /\ job[r].late \in BOOLEAN
                /\ job[r].pc # "idle" => job[r].session \in Sessions
         /\ \A s \in Sessions :
                /\ row[s].seen \in Nat /\ row[s].expires \in Nat /\ row[s].absolute \in Nat
                /\ row[s].lives \in BOOLEAN /\ row[s].secret \in BOOLEAN
                /\ active[s] \in Int
<1>1. now \in Times /\ \A s \in Sessions : row[s] \in Row /\ active[s] \in Moments
  BY DEF Typed, TypeOK
<1>2. \A r \in Requests : job[r] \in Job /\ WellFormed(job[r])
  BY DEF Typed, TypeOK
<1>3. ASSUME NEW s \in Sessions
      PROVE  /\ row[s].seen \in Nat /\ row[s].expires \in Nat /\ row[s].absolute \in Nat
             /\ row[s].lives \in BOOLEAN /\ row[s].secret \in BOOLEAN /\ active[s] \in Int
  <2>1. row[s] \in Row /\ active[s] \in Moments
    BY <1>1
  <2>2. /\ row[s].expires \in 0..LastExpiry /\ row[s].absolute \in 0..LastExpiry
        /\ row[s].seen \in Times /\ row[s].lives \in BOOLEAN /\ row[s].secret \in BOOLEAN
    BY <2>1 DEF Row
  <2>3. row[s].expires \in Nat /\ row[s].absolute \in Nat
    BY <2>2
  <2> QED  BY <2>1, <2>2, <2>3, Numbers
<1> QED  BY <1>1, <1>2, <1>3, Numbers DEF Job, WellFormed

LEMMA JobKept ==
  ASSUME Typed, Typed', Inv, RowsKept, NEW r \in Requests, job'[r] = job[r]
  PROVE  JobInv(r)'
<1> DEFINE s == job[r].session
<1>t. /\ now \in Nat /\ job[r].at \in Nat /\ job[r].late \in BOOLEAN
      /\ job[r].pc # "idle" => s \in Sessions
  BY Typings
<1>1. CASE job[r].pc = "idle"
  BY <1>1, <1>t DEF Inv, JobInv, RowsKept
<1>2. CASE job[r].pc # "idle"
  <2>1. s \in Sessions /\ JobInv(r)
    BY <1>2, <1>t DEF Inv
  <2>2. row'[s].seen \in Nat /\ row[s].seen \in Nat
    BY <2>1, Numbers DEF Typed, TypeOK, Row
  <2>3. Begun(s) /\ Begun(s)' /\ (row'[s].lives => row[s].lives /\ row'[s].absolute = row[s].absolute)
        /\ (Standing(s)' => Standing(s)) /\ now' = now
        /\ (row'[s].lives => row'[s].seen = row[s].seen \/ now <= row'[s].seen + Serving)
    BY <1>2, <2>1 DEF RowsKept, JobInv
  <2>4. job[r].pc = "user" /\ row'[s].lives => job[r].at <= row'[s].seen + Slack
    <3>1. ASSUME job[r].pc = "user", row'[s].lives PROVE job[r].at <= row'[s].seen + Slack
      <4>1. job[r].at <= now /\ job[r].at <= row[s].seen + Slack
        BY <2>1, <2>3, <3>1 DEF JobInv
      <4> HIDE DEF s
      <4> QED  BY <1>t, <2>2, <2>3, <3>1, <4>1, SlackBounds, Numbers
    <3> QED  BY <3>1
  <2> QED  BY <1>2, <2>1, <2>3, <2>4 DEF JobInv
<1> QED  BY <1>1, <1>2

LEMMA JobIdle ==
  ASSUME Typed, now' = now, NEW r \in Requests, job'[r] = Idle
  PROVE  JobInv(r)'
  BY Typings DEF JobInv, Idle

\* Rows and clock as they were, or rows with no more than they had.
LEMMA RowsKeptSame ==
  ASSUME UNCHANGED <<now, row, active>> PROVE RowsKept
  BY DEF RowsKept, Begun, Standing

LEMMA RowSame ==
  ASSUME Inv, NEW s \in Sessions, row'[s] = row[s], active'[s] = active[s], now' = now
  PROVE  RowInv(s)'
  BY DEF Inv, RowInv, Begun, Standing

LEMMA EndsKeep ==
  ASSUME Typed, Typed', Inv, RowsKept, NEW r \in Requests, Finish(r)
  PROVE  \A v \in Requests : JobInv(v)'
<1> SUFFICES ASSUME NEW v \in Requests PROVE JobInv(v)'
  OBVIOUS
<1>1. job'[v] = job[v] \/ job'[v] = Idle
  BY DEF Finish, Typed, TypeOK
<1> QED  BY <1>1, JobKept, JobIdle DEF RowsKept

\* A revocation.
LEMMA RevokedInv ==
  ASSUME Typed, Inv, NEW s \in Sessions, Standing(s), row'[s] = Revoked(row[s]),
         active'[s] = active[s], now' = now
  PROVE  RowInv(s)'
<1>1. row[s] \in Row /\ now # Never
  BY Typings DEF Typed, TypeOK, Never
<1>2. /\ row'[s].lives = row[s].lives /\ row'[s].seen = row[s].seen /\ row'[s].expires = row[s].expires
      /\ row'[s].absolute = row[s].absolute /\ row'[s].revoked = now /\ row'[s].secret = FALSE
  BY <1>1 DEF Revoked, Row
<1> QED  BY <1>1, <1>2 DEF Inv, RowInv, Standing, Begun

LEMMA RevokedRowsKept ==
  ASSUME Typed, UNCHANGED <<now, active>>,
         \A s \in Sessions : row'[s] = row[s] \/ (row'[s] = Revoked(row[s]) /\ Standing(s))
  PROVE  RowsKept
<1> SUFFICES ASSUME NEW s \in Sessions, row'[s] = Revoked(row[s]), Standing(s)
             PROVE  /\ row'[s].lives => row[s].lives /\ row'[s].absolute = row[s].absolute
                    /\ Standing(s)' => Standing(s)
                    /\ row'[s].seen = row[s].seen
  BY DEF RowsKept, Begun, Standing
<1>1. row[s] \in Row
  BY DEF Typed, TypeOK
<1> QED  BY <1>1 DEF Revoked, Row

LEMMA InvStep == Typed /\ Typed' /\ Inv /\ [Next]_vars => Inv'
<1> SUFFICES ASSUME Typed, Typed', Inv, [Next]_vars PROVE Inv'
  OBVIOUS
<1>d. (\A s \in Sessions : RowInv(s)') /\ (\A r \in Requests : JobInv(r)') => Inv'
  BY DEF Inv, RowInv, JobInv
<1>j. RowsKept /\ job' = job => \A r \in Requests : JobInv(r)'
  BY JobKept
<1>r. UNCHANGED <<now, row, active>> => \A s \in Sessions : RowInv(s)'
  BY RowSame
<1>1. ASSUME NEW s \in Sessions, CreateSession(s) PROVE Inv'
  <2>1. /\ row'[s] = [lives |-> TRUE, seen |-> now, expires |-> now + IDLE,
                      absolute |-> now + ABSOLUTE, revoked |-> Never, secret |-> TRUE]
        /\ active'[s] = now /\ ~Begun(s) /\ now' = now /\ job' = job
        /\ \A u \in Sessions \ {s} : row'[u] = row[u] /\ active'[u] = active[u]
    BY <1>1 DEF CreateSession, Typed, TypeOK
  <2>2. RowsKept
    BY <2>1, Typings, Numbers DEF RowsKept, Begun, Standing
  <2>3. RowInv(s)'
    <3>1. now + IDLE = Lesser(now + IDLE, now + ABSOLUTE)
      BY Typings, Numbers DEF Lesser
    <3>2. now # Never /\ now <= now + Slack
      BY Typings, SlackBounds DEF Never
    <3> QED  BY <2>1, <3>1, <3>2, Typings DEF RowInv, Begun, Standing
  <2> QED  BY <1>d, <1>j, <2>1, <2>2, <2>3, RowSame
<1>2. ASSUME NEW r \in Requests, NEW s \in Sessions, NEW n \in Networks, Arrive(r, s, n) PROVE Inv'
  <2>1. /\ job'[r].pc = "select" /\ job'[r].session = s /\ job'[r].at = now /\ job'[r].late = ~Standing(s)
        /\ \A v \in Requests \ {r} : job'[v] = job[v]
        /\ UNCHANGED <<now, row, active>> /\ Begun(s)
    BY <1>2 DEF Arrive, Typed, TypeOK, Idle
  <2>2. RowsKept
    BY <2>1, RowsKeptSame
  <2>3. JobInv(r)'
    <3>1. now \in Nat /\ now - now <= Serving /\ Begun(s)' /\ (Standing(s)' <=> Standing(s)) /\ now' = now
      BY <2>1, Typings, Numbers DEF Begun, Standing
    <3>2. /\ job'[r].pc = "select" /\ job'[r].session = s /\ job'[r].at = now
          /\ job'[r].late => ~Standing(s)
      BY <2>1
    <3> QED  BY <3>1, <3>2 DEF JobInv
  <2> QED  BY <1>d, <1>r, <2>1, <2>2, <2>3, JobKept
<1>3. ASSUME NEW r \in Requests, SelectSession(r) PROVE Inv'
  <2>1. RowsKept /\ UNCHANGED <<now, row, active>>
    BY <1>3, RowsKeptSame DEF SelectSession
  <2>2. CASE Valid(job[r].session, job[r].at)
    <3>0. PICK s \in Sessions : s = job[r].session
      BY <1>3, Typings DEF SelectSession, At
    <3>1. /\ job'[r].session = s /\ job'[r].at = job[r].at /\ job'[r].late = job[r].late
          /\ job'[r].pc = (IF Stale(s, job[r].at) THEN "slide" ELSE "user") /\ job'[r].copy = row[s]
          /\ \A v \in Requests \ {r} : job'[v] = job[v]
      BY <1>3, <2>2, <3>0 DEF SelectSession, Typed, TypeOK, Job
    <3>2. JobInv(r) /\ job[r].pc = "select" /\ Standing(s)
      BY <1>3, <2>2, <3>0 DEF Inv, SelectSession, At, Valid
    <3>3. row[s].seen \in Nat /\ job[r].at \in Nat
      BY <3>2, Typings
    <3>4. ~Stale(s, job[r].at) => job[r].at <= row[s].seen + Slack
      BY <3>3, SlackBounds, Numbers DEF Stale
    <3>5. JobInv(r)'
      BY <2>1, <3>0, <3>1, <3>2, <3>4 DEF JobInv, Begun, Standing
    <3> QED  BY <1>d, <1>r, <2>1, <3>1, <3>5, JobKept
  <2>3. CASE ~Valid(job[r].session, job[r].at)
    BY <1>3, <1>d, <1>r, <2>1, <2>3, EndsKeep DEF SelectSession
  <2> QED  BY <2>2, <2>3
<1>4. ASSUME NEW r \in Requests, SlideExpiry(r) PROVE Inv'
  <2>0. PICK s \in Sessions : s = job[r].session
    BY <1>4, Typings DEF SlideExpiry, At
  <2>1. JobInv(r) /\ job[r].pc = "slide" /\ job[r].at \in Nat /\ now \in Nat
    BY <1>4, Typings DEF SlideExpiry, At, Inv
  <2>2. /\ job'[r].session = s /\ job'[r].at = job[r].at /\ job'[r].late = job[r].late /\ job'[r].pc = "user"
        /\ \A v \in Requests \ {r} : job'[v] = job[v]
        /\ UNCHANGED <<now, active>> /\ \A u \in Sessions \ {s} : row'[u] = row[u]
    BY <1>4, <2>0 DEF SlideExpiry, Goto, Typed, TypeOK, Job
  <2>3. CASE row[s].lives
    <3>1. row[s] \in Row /\ job[r].copy.absolute = row[s].absolute
      BY <2>0, <2>1, <2>3 DEF JobInv, Typed, TypeOK
    <3>2. /\ row'[s].lives /\ row'[s].seen = job[r].at
          /\ row'[s].expires = Lesser(job[r].at + IDLE, row[s].absolute)
          /\ row'[s].absolute = row[s].absolute
          /\ row'[s].revoked = row[s].revoked /\ row'[s].secret = row[s].secret
      BY <1>4, <2>0, <2>1, <2>3, <3>1 DEF SlideExpiry, Typed, TypeOK, Row
    <3>3. now <= job[r].at + Serving /\ job[r].at <= now
      BY <2>1, Numbers DEF JobInv
    <3>4. RowInv(s)'
      <4>1. RowInv(s) /\ active[s] \in Int
        BY <2>1, Typings DEF Inv
      <4>2. active[s] <= job[r].at + Slack
        BY <2>1, <3>3, <4>1, SlackBounds, Numbers DEF RowInv
      <4>3. /\ active'[s] = active[s] /\ now' = now /\ (Standing(s)' <=> Standing(s))
            /\ Begun(s)' <=> Begun(s)
        BY <2>2, <3>2, <2>3 DEF Begun, Standing
      <4> QED  BY <2>3, <3>2, <4>1, <4>2, <4>3 DEF RowInv
    <3>5. RowsKept
      BY <2>2, <3>2, <3>3, <2>3 DEF RowsKept, Begun, Standing
    <3>6. JobInv(r)'
      <4>1. job[r].at <= job[r].at + Slack
        BY <2>1, SlackBounds
      <4> QED  BY <2>0, <2>1, <2>2, <3>2, <4>1 DEF JobInv, Begun, Standing
    <3> QED  BY <1>d, <2>2, <3>4, <3>5, <3>6, JobKept, RowSame
  <2>4. CASE ~row[s].lives
    <3>1. UNCHANGED <<now, row, active>>
      BY <1>4, <2>0, <2>4 DEF SlideExpiry
    <3>2. RowsKept
      BY <3>1, RowsKeptSame
    <3>3. JobInv(r)'
      BY <2>0, <2>1, <2>2, <2>4, <3>1 DEF JobInv, Begun, Standing
    <3> QED  BY <1>d, <1>r, <2>2, <3>1, <3>2, <3>3, JobKept
  <2> QED  BY <2>3, <2>4
<1>5. ASSUME NEW r \in Requests, NEW pc \in {"idle", "logout", "logout-all"}, LoadUser(r, pc) PROVE Inv'
  <2>0. PICK s \in Sessions : s = job[r].session
    BY <1>5, Typings DEF LoadUser, At
  <2>1. JobInv(r) /\ job[r].pc = "user" /\ job[r].at \in Nat /\ now \in Nat
    BY <1>5, Typings DEF LoadUser, At, Inv
  <2>2. /\ job'[r] = IF pc = "idle" THEN Idle ELSE [Idle EXCEPT !.pc = pc, !.session = s]
        /\ \A v \in Requests \ {r} : job'[v] = job[v]
        /\ UNCHANGED <<now, row>> /\ \A u \in Sessions \ {s} : active'[u] = active[u]
        /\ active'[s] = IF job[r].at > active[s] THEN job[r].at ELSE active[s]
    BY <1>5, <2>0 DEF LoadUser, Typed, TypeOK
  <2>3. RowInv(s)'
    <3>1. RowInv(s) /\ active[s] \in Int
      BY <2>1, Typings DEF Inv
    <3>2. active'[s] # Never
      BY <2>1, <2>2, <3>1 DEF JobInv, Begun, Never
    <3>3. /\ job[r].at <= now /\ now' = now /\ row'[s] = row[s] /\ (Standing(s)' <=> Standing(s))
          /\ row[s].lives => job[r].at <= row[s].seen + Slack
      BY <2>0, <2>1, <2>2 DEF JobInv, Standing
    <3>4. active'[s] = job[r].at \/ active'[s] = active[s]
      BY <2>2
    <3> QED  BY <3>1, <3>2, <3>3, <3>4 DEF RowInv, Begun
  <2>4. RowsKept
    <3>1. \A u \in Sessions : Begun(u) => Begun(u)'
      BY <2>1, <2>2, Typings DEF Begun, Never
    <3> QED  BY <2>2, <3>1 DEF RowsKept, Standing
  <2>5. JobInv(r)'
    <3>1. /\ job'[r].at = 0 /\ job'[r].late = FALSE /\ job'[r].pc \in {"idle", "logout", "logout-all"}
          /\ job'[r].pc # "idle" => job'[r].session = s
      BY <2>2 DEF Idle
    <3>2. Begun(s)'
      BY <2>0, <2>1, <2>4 DEF RowsKept, JobInv
    <3> QED  BY <2>1, <2>2, <3>1, <3>2 DEF JobInv, Begun
  <2> QED  BY <1>d, <2>2, <2>3, <2>4, <2>5, JobKept, RowSame
<1>6. ASSUME NEW r \in Requests, RevokeSession(r) \/ RevokeAllSessions(r) PROVE Inv'
  <2>1. /\ \A s \in Sessions : row'[s] = row[s] \/ (row'[s] = Revoked(row[s]) /\ Standing(s))
        /\ UNCHANGED <<now, active>> /\ Finish(r)
    <3>1. CASE RevokeSession(r)
      <4>1. row' = row \/ (Standing(job[r].session)
                           /\ row' = [row EXCEPT ![job[r].session] = Revoked(row[job[r].session])])
        BY <3>1 DEF RevokeSession
      <4>2. \A s \in Sessions : row'[s] = row[s] \/ (row'[s] = Revoked(row[s]) /\ Standing(s))
        BY <4>1 DEF Typed, TypeOK, Revoked
      <4> QED  BY <3>1, <4>2 DEF RevokeSession
    <3>2. CASE RevokeAllSessions(r)
      <4>1. \A s \in Sessions : row'[s] = row[s] \/ (row'[s] = Revoked(row[s]) /\ Standing(s))
        BY <3>2 DEF RevokeAllSessions, Revoked
      <4> QED  BY <3>2, <4>1 DEF RevokeAllSessions
    <3> QED  BY <1>6, <3>1, <3>2
  <2>2. RowsKept
    BY <2>1, RevokedRowsKept
  <2>3. \A s \in Sessions : RowInv(s)'
    BY <2>1, RowSame, RevokedInv
  <2> QED  BY <1>d, <2>1, <2>2, <2>3, EndsKeep
<1>7. ASSUME NEW r \in Requests, CallFails(r) PROVE Inv'
  <2>1. RowsKept
    BY <1>7, RowsKeptSame DEF CallFails
  <2> QED  BY <1>7, <1>d, <1>r, <2>1, EndsKeep DEF CallFails
<1>8. ASSUME (\E r \in Requests : MailAnomaly(r)) \/ UNCHANGED vars PROVE Inv'
  <2>1. UNCHANGED <<now, row, active, job>>
    BY <1>8 DEF MailAnomaly, vars
  <2> QED  BY <1>d, <1>j, <1>r, <2>1, RowsKeptSame
<1>9. ASSUME PurgeSessions PROVE Inv'
  <2>1. UNCHANGED <<now, active, job>> /\ \A s \in Sessions : row'[s] = row[s] \/ row'[s] = NoRow
    BY <1>9 DEF PurgeSessions, Typed, TypeOK
  <2>2. RowsKept
    BY <2>1 DEF RowsKept, Begun, Standing, NoRow
  <2>3. ASSUME NEW s \in Sessions PROVE RowInv(s)'
    <3>1. CASE row'[s] = row[s]
      BY <2>1, <3>1, RowSame
    <3>2. CASE row'[s] = NoRow
      BY <2>1, <3>2 DEF Inv, RowInv, NoRow, Begun, Standing
    <3> QED  BY <2>1, <3>1, <3>2
  <2> QED  BY <1>d, <1>j, <2>1, <2>2, <2>3
<1>10. ASSUME Tick PROVE Inv'
  <2>1. /\ now' = now + 1 /\ UNCHANGED <<row, active, job>>
        /\ \A r \in Requests : job[r].pc \in {"select", "slide"} => now - job[r].at < Serving
    BY <1>10 DEF Tick
  <2>2. ASSUME NEW s \in Sessions PROVE RowInv(s)'
    BY <2>1, Typings DEF Inv, RowInv, Begun, Standing
  <2>3. ASSUME NEW r \in Requests PROVE JobInv(r)'
    <3>1. now \in Nat /\ job[r].at \in Nat /\ JobInv(r)
      BY Typings DEF Inv
    <3>2. /\ job[r].at <= now + 1
          /\ job[r].pc \in {"select", "slide"} => now + 1 - job[r].at <= Serving
      BY <2>1, <3>1, Numbers DEF JobInv
    <3> QED  BY <2>1, <3>1, <3>2 DEF JobInv, Begun, Standing
  <2> QED  BY <1>d, <2>2, <2>3
<1>11. ASSUME Crash PROVE Inv'
  <2>1. UNCHANGED <<now, row, active>> /\ \A r \in Requests : job'[r] = Idle
    BY <1>11 DEF Crash
  <2> QED  BY <1>d, <1>r, <2>1, JobIdle
<1> QED  BY <1>1, <1>2, <1>3, <1>4, <1>5, <1>6, <1>7, <1>8, <1>9, <1>10, <1>11 DEF Next, Handle

LEMMA Invariance == Spec => []Inv
  BY InvInit, InvStep, Typing, PTL DEF Spec

\* Once a session is revoked, by POST /logout or POST /logout-all, or deleted, no request
\* sent afterwards is let in by it (sessions.ts:98-127).
THEOREM LogoutHolds == Spec => []LoggedOutStaysOut
<1>1. Inv => LoggedOutStaysOut
  BY DEF Inv, JobInv, LoggedOutStaysOut, At
<1> QED  BY <1>1, Invariance, PTL

\* The expiry is IDLE after the last refresh or the absolute one, whichever comes first,
\* in whatever order the refreshes of concurrent requests land (sessions.ts:119-127).
THEOREM ExpiryIsCapped == Spec => []ExpiryCapped
<1>1. Inv => ExpiryCapped
  BY DEF Inv, RowInv, ExpiryCapped
<1> QED  BY <1>1, Invariance, PTL

\* Throttled or overtaken refreshes cost an active user no more than THROTTLE or the
\* time a request takes (sessions.ts:115-130).
THEOREM ActivityCounts == Spec => []ActiveStaysIn
<1>1. Typed /\ Inv => ActiveStaysIn
  <2> SUFFICES ASSUME Typed, Inv, NEW s \in Sessions, row[s].lives
               PROVE  row[s].expires + Slack >= Lesser(active[s] + IDLE, row[s].absolute)
    BY DEF ActiveStaysIn, Slack
  <2>1. /\ row[s].expires = Lesser(row[s].seen + IDLE, row[s].absolute)
        /\ active[s] <= row[s].seen + Slack
    BY DEF Inv, RowInv
  <2>2. row[s].seen \in Nat /\ row[s].absolute \in Nat /\ active[s] \in Int
    BY Typings
  <2> QED  BY <2>1, <2>2, SlackBounds, Numbers DEF Lesser
<1> QED  BY <1>1, Typing, Invariance, PTL

-----------------------------------------------------------------------------
(* Revocations stand *)

\* No statement gives a revoked session back its validity or its secret: the refresh of a
\* request that read the row before writes the times alone (sessions.ts:119-127).
THEOREM RevocationsStand == Spec => RevokedForGood
<1> DEFINE Stands == \A s \in Sessions :
                         row[s].revoked # Never /\ row'[s].lives
                           => row'[s].revoked = row[s].revoked /\ ~row'[s].secret
<1>1. Typed /\ Inv /\ [Next]_vars => [Stands]_vars
  <2> SUFFICES ASSUME Typed, Inv, Next, NEW s \in Sessions, row[s].revoked # Never, row'[s].lives
               PROVE  row'[s].revoked = row[s].revoked /\ ~row'[s].secret
    BY DEF Stands
  <2>1. row[s] \in Row /\ row[s].lives /\ ~row[s].secret /\ Begun(s) /\ ~Standing(s)
    BY DEF Typed, TypeOK, Inv, RowInv, Standing
  <2>2. ASSUME row'[s] = row[s] PROVE row'[s].revoked = row[s].revoked /\ ~row'[s].secret
    BY <2>1, <2>2
  <2>3. ASSUME NEW u \in Sessions, CreateSession(u) PROVE row'[s] = row[s]
    BY <2>1, <2>3 DEF CreateSession, Typed, TypeOK
  <2>4. ASSUME NEW r \in Requests, SlideExpiry(r)
        PROVE  row'[s].revoked = row[s].revoked /\ ~row'[s].secret
    <3>1. job[r].session \in Sessions
      BY <2>4, Typings DEF SlideExpiry, At
    <3> QED  BY <2>1, <2>4, <3>1 DEF SlideExpiry, Typed, TypeOK, Row
  <2>5. ASSUME NEW r \in Requests, RevokeSession(r) \/ RevokeAllSessions(r) PROVE row'[s] = row[s]
    BY <2>1, <2>5 DEF RevokeSession, RevokeAllSessions, Typed, TypeOK
  <2>6. ASSUME PurgeSessions PROVE row'[s] = row[s]
    BY <2>6 DEF PurgeSessions, NoRow
  <2>7. ASSUME UNCHANGED row PROVE row'[s] = row[s]
    BY <2>7
  <2> QED  BY <2>2, <2>3, <2>4, <2>5, <2>6, <2>7
           DEF Next, Handle, Arrive, SelectSession, LoadUser, MailAnomaly, CallFails, Tick, Crash
<1> QED  BY <1>1, Typing, Invariance, PTL DEF RevokedForGood, Spec

-----------------------------------------------------------------------------
(* The mails of a process *)

\* What is being mailed was remembered, at the time or later.
ReportInv(r) ==
    report[r] # NoReport =>
        /\ report[r].session \in Sessions /\ report[r].network \in Networks
        /\ dedupCache[report[r].session][report[r].network] \in Nat
        /\ report[r].at <= dedupCache[report[r].session][report[r].network]

ReportsInv == (\A r \in Requests : ReportInv(r)) /\ MailsSpaced

LEMMA ReportsInit == Init => ReportsInv
  BY DEF Init, ReportsInv, ReportInv, MailsSpaced

LEMMA ReportsStep == Typed /\ ReportsInv /\ [Next]_vars => ReportsInv'
<1> SUFFICES ASSUME Typed, ReportsInv, [Next]_vars PROVE ReportsInv'
  OBVIOUS
<1>t. /\ now \in Nat
      /\ \A r \in Requests : report[r].at \in Nat
      /\ \A s \in Sessions, n \in Networks : dedupCache[s][n] \in Int /\ (dedupCache[s][n] # Never => dedupCache[s][n] \in Nat)
  BY Typings, Numbers DEF Typed, TypeOK, Report, Moments, Times
<1>1. ASSUME UNCHANGED dedupCache, \A r \in Requests : report'[r] = report[r] \/ report'[r] = NoReport
      PROVE  ReportsInv'
  BY <1>1 DEF ReportsInv, ReportInv, MailsSpaced
<1>2. ASSUME NEW r \in Requests, NEW pc \in {"idle", "logout", "logout-all"}, LoadUser(r, pc)
      PROVE  ReportsInv'
  <2>0. PICK s \in Sessions, n \in Networks : s = job[r].session /\ n = job[r].network
    BY <1>2, Typings DEF LoadUser, At, Typed, TypeOK, Job
  <2>1. CASE ~(Anomalous(r) /\ Reportable(s, n))
    BY <1>1, <1>2, <2>0, <2>1 DEF LoadUser, Detect
  <2>2. CASE Anomalous(r) /\ Reportable(s, n)
    <3>1. /\ dedupCache' = [dedupCache EXCEPT ![s][n] = now]
          /\ report' = [report EXCEPT ![r] = [session |-> s, network |-> n, at |-> now]]
      BY <1>2, <2>0, <2>2 DEF LoadUser, Detect, Remember
    <3>2. /\ report'[r].session = s /\ report'[r].network = n /\ report'[r].at = now
          /\ \A q \in Requests \ {r} : report'[q] = report[q]
          /\ dedupCache'[s][n] = now
          /\ \A u \in Sessions, m \in Networks : u # s \/ m # n => dedupCache'[u][m] = dedupCache[u][m]
      BY <3>1 DEF Typed, TypeOK
    <3>3. ASSUME NEW q \in Requests \ {r}, report[q] # NoReport, report[q].session = s, report[q].network = n
          PROVE  now - report[q].at >= DEDUP /\ report[q].at <= now
      <4>1. /\ dedupCache[s][n] \in Nat /\ report[q].at <= dedupCache[s][n] /\ report[q].at \in Nat
            /\ now - dedupCache[s][n] >= DEDUP
        BY <1>t, <2>2, <3>3 DEF ReportsInv, ReportInv, Reportable, Never
      <4> QED  BY <1>t, <4>1, Numbers
    <3>4. ASSUME NEW q \in Requests PROVE ReportInv(q)'
      <4>1. CASE q = r
        BY <1>t, <3>2, <4>1 DEF ReportInv
      <4>2. CASE q # r
        BY <1>t, <3>2, <3>3, <4>2 DEF ReportsInv, ReportInv
      <4> QED  BY <4>1, <4>2
    <3>5. MailsSpaced'
      BY <3>2, <3>3 DEF ReportsInv, MailsSpaced
    <3> QED  BY <3>4, <3>5 DEF ReportsInv, ReportInv
  <2> QED  BY <2>1, <2>2
<1>3. ASSUME NEW r \in Requests, MailAnomaly(r) PROVE ReportsInv'
  BY <1>1, <1>3 DEF MailAnomaly, Typed, TypeOK
<1>4. ASSUME Crash PROVE ReportsInv'
  BY <1>4 DEF Crash, ReportsInv, ReportInv, MailsSpaced
<1>5. ASSUME UNCHANGED <<dedupCache, report>> PROVE ReportsInv'
  BY <1>1, <1>5
<1> QED  BY <1>2, <1>3, <1>4, <1>5
         DEF Next, Handle, CreateSession, Arrive, SelectSession, SlideExpiry, RevokeSession, RevokeAllSessions,
             CallFails, PurgeSessions, Tick, vars

\* The check of the cache and its update are one step, so that requests served at once
\* never report twice within DEDUP (sessionAnomaly.ts:29-47).
THEOREM MailsAreSpaced == Spec => []MailsSpaced
<1>1. ReportsInv => MailsSpaced
  BY DEF ReportsInv
<1> QED  BY <1>1, ReportsInit, ReportsStep, Typing, PTL DEF Spec

=============================================================================
