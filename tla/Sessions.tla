------------------------------ MODULE Sessions -------------------------------
(***************************************************************************)
(* The sessions of one user: auth/sessions.ts, the authentication of       *)
(* auth/middleware.ts, POST /logout and /logout-all of routes/             *)
(* auth.routes.ts, the report of auth/sessionAnomaly.ts, and the purge of  *)
(* sessions in services/cleanup.service.ts.                                *)
(*                                                                         *)
(* One statement, or one stretch of code without an await, is one action.  *)
(* Time is a clock in arbitrary units; `now` of a request is when it came. *)
(***************************************************************************)
EXTENDS Integers, FiniteSets

CONSTANTS
    Sessions,       \* sessions the user may sign in with
    Networks,       \* networks (country and ASN) requests come from
    Home,           \* the one every session was created on
    Requests,       \* requests being served at the same time
    Nobody,         \* no session
    IDLE, ABSOLUTE, THROTTLE,   \* SESSION_IDLE_MS, ..._ABSOLUTE_MS, ..._REFRESH_THROTTLE_MS
    DEDUP,          \* DEDUP_TTL_MS
    RETAIN,         \* how long the purge keeps a revoked session
    Serving,        \* bound: time a request takes to have its session validated
    LastSignIn,     \* bound: time of the last sign-in
    MaxFaults       \* bound: crashes and failed calls

ASSUME SessionsConstants ==
    /\ Home \in Networks /\ Nobody \notin Sessions
    /\ {IDLE, ABSOLUTE, THROTTLE, DEDUP, RETAIN, Serving, LastSignIn, MaxFaults} \subseteq Nat
    /\ IDLE > 0 /\ ABSOLUTE >= IDLE

VARIABLES
    now,            \* the clock
    row,            \* the row of each session
    dedupCache,     \* when a session was last reported on a network
    job,            \* the local state of each request
    report,         \* detectAndReportSessionAnomaly, which nobody awaits
    faults,
    active          \* history: when the last request let in by a session came

vars == <<now, row, dedupCache, job, report, faults, active>>

\* No session is valid for longer, and by MaxTime every one is past it.
LastExpiry == LastSignIn + ABSOLUTE
MaxTime == LastExpiry + 1

Times == 0..MaxTime
Never == -1
Moments == Times \cup {Never}

Lesser(a, b) == IF a < b THEN a ELSE b

Greater(a, b) == IF a < b THEN b ELSE a

\* lives, seen, expires, absolute, revoked: the row, lastSeenAt, expiresAt,
\* absoluteExpiresAt and revokedAt.  secret: correlationSecret and ipHmac.
Row == [lives : BOOLEAN, seen : Times, expires : 0..LastExpiry, absolute : 0..LastExpiry,
        revoked : Moments, secret : BOOLEAN]

NoRow == [lives |-> FALSE, seen |-> 0, expires |-> 0, absolute |-> 0,
          revoked |-> Never, secret |-> FALSE]

PCs == {"idle", "select", "slide", "user", "logout", "logout-all"}

Job == [pc : PCs, session : Sessions \cup {Nobody}, network : Networks, at : Times,
        late : BOOLEAN,             \* history: it came after the session had ended
        copy : Row]                 \* the row it read

Idle == [pc |-> "idle", session |-> Nobody, network |-> Home, at |-> 0,
         late |-> FALSE, copy |-> NoRow]

Report == [session : Sessions \cup {Nobody}, network : Networks, at : Times]

NoReport == [session |-> Nobody, network |-> Home, at |-> 0]

TypeOK ==
    /\ now \in Times
    /\ row \in [Sessions -> Row]
    /\ dedupCache \in [Sessions -> [Networks -> Moments]]
    /\ job \in [Requests -> Job]
    /\ report \in [Requests -> Report]
    /\ faults \in 0..MaxFaults
    /\ active \in [Sessions -> Moments]

NothingReported == [s \in Sessions |-> [n \in Networks |-> Never]]

Init ==
    /\ now = 0
    /\ row = [s \in Sessions |-> NoRow]
    /\ dedupCache = NothingReported
    /\ job = [r \in Requests |-> Idle]
    /\ report = [r \in Requests |-> NoReport]
    /\ faults = 0
    /\ active = [s \in Sessions |-> Never]

-----------------------------------------------------------------------------

At(r, pc) == job[r].pc = pc

Goto(r, pc) == job' = [job EXCEPT ![r].pc = pc]

Finish(r) == job' = [job EXCEPT ![r] = Idle]

Begun(s) == active[s] # Never

\* Neither revoked nor deleted.
Standing(s) == row[s].lives /\ row[s].revoked = Never

\* createSession, by a sign-in, which counts as activity.
CreateSession(s) ==
    /\ ~Begun(s) /\ now <= LastSignIn
    /\ row' = [row EXCEPT ![s] = [lives |-> TRUE, seen |-> now, expires |-> now + IDLE,
                                  absolute |-> now + ABSOLUTE, revoked |-> Never, secret |-> TRUE]]
    /\ active' = [active EXCEPT ![s] = now]
    /\ UNCHANGED <<now, dedupCache, job, report, faults>>

-----------------------------------------------------------------------------
(* validateSession *)

\* A request with the cookie of the session, which the browser may keep for ever.
Arrive(r, s, n) ==
    /\ Begun(s)
    /\ job[r] = Idle /\ report[r] = NoReport
    /\ job' = [job EXCEPT ![r] = [Idle EXCEPT !.pc = "select", !.session = s, !.network = n,
                                              !.at = now, !.late = ~Standing(s)]]
    /\ UNCHANGED <<now, row, dedupCache, report, faults, active>>

\* Mutant: revoked sessions are not left out.
ValidRevoked(s, at) == row[s].lives /\ row[s].expires > at /\ row[s].absolute > at

Valid(s, at) == Standing(s) /\ row[s].expires > at /\ row[s].absolute > at

\* Mutant: only sessions seen just before are slid.
StaleReversed(s, at) == at - row[s].seen < THROTTLE

Stale(s, at) == at - row[s].seen > THROTTLE

SelectSession(r) ==
    LET s == job[r].session IN
    /\ At(r, "select")
    /\ IF Valid(s, job[r].at)
         THEN job' = [job EXCEPT ![r].pc = IF Stale(s, job[r].at) THEN "slide" ELSE "user",
                                 ![r].copy = row[s]]
         ELSE Finish(r)
    /\ UNCHANGED <<now, row, dedupCache, report, faults, active>>

\* Mutant: the copy is written back, with the new times in it.
SlideCopy(r) ==
    LET s == job[r].session IN
    /\ At(r, "slide")
    /\ row' = IF row[s].lives
                THEN [row EXCEPT ![s] = [job[r].copy EXCEPT
                          !.seen = job[r].at,
                          !.expires = Lesser(job[r].at + IDLE, job[r].copy.absolute)]]
                ELSE row
    /\ Goto(r, "user")
    /\ UNCHANGED <<now, dedupCache, report, faults, active>>

\* Mutant: the absolute expiry is forgotten.
SlideUncapped(r) ==
    LET s == job[r].session IN
    /\ At(r, "slide")
    /\ row' = IF row[s].lives
                THEN [row EXCEPT ![s].seen = job[r].at, ![s].expires = job[r].at + IDLE]
                ELSE row
    /\ Goto(r, "user")
    /\ UNCHANGED <<now, dedupCache, report, faults, active>>

\* The UPDATE, by id alone, of lastSeenAt and expiresAt.
SlideExpiry(r) ==
    LET s == job[r].session IN
    /\ At(r, "slide")
    /\ row' = IF row[s].lives
                THEN [row EXCEPT ![s].seen = job[r].at,
                                 ![s].expires = Lesser(job[r].at + IDLE, job[r].copy.absolute)]
                ELSE row
    /\ Goto(r, "user")
    /\ UNCHANGED <<now, dedupCache, report, faults, active>>

-----------------------------------------------------------------------------
(* The anomaly report *)

\* shouldLog.  The eviction of stale entries, which count for nothing, does not show.
Reportable(s, n) == dedupCache[s][n] = Never \/ now - dedupCache[s][n] >= DEDUP

\* Mutant: an entry is not renewed.
RememberFirst(s, n) ==
    dedupCache' = IF dedupCache[s][n] = Never THEN [dedupCache EXCEPT ![s][n] = now] ELSE dedupCache

Remember(s, n) == dedupCache' = [dedupCache EXCEPT ![s][n] = now]

\* The network is not the one of the row that was read, by ip_hmac and country or ASN.
Anomalous(r) == job[r].copy.secret /\ job[r].network # Home

\* detectAndReportSessionAnomaly up to its first await: looked up and remembered at once.
Detect(r) ==
    LET s == job[r].session
        n == job[r].network
    IN  IF Anomalous(r) /\ Reportable(s, n)
          THEN /\ Remember(s, n)
               /\ report' = [report EXCEPT ![r] = [session |-> s, network |-> n, at |-> now]]
          ELSE UNCHANGED <<dedupCache, report>>

\* The event is logged, and the mail sent; when either fails the process goes on as if
\* it had not.
MailAnomaly(r) ==
    /\ report[r] # NoReport
    /\ report' = [report EXCEPT ![r] = NoReport]
    /\ UNCHANGED <<now, row, dedupCache, job, faults, active>>

-----------------------------------------------------------------------------
(* The handlers *)

\* The user is looked up, the report started, and the handler runs: one that is not
\* about sessions is done.
LoadUser(r, pc) ==
    /\ At(r, "user")
    /\ job' = [job EXCEPT ![r] = IF pc = "idle" THEN Idle
                                 ELSE [Idle EXCEPT !.pc = pc, !.session = job[r].session]]
    /\ Detect(r)
    /\ active' = [active EXCEPT ![job[r].session] = IF job[r].at > @ THEN job[r].at ELSE @]
    /\ UNCHANGED <<now, row, faults>>

Revoked(x) == [x EXCEPT !.revoked = now, !.secret = FALSE]

\* revokeSession, of POST /logout
RevokeSession(r) ==
    LET s == job[r].session IN
    /\ At(r, "logout")
    /\ row' = IF Standing(s) THEN [row EXCEPT ![s] = Revoked(@)] ELSE row
    /\ Finish(r)
    /\ UNCHANGED <<now, dedupCache, report, faults, active>>

\* revokeAllSessionsForUser
RevokeAllSessions(r) ==
    /\ At(r, "logout-all")
    /\ row' = [s \in Sessions |-> IF Standing(s) THEN Revoked(row[s]) ELSE row[s]]
    /\ Finish(r)
    /\ UNCHANGED <<now, dedupCache, report, faults, active>>

-----------------------------------------------------------------------------
(* cleanupAuthArtefacts *)

\* Mutant: only revoked sessions are purged.
PurgeableRevoked(s) == row[s].lives /\ row[s].revoked # Never /\ row[s].revoked < now - RETAIN

Purgeable(s) ==
    /\ row[s].lives
    /\ row[s].absolute < now \/ (row[s].revoked # Never /\ row[s].revoked < now - RETAIN)

PurgeSessions ==
    /\ \E s \in Sessions : Purgeable(s)
    /\ row' = [s \in Sessions |-> IF Purgeable(s) THEN NoRow ELSE row[s]]
    /\ UNCHANGED <<now, dedupCache, job, report, faults, active>>

-----------------------------------------------------------------------------
(* Time and failures *)

\* A session is validated within Serving of the request.
Tick ==
    /\ now < MaxTime
    /\ \A r \in Requests : job[r].pc \in {"select", "slide"} => now - job[r].at < Serving
    /\ now' = now + 1
    /\ UNCHANGED <<row, dedupCache, job, report, faults, active>>

CallFails(r) ==
    /\ faults < MaxFaults /\ job[r] # Idle
    /\ faults' = faults + 1
    /\ Finish(r)
    /\ UNCHANGED <<now, row, dedupCache, report, active>>

\* The process is restarted; what it had reported is forgotten.
Crash ==
    /\ faults < MaxFaults
    /\ faults' = faults + 1
    /\ job' = [r \in Requests |-> Idle] /\ report' = [r \in Requests |-> NoReport]
    /\ dedupCache' = NothingReported
    /\ UNCHANGED <<now, row, active>>

-----------------------------------------------------------------------------

Handle(r) ==
    \/ SelectSession(r) \/ SlideExpiry(r) \/ RevokeSession(r) \/ RevokeAllSessions(r)
    \/ \E pc \in {"idle", "logout", "logout-all"} : LoadUser(r, pc)

Next ==
    \/ \E s \in Sessions : CreateSession(s)
    \/ \E r \in Requests :
           \/ \E s \in Sessions, n \in Networks : Arrive(r, s, n)
           \/ Handle(r) \/ MailAnomaly(r) \/ CallFails(r)
    \/ PurgeSessions \/ Tick \/ Crash

Spec == Init /\ [][Next]_vars

\* Time goes on, the event loop serves every request, and the cleanup job runs every
\* quarter of an hour.  Users and failures are under no obligation.
FairSpec ==
    /\ Spec
    /\ WF_vars(Tick) /\ WF_vars(PurgeSessions)
    /\ \A r \in Requests : WF_vars(Handle(r))

-----------------------------------------------------------------------------
(* Properties *)

\* A request sent after a logout, or after a logout from everywhere, is never let in by
\* a session that was there, though requests that had read the row before go on to
\* write their times to it (sessions.ts:98-127, middleware.ts:60-70).
LoggedOutStaysOut ==
    \A r \in Requests : job[r].late => At(r, "select")

\* A revoked session is never valid again and its secret never comes back, whatever
\* statement lands after the revocation (sessions.ts:124-127 and 134-142).
RevokedForGood ==
    [][\A s \in Sessions :
           row[s].revoked # Never /\ row'[s].lives
             => row'[s].revoked = row[s].revoked /\ ~row'[s].secret]_vars

\* Nobody who uses the site is signed out by idling before the absolute expiry: the row
\* expires IDLE after the last request it let in, but for the throttle and for requests
\* whose updates land out of order, or after a revocation (sessions.ts:115-130).
ActiveStaysIn ==
    \A s \in Sessions :
        row[s].lives => row[s].expires + Greater(THROTTLE, Serving)
                         >= Lesser(active[s] + IDLE, row[s].absolute)

\* No update, however late, takes a session past its absolute expiry or lets it idle
\* for longer than IDLE (sessions.ts:119-127).
ExpiryCapped ==
    \A s \in Sessions :
        row[s].lives => row[s].expires = Lesser(row[s].seen + IDLE, row[s].absolute)

\* However many requests are served at once, and however long its mails take, a process
\* mails the user about a session on a network once in DEDUP (sessionAnomaly.ts:26-47).
MailsSpaced ==
    \A r, q \in Requests :
        /\ r # q /\ report[r] # NoReport /\ report[q] # NoReport
        /\ report[r].session = report[q].session /\ report[r].network = report[q].network
        => report[r].at - report[q].at >= DEDUP \/ report[q].at - report[r].at >= DEDUP

\* The secret an address was hashed with is wiped in the end, whether the user logs
\* out, stays away or forgets the session (sessions.ts:6-9, cleanup.service.ts:73-82).
SecretsAreWiped ==
    \A s \in Sessions : row[s].secret ~> ~row[s].secret

=============================================================================
