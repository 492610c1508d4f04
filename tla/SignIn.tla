------------------------------- MODULE SignIn --------------------------------
(***************************************************************************)
(* Signing in with a magic link: POST /request-magic-link, /verify (GET    *)
(* and POST) and /verify-code of routes/auth.routes.ts, over the rows of   *)
(* `magic_link_tokens` (auth/magicLinks.ts), `users` (auth/users.ts) and   *)
(* `sessions` (auth/sessions.ts), while the account may be erased.         *)
(*                                                                         *)
(* A link opened in the browser that asked for it signs in there; opened   *)
(* anywhere else it shows, once, a code to be typed in that browser, which *)
(* holds the pending-login cookie.  One database or mail call is one       *)
(* action; a link stands for its row, its token and its pending session    *)
(* id, and a code is only right or wrong.                                  *)
(***************************************************************************)
EXTENDS Integers, FiniteSets

CONSTANTS
    Links,          \* rows of magic_link_tokens
    Emails,
    EmailOf,        \* magic_link_tokens.email
    Browsers,
    Requests,       \* HTTP requests being served at the same time
    NoLink, NoBrowser,
    CODE_MAX_ATTEMPTS,
    MaxAccounts,    \* bound: accounts one e-mail address has in turn
    MaxFaults       \* bound: crashes and failed calls

ASSUME SignInConstants ==
    /\ EmailOf \in [Links -> Emails]
    /\ NoLink \notin Links /\ NoBrowser \notin Browsers
    /\ CODE_MAX_ATTEMPTS \in Nat \ {0}
    /\ MaxAccounts \in Nat \ {0} /\ MaxFaults \in Nat
    /\ IsFiniteSet(Requests)

VARIABLES
    link,           \* the row: which statement, if any, set consumed_at
    expired,        \* links whose expires_at has passed
    coded,          \* links with a code_hash
    attempts,       \* code_attempts
    sent,           \* links that were mailed
    cookie,         \* the pending-login cookie of each browser
    account,        \* id of the address's row in `users`, 0 when there is none
    lastId,         \* last id given to an account of the address
    session,        \* user id of the session made from the link, 0 when there is none
    job,            \* the local state of each request
    faults,
    requester,      \* history: the browser that asked for the link
    wins,           \* history: requests told that they consumed the link
    madeIn,         \* history: browsers a session was made in from the link
    tried           \* history: wrong codes compared with the link's

linkVars    == <<link, expired, coded, attempts, sent>>
accountVars == <<account, lastId, session>>
history     == <<requester, wins, madeIn, tried>>
vars        == <<linkVars, cookie, accountVars, job, faults, history>>

PCs == { "idle", "find", "create", "recheck", "insert", "send", "reply",
         "claim", "issue", "use", "code", "count", "burn", "session" }

Job == [pc : PCs, link : Links \cup {NoLink}, browser : Browsers \cup {NoBrowser},
        asks : BOOLEAN,     \* serves /request-magic-link
        here : BOOLEAN,     \* came with the link's pending-login cookie
        right : BOOLEAN,    \* came with the right code
        user : Nat]

Idle == [pc |-> "idle", link |-> NoLink, browser |-> NoBrowser,
         asks |-> FALSE, here |-> FALSE, right |-> FALSE, user |-> 0]

\* A handler past the look-up of the user has one.
HasUser(j) == j.pc \in {"insert", "send", "reply", "session"} => j.user # 0

TypeOK ==
    /\ link \in [Links -> {"none", "open", "used", "burned", "erased"}]
    /\ expired \in SUBSET Links /\ coded \in SUBSET Links /\ sent \in SUBSET Links
    /\ attempts \in [Links -> Nat]
    /\ cookie \in [Browsers -> Links \cup {NoLink}]
    /\ account \in [Emails -> Nat] /\ lastId \in [Emails -> Nat]
    /\ session \in [Links -> Nat]
    /\ job \in [Requests -> Job]
    /\ \A r \in Requests : HasUser(job[r])
    /\ faults \in 0..MaxFaults
    /\ requester \in [Links -> Browsers \cup {NoBrowser}]
    /\ wins \in [Links -> Nat]
    /\ madeIn \in [Links -> SUBSET Browsers]
    /\ tried \in [Links -> Nat]

Init ==
    /\ link = [l \in Links |-> "none"]
    /\ expired = {} /\ coded = {} /\ sent = {}
    /\ attempts = [l \in Links |-> 0]
    /\ cookie = [b \in Browsers |-> NoLink]
    /\ account = [m \in Emails |-> 0] /\ lastId = [m \in Emails |-> 0]
    /\ session = [l \in Links |-> 0]
    /\ job = [r \in Requests |-> Idle]
    /\ faults = 0
    /\ requester = [l \in Links |-> NoBrowser]
    /\ wins = [l \in Links |-> 0]
    /\ madeIn = [l \in Links |-> {}]
    /\ tried = [l \in Links |-> 0]

-----------------------------------------------------------------------------

At(r, pc) == job[r].pc = pc

Goto(r, pc) == job' = [job EXCEPT ![r].pc = pc]

Finish(r) == job' = [job EXCEPT ![r] = Idle]

Begin(r, start) == job[r] = Idle /\ job' = [job EXCEPT ![r] = start]

Email(r) == EmailOf[job[r].link]

\* consumed_at IS NULL
Unconsumed(l) == link[l] = "open"

-----------------------------------------------------------------------------
(* findOrCreateUserByEmail, in all three handlers *)

AfterUser(r) == IF job[r].asks THEN "insert" ELSE "session"

HaveUser(r, id) == job' = [job EXCEPT ![r].pc = AfterUser(r), ![r].user = id]

FindUser(r) ==
    /\ At(r, "find")
    /\ IF account[Email(r)] # 0 THEN HaveUser(r, account[Email(r)]) ELSE Goto(r, "create")
    /\ UNCHANGED <<linkVars, cookie, accountVars, faults, history>>

\* The INSERT, or its unique violation.
CreateUser(r) ==
    LET m == Email(r) IN
    /\ At(r, "create")
    /\ IF account[m] = 0
         THEN /\ account' = [account EXCEPT ![m] = lastId[m] + 1]
              /\ lastId' = [lastId EXCEPT ![m] = @ + 1]
              /\ HaveUser(r, lastId[m] + 1)
         ELSE Goto(r, "recheck") /\ UNCHANGED <<account, lastId>>
    /\ UNCHANGED <<linkVars, cookie, session, faults, history>>

\* Mutant: the re-read's result is not checked.
RecheckUnchecked(r) ==
    /\ At(r, "recheck")
    /\ HaveUser(r, account[Email(r)])
    /\ UNCHANGED <<linkVars, cookie, accountVars, faults, history>>

\* The re-read; the account may have been erased meanwhile (the handler throws).
RecheckUser(r) ==
    /\ At(r, "recheck")
    /\ IF account[Email(r)] # 0 THEN HaveUser(r, account[Email(r)]) ELSE Finish(r)
    /\ UNCHANGED <<linkVars, cookie, accountVars, faults, history>>

-----------------------------------------------------------------------------
(* POST /request-magic-link *)

RequestLink(r, b, l) ==
    /\ link[l] = "none" /\ requester[l] = NoBrowser
    /\ Begin(r, [Idle EXCEPT !.pc = "find", !.link = l, !.browser = b, !.asks = TRUE])
    /\ requester' = [requester EXCEPT ![l] = b]
    /\ UNCHANGED <<linkVars, cookie, accountVars, faults, wins, madeIn, tried>>

\* issueMagicLink
InsertLink(r) ==
    /\ At(r, "insert")
    /\ link' = [link EXCEPT ![job[r].link] = "open"]
    /\ Goto(r, "send")
    /\ UNCHANGED <<expired, coded, attempts, sent, cookie, accountVars, faults, history>>

SendMagicLink(r) ==
    /\ At(r, "send")
    /\ sent' = sent \cup {job[r].link}
    /\ Goto(r, "reply")
    /\ UNCHANGED <<link, expired, coded, attempts, cookie, accountVars, faults, history>>

\* The answer sets the pending-login cookie; the mail may be read before it.
Reply(r) ==
    /\ At(r, "reply")
    /\ cookie' = [cookie EXCEPT ![job[r].browser] = job[r].link]
    /\ Finish(r)
    /\ UNCHANGED <<linkVars, accountVars, faults, history>>

-----------------------------------------------------------------------------
(* GET and POST /verify *)

OpenLink(r, b, l) ==
    /\ l \in sent
    /\ Begin(r, [Idle EXCEPT !.pc = "claim", !.link = l, !.browser = b, !.here = (cookie[b] = l)])
    /\ UNCHANGED <<linkVars, cookie, accountVars, faults, history>>

\* Mutant: any browser that opens the link is signed in.
ReadLinkAnywhere(r) ==
    LET l == job[r].link IN
    /\ At(r, "claim")
    /\ IF Unconsumed(l) /\ l \notin expired THEN Goto(r, "use") ELSE Finish(r)
    /\ UNCHANGED <<linkVars, cookie, accountVars, faults, history>>

\* The SELECT of claimMagicLinkOrIssueCode.  The handler's clock is read once,
\* so later statements do not see an expiry this one did not see.
ReadLink(r) ==
    LET l == job[r].link IN
    /\ At(r, "claim")
    /\ IF Unconsumed(l) /\ l \notin expired
         THEN Goto(r, IF job[r].here THEN "use" ELSE "issue")
         ELSE Finish(r)
    /\ UNCHANGED <<linkVars, cookie, accountVars, faults, history>>

\* Mutant: the UPDATE does not repeat consumed_at IS NULL.
UseLinkUnguarded(r) ==
    LET l == job[r].link IN
    /\ At(r, "use")
    /\ link' = [link EXCEPT ![l] = "used"]
    /\ wins' = [wins EXCEPT ![l] = @ + 1]
    /\ Goto(r, "find")
    /\ UNCHANGED <<expired, coded, attempts, sent, cookie, accountVars, faults, requester, madeIn, tried>>

\* The single-use UPDATE, of a link or of a right code.
UseLink(r) ==
    LET l == job[r].link IN
    /\ At(r, "use")
    /\ IF Unconsumed(l)
         THEN /\ link' = [link EXCEPT ![l] = "used"]
              /\ wins' = [wins EXCEPT ![l] = @ + 1]
              /\ Goto(r, "find")
         ELSE Finish(r) /\ UNCHANGED <<link, wins>>
    /\ UNCHANGED <<expired, coded, attempts, sent, cookie, accountVars, faults, requester, madeIn, tried>>

\* The code is minted once: code_hash IS NULL.
IssueCode(r) ==
    LET l == job[r].link IN
    /\ At(r, "issue")
    /\ coded' = IF Unconsumed(l) THEN coded \cup {l} ELSE coded
    /\ Finish(r)
    /\ UNCHANGED <<link, expired, attempts, sent, cookie, accountVars, faults, history>>

-----------------------------------------------------------------------------
(* POST /verify-code *)

EnterCode(r, b, right) ==
    /\ cookie[b] # NoLink
    /\ Begin(r, [Idle EXCEPT !.pc = "code", !.link = cookie[b], !.browser = b, !.here = TRUE, !.right = right])
    /\ UNCHANGED <<linkVars, cookie, accountVars, faults, history>>

\* The SELECT of consumeMagicLinkByCode, and the comparison, which comes before
\* the count.
ReadCode(r) ==
    LET l == job[r].link
        wrong == ~job[r].right IN
    /\ At(r, "code")
    /\ IF Unconsumed(l) /\ l \notin expired /\ l \in coded
         THEN /\ tried' = IF wrong THEN [tried EXCEPT ![l] = @ + 1] ELSE tried
              /\ Goto(r, IF wrong THEN "count" ELSE "use")
         ELSE Finish(r) /\ UNCHANGED tried
    /\ UNCHANGED <<linkVars, cookie, accountVars, faults, requester, wins, madeIn>>

\* Mutant: the burn is decided on the count before the increment.
CountThenCompare(r) ==
    LET l == job[r].link IN
    /\ At(r, "count")
    /\ IF Unconsumed(l)
         THEN /\ attempts' = [attempts EXCEPT ![l] = @ + 1]
              /\ IF attempts[l] >= CODE_MAX_ATTEMPTS THEN Goto(r, "burn") ELSE Finish(r)
         ELSE Finish(r) /\ UNCHANGED attempts
    /\ UNCHANGED <<link, expired, coded, sent, cookie, accountVars, faults, history>>

\* The increment, which returns the new count.
CountAttempt(r) ==
    LET l == job[r].link IN
    /\ At(r, "count")
    /\ IF Unconsumed(l)
         THEN /\ attempts' = [attempts EXCEPT ![l] = @ + 1]
              /\ IF attempts[l] + 1 >= CODE_MAX_ATTEMPTS THEN Goto(r, "burn") ELSE Finish(r)
         ELSE Finish(r) /\ UNCHANGED attempts
    /\ UNCHANGED <<link, expired, coded, sent, cookie, accountVars, faults, history>>

\* The burn, guarded again, and the answer, which removes the cookie.
BurnLink(r) ==
    LET l == job[r].link IN
    /\ At(r, "burn")
    /\ link' = IF Unconsumed(l) THEN [link EXCEPT ![l] = "burned"] ELSE link
    /\ cookie' = [cookie EXCEPT ![job[r].browser] = NoLink]
    /\ Finish(r)
    /\ UNCHANGED <<expired, coded, attempts, sent, accountVars, faults, history>>

-----------------------------------------------------------------------------
(* createSession, and the answer: the session cookie is set and the         *)
(* pending-login cookie removed.  The INSERT throws when the user is gone.   *)

\* Mutant: sessions.user_id is no foreign key.
CreateSessionAnyway(r) ==
    LET l == job[r].link IN
    /\ At(r, "session")
    /\ session' = [session EXCEPT ![l] = job[r].user]
    /\ madeIn' = [madeIn EXCEPT ![l] = @ \cup {job[r].browser}]
    /\ cookie' = [cookie EXCEPT ![job[r].browser] = NoLink]
    /\ Finish(r)
    /\ UNCHANGED <<linkVars, account, lastId, faults, requester, wins, tried>>

CreateSession(r) ==
    LET l == job[r].link IN
    /\ At(r, "session")
    /\ IF account[Email(r)] = job[r].user
         THEN /\ session' = [session EXCEPT ![l] = job[r].user]
              /\ madeIn' = [madeIn EXCEPT ![l] = @ \cup {job[r].browser}]
              /\ cookie' = [cookie EXCEPT ![job[r].browser] = NoLink]
         ELSE UNCHANGED <<session, madeIn, cookie>>
    /\ Finish(r)
    /\ UNCHANGED <<linkVars, account, lastId, faults, requester, wins, tried>>

-----------------------------------------------------------------------------
(* Time, the account's erasure, failures *)

\* The expiry of a consumed row is never looked at.
Expire(l) ==
    /\ Unconsumed(l) /\ l \notin expired
    /\ expired' = expired \cup {l}
    /\ UNCHANGED <<link, coded, attempts, sent, cookie, accountVars, job, faults, history>>

\* eraseAccount's transaction, asked for by a signed-in user: the address's
\* links, the user's sessions and the user go at once.
EraseAccount(m) ==
    /\ account[m] # 0 /\ lastId[m] < MaxAccounts
    /\ \E l \in Links : EmailOf[l] = m /\ session[l] = account[m]
    /\ link' = [l \in Links |-> IF EmailOf[l] = m /\ link[l] # "none" THEN "erased" ELSE link[l]]
    /\ session' = [l \in Links |-> IF EmailOf[l] = m THEN 0 ELSE session[l]]
    /\ account' = [account EXCEPT ![m] = 0]
    /\ UNCHANGED <<expired, coded, attempts, sent, cookie, lastId, job, faults, history>>

\* A database or mail call throws; a failed INSERT of the user is re-read.
CallFails(r) ==
    /\ faults < MaxFaults
    /\ job[r] # Idle /\ ~At(r, "reply")
    /\ faults' = faults + 1
    /\ IF At(r, "create") THEN Goto(r, "recheck") ELSE Finish(r)
    /\ UNCHANGED <<linkVars, cookie, accountVars, history>>

Crash ==
    /\ faults < MaxFaults
    /\ faults' = faults + 1
    /\ job' = [r \in Requests |-> Idle]
    /\ UNCHANGED <<linkVars, cookie, accountVars, history>>

-----------------------------------------------------------------------------

Handle(r) ==
    \/ FindUser(r) \/ CreateUser(r) \/ RecheckUser(r)
    \/ InsertLink(r) \/ SendMagicLink(r) \/ Reply(r)
    \/ ReadLink(r) \/ UseLink(r) \/ IssueCode(r)
    \/ ReadCode(r) \/ CountAttempt(r) \/ BurnLink(r)
    \/ CreateSession(r)

Arrive(r) ==
    \E b \in Browsers :
        \/ \E l \in Links : RequestLink(r, b, l) \/ OpenLink(r, b, l)
        \/ \E right \in BOOLEAN : EnterCode(r, b, right)

Next ==
    \/ \E r \in Requests : Arrive(r) \/ Handle(r) \/ CallFails(r)
    \/ \E l \in Links : Expire(l)
    \/ \E m \in Emails : EraseAccount(m)
    \/ Crash

Spec == Init /\ [][Next]_vars

-----------------------------------------------------------------------------
(* Properties *)

\* A link is a single-use secret, however the click, the code and the burn of
\* several requests race for it, and whether or not the account is erased
\* meanwhile: one request at most is told to sign in, none after the link was
\* burned or erased (magicLinks.ts:119-131 and 249-267).
StateOf(l) ==
    CASE link[l] = "none" -> "unissued" [] link[l] = "open" -> "open" [] OTHER -> "spent"

state == [l \in Links |-> StateOf(l)]

Secret == INSTANCE OneShot WITH Secrets <- Links

UsedOnce == Secret!Spec

\* Sessions are only made in the browser that asked for the link, which may
\* have asked for another one since, and whose cookie another answer may
\* overwrite or remove (auth.routes.ts:115-121, 184 and 255-267).
SignedInWhereRequested == \A l \in Links : madeIn[l] \subseteq {requester[l]}

\* Requests whose wrong code was compared with l's, and which have yet to count
\* it, or to burn the link.
Guessing(l) == {r \in Requests : job[r].pc \in {"count", "burn"} /\ job[r].link = l}

\* Absent failed calls, a link lets no more than CODE_MAX_ATTEMPTS wrong codes be
\* tried one after the other; tried at once, a code is compared before the others
\* are counted, so that each request in flight may try one beyond the limit, and
\* none a second one (magicLinks.ts:201-246).
AttemptsBurn ==
    faults = 0 =>
        \A l \in Links :
            /\ Unconsumed(l) => tried[l] <= CODE_MAX_ATTEMPTS - 1 + Cardinality(Guessing(l))
            /\ tried[l] <= CODE_MAX_ATTEMPTS - 1 + Cardinality(Requests)

\* A session belongs to the account its address has now: neither two first
\* sign-ins that race to create the account nor an erasure between the steps
\* of a sign-in leaves a session of an account that is gone
\* (users.ts:29-49 and 84-115, sessions.ts:75-93).
SessionsHaveAccounts == \A l \in Links : session[l] # 0 => session[l] = account[EmailOf[l]]

=============================================================================
