------------------------------ MODULE Passkeys -------------------------------
(***************************************************************************)
(* The WebAuthn ceremonies of auth/webauthn.ts and routes/passkey.routes.ts*)
(* over the rows of `webauthn_challenges`, `authenticators` and `sessions`,*)
(* while passkeys are deleted and accounts erased.                         *)
(*                                                                         *)
(* One database call is one action.  A response may come late, twice, or   *)
(* in another session than the ceremony was begun in; what it says (the    *)
(* credential, its signature counter, and whether the library verifies the *)
(* signature, which reads no state) is chosen where it is first looked at. *)
(***************************************************************************)
EXTENDS Integers, FiniteSets

CONSTANTS
    Challenges,         \* rows of webauthn_challenges
    Authenticators,     \* rows of authenticators
    Credentials,        \* credential ids
    Users,              \* accounts
    Requests,           \* HTTP requests being served at the same time
    NoChallenge, NoAuthenticator, NoCredential, NoUser,
    MaxCount,           \* bound: the signature counter of a device
    MaxFaults           \* bound: crashes and failed calls

ASSUME PasskeyConstants ==
    /\ NoChallenge \notin Challenges /\ NoAuthenticator \notin Authenticators
    /\ NoCredential \notin Credentials /\ NoUser \notin Users
    /\ MaxCount \in Nat /\ MaxFaults \in Nat

VARIABLES
    challenge,          \* the row: absent, open, past expires_at, consumed, gone with its user
    owner,              \* its user_id; none for kind 'authentication'
    authenticator,      \* the row
    users,              \* accounts that exist
    session,            \* the session made from a challenge
    job,                \* the local state of each request
    faults,
    wins,               \* history: requests told that they consumed the challenge
    origin,             \* history: the challenge a passkey was enrolled with
    settled             \* history: the counter of a passkey when an assertion was last
                        \* looked up while no other was between its SELECT and UPDATE

challengeVars == <<challenge, owner>>
history       == <<wins, origin, settled>>
vars == <<challengeVars, authenticator, users, session, job, faults, history>>

PCs == {"idle", "begin", "consume", "enroll", "select", "update", "user", "session"}

Row == [row : {"none", "enrolled", "deleted"}, user : Users \cup {NoUser},
        credential : Credentials \cup {NoCredential}, signCount : 0..MaxCount]

NoRow == [row |-> "none", user |-> NoUser, credential |-> NoCredential, signCount |-> 0]

Session == [user : Users \cup {NoUser}, authenticator : Authenticators \cup {NoAuthenticator}]

NoSession == [user |-> NoUser, authenticator |-> NoAuthenticator]

Job == [pc : PCs, challenge : Challenges \cup {NoChallenge}, user : Users \cup {NoUser},
        authenticator : Authenticators \cup {NoAuthenticator}, counter : 0..MaxCount]

Idle == [pc |-> "idle", challenge |-> NoChallenge, user |-> NoUser,
         authenticator |-> NoAuthenticator, counter |-> 0]

\* An assertion's steps after the SELECT have a row to work on.
TypeOK ==
    /\ challenge \in [Challenges -> {"none", "open", "expired", "used", "erased"}]
    /\ owner \in [Challenges -> Users \cup {NoUser}]
    /\ authenticator \in [Authenticators -> Row]
    /\ users \in SUBSET Users
    /\ session \in [Challenges -> Session]
    /\ job \in [Requests -> Job]
    /\ \A r \in Requests : job[r].pc \in {"update", "user", "session"} =>
                               job[r].authenticator \in Authenticators
    /\ faults \in 0..MaxFaults
    /\ wins \in [Challenges -> Nat]
    /\ origin \in [Authenticators -> Challenges \cup {NoChallenge}]
    /\ settled \in [Authenticators -> 0..MaxCount]

Init ==
    /\ challenge = [c \in Challenges |-> "none"]
    /\ owner = [c \in Challenges |-> NoUser]
    /\ authenticator = [p \in Authenticators |-> NoRow]
    /\ users = Users
    /\ session = [c \in Challenges |-> NoSession]
    /\ job = [r \in Requests |-> Idle]
    /\ faults = 0
    /\ wins = [c \in Challenges |-> 0]
    /\ origin = [p \in Authenticators |-> NoChallenge]
    /\ settled = [p \in Authenticators |-> 0]

-----------------------------------------------------------------------------

At(r, pc) == job[r].pc = pc

Goto(r, pc) == job' = [job EXCEPT ![r].pc = pc]

Finish(r) == job' = [job EXCEPT ![r] = Idle]

Begin(r, start) == job[r] = Idle /\ job' = [job EXCEPT ![r] = start]

Enrolled(p) == authenticator[p].row = "enrolled"

\* Mutant: a consumed challenge may be answered.
AnswerableAgain(c) == challenge[c] \in {"open", "used"}

\* The WHERE of consumeChallenge, its kind apart.
Answerable(c) == challenge[c] = "open"

Consume(c) == challenge' = [challenge EXCEPT ![c] = "used"]

\* Mutant: the challenge may be another user's.
IssuedToAnyone(c, u) == owner[c] # NoUser

IssuedTo(c, u) == owner[c] = u

\* Mutant: the same counter once more is let through.
ReplayedBelow(stored, new) == stored > 0 /\ new < stored

Replayed(stored, new) == stored > 0 /\ new <= stored

-----------------------------------------------------------------------------
(* Registration, by a signed-in user *)

BeginRegistration(r) ==
    /\ \E u \in users : Begin(r, [Idle EXCEPT !.pc = "begin", !.user = u])
    /\ UNCHANGED <<challengeVars, authenticator, users, session, faults, history>>

\* The foreign key refuses a challenge of an account that is gone.
InsertChallenge(r) ==
    /\ At(r, "begin")
    /\ IF job[r].user \in users
         THEN \E c \in Challenges :
                /\ challenge[c] = "none"
                /\ challenge' = [challenge EXCEPT ![c] = "open"]
                /\ owner' = [owner EXCEPT ![c] = job[r].user]
         ELSE UNCHANGED <<challenge, owner>>
    /\ Finish(r)
    /\ UNCHANGED <<authenticator, users, session, faults, history>>

FinishRegistration(r) ==
    /\ \E u \in users, c \in Challenges :
         /\ challenge[c] # "none"
         /\ Begin(r, [Idle EXCEPT !.pc = "consume", !.user = u, !.challenge = c])
    /\ UNCHANGED <<challengeVars, authenticator, users, session, faults, history>>

\* consumeChallenge consumes the row before it looks at whose it is; the
\* response is then verified, or not.
ConsumeRegistration(r) ==
    LET c == job[r].challenge IN
    /\ At(r, "consume")
    /\ IF Answerable(c) /\ owner[c] # NoUser
         THEN /\ Consume(c)
              /\ IF IssuedTo(c, job[r].user)
                   THEN wins' = [wins EXCEPT ![c] = @ + 1] /\ (Goto(r, "enroll") \/ Finish(r))
                   ELSE Finish(r) /\ UNCHANGED wins
         ELSE Finish(r) /\ UNCHANGED <<challenge, wins>>
    /\ UNCHANGED <<owner, authenticator, users, session, faults, origin, settled>>

\* The unique index on credential_id, and the foreign key.
Insertable(u, k) ==
    /\ u \in users
    /\ \A p \in Authenticators : Enrolled(p) => authenticator[p].credential # k

Enroll(r) ==
    LET u == job[r].user IN
    /\ At(r, "enroll")
    /\ \E k \in Credentials, n \in 0..MaxCount :
         IF Insertable(u, k)
           THEN \E p \in Authenticators :
                  /\ authenticator[p].row = "none"
                  /\ authenticator' = [authenticator EXCEPT ![p] =
                       [row |-> "enrolled", user |-> u, credential |-> k, signCount |-> n]]
                  /\ origin' = [origin EXCEPT ![p] = job[r].challenge]
           ELSE UNCHANGED <<authenticator, origin>>
    /\ Finish(r)
    /\ UNCHANGED <<challengeVars, users, session, faults, wins, settled>>

-----------------------------------------------------------------------------
(* Signing in *)

BeginAuthentication(c) ==
    /\ challenge[c] = "none"
    /\ challenge' = [challenge EXCEPT ![c] = "open"]
    /\ UNCHANGED <<owner, authenticator, users, session, job, faults, history>>

\* consumeChallenge is the first statement; when it refuses, nothing happened.
FinishAuthentication(r, c) ==
    /\ Answerable(c) /\ owner[c] = NoUser
    /\ Begin(r, [Idle EXCEPT !.pc = "select", !.challenge = c])
    /\ Consume(c)
    /\ wins' = [wins EXCEPT ![c] = @ + 1]
    /\ UNCHANGED <<owner, authenticator, users, session, faults, origin, settled>>

\* Requests between the SELECT and the UPDATE of the row.
Verifying(p) == {v \in Requests : At(v, "update") /\ job[v].authenticator = p}

\* Mutant: an unknown credential is not looked for.
SelectUnchecked(r) ==
    /\ At(r, "select")
    /\ Goto(r, "update")
    /\ UNCHANGED <<challengeVars, authenticator, users, session, faults, history>>

\* The SELECT, and the verification against the row: the credential may be
\* unknown and the signature wrong, which refuses any response.
SelectAuthenticator(r) ==
    /\ At(r, "select")
    /\ \/ \E p \in Authenticators, n \in 0..MaxCount :
            /\ Enrolled(p) /\ ~Replayed(authenticator[p].signCount, n)
            /\ job' = [job EXCEPT ![r].pc = "update", ![r].authenticator = p, ![r].counter = n]
            /\ settled' = IF Verifying(p) = {}
                            THEN [settled EXCEPT ![p] = authenticator[p].signCount] ELSE settled
       \/ Finish(r) /\ UNCHANGED settled
    /\ UNCHANGED <<challengeVars, authenticator, users, session, faults, wins, origin>>

\* UPDATE by id.  When the row is gone, it returns nothing and the route throws.
UpdateCounter(r) ==
    LET p == job[r].authenticator IN
    /\ At(r, "update")
    /\ IF Enrolled(p)
         THEN /\ authenticator' = [authenticator EXCEPT ![p].signCount = job[r].counter]
              /\ job' = [job EXCEPT ![r].pc = "user", ![r].user = authenticator[p].user]
         ELSE Finish(r) /\ UNCHANGED authenticator
    /\ UNCHANGED <<challengeVars, users, session, faults, history>>

FindUser(r) ==
    /\ At(r, "user")
    /\ IF job[r].user \in users THEN Goto(r, "session") ELSE Finish(r)
    /\ UNCHANGED <<challengeVars, authenticator, users, session, faults, history>>

\* Mutant: sessions without foreign keys.
UnreferencedRows(u, p) == TRUE

\* The foreign keys of `sessions`.
ReferencedRows(u, p) == u \in users /\ Enrolled(p)

CreateSession(r) ==
    /\ At(r, "session")
    /\ session' = IF ReferencedRows(job[r].user, job[r].authenticator)
                    THEN [session EXCEPT ![job[r].challenge] =
                            [user |-> job[r].user, authenticator |-> job[r].authenticator]]
                    ELSE session
    /\ Finish(r)
    /\ UNCHANGED <<challengeVars, authenticator, users, faults, history>>

-----------------------------------------------------------------------------
(* Deletion, erasure, time, failures *)

\* DELETE by id and user; the session's authenticator_id is set null.
DeleteAuthenticator(u, p) ==
    /\ u \in users /\ Enrolled(p) /\ authenticator[p].user = u
    /\ authenticator' = [authenticator EXCEPT ![p].row = "deleted"]
    /\ session' = [c \in Challenges |->
                     IF session[c].authenticator = p
                       THEN [session[c] EXCEPT !.authenticator = NoAuthenticator] ELSE session[c]]
    /\ UNCHANGED <<challengeVars, users, job, faults, history>>

\* eraseAccount's transaction: sessions, then the user, and by cascade its
\* challenges and passkeys.
EraseAccount(u) ==
    /\ u \in users
    /\ users' = users \ {u}
    /\ challenge' = [c \in Challenges |-> IF owner[c] = u THEN "erased" ELSE challenge[c]]
    /\ authenticator' = [p \in Authenticators |->
                           IF authenticator[p].user = u
                             THEN [authenticator[p] EXCEPT !.row = "deleted"] ELSE authenticator[p]]
    /\ session' = [c \in Challenges |-> IF session[c].user = u THEN NoSession ELSE session[c]]
    /\ UNCHANGED <<owner, job, faults, history>>

\* The expiry of a consumed row is never looked at.
Expire(c) ==
    /\ challenge[c] = "open"
    /\ challenge' = [challenge EXCEPT ![c] = "expired"]
    /\ UNCHANGED <<owner, authenticator, users, session, job, faults, history>>

\* A database call throws.
CallFails(r) ==
    /\ faults < MaxFaults /\ job[r] # Idle
    /\ faults' = faults + 1
    /\ Finish(r)
    /\ UNCHANGED <<challengeVars, authenticator, users, session, history>>

Crash ==
    /\ faults < MaxFaults
    /\ faults' = faults + 1
    /\ job' = [r \in Requests |-> Idle]
    /\ UNCHANGED <<challengeVars, authenticator, users, session, history>>

-----------------------------------------------------------------------------

Register(r) == BeginRegistration(r) \/ InsertChallenge(r)
               \/ FinishRegistration(r) \/ ConsumeRegistration(r) \/ Enroll(r)

Login(r) == SelectAuthenticator(r) \/ UpdateCounter(r) \/ FindUser(r) \/ CreateSession(r)

Next ==
    \/ \E r \in Requests : Register(r) \/ Login(r) \/ CallFails(r)
    \/ \E r \in Requests, c \in Challenges : FinishAuthentication(r, c)
    \/ \E c \in Challenges : BeginAuthentication(c) \/ Expire(c)
    \/ \E u \in Users, p \in Authenticators : DeleteAuthenticator(u, p)
    \/ \E u \in Users : EraseAccount(u)
    \/ Crash

Spec == Init /\ [][Next]_vars

-----------------------------------------------------------------------------
(* Properties *)

StateOf(c) ==
    CASE challenge[c] = "none" -> "unissued" [] challenge[c] = "open" -> "open" [] OTHER -> "spent"

state == [c \in Challenges |-> StateOf(c)]

Secret == INSTANCE OneShot WITH Secrets <- Challenges

\* A challenge is a single-use secret: whatever a response says and however
\* many come at once, one finalize attempt at most gets past it, none after it
\* went with its account (webauthn.ts:92-94 and 321-333).
AnsweredOnce == Secret!Spec

\* A passkey belongs to the user the ceremony was begun for, whoever is signed
\* in, and whatever was erased, when it is finished (webauthn.ts:334-341).
EnrolledForBeginner ==
    \A p \in Authenticators : authenticator[p].row # "none" =>
        origin[p] \in Challenges /\ owner[origin[p]] = authenticator[p].user

\* Neither the deletion of a passkey nor the erasure of an account between any
\* two steps of a ceremony leaves a passkey or a session of an account that is
\* gone, or a session that names a deleted passkey or another user's
\* (webauthn.ts:258-264, passkey.routes.ts:189-205, schema.ts:237).
LoginsAreBacked ==
    /\ \A p \in Authenticators : Enrolled(p) => authenticator[p].user \in users
    /\ \A c \in Challenges :
         LET s == session[c] IN
         /\ s # NoSession => s.user \in users
         /\ s.authenticator # NoAuthenticator =>
              Enrolled(s.authenticator) /\ authenticator[s.authenticator].user = s.user

\* r's assertion is accepted in this step.
Accepted(r) == At(r, "update") /\ job'[r].pc = "user"

\* Clone detection, whatever assertions of a passkey overlap: one is accepted only
\* with a counter ahead of the one that was stored when the first of those it
\* overlaps was looked up.  Alone, it moves the stored counter ahead; of several the
\* last to write may move it back, but no further (webauthn.ts:196-201 and 250-262).
CountersAdvance ==
    [][\A r \in Requests : Accepted(r) =>
         settled[job[r].authenticator] = 0 \/ job[r].counter > settled[job[r].authenticator]]_vars

=============================================================================
