--------------------------- MODULE PasskeysProofs ----------------------------
(***************************************************************************)
(* Proofs about Passkeys, for any challenges, passkeys, credentials, users *)
(* and concurrent requests, any counters and any number of faults.         *)
(***************************************************************************)
EXTENDS Passkeys, TLAPS

-----------------------------------------------------------------------------
(* Typing *)

\* What a request holds at each of its steps.
WellFormed(j) ==
    /\ j \in Job
    /\ j.pc \in {"consume", "enroll", "select", "update", "user", "session"} => j.challenge \in Challenges
    /\ j.pc \in {"begin", "consume", "enroll", "user", "session"} => j.user \in Users
    /\ j.pc \in {"update", "user", "session"} => j.authenticator \in Authenticators

\* A row has a user from its INSERT on.
Typed ==
    /\ TypeOK
    /\ \A r \in Requests : WellFormed(job[r])
    /\ \A p \in Authenticators : (authenticator[p].row # "none") <=> (authenticator[p].user \in Users)

LEMMA IdleOK == WellFormed(Idle) /\ Idle.pc = "idle"
  BY PasskeyConstants DEF WellFormed, Idle, Job, PCs

LEMMA TypedInit == Init => Typed
  BY IdleOK, PasskeyConstants DEF Init, Typed, TypeOK, WellFormed, Idle, NoRow, NoSession, Row, Session

\* The step of a request leaves the others alone.
LEMMA JobSet ==
  ASSUME Typed, NEW r \in Requests, NEW j, WellFormed(j), job' = [job EXCEPT ![r] = j]
  PROVE  /\ job' \in [Requests -> Job]
         /\ \A v \in Requests : WellFormed(job'[v])
         /\ job'[r] = j /\ \A v \in Requests \ {r} : job'[v] = job[v]
  BY DEF Typed, TypeOK, WellFormed

LEMMA JobEnds ==
  ASSUME Typed, NEW r \in Requests, Finish(r)
  PROVE  /\ job' \in [Requests -> Job]
         /\ \A v \in Requests : WellFormed(job'[v])
         /\ job'[r] = Idle /\ \A v \in Requests \ {r} : job'[v] = job[v]
  BY JobSet, IdleOK DEF Finish

\* A request moves on with what it needs for its next step.
LEMMA JobMoves ==
  ASSUME Typed, NEW r \in Requests, NEW pc \in PCs, NEW u \in Users \cup {NoUser},
         NEW p \in Authenticators \cup {NoAuthenticator}, NEW n \in 0..MaxCount,
         job[r].challenge \in Challenges,
         pc \in {"enroll", "user", "session"} => u \in Users,
         pc \in {"update", "user", "session"} => p \in Authenticators,
         pc \notin {"idle", "begin", "consume"},
         job' = [job EXCEPT ![r].pc = pc, ![r].user = u, ![r].authenticator = p, ![r].counter = n]
  PROVE  /\ job' \in [Requests -> Job]
         /\ \A v \in Requests : WellFormed(job'[v])
         /\ job'[r] = [job[r] EXCEPT !.pc = pc, !.user = u, !.authenticator = p, !.counter = n]
         /\ \A v \in Requests \ {r} : job'[v] = job[v]
<1> DEFINE j == [job[r] EXCEPT !.pc = pc, !.user = u, !.authenticator = p, !.counter = n]
<1>1. WellFormed(j)
  BY DEF Typed, TypeOK, WellFormed, Job
<1>2. job' = [job EXCEPT ![r] = j]
  BY DEF Typed, TypeOK
<1> HIDE DEF j
<1>3. /\ job' \in [Requests -> Job] /\ \A v \in Requests : WellFormed(job'[v])
      /\ job'[r] = j /\ \A v \in Requests \ {r} : job'[v] = job[v]
  BY <1>1, <1>2, JobSet
<1> QED  BY <1>3 DEF j

LEMMA TypedStep == Typed /\ [Next]_vars => Typed'
<1> SUFFICES ASSUME Typed, [Next]_vars PROVE Typed'
  OBVIOUS
<1> USE PasskeyConstants DEF challengeVars, history
<1> DEFINE Jobs == job' \in [Requests -> Job] /\ \A r \in Requests : WellFormed(job'[r])
           RowsOK == /\ authenticator' \in [Authenticators -> Row]
                     /\ \A p \in Authenticators : (authenticator'[p].row # "none") <=> (authenticator'[p].user \in Users)
<1>s. ASSUME Jobs
      PROVE  /\ job' \in [Requests -> Job] /\ \A r \in Requests : WellFormed(job[r])'
             /\ \A r \in Requests : job'[r].pc \in {"update", "user", "session"} =>
                                        job'[r].authenticator \in Authenticators
  BY <1>s DEF WellFormed
<1>b. ASSUME NEW r \in Requests
      PROVE  /\ job[r].user \in Users \cup {NoUser} /\ job[r].counter \in 0..MaxCount
             /\ job[r].authenticator \in Authenticators \cup {NoAuthenticator}
             /\ WellFormed(job[r])
  BY DEF Typed, TypeOK, Job
<1>k. ASSUME NEW r \in Requests, NEW pc \in {"enroll", "session"}, Goto(r, pc),
             job[r].challenge \in Challenges, job[r].user \in Users,
             pc = "session" => job[r].authenticator \in Authenticators
      PROVE  Jobs
  <2>1. job' = [job EXCEPT ![r].pc = pc, ![r].user = job[r].user,
                           ![r].authenticator = job[r].authenticator, ![r].counter = job[r].counter]
    BY <1>k DEF Goto, Typed, TypeOK, Job
  <2> QED  BY <1>k, <1>b, <2>1, JobMoves DEF PCs
<1>m. ASSUME NEW r \in Requests, NEW pc \in {"update", "user"}, NEW u \in Users \cup {NoUser},
             NEW p \in Authenticators, NEW n \in 0..MaxCount,
             job[r].challenge \in Challenges, pc = "user" => u \in Users,
             job' = [job EXCEPT ![r].pc = pc, ![r].user = u, ![r].authenticator = p, ![r].counter = n]
      PROVE  Jobs
  BY <1>m, JobMoves DEF PCs
<1>1. ASSUME NEW r \in Requests, BeginRegistration(r) PROVE Typed'
  <2>1. PICK u \in users : job' = [job EXCEPT ![r] = [Idle EXCEPT !.pc = "begin", !.user = u]]
    BY <1>1 DEF BeginRegistration, Begin
  <2> DEFINE j == [Idle EXCEPT !.pc = "begin", !.user = u]
  <2>u. u \in Users
    BY DEF Typed, TypeOK
  <2>2. WellFormed(j)
    BY <2>u, 0 \in 0..MaxCount DEF WellFormed, Idle, Job, PCs
  <2> HIDE DEF j
  <2>3. Jobs
    BY <2>1, <2>2, JobSet DEF j
  <2> QED  BY <1>1, <1>s, <2>3 DEF BeginRegistration, Typed, TypeOK
<1>2. ASSUME NEW r \in Requests, InsertChallenge(r) PROVE Typed'
  <2>1. /\ challenge' \in [Challenges -> {"none", "open", "expired", "used", "erased"}]
        /\ owner' \in [Challenges -> Users \cup {NoUser}]
    BY <1>2, <1>b DEF InsertChallenge, Typed, TypeOK
  <2>2. Jobs
    BY <1>2, JobEnds DEF InsertChallenge
  <2> QED  BY <1>2, <1>s, <2>1, <2>2 DEF InsertChallenge, Typed, TypeOK
<1>3. ASSUME NEW r \in Requests, FinishRegistration(r) PROVE Typed'
  <2>1. PICK u \in users, c \in Challenges :
          job' = [job EXCEPT ![r] = [Idle EXCEPT !.pc = "consume", !.user = u, !.challenge = c]]
    BY <1>3 DEF FinishRegistration, Begin
  <2> DEFINE j == [Idle EXCEPT !.pc = "consume", !.user = u, !.challenge = c]
  <2>u. u \in Users
    BY DEF Typed, TypeOK
  <2>2. WellFormed(j)
    BY <2>u, 0 \in 0..MaxCount DEF WellFormed, Idle, Job, PCs
  <2> HIDE DEF j
  <2>3. Jobs
    BY <2>1, <2>2, JobSet DEF j
  <2> QED  BY <1>3, <1>s, <2>3 DEF FinishRegistration, Typed, TypeOK
<1>4. ASSUME NEW r \in Requests, ConsumeRegistration(r) PROVE Typed'
  <2>1. job[r].challenge \in Challenges /\ job[r].user \in Users
    BY <1>4, <1>b DEF ConsumeRegistration, At, WellFormed
  <2>2. Goto(r, "enroll") \/ Finish(r)
    BY <1>4 DEF ConsumeRegistration
  <2>3. Jobs
    BY <1>k, <2>1, <2>2, JobEnds
  <2>4. /\ challenge' \in [Challenges -> {"none", "open", "expired", "used", "erased"}]
        /\ wins' \in [Challenges -> Nat]
    BY <1>4, <2>1 DEF ConsumeRegistration, Consume, Typed, TypeOK
  <2> QED  BY <1>4, <1>s, <2>3, <2>4 DEF ConsumeRegistration, Typed, TypeOK
<1>5. ASSUME NEW r \in Requests, Enroll(r) PROVE Typed'
  <2>1. job[r].challenge \in Challenges /\ job[r].user \in Users
    BY <1>5, <1>b DEF Enroll, At, WellFormed
  <2>2. Jobs
    BY <1>5, JobEnds DEF Enroll
  <2>3. RowsOK /\ origin' \in [Authenticators -> Challenges \cup {NoChallenge}]
    <3>1. PICK k \in Credentials, n \in 0..MaxCount :
            IF Insertable(job[r].user, k)
              THEN \E p \in Authenticators :
                     /\ authenticator[p].row = "none"
                     /\ authenticator' = [authenticator EXCEPT ![p] =
                          [row |-> "enrolled", user |-> job[r].user, credential |-> k, signCount |-> n]]
                     /\ origin' = [origin EXCEPT ![p] = job[r].challenge]
              ELSE UNCHANGED <<authenticator, origin>>
      BY <1>5 DEF Enroll
    <3>2. CASE Insertable(job[r].user, k)
      <4>1. PICK p \in Authenticators :
              /\ authenticator' = [authenticator EXCEPT ![p] =
                   [row |-> "enrolled", user |-> job[r].user, credential |-> k, signCount |-> n]]
              /\ origin' = [origin EXCEPT ![p] = job[r].challenge]
        BY <3>1, <3>2
      <4>2. [row |-> "enrolled", user |-> job[r].user, credential |-> k, signCount |-> n] \in Row
        BY <2>1 DEF Row
      <4> QED  BY <2>1, <4>1, <4>2 DEF Typed, TypeOK
    <3>3. CASE ~Insertable(job[r].user, k)
      BY <3>1, <3>3 DEF Typed, TypeOK
    <3> QED  BY <3>2, <3>3
  <2> QED  BY <1>5, <1>s, <2>2, <2>3 DEF Enroll, Typed, TypeOK
<1>6. ASSUME NEW c \in Challenges, BeginAuthentication(c) \/ Expire(c) PROVE Typed'
  <2>1. Jobs
    BY <1>6 DEF BeginAuthentication, Expire, Typed, TypeOK
  <2> QED  BY <1>6, <1>s, <2>1 DEF BeginAuthentication, Expire, Typed, TypeOK
<1>7. ASSUME NEW r \in Requests, NEW c \in Challenges, FinishAuthentication(r, c) PROVE Typed'
  <2> DEFINE j == [Idle EXCEPT !.pc = "select", !.challenge = c]
  <2>1. WellFormed(j)
    BY 0 \in 0..MaxCount DEF WellFormed, Idle, Job, PCs
  <2>2. job' = [job EXCEPT ![r] = j]
    BY <1>7 DEF FinishAuthentication, Begin
  <2> HIDE DEF j
  <2>3. Jobs
    BY <2>1, <2>2, JobSet
  <2> QED  BY <1>7, <1>s, <2>3 DEF FinishAuthentication, Consume, Typed, TypeOK
<1>8. ASSUME NEW r \in Requests, SelectAuthenticator(r) PROVE Typed'
  <2>1. job[r].challenge \in Challenges
    BY <1>8, <1>b DEF SelectAuthenticator, At, WellFormed
  <2>2. Jobs /\ settled' \in [Authenticators -> 0..MaxCount]
    <3>1. CASE Finish(r) /\ UNCHANGED settled
      BY <3>1, JobEnds DEF Typed, TypeOK
    <3>2. CASE \E p \in Authenticators, n \in 0..MaxCount :
                 /\ job' = [job EXCEPT ![r].pc = "update", ![r].authenticator = p, ![r].counter = n]
                 /\ settled' = IF Verifying(p) = {} THEN [settled EXCEPT ![p] = authenticator[p].signCount] ELSE settled
      <4>1. PICK p \in Authenticators, n \in 0..MaxCount :
                 /\ job' = [job EXCEPT ![r].pc = "update", ![r].authenticator = p, ![r].counter = n]
                 /\ settled' = IF Verifying(p) = {} THEN [settled EXCEPT ![p] = authenticator[p].signCount] ELSE settled
        BY <3>2
      <4>2. job' = [job EXCEPT ![r].pc = "update", ![r].user = job[r].user,
                               ![r].authenticator = p, ![r].counter = n]
        BY <4>1 DEF Typed, TypeOK, Job
      <4>3. Jobs
        BY <1>b, <1>m, <2>1, <4>2
      <4>4. authenticator[p].signCount \in 0..MaxCount
        BY DEF Typed, TypeOK, Row
      <4> QED  BY <4>1, <4>3, <4>4 DEF Typed, TypeOK
    <3> QED  BY <1>8, <3>1, <3>2 DEF SelectAuthenticator
  <2> QED  BY <1>8, <1>s, <2>2 DEF SelectAuthenticator, Typed, TypeOK
<1>9. ASSUME NEW r \in Requests, UpdateCounter(r) PROVE Typed'
  <2> DEFINE p == job[r].authenticator
  <2>1. job[r].challenge \in Challenges /\ p \in Authenticators
    BY <1>9, <1>b DEF UpdateCounter, At, WellFormed
  <2>2. CASE Enrolled(p)
    <3>1. authenticator[p].user \in Users
      BY <2>1, <2>2 DEF Enrolled, Typed
    <3>2. job' = [job EXCEPT ![r].pc = "user", ![r].user = authenticator[p].user,
                             ![r].authenticator = p, ![r].counter = job[r].counter]
      BY <1>9, <2>2 DEF UpdateCounter, Typed, TypeOK, Job
    <3>3. Jobs
      BY <1>b, <1>m, <2>1, <3>1, <3>2
    <3>4. RowsOK
      <4>1. authenticator' = [authenticator EXCEPT ![p].signCount = job[r].counter]
        BY <1>9, <2>2 DEF UpdateCounter
      <4>2. job[r].counter \in 0..MaxCount
        BY <1>b
      <4>3. /\ authenticator \in [Authenticators -> Row]
            /\ \A q \in Authenticators : authenticator[q].row # "none" <=> authenticator[q].user \in Users
        BY DEF Typed, TypeOK
      <4> HIDE DEF p
      <4> QED  BY <2>1, <4>1, <4>2, <4>3 DEF Row
    <3>5. UNCHANGED <<challengeVars, users, session, faults, history>>
      BY <1>9 DEF UpdateCounter
    <3> QED  BY <1>s, <3>3, <3>4, <3>5 DEF Typed, TypeOK
  <2>3. CASE ~Enrolled(p)
    <3>1. Jobs
      BY <1>9, <2>3, JobEnds DEF UpdateCounter
    <3> QED  BY <1>9, <1>s, <2>3, <3>1 DEF UpdateCounter, Typed, TypeOK
  <2> QED  BY <2>2, <2>3
<1>10. ASSUME NEW r \in Requests, FindUser(r) PROVE Typed'
  <2>1. /\ job[r].challenge \in Challenges /\ job[r].user \in Users
        /\ job[r].authenticator \in Authenticators
    BY <1>10, <1>b DEF FindUser, At, WellFormed
  <2>2. Goto(r, "session") \/ Finish(r)
    BY <1>10 DEF FindUser
  <2>3. Jobs
    BY <1>k, <2>1, <2>2, JobEnds
  <2> QED  BY <1>10, <1>s, <2>3 DEF FindUser, Typed, TypeOK
<1>11. ASSUME NEW r \in Requests, CreateSession(r) PROVE Typed'
  <2>1. /\ job[r].challenge \in Challenges /\ job[r].user \in Users
        /\ job[r].authenticator \in Authenticators
    BY <1>11, <1>b DEF CreateSession, At, WellFormed
  <2>2. session' \in [Challenges -> Session]
    BY <1>11, <2>1 DEF CreateSession, Session, Typed, TypeOK
  <2>3. Jobs
    BY <1>11, JobEnds DEF CreateSession
  <2> QED  BY <1>11, <1>s, <2>2, <2>3 DEF CreateSession, Typed, TypeOK
<1>12. ASSUME NEW u \in Users, NEW p \in Authenticators, DeleteAuthenticator(u, p) PROVE Typed'
  <2>1. session' \in [Challenges -> Session]
    BY <1>12 DEF DeleteAuthenticator, Session, Typed, TypeOK
  <2>2. RowsOK
    BY <1>12 DEF DeleteAuthenticator, Enrolled, Row, Typed, TypeOK
  <2>3. Jobs
    BY <1>12 DEF DeleteAuthenticator, Typed, TypeOK
  <2> QED  BY <1>12, <1>s, <2>1, <2>2, <2>3 DEF DeleteAuthenticator, Typed, TypeOK
<1>13. ASSUME NEW u \in Users, EraseAccount(u) PROVE Typed'
  <2>1. session' \in [Challenges -> Session]
    BY <1>13 DEF EraseAccount, Session, NoSession, Typed, TypeOK
  <2>2. RowsOK
    BY <1>13 DEF EraseAccount, Row, Typed, TypeOK
  <2>3. Jobs
    BY <1>13 DEF EraseAccount, Typed, TypeOK
  <2>4. /\ challenge' \in [Challenges -> {"none", "open", "expired", "used", "erased"}]
        /\ users' \in SUBSET Users
    BY <1>13 DEF EraseAccount, Typed, TypeOK
  <2> QED  BY <1>13, <1>s, <2>1, <2>2, <2>3, <2>4 DEF EraseAccount, Typed, TypeOK
<1>14. ASSUME NEW r \in Requests, CallFails(r) PROVE Typed'
  <2>1. Jobs
    BY <1>14, JobEnds DEF CallFails
  <2> QED  BY <1>14, <1>s, <2>1 DEF CallFails, Typed, TypeOK
<1>15. CASE Crash
  <2>1. Jobs
    BY <1>15, IdleOK DEF Crash, WellFormed
  <2> QED  BY <1>15, <1>s, <2>1 DEF Crash, Typed, TypeOK
<1>16. CASE UNCHANGED vars
  <2>1. Jobs
    BY <1>16 DEF vars, Typed, TypeOK
  <2> QED  BY <1>16, <1>s, <2>1 DEF vars, Typed, TypeOK
<1> QED
  BY <1>1, <1>2, <1>3, <1>4, <1>5, <1>6, <1>7, <1>8, <1>9, <1>10, <1>11, <1>12, <1>13, <1>14,
     <1>15, <1>16
  DEF Next, Register, Login

LEMMA Typing == Spec => []Typed
  BY TypedInit, TypedStep, PTL DEF Spec

\* Every variable keeps its type, and an assertion past its SELECT has a row.
THEOREM PasskeyTypes == Spec => []TypeOK
<1>1. Typed => TypeOK
  BY DEF Typed
<1> QED  BY <1>1, Typing, PTL

\* The new requests, and what an assertion's SELECT leads to.
LEMMA RegistrationBegins ==
  ASSUME Typed, NEW r \in Requests, BeginRegistration(r) \/ FinishRegistration(r)
  PROVE  job'[r].pc \in {"begin", "consume"} /\ \A v \in Requests \ {r} : job'[v] = job[v]
<1>1. CASE BeginRegistration(r)
  BY <1>1 DEF BeginRegistration, Begin, Idle, Typed, TypeOK
<1>2. CASE FinishRegistration(r)
  BY <1>2 DEF FinishRegistration, Begin, Idle, Typed, TypeOK
<1> QED  BY <1>1, <1>2

LEMMA SelectMoves ==
  ASSUME Typed, NEW r \in Requests, SelectAuthenticator(r), ~Finish(r)
  PROVE  \E p \in Authenticators, n \in 0..MaxCount :
           /\ Enrolled(p) /\ ~Replayed(authenticator[p].signCount, n)
           /\ job'[r].pc = "update" /\ job'[r].authenticator = p /\ job'[r].counter = n
           /\ \A v \in Requests \ {r} : job'[v] = job[v]
           /\ settled' = IF Verifying(p) = {} THEN [settled EXCEPT ![p] = authenticator[p].signCount] ELSE settled
<1>1. PICK p \in Authenticators, n \in 0..MaxCount :
        /\ Enrolled(p) /\ ~Replayed(authenticator[p].signCount, n)
        /\ job' = [job EXCEPT ![r].pc = "update", ![r].authenticator = p, ![r].counter = n]
        /\ settled' = IF Verifying(p) = {} THEN [settled EXCEPT ![p] = authenticator[p].signCount] ELSE settled
  BY DEF SelectAuthenticator
<1>2. /\ job'[r].pc = "update" /\ job'[r].authenticator = p /\ job'[r].counter = n
      /\ \A v \in Requests \ {r} : job'[v] = job[v]
  BY <1>1 DEF Typed, TypeOK, Job
<1> QED  BY <1>1, <1>2

-----------------------------------------------------------------------------
(* Passkeys belong to whom they were begun for *)

\* A challenge has an owner from its INSERT on, and keeps it; a request about
\* to enroll holds a challenge of its own user.
Owned ==
    /\ \A c \in Challenges : challenge[c] = "none" => owner[c] = NoUser
    /\ \A r \in Requests : At(r, "enroll") =>
          challenge[job[r].challenge] # "none" /\ owner[job[r].challenge] = job[r].user
    /\ \A p \in Authenticators : authenticator[p].row # "none" =>
          /\ origin[p] \in Challenges /\ challenge[origin[p]] # "none"
          /\ owner[origin[p]] = authenticator[p].user

\* Owners of the challenges that were issued do not change.
KeepsOwners ==
    \A c \in Challenges : challenge[c] # "none" => challenge'[c] # "none" /\ owner'[c] = owner[c]

\* Nobody comes to the INSERT of a passkey.
NoneEnrolls == \A r \in Requests : job'[r].pc = "enroll" => job[r].pc = "enroll" /\ job'[r] = job[r]

RowsStay ==
    /\ origin' = origin
    /\ \A p \in Authenticators :
          /\ authenticator'[p].row = "none" <=> authenticator[p].row = "none"
          /\ authenticator'[p].user = authenticator[p].user

UnownedStay == \A c \in Challenges : challenge'[c] = "none" => challenge[c] = "none" /\ owner'[c] = owner[c]

LEMMA OwnedKept ==
  ASSUME Typed, Owned, KeepsOwners, NoneEnrolls, RowsStay, UnownedStay
  PROVE  Owned'
<1>1. \A r \in Requests : At(r, "enroll") => job[r].challenge \in Challenges
  BY DEF At, Typed, WellFormed
<1> QED  BY <1>1 DEF Owned, KeepsOwners, NoneEnrolls, RowsStay, UnownedStay, At

LEMMA OwnedStep == Typed /\ Owned /\ [Next]_vars => Owned'
<1> SUFFICES ASSUME Typed, Owned, [Next]_vars PROVE Owned'
  OBVIOUS
<1> USE DEF challengeVars, history
<1>i. Idle.pc # "enroll"
  BY DEF Idle
<1>c. UNCHANGED challengeVars => KeepsOwners /\ UnownedStay
  BY DEF KeepsOwners, UnownedStay
<1>r. UNCHANGED <<authenticator, origin>> => RowsStay
  BY DEF RowsStay
<1>1. ASSUME NEW r \in Requests, BeginRegistration(r) \/ FinishRegistration(r) PROVE Owned'
  <2>1. NoneEnrolls
    BY <1>1, RegistrationBegins DEF NoneEnrolls
  <2> QED  BY <1>1, <1>c, <1>r, <2>1, OwnedKept DEF BeginRegistration, FinishRegistration
<1>2. ASSUME NEW r \in Requests, InsertChallenge(r) PROVE Owned'
  <2>1. NoneEnrolls
    BY <1>2, <1>i, JobEnds DEF InsertChallenge, NoneEnrolls
  <2>2. KeepsOwners /\ UnownedStay
    BY <1>2 DEF InsertChallenge, KeepsOwners, UnownedStay, Typed, TypeOK
  <2> QED  BY <1>2, <1>r, <2>1, <2>2, OwnedKept DEF InsertChallenge
<1>3. ASSUME NEW r \in Requests, ConsumeRegistration(r) PROVE Owned'
  <2> DEFINE c == job[r].challenge
  <2>1. c \in Challenges
    BY <1>3 DEF ConsumeRegistration, At, Typed, WellFormed
  <2>2. KeepsOwners /\ UnownedStay
    BY <1>3, <2>1 DEF ConsumeRegistration, Consume, KeepsOwners, UnownedStay, Typed, TypeOK
  <2>3. RowsStay
    BY <1>3, <1>r DEF ConsumeRegistration
  <2>4. CASE Finish(r)
    <3>1. NoneEnrolls
      BY <2>4, <1>i, JobEnds DEF NoneEnrolls
    <3> QED  BY <2>2, <2>3, <3>1, OwnedKept
  <2>5. CASE Goto(r, "enroll") /\ Answerable(c) /\ IssuedTo(c, job[r].user)
    <3>1. /\ \A v \in Requests \ {r} : job'[v] = job[v]
          /\ job'[r].challenge = c /\ job'[r].user = job[r].user
      BY <2>5 DEF Goto, Typed, TypeOK, Job
    <3>2. challenge[c] # "none" /\ owner[c] = job[r].user
      BY <2>5 DEF Answerable, IssuedTo
    <3>3. \A v \in Requests : At(v, "enroll") => job[v].challenge \in Challenges
      BY DEF At, Typed, WellFormed
    <3> HIDE DEF c
    <3>4. \A v \in Requests : job'[v].pc = "enroll" =>
            challenge'[job'[v].challenge] # "none" /\ owner'[job'[v].challenge] = job'[v].user
      BY <2>1, <2>2, <3>1, <3>2, <3>3 DEF KeepsOwners, Owned, At
    <3> QED  BY <2>2, <2>3, <3>4 DEF Owned, KeepsOwners, RowsStay, UnownedStay, At
  <2> QED  BY <1>3, <2>4, <2>5 DEF ConsumeRegistration
<1>4. ASSUME NEW r \in Requests, Enroll(r) PROVE Owned'
  <2>1. NoneEnrolls
    BY <1>4, <1>i, JobEnds DEF Enroll, NoneEnrolls
  <2>2. KeepsOwners /\ UnownedStay
    BY <1>4, <1>c DEF Enroll
  <2>3. CASE UNCHANGED <<authenticator, origin>>
    BY <1>r, <2>1, <2>2, <2>3, OwnedKept
  <2>4. CASE \E p \in Authenticators, k \in Credentials, n \in 0..MaxCount :
               /\ authenticator' = [authenticator EXCEPT ![p] =
                    [row |-> "enrolled", user |-> job[r].user, credential |-> k, signCount |-> n]]
               /\ origin' = [origin EXCEPT ![p] = job[r].challenge]
    <3>1. PICK p \in Authenticators :
               /\ authenticator'[p].user = job[r].user /\ origin'[p] = job[r].challenge
               /\ \A q \in Authenticators \ {p} : authenticator'[q] = authenticator[q] /\ origin'[q] = origin[q]
      BY <2>4 DEF Typed, TypeOK
    <3>2. /\ job[r].challenge \in Challenges /\ challenge[job[r].challenge] # "none"
          /\ owner[job[r].challenge] = job[r].user
      BY <1>4 DEF Enroll, At, Typed, WellFormed, Owned
    <3>3. UNCHANGED challengeVars
      BY <1>4 DEF Enroll
    <3> QED  BY <2>1, <3>1, <3>2, <3>3 DEF Owned, NoneEnrolls, At
  <2> QED  BY <1>4, <2>3, <2>4 DEF Enroll
<1>5. ASSUME NEW c \in Challenges, BeginAuthentication(c) \/ Expire(c) PROVE Owned'
  <2>1. KeepsOwners /\ UnownedStay
    BY <1>5 DEF BeginAuthentication, Expire, KeepsOwners, UnownedStay, Typed, TypeOK
  <2>2. NoneEnrolls
    BY <1>5 DEF BeginAuthentication, Expire, NoneEnrolls
  <2> QED  BY <1>5, <1>r, <2>1, <2>2, OwnedKept DEF BeginAuthentication, Expire
<1>6. ASSUME NEW r \in Requests, NEW c \in Challenges, FinishAuthentication(r, c) PROVE Owned'
  <2>1. KeepsOwners /\ UnownedStay
    BY <1>6 DEF FinishAuthentication, Consume, KeepsOwners, UnownedStay, Typed, TypeOK
  <2>2. NoneEnrolls
    BY <1>6 DEF FinishAuthentication, Begin, NoneEnrolls, Idle, Typed, TypeOK
  <2> QED  BY <1>6, <1>r, <2>1, <2>2, OwnedKept DEF FinishAuthentication
<1>7. ASSUME NEW r \in Requests, SelectAuthenticator(r) \/ FindUser(r) \/ CreateSession(r) \/ CallFails(r)
      PROVE  Owned'
  <2>1. NoneEnrolls
    <3>1. CASE Finish(r)
      BY <3>1, <1>i, JobEnds DEF NoneEnrolls
    <3>2. CASE SelectAuthenticator(r) /\ ~Finish(r)
      BY <3>2, SelectMoves DEF NoneEnrolls
    <3>3. CASE FindUser(r) /\ ~Finish(r)
      BY <3>3 DEF FindUser, Goto, NoneEnrolls, Typed, TypeOK, Job
    <3> QED  BY <1>7, <3>1, <3>2, <3>3 DEF CreateSession, CallFails
  <2> QED
    BY <1>7, <1>c, <1>r, <2>1, OwnedKept DEF SelectAuthenticator, FindUser, CreateSession, CallFails
<1>8. ASSUME NEW r \in Requests, UpdateCounter(r) PROVE Owned'
  <2>1. NoneEnrolls
    <3>1. CASE Finish(r)
      BY <3>1, <1>i, JobEnds DEF NoneEnrolls
    <3>2. CASE ~Finish(r)
      BY <1>8, <3>2 DEF UpdateCounter, NoneEnrolls, Typed, TypeOK, Job
    <3> QED  BY <3>1, <3>2
  <2>2. RowsStay
    BY <1>8 DEF UpdateCounter, RowsStay, Typed, TypeOK, Row
  <2> QED  BY <1>8, <1>c, <2>1, <2>2, OwnedKept DEF UpdateCounter
<1>9. ASSUME NEW u \in Users, NEW p \in Authenticators, DeleteAuthenticator(u, p) PROVE Owned'
  <2>1. RowsStay
    BY <1>9 DEF DeleteAuthenticator, Enrolled, RowsStay, Typed, TypeOK, Row
  <2>2. NoneEnrolls
    BY <1>9 DEF DeleteAuthenticator, NoneEnrolls
  <2> QED  BY <1>9, <1>c, <2>1, <2>2, OwnedKept DEF DeleteAuthenticator
<1>10. ASSUME NEW u \in Users, EraseAccount(u) PROVE Owned'
  <2>1. \A p \in Authenticators : authenticator[p].row = "none" => authenticator[p].user # u
    BY DEF Typed
  <2>2. RowsStay
    BY <1>10, <2>1 DEF EraseAccount, RowsStay, Typed, TypeOK, Row
  <2>3. KeepsOwners /\ UnownedStay
    BY <1>10 DEF EraseAccount, KeepsOwners, UnownedStay, Typed, TypeOK
  <2>4. NoneEnrolls
    BY <1>10 DEF EraseAccount, NoneEnrolls
  <2> QED  BY <2>2, <2>3, <2>4, OwnedKept
<1>11. CASE Crash
  <2>1. NoneEnrolls
    BY <1>11, <1>i DEF Crash, NoneEnrolls
  <2> QED  BY <1>11, <1>c, <1>r, <2>1, OwnedKept DEF Crash
<1>12. CASE UNCHANGED vars
  <2>1. NoneEnrolls
    BY <1>12 DEF vars, NoneEnrolls
  <2> QED  BY <1>12, <1>c, <1>r, <2>1, OwnedKept DEF vars
<1> QED
  BY <1>1, <1>2, <1>3, <1>4, <1>5, <1>6, <1>7, <1>8, <1>9, <1>10, <1>11, <1>12 DEF Next, Register, Login

LEMMA OwnedInit == Init => Owned
  BY DEF Init, Owned, At, Idle, NoRow

\* Whoever is signed in when a ceremony is finished, and whatever is erased in
\* between, the passkey it makes belongs to the user it was begun for
\* (auth/webauthn.ts:334-341).
THEOREM PasskeysAreTheirBeginners == Spec => []EnrolledForBeginner
<1>1. Owned => EnrolledForBeginner
  BY DEF Owned, EnrolledForBeginner
<1> QED  BY <1>1, Typing, OwnedInit, OwnedStep, PTL DEF Spec

-----------------------------------------------------------------------------
(* Sessions and passkeys have accounts *)

\* An assertion that goes on has a row that was there, and that row's user.
Linked ==
    \A r \in Requests :
        /\ job[r].pc \in {"update", "user", "session"} => authenticator[job[r].authenticator].row # "none"
        /\ job[r].pc \in {"user", "session"} =>
              authenticator[job[r].authenticator].user = job[r].user

Backed == Linked /\ LoginsAreBacked

\* Rows that were inserted keep their user and stay known.
RowsPersist ==
    \A p \in Authenticators : authenticator[p].row # "none" =>
        authenticator'[p].row # "none" /\ authenticator'[p].user = authenticator[p].user

LEMMA LinkedKept ==
  ASSUME Typed, Linked, RowsPersist,
         \A v \in Requests : job'[v].pc \in {"update", "user", "session"} =>
            /\ job[v].pc \in {"update", "user", "session"}
            /\ job'[v].authenticator = job[v].authenticator
            /\ job'[v].pc \in {"user", "session"} =>
                  job[v].pc \in {"user", "session"} /\ job'[v].user = job[v].user
  PROVE  Linked'
<1>1. \A v \in Requests : job[v].pc \in {"update", "user", "session"} => job[v].authenticator \in Authenticators
  BY DEF Typed, WellFormed
<1> QED  BY <1>1 DEF Linked, RowsPersist

LEMMA BackedStep == Typed /\ Backed /\ [Next]_vars => Backed'
<1> SUFFICES ASSUME Typed, Backed, [Next]_vars PROVE Backed'
  OBVIOUS
<1> USE PasskeyConstants DEF challengeVars, history
<1>i. Idle.pc = "idle"
  BY DEF Idle
<1>r. UNCHANGED authenticator => RowsPersist
  BY DEF RowsPersist
<1>l. UNCHANGED <<authenticator, users, session>> => LoginsAreBacked'
  BY DEF Backed, LoginsAreBacked, Enrolled
<1>f. ASSUME NEW r \in Requests, Finish(r), RowsPersist PROVE Linked'
  BY <1>f, <1>i, JobEnds, LinkedKept DEF Backed
<1>1. ASSUME NEW r \in Requests, BeginRegistration(r) \/ FinishRegistration(r) PROVE Backed'
  <2>1. \A v \in Requests : job'[v].pc \in {"update", "user", "session"} => job'[v] = job[v]
    BY <1>1, RegistrationBegins
  <2>2. UNCHANGED <<authenticator, users, session>>
    BY <1>1 DEF BeginRegistration, FinishRegistration
  <2> QED  BY <1>r, <1>l, <2>1, <2>2, LinkedKept DEF Backed
<1>2. ASSUME NEW r \in Requests, InsertChallenge(r) \/ CallFails(r) PROVE Backed'
  BY <1>2, <1>f, <1>r, <1>l DEF InsertChallenge, CallFails, Backed
<1>3. ASSUME NEW r \in Requests, ConsumeRegistration(r) PROVE Backed'
  <2>1. UNCHANGED <<authenticator, users, session>>
    BY <1>3 DEF ConsumeRegistration
  <2>2. CASE Finish(r)
    BY <1>f, <1>r, <1>l, <2>1, <2>2 DEF Backed
  <2>3. CASE Goto(r, "enroll")
    <3>1. \A v \in Requests : job'[v].pc \in {"update", "user", "session"} => job'[v] = job[v]
      BY <2>3 DEF Goto, Typed, TypeOK, Job
    <3> QED  BY <1>r, <1>l, <2>1, <3>1, LinkedKept DEF Backed
  <2> QED  BY <1>3, <2>2, <2>3 DEF ConsumeRegistration
<1>4. ASSUME NEW r \in Requests, Enroll(r) PROVE Backed'
  <2>1. CASE UNCHANGED authenticator
    BY <1>4, <1>f, <1>r, <1>l, <2>1 DEF Enroll, Backed
  <2>2. CASE \E p \in Authenticators, k \in Credentials, n \in 0..MaxCount :
               /\ Insertable(job[r].user, k) /\ authenticator[p].row = "none"
               /\ authenticator' = [authenticator EXCEPT ![p] =
                    [row |-> "enrolled", user |-> job[r].user, credential |-> k, signCount |-> n]]
    <3>1. PICK p \in Authenticators :
               /\ job[r].user \in users /\ authenticator[p].row = "none"
               /\ authenticator'[p].row = "enrolled" /\ authenticator'[p].user = job[r].user
               /\ \A q \in Authenticators \ {p} : authenticator'[q] = authenticator[q]
      BY <2>2 DEF Insertable, Typed, TypeOK
    <3>2. Linked'
      BY <1>4, <1>f, <3>1 DEF Enroll, RowsPersist
    <3>3. UNCHANGED <<users, session>>
      BY <1>4 DEF Enroll
    <3>4. \A c \in Challenges : session[c].authenticator \in (Authenticators \ {p}) \cup {NoAuthenticator}
      BY <3>1 DEF Backed, LoginsAreBacked, Enrolled, Typed, TypeOK, Session
    <3> QED  BY <3>1, <3>2, <3>3, <3>4 DEF Backed, LoginsAreBacked, Enrolled
  <2> QED  BY <1>4, <2>1, <2>2 DEF Enroll
<1>5. ASSUME NEW c \in Challenges, BeginAuthentication(c) \/ Expire(c) PROVE Backed'
  <2>1. UNCHANGED <<authenticator, users, session, job>>
    BY <1>5 DEF BeginAuthentication, Expire
  <2> QED  BY <1>l, <2>1 DEF Backed, Linked
<1>6. ASSUME NEW r \in Requests, NEW c \in Challenges, FinishAuthentication(r, c) PROVE Backed'
  <2>1. \A v \in Requests : job'[v].pc \in {"update", "user", "session"} => job'[v] = job[v]
    BY <1>6 DEF FinishAuthentication, Begin, Idle, Typed, TypeOK
  <2>2. UNCHANGED <<authenticator, users, session>>
    BY <1>6 DEF FinishAuthentication
  <2> QED  BY <1>r, <1>l, <2>1, <2>2, LinkedKept DEF Backed
<1>7. ASSUME NEW r \in Requests, SelectAuthenticator(r) PROVE Backed'
  <2>1. UNCHANGED <<authenticator, users, session>>
    BY <1>7 DEF SelectAuthenticator
  <2>2. CASE Finish(r)
    BY <1>f, <1>r, <1>l, <2>1, <2>2 DEF Backed
  <2>3. CASE ~Finish(r)
    <3>1. PICK p \in Authenticators :
            /\ Enrolled(p)
            /\ job'[r].pc = "update" /\ job'[r].authenticator = p
            /\ \A v \in Requests \ {r} : job'[v] = job[v]
      BY <1>7, <2>3, SelectMoves
    <3>2. Linked'
      BY <2>1, <3>1 DEF Backed, Linked, Enrolled
    <3> QED  BY <1>l, <2>1, <3>2 DEF Backed
  <2> QED  BY <2>2, <2>3
<1>8. ASSUME NEW r \in Requests, UpdateCounter(r) PROVE Backed'
  <2> DEFINE p == job[r].authenticator
  <2>1. p \in Authenticators
    BY <1>8 DEF UpdateCounter, At, Typed, WellFormed
  <2>2. CASE ~Enrolled(p)
    BY <1>8, <1>f, <1>r, <1>l, <2>2 DEF UpdateCounter, Backed
  <2>3. CASE Enrolled(p)
    <3>1. /\ job'[r].pc = "user" /\ job'[r].authenticator = p /\ job'[r].user = authenticator[p].user
          /\ \A v \in Requests \ {r} : job'[v] = job[v]
      BY <1>8, <2>3 DEF UpdateCounter, Typed, TypeOK, Job
    <3>2. \A q \in Authenticators : authenticator'[q].row = authenticator[q].row
                                     /\ authenticator'[q].user = authenticator[q].user
      BY <1>8, <2>3 DEF UpdateCounter, Typed, TypeOK, Row
    <3>3. \A v \in Requests : job[v].pc \in {"update", "user", "session"} => job[v].authenticator \in Authenticators
      BY DEF Typed, WellFormed
    <3>4. Linked'
      BY <2>1, <2>3, <3>1, <3>2, <3>3 DEF Backed, Linked, Enrolled
    <3>5. UNCHANGED <<users, session>> /\ \A c \in Challenges : session[c].authenticator \in Authenticators \cup {NoAuthenticator}
      BY <1>8 DEF UpdateCounter, Typed, TypeOK, Session
    <3>6. LoginsAreBacked'
      BY <3>2, <3>5 DEF Backed, LoginsAreBacked, Enrolled
    <3> QED  BY <3>4, <3>6 DEF Backed
  <2> QED  BY <2>2, <2>3
<1>9. ASSUME NEW r \in Requests, FindUser(r) PROVE Backed'
  <2>1. UNCHANGED <<authenticator, users, session>>
    BY <1>9 DEF FindUser
  <2>2. CASE Finish(r)
    BY <1>f, <1>r, <1>l, <2>1, <2>2 DEF Backed
  <2>3. CASE Goto(r, "session")
    <3>1. /\ job[r].pc = "user" /\ job'[r].user = job[r].user /\ job'[r].authenticator = job[r].authenticator
          /\ \A v \in Requests \ {r} : job'[v] = job[v]
      BY <1>9, <2>3 DEF FindUser, At, Goto, Typed, TypeOK, Job
    <3> QED  BY <1>r, <1>l, <2>1, <3>1, LinkedKept DEF Backed
  <2> QED  BY <1>9, <2>2, <2>3 DEF FindUser
<1>10. ASSUME NEW r \in Requests, CreateSession(r) PROVE Backed'
  <2>1. Linked'
    BY <1>10, <1>f, <1>r DEF CreateSession
  <2>2. CASE UNCHANGED session
    BY <1>10, <1>l, <2>1, <2>2 DEF CreateSession, Backed
  <2>3. CASE ReferencedRows(job[r].user, job[r].authenticator)
    <3>1. authenticator[job[r].authenticator].user = job[r].user
      BY <1>10 DEF CreateSession, At, Backed, Linked
    <3>2. \A c \in Challenges : \/ session'[c] = session[c]
                                 \/ session'[c] = [user |-> job[r].user, authenticator |-> job[r].authenticator]
      BY <1>10, <2>3 DEF CreateSession, Typed, TypeOK
    <3>3. UNCHANGED <<authenticator, users>>
      BY <1>10 DEF CreateSession
    <3>4. LoginsAreBacked'
      BY <2>3, <3>1, <3>2, <3>3 DEF ReferencedRows, Backed, LoginsAreBacked, Enrolled
    <3> QED  BY <2>1, <3>4 DEF Backed
  <2> QED  BY <1>10, <2>2, <2>3 DEF CreateSession
<1>11. ASSUME NEW u \in Users, NEW p \in Authenticators, DeleteAuthenticator(u, p) PROVE Backed'
  <2>1. /\ authenticator'[p].row = "deleted"
        /\ \A q \in Authenticators : authenticator'[q].user = authenticator[q].user
        /\ \A q \in Authenticators \ {p} : authenticator'[q] = authenticator[q]
        /\ UNCHANGED <<users, job>>
    BY <1>11 DEF DeleteAuthenticator, Typed, TypeOK, Row
  <2>2. Linked'
    BY <2>1, LinkedKept DEF RowsPersist, Backed
  <2>3. ASSUME NEW c \in Challenges
        PROVE  /\ session'[c].user = session[c].user
               /\ session[c].authenticator = p => session'[c].authenticator = NoAuthenticator
               /\ session[c].authenticator # p => session'[c] = session[c]
               /\ session[c].authenticator = p => session[c] # NoSession
               /\ session[c].authenticator \in Authenticators \cup {NoAuthenticator}
    BY <1>11 DEF DeleteAuthenticator, Typed, TypeOK, Session, NoSession
  <2>4. LoginsAreBacked'
    BY <2>1, <2>3 DEF Backed, LoginsAreBacked, Enrolled
  <2> QED  BY <2>2, <2>4 DEF Backed
<1>12. ASSUME NEW u \in Users, EraseAccount(u) PROVE Backed'
  <2>1. /\ \A q \in Authenticators :
             /\ authenticator'[q].user = authenticator[q].user
             /\ authenticator[q].user # u => authenticator'[q] = authenticator[q]
             /\ authenticator[q].user = u => authenticator'[q].row = "deleted"
        /\ users' = users \ {u} /\ UNCHANGED job
    BY <1>12 DEF EraseAccount, Typed, TypeOK, Row
  <2>2. Linked'
    BY <2>1, LinkedKept DEF RowsPersist, Backed
  <2>3. ASSUME NEW c \in Challenges
        PROVE  /\ session[c].user = u => session'[c] = NoSession
               /\ session[c].user # u => session'[c] = session[c]
               /\ session[c].authenticator \in Authenticators \cup {NoAuthenticator}
    BY <1>12 DEF EraseAccount, Typed, TypeOK, Session
  <2>4. NoSession.authenticator = NoAuthenticator
    BY DEF NoSession
  <2>5. LoginsAreBacked'
    BY <2>1, <2>3, <2>4 DEF Backed, LoginsAreBacked, Enrolled
  <2> QED  BY <2>2, <2>5 DEF Backed
<1>13. CASE Crash
  BY <1>13, <1>i, <1>r, <1>l, LinkedKept DEF Crash, Backed
<1>14. CASE UNCHANGED vars
  BY <1>14, <1>l DEF vars, Backed, Linked
<1> QED
  BY <1>1, <1>2, <1>3, <1>4, <1>5, <1>6, <1>7, <1>8, <1>9, <1>10, <1>11, <1>12, <1>13, <1>14
  DEF Next, Register, Login

\* No deletion of a passkey and no erasure of an account, between any two steps
\* of a ceremony, leaves a passkey or a session behind that refers to what is
\* gone (auth/webauthn.ts:258-264, routes/passkey.routes.ts:189-205).
THEOREM LoginsHaveAccounts == Spec => []LoginsAreBacked
<1>1. Init => Backed
  BY DEF Init, Backed, Linked, LoginsAreBacked, Enrolled, Idle, NoRow, NoSession
<1>2. Backed => LoginsAreBacked
  BY DEF Backed
<1> QED  BY <1>1, <1>2, Typing, BackedStep, PTL DEF Spec

-----------------------------------------------------------------------------
(* Counters advance *)

\* An assertion between its SELECT and its UPDATE is ahead of the settled counter,
\* and so is what those it overlaps have stored.
AheadOf(p, n) == settled[p] = 0 \/ n > settled[p]

Quiet ==
    \A r \in Requests : At(r, "update") =>
        LET p == job[r].authenticator IN
        /\ AheadOf(p, job[r].counter)
        /\ authenticator[p].signCount >= settled[p]

\* Nobody comes to the UPDATE, and the counters of the rows stay.
LEMMA QuietKept ==
  ASSUME Typed, Linked, Quiet, UNCHANGED settled,
         \A v \in Requests : job'[v].pc = "update" => job'[v] = job[v],
         \A p \in Authenticators : authenticator[p].row # "none" =>
             authenticator'[p].signCount = authenticator[p].signCount
  PROVE  Quiet'
<1>1. \A v \in Requests : At(v, "update") =>
        job[v].authenticator \in Authenticators /\ authenticator[job[v].authenticator].row # "none"
  BY DEF At, Typed, WellFormed, Linked
<1> QED  BY <1>1 DEF Quiet, AheadOf, At

LEMMA QuietStep == Typed /\ Linked /\ Quiet /\ [Next]_vars => Quiet'
<1> SUFFICES ASSUME Typed, Linked, Quiet, [Next]_vars PROVE Quiet'
  OBVIOUS
<1> USE DEF challengeVars, history
<1>i. Idle.pc = "idle"
  BY DEF Idle
<1> DEFINE NoneComes == \A v \in Requests : job'[v].pc = "update" => job'[v] = job[v]
           CountsStay == \A p \in Authenticators : authenticator[p].row # "none" =>
                           authenticator'[p].signCount = authenticator[p].signCount
<1>k. ASSUME NoneComes, CountsStay, UNCHANGED settled PROVE Quiet'
  BY <1>k, QuietKept
<1>f. ASSUME NEW r \in Requests, Finish(r) PROVE NoneComes
  BY <1>f, <1>i, JobEnds
<1>1. ASSUME NEW r \in Requests, BeginRegistration(r) \/ FinishRegistration(r) PROVE Quiet'
  <2>1. NoneComes
    BY <1>1, RegistrationBegins
  <2> QED  BY <1>1, <1>k, <2>1 DEF BeginRegistration, FinishRegistration
<1>2. ASSUME NEW r \in Requests, InsertChallenge(r) \/ CallFails(r) \/ CreateSession(r) PROVE Quiet'
  BY <1>2, <1>f, <1>k DEF InsertChallenge, CallFails, CreateSession
<1>3. ASSUME NEW r \in Requests, ConsumeRegistration(r) \/ FindUser(r) PROVE Quiet'
  <2>1. Finish(r) \/ Goto(r, "enroll") \/ Goto(r, "session")
    BY <1>3 DEF ConsumeRegistration, FindUser
  <2>2. Goto(r, "enroll") \/ Goto(r, "session") => NoneComes
    BY DEF Goto, Typed, TypeOK, Job
  <2> QED  BY <1>3, <1>f, <1>k, <2>1, <2>2 DEF ConsumeRegistration, FindUser
<1>4. ASSUME NEW r \in Requests, Enroll(r) PROVE Quiet'
  <2>1. CountsStay
    BY <1>4 DEF Enroll, Typed, TypeOK
  <2> QED  BY <1>4, <1>f, <1>k, <2>1 DEF Enroll
<1>5. ASSUME NEW c \in Challenges, BeginAuthentication(c) \/ Expire(c) PROVE Quiet'
  BY <1>5, <1>k DEF BeginAuthentication, Expire
<1>6. ASSUME NEW r \in Requests, NEW c \in Challenges, FinishAuthentication(r, c) PROVE Quiet'
  <2>1. NoneComes
    BY <1>6 DEF FinishAuthentication, Begin, Idle, Typed, TypeOK
  <2> QED  BY <1>6, <1>k, <2>1 DEF FinishAuthentication
<1>7. ASSUME NEW r \in Requests, SelectAuthenticator(r) PROVE Quiet'
  <2>1. UNCHANGED authenticator
    BY <1>7 DEF SelectAuthenticator
  <2>2. CASE Finish(r)
    <3>1. ~\E p \in Authenticators, n \in 0..MaxCount :
             job' = [job EXCEPT ![r].pc = "update", ![r].authenticator = p, ![r].counter = n]
      BY <2>2, <1>i DEF Finish, Typed, TypeOK, Job
    <3> QED  BY <1>7, <1>f, <1>k, <2>1, <2>2, <3>1 DEF SelectAuthenticator
  <2>3. CASE ~Finish(r)
    <3>1. PICK p \in Authenticators, n \in 0..MaxCount :
            /\ ~Replayed(authenticator[p].signCount, n)
            /\ job'[r].pc = "update" /\ job'[r].authenticator = p /\ job'[r].counter = n
            /\ \A v \in Requests \ {r} : job'[v] = job[v]
            /\ settled' = IF Verifying(p) = {} THEN [settled EXCEPT ![p] = authenticator[p].signCount] ELSE settled
      BY <1>7, <2>3, SelectMoves
    <3>2. /\ authenticator[p].signCount \in Nat /\ n \in Nat
          /\ settled \in [Authenticators -> Nat]
      BY PasskeyConstants DEF Typed, TypeOK, Row
    <3>3. \A q \in Authenticators \ {p} : settled'[q] = settled[q]
      BY <3>1, <3>2
    <3>4. AheadOf(p, n)' /\ authenticator'[p].signCount >= settled'[p]
      <4>1. CASE Verifying(p) = {}
        <5>1. settled'[p] = authenticator[p].signCount
          BY <3>1, <3>2, <4>1
        <5> QED  BY <2>1, <3>1, <3>2, <5>1 DEF AheadOf, Replayed
      <4>2. CASE Verifying(p) # {}
        <5>1. settled' = settled /\ authenticator[p].signCount >= settled[p]
          BY <3>1, <4>2 DEF Verifying, Quiet
        <5> QED  BY <2>1, <3>1, <3>2, <5>1 DEF AheadOf, Replayed
      <4> QED  BY <4>1, <4>2
    <3>5. ASSUME NEW v \in Requests \ {r}, At(v, "update")
          PROVE  /\ AheadOf(job[v].authenticator, job[v].counter)'
                 /\ authenticator'[job'[v].authenticator].signCount >= settled'[job'[v].authenticator]
      <4>1. job[v].authenticator \in Authenticators /\ job'[v] = job[v]
        BY <3>1, <3>5 DEF At, Typed, WellFormed
      <4>2. CASE job[v].authenticator = p
        <5>1. v \in Verifying(p)
          BY <3>5, <4>2 DEF Verifying
        <5>2. settled' = settled
          BY <3>1, <5>1
        <5> QED  BY <2>1, <3>5, <4>1, <5>2 DEF Quiet, AheadOf
      <4>3. CASE job[v].authenticator # p
        BY <2>1, <3>3, <3>5, <4>1, <4>3 DEF Quiet, AheadOf
      <4> QED  BY <4>2, <4>3
    <3> QED  BY <3>1, <3>4, <3>5 DEF Quiet, At, AheadOf
  <2> QED  BY <2>2, <2>3
<1>8. ASSUME NEW r \in Requests, UpdateCounter(r) PROVE Quiet'
  <2> DEFINE p == job[r].authenticator
  <2>1. p \in Authenticators /\ At(r, "update") /\ UNCHANGED settled
    BY <1>8 DEF UpdateCounter, At, Typed, WellFormed
  <2>2. CASE ~Enrolled(p)
    BY <1>8, <1>f, <1>k, <2>2 DEF UpdateCounter
  <2>3. CASE Enrolled(p)
    <3>1. /\ job'[r].pc = "user" /\ \A v \in Requests \ {r} : job'[v] = job[v]
          /\ authenticator'[p].signCount = job[r].counter
          /\ \A q \in Authenticators \ {p} : authenticator'[q] = authenticator[q]
      BY <1>8, <2>1, <2>3 DEF UpdateCounter, Typed, TypeOK, Job, Row
    <3>2. job[r].counter >= settled[p]
      <4>1. job[r].counter \in Nat /\ settled[p] \in Nat
        BY <2>1, PasskeyConstants DEF Typed, TypeOK, Job
      <4> QED  BY <2>1, <4>1 DEF Quiet, AheadOf
    <3>3. ASSUME NEW v \in Requests \ {r}, At(v, "update")
          PROVE  /\ job[v].authenticator \in Authenticators
                 /\ AheadOf(job[v].authenticator, job[v].counter)
                 /\ authenticator'[job[v].authenticator].signCount >= settled[job[v].authenticator]
      <4>1. job[v].authenticator \in Authenticators
        BY <3>3 DEF At, Typed, WellFormed
      <4> HIDE DEF p
      <4> QED  BY <3>1, <3>2, <3>3, <4>1 DEF Quiet
    <3> HIDE DEF p
    <3> QED  BY <2>1, <3>1, <3>3 DEF Quiet, At, AheadOf
  <2> QED  BY <2>2, <2>3
<1>9. ASSUME NEW u \in Users, NEW p \in Authenticators, DeleteAuthenticator(u, p) PROVE Quiet'
  <2>1. CountsStay
    BY <1>9 DEF DeleteAuthenticator, Typed, TypeOK, Row
  <2> QED  BY <1>9, <1>k, <2>1 DEF DeleteAuthenticator
<1>10. ASSUME NEW u \in Users, EraseAccount(u) PROVE Quiet'
  <2>1. CountsStay
    BY <1>10 DEF EraseAccount, Typed, TypeOK, Row
  <2> QED  BY <1>10, <1>k, <2>1 DEF EraseAccount
<1>11. CASE Crash
  BY <1>11, <1>i, <1>k DEF Crash
<1>12. CASE UNCHANGED vars
  BY <1>12, <1>k DEF vars
<1> QED
  BY <1>1, <1>2, <1>3, <1>4, <1>5, <1>6, <1>7, <1>8, <1>9, <1>10, <1>11, <1>12 DEF Next, Register, Login

\* Whatever assertions of a passkey overlap, and whatever else happens to its row, each
\* one that is accepted is ahead of the counter stored when the first of those it
\* overlaps was looked up: none takes the counter back behind it
\* (auth/webauthn.ts:196-201 and 250-262).
THEOREM AcceptedAdvance == Spec => CountersAdvance
<1>1. Init => Quiet /\ Backed
  BY DEF Init, Quiet, At, Backed, Linked, LoginsAreBacked, Enrolled, Idle, NoRow, NoSession
<1>2. Backed => Linked
  BY DEF Backed
<1>3. Quiet => [\A r \in Requests : Accepted(r) =>
        settled[job[r].authenticator] = 0 \/ job[r].counter > settled[job[r].authenticator]]_vars
  BY DEF Quiet, AheadOf, Accepted
<1> QED
  BY <1>1, <1>2, <1>3, Typing, BackedStep, QuietStep, PTL DEF Spec, CountersAdvance

-----------------------------------------------------------------------------
(* A challenge is answered once *)

\* A row that changes takes its secret along, and no other.
LEMMA StatesChange ==
  ASSUME Typed, NEW c \in Challenges, NEW v \in {"open", "expired", "used"},
         challenge' = [challenge EXCEPT ![c] = v]
  PROVE  state' = [state EXCEPT ![c] = IF v = "open" THEN "open" ELSE "spent"]
  BY DEF state, StateOf, Typed, TypeOK

LEMMA IssueStep ==
  ASSUME Typed, NEW c \in Challenges, challenge[c] = "none",
         challenge' = [challenge EXCEPT ![c] = "open"], UNCHANGED wins
  PROVE  Secret!Next
<1>1. state[c] = "unissued" /\ state' = [state EXCEPT ![c] = "open"]
  BY StatesChange DEF state, StateOf
<1> QED  BY <1>1 DEF Secret!Next, Secret!Issue, Secret!Become

LEMMA WinStep ==
  ASSUME Typed, NEW c \in Challenges, Answerable(c), Consume(c), wins' = [wins EXCEPT ![c] = @ + 1]
  PROVE  Secret!Next
<1>1. state[c] = "open" /\ state' = [state EXCEPT ![c] = "spent"]
  BY StatesChange DEF Answerable, Consume, state, StateOf
<1> QED  BY <1>1 DEF Secret!Next, Secret!Win, Secret!Become

\* A challenge that expires, or that another user's response consumes.
LEMMA VoidStep ==
  ASSUME Typed, NEW c \in Challenges, challenge[c] = "open", NEW v \in {"expired", "used"},
         challenge' = [challenge EXCEPT ![c] = v], UNCHANGED wins
  PROVE  Secret!Next
<1>1. state[c] = "open" /\ state' = [state EXCEPT ![c] = "spent"]
  BY StatesChange DEF state, StateOf
<1>2. state' = [d \in Challenges |-> IF d \in {c} THEN "spent" ELSE state[d]]
  BY <1>1 DEF state
<1>3. Secret!Void({c}) /\ {c} \in SUBSET Challenges
  BY <1>1, <1>2 DEF Secret!Void
<1> QED  BY <1>3 DEF Secret!Next

\* A challenge that was not issued has no owner, so the cascade voids open ones only.
LEMMA EraseStep ==
  ASSUME Typed, Owned, NEW u \in Users, EraseAccount(u)
  PROVE  Secret!Next
<1> DEFINE S == {c \in Challenges : owner[c] = u /\ challenge[c] = "open"}
<1>1. /\ challenge' = [c \in Challenges |-> IF owner[c] = u THEN "erased" ELSE challenge[c]]
      /\ wins' = wins
  BY DEF EraseAccount, history
<1>2. \A c \in S : state[c] = "open"
  BY DEF state, StateOf
<1>3. \A c \in Challenges : owner[c] = u => challenge[c] # "none"
  BY PasskeyConstants DEF Owned
<1>4. \A c \in Challenges : StateOf(c)' = IF c \in S THEN "spent" ELSE StateOf(c)
  BY <1>1, <1>3 DEF StateOf
<1>5. state' = [c \in Challenges |-> IF c \in S THEN "spent" ELSE state[c]]
  BY <1>4 DEF state
<1> HIDE DEF S
<1>6. S \in SUBSET Challenges
  BY DEF S
<1> QED  BY <1>1, <1>2, <1>5, <1>6 DEF Secret!Next, Secret!Void

LEMMA AnsweredOnceStep == Typed /\ Owned /\ [Next]_vars => [Secret!Next]_(Secret!vars)
<1> SUFFICES ASSUME Typed, Owned, [Next]_vars PROVE [Secret!Next]_(Secret!vars)
  OBVIOUS
<1> USE DEF challengeVars, history
<1>u. UNCHANGED <<challenge, wins>> => UNCHANGED Secret!vars
  BY DEF state, StateOf, Secret!vars
<1>1. ASSUME NEW r \in Requests, InsertChallenge(r) PROVE [Secret!Next]_(Secret!vars)
  BY <1>1, <1>u, IssueStep DEF InsertChallenge
<1>2. ASSUME NEW r \in Requests, ConsumeRegistration(r) PROVE [Secret!Next]_(Secret!vars)
  <2> DEFINE c == job[r].challenge
  <2>1. c \in Challenges
    BY <1>2 DEF ConsumeRegistration, At, Typed, WellFormed
  <2>2. CASE Answerable(c) /\ owner[c] # NoUser /\ IssuedTo(c, job[r].user)
    BY <1>2, <2>1, <2>2, WinStep DEF ConsumeRegistration
  <2>3. CASE Answerable(c) /\ owner[c] # NoUser /\ ~IssuedTo(c, job[r].user)
    BY <1>2, <2>1, <2>3, VoidStep DEF ConsumeRegistration, Answerable, Consume
  <2>4. CASE ~(Answerable(c) /\ owner[c] # NoUser)
    BY <1>2, <1>u, <2>4 DEF ConsumeRegistration
  <2> QED  BY <2>2, <2>3, <2>4
<1>3. ASSUME NEW c \in Challenges, BeginAuthentication(c) PROVE [Secret!Next]_(Secret!vars)
  BY <1>3, IssueStep DEF BeginAuthentication
<1>4. ASSUME NEW c \in Challenges, Expire(c) PROVE [Secret!Next]_(Secret!vars)
  BY <1>4, VoidStep DEF Expire
<1>5. ASSUME NEW r \in Requests, NEW c \in Challenges, FinishAuthentication(r, c)
      PROVE  [Secret!Next]_(Secret!vars)
  BY <1>5, WinStep DEF FinishAuthentication
<1>6. ASSUME NEW u \in Users, EraseAccount(u) PROVE [Secret!Next]_(Secret!vars)
  BY <1>6, EraseStep
<1>7. ASSUME NEW r \in Requests,
             \/ BeginRegistration(r) \/ FinishRegistration(r) \/ Enroll(r) \/ Login(r) \/ CallFails(r)
      PROVE  [Secret!Next]_(Secret!vars)
  BY <1>7, <1>u DEF BeginRegistration, FinishRegistration, Enroll, Login, SelectAuthenticator,
                    UpdateCounter, FindUser, CreateSession, CallFails
<1>8. CASE Crash \/ (\E u \in Users, p \in Authenticators : DeleteAuthenticator(u, p)) \/ UNCHANGED vars
  BY <1>8, <1>u DEF Crash, DeleteAuthenticator, vars
<1> QED  BY <1>1, <1>2, <1>3, <1>4, <1>5, <1>6, <1>7, <1>8 DEF Next, Register

\* Late, repeated and foreign responses included, one finalize attempt at most
\* gets past a challenge (auth/webauthn.ts:92-94 and 321-333).
THEOREM ChallengesAreOneShot == Spec => AnsweredOnce
<1>1. Init => Secret!Init
  BY DEF Init, Secret!Init, state, StateOf
<1> QED
  BY <1>1, Typing, OwnedInit, OwnedStep, AnsweredOnceStep, PTL DEF Spec, AnsweredOnce, Secret!Spec

=============================================================================
