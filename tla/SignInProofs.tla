---------------------------- MODULE SignInProofs -----------------------------
(***************************************************************************)
(* Proofs about SignIn, for any links, addresses, browsers and concurrent  *)
(* requests, any limit of attempts, and any number of faults and accounts. *)
(***************************************************************************)
EXTENDS SignIn, TLAPS, FiniteSetTheorems

-----------------------------------------------------------------------------
(* Typing *)

\* What a request may do, from whether it asks for a link, and whether it came
\* from the browser that did: only a click without the cookie is served to
\* anybody else.  Past the look-up of the user it has one.
Serves(pc, asks, here, user) ==
    /\ pc \in {"insert", "send", "reply"} => asks
    /\ pc \in {"claim", "issue", "use", "code", "count", "burn", "session"} => ~asks
    /\ pc \notin {"idle", "claim", "issue"} => asks \/ here
    /\ pc \in {"insert", "send", "reply", "session"} => user # 0

WellFormed(j) ==
    /\ j \in Job
    /\ j.pc = "idle" => ~j.asks /\ ~j.here
    /\ j.pc # "idle" => j.link \in Links /\ j.browser \in Browsers
    /\ Serves(j.pc, j.asks, j.here, j.user)

Typed == TypeOK /\ \A r \in Requests : WellFormed(job[r])

LEMMA IdleOK == WellFormed(Idle)
  BY SignInConstants DEF WellFormed, Serves, Idle, Job, PCs

LEMMA TypedInit == Init => Typed
<1>1. HasUser(Idle)
  BY DEF HasUser, Idle
<1> QED  BY <1>1, IdleOK, SignInConstants DEF Init, Typed, TypeOK, WellFormed

LEMMA JobSet ==
  ASSUME Typed, NEW r \in Requests, NEW j, WellFormed(j), job' = [job EXCEPT ![r] = j]
  PROVE  job' \in [Requests -> Job] /\ \A v \in Requests : WellFormed(job'[v])
  BY DEF Typed, TypeOK, WellFormed

\* A handler moves on for the same link and browser.
LEMMA JobGoto ==
  ASSUME Typed, NEW r \in Requests, job[r].pc # "idle", NEW pc \in PCs \ {"idle"}, NEW u \in Nat,
         Serves(pc, job[r].asks, job[r].here, u), job' = [job EXCEPT ![r].pc = pc, ![r].user = u]
  PROVE  job' \in [Requests -> Job] /\ \A v \in Requests : WellFormed(job'[v])
<1> DEFINE j == [job[r] EXCEPT !.pc = pc, !.user = u]
<1>1. WellFormed(j)
  BY DEF Typed, TypeOK, WellFormed, Job
<1>2. job' = [job EXCEPT ![r] = j]
  BY DEF Typed, TypeOK
<1> HIDE DEF j
<1> QED  BY <1>1, <1>2, JobSet

LEMMA JobMoves ==
  ASSUME Typed, NEW r \in Requests, job[r].pc # "idle", NEW pc \in PCs \ {"idle"},
         Serves(pc, job[r].asks, job[r].here, job[r].user), Goto(r, pc)
  PROVE  job' \in [Requests -> Job] /\ \A v \in Requests : WellFormed(job'[v])
<1>1. job[r].user \in Nat /\ job' = [job EXCEPT ![r].pc = pc, ![r].user = job[r].user]
  BY DEF Goto, Typed, TypeOK, Job
<1> QED  BY <1>1, JobGoto

LEMMA JobEnds ==
  ASSUME Typed, NEW r \in Requests, Finish(r)
  PROVE  job' \in [Requests -> Job] /\ \A v \in Requests : WellFormed(job'[v])
  BY JobSet, IdleOK DEF Finish

LEMMA TypedStep == Typed /\ [Next]_vars => Typed'
<1> SUFFICES ASSUME Typed, [Next]_vars PROVE Typed'
  OBVIOUS
<1> USE SignInConstants
<1>s. job' \in [Requests -> Job] /\ (\A r \in Requests : WellFormed(job'[r]))
        => /\ job' \in [Requests -> Job] /\ \A r \in Requests : WellFormed(job[r])'
           /\ \A r \in Requests : HasUser(job[r])'
  BY DEF WellFormed, Serves, HasUser
<1>b. ASSUME NEW r \in Requests, job[r].pc # "idle"
      PROVE  /\ job[r].link \in Links /\ job[r].browser \in Browsers /\ Email(r) \in Emails
             /\ Serves(job[r].pc, job[r].asks, job[r].here, job[r].user) /\ job[r].asks \in BOOLEAN
             /\ job[r].user \in Nat
  BY <1>b DEF Typed, TypeOK, WellFormed, Job, Email
<1>u. ASSUME NEW r \in Requests, NEW u \in Nat \ {0}, job[r].pc \in {"find", "create", "recheck"},
             HaveUser(r, u)
      PROVE  job' \in [Requests -> Job] /\ \A v \in Requests : WellFormed(job'[v])
  <2>1. AfterUser(r) \in PCs \ {"idle"} /\ Serves(AfterUser(r), job[r].asks, job[r].here, u)
    BY <1>u, <1>b DEF AfterUser, PCs, Serves
  <2> QED  BY <1>u, <2>1, JobGoto DEF HaveUser
<1>1. ASSUME NEW r \in Requests, FindUser(r) PROVE Typed'
  <2>1. job[r].pc # "idle" /\ account[Email(r)] \in Nat
    BY <1>1, <1>b DEF FindUser, At, Typed, TypeOK
  <2>2. job' \in [Requests -> Job] /\ \A v \in Requests : WellFormed(job'[v])
    <3>1. CASE account[Email(r)] # 0
      BY <1>1, <1>u, <2>1, <3>1 DEF FindUser, At
    <3>2. CASE account[Email(r)] = 0
      <4>1. Serves("create", job[r].asks, job[r].here, job[r].user)
        BY <1>1, <1>b, <2>1 DEF FindUser, At, Serves
      <4> QED  BY <1>1, <2>1, <3>2, <4>1, JobMoves DEF FindUser, PCs
    <3> QED  BY <3>1, <3>2
  <2> QED  BY <1>1, <1>s, <2>2 DEF FindUser, Typed, TypeOK, linkVars, accountVars, history
<1>2. ASSUME NEW r \in Requests, CreateUser(r) PROVE Typed'
  <2>1. job[r].pc # "idle" /\ Email(r) \in Emails /\ lastId[Email(r)] + 1 \in Nat
    BY <1>2, <1>b DEF CreateUser, At, Typed, TypeOK
  <2>2. job' \in [Requests -> Job] /\ \A v \in Requests : WellFormed(job'[v])
    <3>1. CASE account[Email(r)] = 0
      <4>1. lastId[Email(r)] + 1 \in Nat \ {0} /\ HaveUser(r, lastId[Email(r)] + 1)
        BY <1>2, <1>b, <2>1, <3>1 DEF CreateUser, Typed, TypeOK
      <4> QED  BY <1>2, <1>u, <4>1 DEF CreateUser, At
    <3>2. CASE account[Email(r)] # 0
      <4>1. Serves("recheck", job[r].asks, job[r].here, job[r].user)
        BY <1>2, <1>b, <2>1 DEF CreateUser, At, Serves
      <4> QED  BY <1>2, <2>1, <3>2, <4>1, JobMoves DEF CreateUser, PCs
    <3> QED  BY <3>1, <3>2
  <2>3. account' \in [Emails -> Nat] /\ lastId' \in [Emails -> Nat]
    BY <1>2, <2>1 DEF CreateUser, Typed, TypeOK
  <2> QED  BY <1>2, <1>s, <2>2, <2>3 DEF CreateUser, Typed, TypeOK, linkVars, history
<1>3. ASSUME NEW r \in Requests, RecheckUser(r) PROVE Typed'
  <2>1. job[r].pc # "idle" /\ account[Email(r)] \in Nat
    BY <1>3, <1>b DEF RecheckUser, At, Typed, TypeOK
  <2>2. job' \in [Requests -> Job] /\ \A v \in Requests : WellFormed(job'[v])
    BY <1>3, <1>u, <2>1, JobEnds DEF RecheckUser, At
  <2> QED  BY <1>3, <1>s, <2>2 DEF RecheckUser, Typed, TypeOK, linkVars, accountVars, history
<1>4. ASSUME NEW r \in Requests, NEW b \in Browsers, NEW l \in Links, RequestLink(r, b, l) PROVE Typed'
  <2> DEFINE j == [Idle EXCEPT !.pc = "find", !.link = l, !.browser = b, !.asks = TRUE]
  <2>1. WellFormed(j)
    BY DEF WellFormed, Serves, Job, PCs, Idle
  <2>2. job' = [job EXCEPT ![r] = j]
    BY <1>4 DEF RequestLink, Begin
  <2> HIDE DEF j
  <2> QED  BY <1>4, <1>s, <2>1, <2>2, JobSet DEF RequestLink, Typed, TypeOK, linkVars, accountVars
<1>5. ASSUME NEW r \in Requests, InsertLink(r) PROVE Typed'
  <2>1. job[r].pc # "idle" /\ Serves("send", job[r].asks, job[r].here, job[r].user)
    BY <1>5, <1>b DEF InsertLink, At, Serves
  <2> QED  BY <1>5, <1>s, <2>1, JobMoves DEF InsertLink, PCs, Typed, TypeOK, accountVars, history
<1>6. ASSUME NEW r \in Requests, SendMagicLink(r) PROVE Typed'
  <2>1. job[r].pc # "idle" /\ Serves("reply", job[r].asks, job[r].here, job[r].user)
    BY <1>6, <1>b DEF SendMagicLink, At, Serves
  <2>2. sent' \in SUBSET Links
    BY <1>6, <1>b, <2>1 DEF SendMagicLink, Typed, TypeOK
  <2> QED  BY <1>6, <1>s, <2>1, <2>2, JobMoves DEF SendMagicLink, PCs, Typed, TypeOK, accountVars, history
<1>7. ASSUME NEW r \in Requests, Reply(r) PROVE Typed'
  <2>1. job[r].link \in Links
    BY <1>7, <1>b DEF Reply, At
  <2> QED  BY <1>7, <1>s, <2>1, JobEnds DEF Reply, Typed, TypeOK, linkVars, accountVars, history
<1>8. ASSUME NEW r \in Requests, NEW b \in Browsers, NEW l \in Links, OpenLink(r, b, l) PROVE Typed'
  <2> DEFINE j == [Idle EXCEPT !.pc = "claim", !.link = l, !.browser = b, !.here = (cookie[b] = l)]
  <2>1. WellFormed(j)
    BY DEF WellFormed, Serves, Job, PCs, Idle
  <2>2. job' = [job EXCEPT ![r] = j]
    BY <1>8 DEF OpenLink, Begin
  <2> HIDE DEF j
  <2> QED  BY <1>8, <1>s, <2>1, <2>2, JobSet DEF OpenLink, Typed, TypeOK, linkVars, accountVars, history
<1>9. ASSUME NEW r \in Requests, ReadLink(r) PROVE Typed'
  <2>1. /\ job[r].pc # "idle"
        /\ job[r].here => Serves("use", job[r].asks, job[r].here, job[r].user)
        /\ ~job[r].here => Serves("issue", job[r].asks, job[r].here, job[r].user)
    BY <1>9, <1>b DEF ReadLink, At, Serves
  <2>2. job' \in [Requests -> Job] /\ \A v \in Requests : WellFormed(job'[v])
    BY <1>9, <2>1, JobMoves, JobEnds DEF ReadLink, PCs
  <2> QED  BY <1>9, <1>s, <2>2 DEF ReadLink, Typed, TypeOK, linkVars, accountVars, history
<1>10. ASSUME NEW r \in Requests, UseLink(r) PROVE Typed'
  <2>1. job[r].pc # "idle" /\ Serves("find", job[r].asks, job[r].here, job[r].user) /\ job[r].link \in Links
    BY <1>10, <1>b DEF UseLink, At, Serves
  <2>2. job' \in [Requests -> Job] /\ \A v \in Requests : WellFormed(job'[v])
    BY <1>10, <2>1, JobMoves, JobEnds DEF UseLink, PCs
  <2>3. /\ link' \in [Links -> {"none", "open", "used", "burned", "erased"}]
        /\ wins' \in [Links -> Nat]
    BY <1>10, <2>1 DEF UseLink, Typed, TypeOK
  <2> QED  BY <1>10, <1>s, <2>2, <2>3 DEF UseLink, Typed, TypeOK, accountVars
<1>11. ASSUME NEW r \in Requests, IssueCode(r) PROVE Typed'
  <2>1. coded' \in SUBSET Links
    BY <1>11, <1>b DEF IssueCode, At, Typed, TypeOK
  <2> QED  BY <1>11, <1>s, <2>1, JobEnds DEF IssueCode, Typed, TypeOK, accountVars, history
<1>12. ASSUME NEW r \in Requests, NEW b \in Browsers, NEW right \in BOOLEAN, EnterCode(r, b, right) PROVE Typed'
  <2> DEFINE j == [Idle EXCEPT !.pc = "code", !.link = cookie[b], !.browser = b, !.here = TRUE, !.right = right]
  <2>1. cookie[b] \in Links
    BY <1>12 DEF EnterCode, Typed, TypeOK
  <2>2. WellFormed(j)
    BY <2>1 DEF WellFormed, Serves, Job, PCs, Idle
  <2>3. job' = [job EXCEPT ![r] = j]
    BY <1>12 DEF EnterCode, Begin
  <2> HIDE DEF j
  <2> QED  BY <1>12, <1>s, <2>2, <2>3, JobSet DEF EnterCode, Typed, TypeOK, linkVars, accountVars, history
<1>13. ASSUME NEW r \in Requests, ReadCode(r) PROVE Typed'
  <2>1. /\ job[r].pc # "idle"
        /\ Serves("use", job[r].asks, job[r].here, job[r].user) /\ Serves("count", job[r].asks, job[r].here, job[r].user)
    BY <1>13, <1>b DEF ReadCode, At, Serves
  <2>2. job' \in [Requests -> Job] /\ \A v \in Requests : WellFormed(job'[v])
    BY <1>13, <2>1, JobMoves, JobEnds DEF ReadCode, PCs
  <2> QED  BY <1>13, <1>s, <2>2 DEF ReadCode, Typed, TypeOK, linkVars, accountVars, history
<1>14. ASSUME NEW r \in Requests, CountAttempt(r) PROVE Typed'
  <2>1. job[r].pc # "idle" /\ Serves("burn", job[r].asks, job[r].here, job[r].user) /\ job[r].link \in Links
    BY <1>14, <1>b DEF CountAttempt, At, Serves
  <2>2. job' \in [Requests -> Job] /\ \A v \in Requests : WellFormed(job'[v])
    BY <1>14, <2>1, JobMoves, JobEnds DEF CountAttempt, PCs
  <2>3. attempts' \in [Links -> Nat]
    BY <1>14, <2>1 DEF CountAttempt, Typed, TypeOK
  <2> QED  BY <1>14, <1>s, <2>2, <2>3 DEF CountAttempt, Typed, TypeOK, accountVars, history
<1>15. ASSUME NEW r \in Requests, BurnLink(r) PROVE Typed'
  <2>1. job[r].link \in Links
    BY <1>15, <1>b DEF BurnLink, At
  <2> QED  BY <1>15, <1>s, <2>1, JobEnds DEF BurnLink, Typed, TypeOK, accountVars, history
<1>16. ASSUME NEW r \in Requests, CreateSession(r) PROVE Typed'
  <2>1. job[r].link \in Links /\ job[r].user \in Nat /\ job[r].browser \in Browsers
    BY <1>16, <1>b DEF CreateSession, At
  <2>2. /\ session' \in [Links -> Nat] /\ madeIn' \in [Links -> SUBSET Browsers]
        /\ cookie' \in [Browsers -> Links \cup {NoLink}]
    BY <1>16, <2>1 DEF CreateSession, Typed, TypeOK
  <2> QED  BY <1>16, <1>s, <2>2, JobEnds DEF CreateSession, Typed, TypeOK, linkVars
<1>17. ASSUME NEW l \in Links, Expire(l) PROVE Typed'
  BY <1>17, <1>s DEF Expire, Typed, TypeOK, accountVars, history
<1>18. ASSUME NEW m \in Emails, EraseAccount(m) PROVE Typed'
  BY <1>18, <1>s DEF EraseAccount, Typed, TypeOK, history
<1>19. ASSUME NEW r \in Requests, CallFails(r) PROVE Typed'
  <2>1. job' \in [Requests -> Job] /\ \A v \in Requests : WellFormed(job'[v])
    <3>1. CASE At(r, "create")
      <4>1. job[r].pc # "idle" /\ Serves("recheck", job[r].asks, job[r].here, job[r].user)
        BY <3>1, <1>b DEF At, Serves
      <4> QED  BY <1>19, <3>1, <4>1, JobMoves DEF CallFails, PCs
    <3>2. CASE ~At(r, "create")
      BY <1>19, <3>2, JobEnds DEF CallFails
    <3> QED  BY <3>1, <3>2
  <2> QED  BY <1>19, <1>s, <2>1 DEF CallFails, Typed, TypeOK, linkVars, accountVars, history
<1>20. CASE Crash
  <2>1. job' \in [Requests -> Job] /\ \A v \in Requests : WellFormed(job'[v])
    BY <1>20, IdleOK DEF Crash, WellFormed
  <2> QED  BY <1>20, <1>s, <2>1 DEF Crash, Typed, TypeOK, linkVars, accountVars, history
<1>21. CASE UNCHANGED vars
  BY <1>21, <1>s DEF vars, Typed, TypeOK, linkVars, accountVars, history
<1> QED
  BY <1>1, <1>2, <1>3, <1>4, <1>5, <1>6, <1>7, <1>8, <1>9, <1>10, <1>11, <1>12, <1>13, <1>14,
     <1>15, <1>16, <1>17, <1>18, <1>19, <1>20, <1>21
  DEF Next, Arrive, Handle

LEMMA Typing == Spec => []Typed
  BY TypedInit, TypedStep, PTL DEF Spec

\* Every variable keeps its type.
THEOREM SignInTypes == Spec => []TypeOK
<1>1. Typed => TypeOK
  BY DEF Typed
<1> QED  BY <1>1, Typing, PTL

-----------------------------------------------------------------------------
(* Sessions are made where the link was asked for *)

\* The step of a request leaves the others alone, and keeps its own link and
\* browser until it ends.
Advances(r) ==
    /\ \A v \in Requests \ {r} : job'[v] = job[v]
    /\ \/ job'[r] = Idle
       \/ /\ job[r].pc # "idle"
          /\ job'[r].link = job[r].link /\ job'[r].browser = job[r].browser
          /\ job'[r].asks = job[r].asks /\ job'[r].here = job[r].here

LEMMA HandlersAdvance ==
  ASSUME Typed, NEW r \in Requests, Handle(r) \/ CallFails(r)
  PROVE  Advances(r) /\ requester' = requester
<1> USE DEF Typed, TypeOK, Advances, At, Goto, Finish, HaveUser, Job, history
<1>1. FindUser(r) => Advances(r) /\ requester' = requester
  BY DEF FindUser
<1>2. CreateUser(r) => Advances(r) /\ requester' = requester
  BY DEF CreateUser
<1>3. RecheckUser(r) => Advances(r) /\ requester' = requester
  BY DEF RecheckUser
<1>4. InsertLink(r) \/ SendMagicLink(r) \/ Reply(r) => Advances(r) /\ requester' = requester
  BY DEF InsertLink, SendMagicLink, Reply
<1>5. ReadLink(r) => Advances(r) /\ requester' = requester
  BY DEF ReadLink
<1>6. UseLink(r) \/ IssueCode(r) => Advances(r) /\ requester' = requester
  BY DEF UseLink, IssueCode
<1>7. ReadCode(r) \/ CountAttempt(r) => Advances(r) /\ requester' = requester
  BY DEF ReadCode, CountAttempt
<1>8. BurnLink(r) \/ CreateSession(r) => Advances(r) /\ requester' = requester
  BY DEF BurnLink, CreateSession
<1>9. CallFails(r) => Advances(r) /\ requester' = requester
  BY SignInConstants, IdleOK DEF CallFails, WellFormed
<1> QED  BY <1>1, <1>2, <1>3, <1>4, <1>5, <1>6, <1>7, <1>8, <1>9 DEF Handle

\* The cookie that a browser holds is that of a link it asked for; a request
\* that comes with it, or asks for a link, comes from the browser that asked.
Bound ==
    /\ \A r \in Requests : job[r].asks \/ job[r].here => requester[job[r].link] = job[r].browser
    /\ \A b \in Browsers : cookie[b] # NoLink => requester[cookie[b]] = b
    /\ SignedInWhereRequested

LEMMA BoundInit == Init => Bound
  BY DEF Init, Bound, Idle, SignedInWhereRequested

LEMMA BoundJobs ==
  ASSUME Typed, Bound, NEW r \in Requests, Advances(r), requester' = requester
  PROVE  \A v \in Requests : job'[v].asks \/ job'[v].here => requester'[job'[v].link] = job'[v].browser
  BY DEF Advances, Bound, Idle

LEMMA BoundStep == Typed /\ Bound /\ [Next]_vars => Bound'
<1> SUFFICES ASSUME Typed, Bound, [Next]_vars PROVE Bound'
  OBVIOUS
<1>1. ASSUME NEW r \in Requests, Handle(r) \/ CallFails(r) PROVE Bound'
  <2>1. Advances(r) /\ requester' = requester
    BY <1>1, HandlersAdvance
  <2>2. \A v \in Requests : job'[v].asks \/ job'[v].here => requester'[job'[v].link] = job'[v].browser
    BY <2>1, BoundJobs
  <2>3. CASE Reply(r)
    <3>1. requester[job[r].link] = job[r].browser
      BY <2>3 DEF Reply, At, Typed, WellFormed, Serves, Bound
    <3> QED
      BY <2>1, <2>2, <2>3, <3>1 DEF Reply, Bound, Typed, TypeOK, SignedInWhereRequested, history
  <2>4. CASE BurnLink(r)
    BY <2>1, <2>2, <2>4 DEF BurnLink, Bound, Typed, TypeOK, SignedInWhereRequested, history
  <2>5. CASE CreateSession(r)
    <3>1. requester[job[r].link] = job[r].browser
      BY <2>5 DEF CreateSession, At, Typed, WellFormed, Serves, Bound
    <3> QED
      BY <2>1, <2>2, <2>5, <3>1 DEF CreateSession, Bound, Typed, TypeOK, SignedInWhereRequested
  <2>6. CASE ~Reply(r) /\ ~BurnLink(r) /\ ~CreateSession(r)
    <3>1. UNCHANGED <<cookie, madeIn>>
      BY <1>1, <2>6 DEF Handle, FindUser, CreateUser, RecheckUser, InsertLink, SendMagicLink, ReadLink,
                        UseLink, IssueCode, ReadCode, CountAttempt, CallFails, history
    <3> QED  BY <2>1, <2>2, <3>1 DEF Bound, SignedInWhereRequested
  <2> QED  BY <2>3, <2>4, <2>5, <2>6
<1>2. ASSUME NEW r \in Requests, NEW b \in Browsers, NEW l \in Links, RequestLink(r, b, l) PROVE Bound'
  <2>1. /\ requester[l] = NoBrowser /\ requester' = [requester EXCEPT ![l] = b]
        /\ \A v \in Requests \ {r} : job'[v] = job[v]
        /\ job'[r].link = l /\ job'[r].browser = b
        /\ UNCHANGED <<cookie, madeIn>>
    BY <1>2 DEF RequestLink, Begin, Idle, Typed, TypeOK
  <2>2. \A v \in Requests : job[v].asks \/ job[v].here => job[v].link \in Links \ {l}
    BY <2>1, SignInConstants DEF Bound, Typed, WellFormed
  <2>3. \A c \in Browsers : cookie[c] # NoLink => cookie[c] \in Links \ {l}
    BY <2>1, SignInConstants DEF Bound, Typed, TypeOK
  <2>4. madeIn[l] = {}
    BY <2>1, SignInConstants DEF Bound, SignedInWhereRequested, Typed, TypeOK
  <2>5. requester'[l] = b /\ \A k \in Links \ {l} : requester'[k] = requester[k]
    BY <2>1 DEF Typed, TypeOK
  <2>6. \A v \in Requests : job'[v].asks \/ job'[v].here => requester'[job'[v].link] = job'[v].browser
    BY <2>1, <2>2, <2>5 DEF Bound
  <2>7. \A c \in Browsers : cookie'[c] # NoLink => requester'[cookie'[c]] = c
    BY <2>1, <2>3, <2>5 DEF Bound
  <2>8. SignedInWhereRequested'
    BY <2>1, <2>4, <2>5 DEF Bound, SignedInWhereRequested
  <2> QED  BY <2>6, <2>7, <2>8 DEF Bound
<1>3. ASSUME NEW r \in Requests, NEW b \in Browsers, NEW l \in Links, OpenLink(r, b, l) PROVE Bound'
  <2>1. /\ \A v \in Requests \ {r} : job'[v] = job[v]
        /\ job'[r].link = l /\ job'[r].browser = b /\ ~job'[r].asks /\ (job'[r].here => cookie[b] = l)
        /\ UNCHANGED <<cookie, madeIn, requester>>
    BY <1>3 DEF OpenLink, Begin, Idle, Typed, TypeOK, history
  <2>2. \A v \in Requests : job'[v].asks \/ job'[v].here => requester'[job'[v].link] = job'[v].browser
    BY <2>1, SignInConstants DEF Bound
  <2> QED  BY <2>1, <2>2 DEF Bound, SignedInWhereRequested
<1>4. ASSUME NEW r \in Requests, NEW b \in Browsers, NEW right \in BOOLEAN, EnterCode(r, b, right) PROVE Bound'
  <2>1. /\ \A v \in Requests \ {r} : job'[v] = job[v]
        /\ job'[r].link = cookie[b] /\ job'[r].browser = b /\ cookie[b] # NoLink
        /\ UNCHANGED <<cookie, madeIn, requester>>
    BY <1>4 DEF EnterCode, Begin, Idle, Typed, TypeOK, history
  <2> QED  BY <2>1 DEF Bound, SignedInWhereRequested
<1>5. CASE Crash
  BY <1>5 DEF Crash, Bound, Idle, SignedInWhereRequested, history
<1>6. CASE (\E l \in Links : Expire(l)) \/ (\E m \in Emails : EraseAccount(m)) \/ UNCHANGED vars
  <2>1. UNCHANGED <<job, cookie, madeIn, requester>>
    BY <1>6 DEF Expire, EraseAccount, vars, history
  <2> QED  BY <2>1 DEF Bound, SignedInWhereRequested
<1> QED  BY <1>1, <1>2, <1>3, <1>4, <1>5, <1>6 DEF Next, Arrive

\* A link signs in the browser that asked for it and no other, whatever is
\* asked, opened and typed in the other browsers at the same time
\* (routes/auth.routes.ts, the pending-login cookie).
THEOREM SignsInRequester == Spec => []SignedInWhereRequested
<1>1. Bound => SignedInWhereRequested
  BY DEF Bound
<1> QED  BY <1>1, Typing, BoundInit, BoundStep, PTL DEF Spec

-----------------------------------------------------------------------------
(* Sessions and accounts *)

LEMMA SessionsStep == Typed /\ SessionsHaveAccounts /\ [Next]_vars => SessionsHaveAccounts'
<1> SUFFICES ASSUME Typed, SessionsHaveAccounts, [Next]_vars PROVE SessionsHaveAccounts'
  OBVIOUS
<1> USE SignInConstants DEF SessionsHaveAccounts
<1>1. ASSUME NEW r \in Requests, CreateUser(r) PROVE SessionsHaveAccounts'
  <2>1. CASE account[Email(r)] = 0
    <3>1. \A l \in Links : EmailOf[l] = Email(r) => session[l] = 0
      BY <2>1 DEF Typed, TypeOK
    <3> QED  BY <1>1, <2>1, <3>1 DEF CreateUser, Typed, TypeOK
  <2> QED  BY <1>1, <2>1 DEF CreateUser
<1>2. ASSUME NEW r \in Requests, CreateSession(r) PROVE SessionsHaveAccounts'
  <2>1. job[r].link \in Links
    BY <1>2 DEF CreateSession, At, Typed, WellFormed
  <2> QED  BY <1>2, <2>1 DEF CreateSession, Email, Typed, TypeOK
<1>3. ASSUME NEW m \in Emails, EraseAccount(m) PROVE SessionsHaveAccounts'
  BY <1>3 DEF EraseAccount, Typed, TypeOK
<1>4. CASE UNCHANGED <<account, session>>
  BY <1>4
<1>5. UNCHANGED <<account, session>> \/ (\E r \in Requests : CreateUser(r) \/ CreateSession(r))
        \/ \E m \in Emails : EraseAccount(m)
  BY DEF Next, Arrive, Handle, FindUser, RecheckUser, RequestLink, InsertLink, SendMagicLink, Reply,
         OpenLink, ReadLink, UseLink, IssueCode, EnterCode, ReadCode, CountAttempt, BurnLink, Expire,
         CallFails, Crash, vars, accountVars
<1> QED  BY <1>1, <1>2, <1>3, <1>4, <1>5

\* No session outlives its account, nor does it pass to the account that the
\* address has next (auth/users.ts:29-49 and 84-115, auth/sessions.ts:63-80).
THEOREM NoOrphanSessions == Spec => []SessionsHaveAccounts
<1>1. Init => SessionsHaveAccounts
  BY DEF Init, SessionsHaveAccounts
<1> QED  BY <1>1, Typing, SessionsStep, PTL DEF Spec

-----------------------------------------------------------------------------
(* A link is a single-use secret *)

Early == {"find", "create", "recheck", "insert"}

\* One request at most asks for a link, and until it inserts the row there is
\* none.
Asked ==
    /\ \A r, v \in Requests :
          job[r].asks /\ job[v].asks /\ job[r].link = job[v].link => r = v
    /\ \A r \in Requests : job[r].asks /\ job[r].pc \in Early => link[job[r].link] = "none"

LEMMA AskedInit == Init => Asked
  BY DEF Init, Asked, Idle

\* A request that asks does not go back to a step before the INSERT.
LEMMA EarlyOnly ==
  ASSUME Typed, NEW r \in Requests, Handle(r) \/ CallFails(r), job'[r].asks, job'[r].pc \in Early
  PROVE  job[r].pc \in Early
<1>1. Advances(r)
  BY HandlersAdvance
<1>0. job'[r] # Idle
  BY DEF Idle
<1>a. job[r].asks
  BY <1>0, <1>1, Zenon DEF Advances
<1>2. job[r].asks /\ job[r].pc # "idle"
  BY <1>0, <1>1, <1>a DEF Advances
<1>3. job[r].pc \in {"find", "create", "recheck", "insert", "send", "reply"}
  BY <1>2, SMTT(30) DEF Typed, WellFormed, Serves, Job, PCs
<1>4. CASE job[r].pc = "send"
  <2>1. SendMagicLink(r) \/ CallFails(r)
    BY <1>4 DEF Handle, FindUser, CreateUser, RecheckUser, InsertLink, Reply, ReadLink, UseLink,
                IssueCode, ReadCode, CountAttempt, BurnLink, CreateSession, At
  <2>2. job'[r].pc \in {"reply", "idle"}
    BY <1>4, <2>1 DEF SendMagicLink, CallFails, At, Goto, Finish, Idle, Typed, TypeOK, Job
  <2> QED  BY <2>2 DEF Early
<1>5. CASE job[r].pc = "reply"
  <2>1. Reply(r) \/ CallFails(r)
    BY <1>5 DEF Handle, FindUser, CreateUser, RecheckUser, InsertLink, SendMagicLink, ReadLink, UseLink,
                IssueCode, ReadCode, CountAttempt, BurnLink, CreateSession, At
  <2> QED  BY <1>5, <2>1 DEF Reply, CallFails, At, Finish, Idle, Early, Typed, TypeOK
<1> QED  BY <1>3, <1>4, <1>5 DEF Early

\* What a step does to the rows.
LEMMA RowsStep ==
  ASSUME Typed, NEW r \in Requests, Handle(r) \/ CallFails(r)
  PROVE  \/ link' = link
         \/ InsertLink(r)
         \/ /\ link[job[r].link] = "open"
            /\ \E v \in {"used", "burned"} : link' = [link EXCEPT ![job[r].link] = v]
  BY DEF Handle, FindUser, CreateUser, RecheckUser, SendMagicLink, Reply, ReadLink, UseLink,
         IssueCode, ReadCode, CountAttempt, BurnLink, CreateSession, CallFails, Unconsumed, linkVars

LEMMA AskedStep == Typed /\ Bound /\ Asked /\ [Next]_vars => Asked'
<1> SUFFICES ASSUME Typed, Bound, Asked, [Next]_vars PROVE Asked'
  OBVIOUS
<1>1. ASSUME NEW r \in Requests, Handle(r) \/ CallFails(r) PROVE Asked'
  <2>1. Advances(r)
    BY <1>1, HandlersAdvance
  <2>2. \A v \in Requests : job'[v].asks => job[v].asks /\ job'[v].link = job[v].link
    BY <2>1 DEF Advances, Idle
  <2>3. \A v \in Requests : job'[v].asks /\ job'[v].pc \in Early => job[v].pc \in Early
    BY <1>1, <2>1, EarlyOnly DEF Advances
  <2>4. ASSUME NEW v \in Requests, job'[v].asks, job'[v].pc \in Early PROVE link'[job'[v].link] = "none"
    <3>1. job[v].asks /\ job'[v].link = job[v].link /\ link[job[v].link] = "none"
      BY <2>2, <2>3, <2>4 DEF Asked
    <3>2. CASE InsertLink(r)
      <4>1. job[r].asks /\ job'[r].pc = "send"
        BY <3>2 DEF InsertLink, At, Goto, Typed, TypeOK, WellFormed, Serves
      <4>2. v # r /\ job[v].link # job[r].link
        BY <2>4, <3>1, <4>1 DEF Asked, Early
      <4> QED  BY <3>1, <3>2, <4>2 DEF InsertLink, Typed, TypeOK
    <3>3. job[v].link \in Links
      BY <3>1 DEF Typed, WellFormed
    <3> QED  BY <1>1, <3>1, <3>2, <3>3, RowsStep DEF Typed, TypeOK
  <2>5. \A u, v \in Requests : job'[u].asks /\ job'[v].asks /\ job'[u].link = job'[v].link => u = v
    BY <2>2 DEF Asked
  <2> QED  BY <2>4, <2>5 DEF Asked
<1>2. ASSUME NEW r \in Requests, NEW b \in Browsers, NEW l \in Links, RequestLink(r, b, l) PROVE Asked'
  <2>1. /\ requester[l] = NoBrowser /\ link[l] = "none" /\ link' = link
        /\ \A v \in Requests \ {r} : job'[v] = job[v]
        /\ job'[r].link = l
    BY <1>2 DEF RequestLink, Begin, Idle, Typed, TypeOK, linkVars
  <2>2. \A v \in Requests : job[v].asks => job[v].link # l
    BY <2>1, SignInConstants DEF Bound, Typed, WellFormed
  <2> QED  BY <2>1, <2>2 DEF Asked
<1>3. ASSUME NEW r \in Requests, NEW b \in Browsers,
             (\E l \in Links : OpenLink(r, b, l)) \/ \E right \in BOOLEAN : EnterCode(r, b, right)
      PROVE  Asked'
  <2>1. /\ \A v \in Requests \ {r} : job'[v] = job[v]
        /\ ~job'[r].asks /\ link' = link
    <3>1. CASE \E l \in Links : OpenLink(r, b, l)
      BY <3>1 DEF OpenLink, Begin, Idle, Typed, TypeOK, linkVars
    <3>2. CASE \E right \in BOOLEAN : EnterCode(r, b, right)
      BY <3>2 DEF EnterCode, Begin, Idle, Typed, TypeOK, linkVars
    <3> QED  BY <1>3, <3>1, <3>2
  <2> QED  BY <2>1 DEF Asked
<1>4. CASE Crash
  BY <1>4 DEF Crash, Asked, Idle
<1>5. CASE (\E l \in Links : Expire(l)) \/ UNCHANGED vars
  BY <1>5 DEF Expire, vars, linkVars, Asked
<1>6. ASSUME NEW m \in Emails, EraseAccount(m) PROVE Asked'
  <2>1. job' = job /\ \A l \in Links : link[l] = "none" => link'[l] = "none"
    BY <1>6 DEF EraseAccount
  <2>2. \A r \in Requests : job[r].asks => job[r].link \in Links
    BY DEF Typed, WellFormed
  <2> QED  BY <2>1, <2>2 DEF Asked
<1> QED  BY <1>1, <1>2, <1>3, <1>4, <1>5, <1>6 DEF Next, Arrive

\* A row that changes takes its secret along, and no other.
LEMMA StatesChange ==
  ASSUME Typed, NEW l \in Links, NEW v \in {"open", "used", "burned"}, link' = [link EXCEPT ![l] = v]
  PROVE  state' = [state EXCEPT ![l] = IF v = "open" THEN "open" ELSE "spent"]
  BY DEF state, StateOf, Typed, TypeOK

LEMMA HandlersUseOnce ==
  ASSUME Typed, Asked, NEW r \in Requests, Handle(r) \/ CallFails(r)
  PROVE  [Secret!Next]_(Secret!vars)
<1>1. CASE InsertLink(r)
  <2>1. job[r].link \in Links /\ link[job[r].link] = "none"
    BY <1>1 DEF InsertLink, At, Typed, WellFormed, Serves, Asked, Early
  <2>2. state[job[r].link] = "unissued" /\ state' = [state EXCEPT ![job[r].link] = "open"] /\ wins' = wins
    BY <1>1, <2>1, StatesChange DEF InsertLink, state, StateOf, history
  <2> QED  BY <2>1, <2>2 DEF Secret!Next, Secret!Issue, Secret!Become
<1>2. CASE UseLink(r)
  <2>1. job[r].link \in Links
    BY <1>2 DEF UseLink, At, Typed, WellFormed
  <2>2. CASE link[job[r].link] = "open"
    <3>1. /\ state[job[r].link] = "open" /\ state' = [state EXCEPT ![job[r].link] = "spent"]
          /\ wins' = [wins EXCEPT ![job[r].link] = @ + 1]
      BY <1>2, <2>1, <2>2, StatesChange DEF UseLink, Unconsumed, state, StateOf
    <3> QED  BY <2>1, <3>1 DEF Secret!Next, Secret!Win, Secret!Become
  <2>3. CASE link[job[r].link] # "open"
    BY <1>2, <2>3 DEF UseLink, Unconsumed, state, StateOf, Secret!vars
  <2> QED  BY <2>2, <2>3
<1>3. CASE BurnLink(r)
  <2> DEFINE l == job[r].link
  <2>1. l \in Links /\ wins' = wins
    BY <1>3 DEF BurnLink, At, Typed, WellFormed, history
  <2>2. CASE link[l] = "open"
    <3>1. state[l] = "open" /\ state' = [state EXCEPT ![l] = "spent"]
      BY <1>3, <2>1, <2>2, StatesChange DEF BurnLink, Unconsumed, state, StateOf
    <3>2. state' = [s \in Links |-> IF s \in {l} THEN "spent" ELSE state[s]]
      BY <3>1 DEF state
    <3>3. Secret!Void({l})
      BY <2>1, <3>1, <3>2 DEF Secret!Void
    <3>4. {l} \in SUBSET Links
      BY <2>1
    <3> QED  BY <3>3, <3>4 DEF Secret!Next
  <2>3. CASE link[l] # "open"
    BY <1>3, <2>1, <2>3 DEF BurnLink, Unconsumed, state, StateOf, Secret!vars
  <2> QED  BY <2>2, <2>3
<1>4. CASE ~InsertLink(r) /\ ~UseLink(r) /\ ~BurnLink(r)
  <2>1. UNCHANGED <<link, wins>>
    BY <1>4 DEF Handle, FindUser, CreateUser, RecheckUser, SendMagicLink, Reply, ReadLink,
                IssueCode, ReadCode, CountAttempt, CreateSession, CallFails, linkVars, history
  <2> QED  BY <2>1 DEF state, StateOf, Secret!vars
<1> QED  BY <1>1, <1>2, <1>3, <1>4

LEMMA UsedOnceStep == Typed /\ Asked /\ [Next]_vars => [Secret!Next]_(Secret!vars)
<1> SUFFICES ASSUME Typed, Asked, [Next]_vars PROVE [Secret!Next]_(Secret!vars)
  OBVIOUS
<1>1. ASSUME NEW m \in Emails, EraseAccount(m) PROVE [Secret!Next]_(Secret!vars)
  <2> DEFINE S == {l \in Links : EmailOf[l] = m /\ link[l] = "open"}
  <2>1. link' = [l \in Links |-> IF EmailOf[l] = m /\ link[l] # "none" THEN "erased" ELSE link[l]]
        /\ wins' = wins
    BY <1>1 DEF EraseAccount, history
  <2>2. \A l \in S : state[l] = "open"
    BY DEF state, StateOf
  <2>3. \A l \in Links : StateOf(l)' = IF l \in S THEN "spent" ELSE StateOf(l)
    BY <2>1 DEF StateOf
  <2>4. state' = [l \in Links |-> IF l \in S THEN "spent" ELSE state[l]]
    BY <2>3 DEF state
  <2> HIDE DEF S
  <2>5. S \in SUBSET Links
    BY DEF S
  <2> QED  BY <2>1, <2>2, <2>4, <2>5 DEF Secret!Next, Secret!Void
<1>2. CASE ~(\E r \in Requests : Handle(r) \/ CallFails(r)) /\ ~(\E m \in Emails : EraseAccount(m))
  <2>1. UNCHANGED <<link, wins>>
    BY <1>2 DEF Next, Arrive, RequestLink, OpenLink, EnterCode, Expire, Crash, vars, linkVars, history
  <2> QED  BY <2>1 DEF state, StateOf, Secret!vars
<1> QED  BY <1>1, <1>2, HandlersUseOnce

\* A link is a single-use secret (auth/magicLinks.ts:119-131 and 249-267): one
\* request at most is told that it consumed the link, none once it was burned.
THEOREM LinksAreOneShot == Spec => UsedOnce
<1>1. Init => Secret!Init
  BY DEF Init, Secret!Init, state, StateOf
<1> QED
  BY <1>1, UsedOnceStep, Typing, BoundInit, BoundStep, AskedInit, AskedStep, PTL
  DEF Spec, UsedOnce, Secret!Spec

-----------------------------------------------------------------------------
(* Wrong codes use up the attempts *)

\* A code that was compared and not yet counted, or counted as the last one.
Counting(l) == {r \in Requests : job[r].pc = "count" /\ job[r].link = l}
Burning(l)  == {r \in Requests : job[r].pc = "burn" /\ job[r].link = l}

BurnInv(l) ==
    /\ link[l] = "none" => attempts[l] = 0 /\ tried[l] = 0 /\ Counting(l) = {}
    /\ faults = 0 =>
         /\ link[l] = "open" =>
              /\ tried[l] = attempts[l] + Cardinality(Counting(l))
              /\ attempts[l] <= CODE_MAX_ATTEMPTS - 1 + Cardinality(Burning(l))
         /\ tried[l] <= CODE_MAX_ATTEMPTS - 1 + Cardinality(Requests)

LEMMA Sizes ==
  ASSUME NEW S \in SUBSET Requests, NEW T \in SUBSET Requests
  PROVE  /\ Cardinality(S) \in Nat /\ Cardinality(Requests) \in Nat
         /\ S \subseteq T => Cardinality(S) <= Cardinality(T)
         /\ \A r \in Requests : T = S \cup {r} /\ r \notin S => Cardinality(T) = Cardinality(S) + 1
<1>1. IsFiniteSet(S) /\ IsFiniteSet(T)
  BY SignInConstants, FS_Subset
<1>2. \A r \in Requests : T = S \cup {r} /\ r \notin S => Cardinality(T) = Cardinality(S) + 1
  BY <1>1, FS_AddElement
<1> QED  BY <1>1, <1>2, SignInConstants, FS_Subset, FS_CardinalityType

\* Nobody is in both.
LEMMA GuessingSum ==
  ASSUME NEW l \in Links
  PROVE  /\ Cardinality(Guessing(l)) = Cardinality(Counting(l)) + Cardinality(Burning(l))
         /\ Cardinality(Guessing(l)) <= Cardinality(Requests)
<1>1. /\ Guessing(l) = Counting(l) \cup Burning(l) /\ Counting(l) \cap Burning(l) = {}
      /\ Guessing(l) \in SUBSET Requests
  BY DEF Guessing, Counting, Burning
<1>2. IsFiniteSet(Counting(l)) /\ IsFiniteSet(Burning(l))
  BY SignInConstants, FS_Subset DEF Counting, Burning
<1>3. Cardinality(Counting(l) \cup Burning(l)) = Cardinality(Counting(l)) + Cardinality(Burning(l)) - 0
  BY <1>1, <1>2, FS_Union, FS_EmptySet
<1>4. Cardinality(Counting(l)) \in Nat /\ Cardinality(Burning(l)) \in Nat
  BY <1>2, FS_CardinalityType
<1> QED  BY <1>1, <1>3, <1>4, Sizes

\* A step that compares no code with l and counts none.
Quiet(l) ==
    /\ attempts'[l] = attempts[l] /\ tried'[l] = tried[l]
    /\ link'[l] = "none" => link[l] = "none"
    /\ Counting(l)' \subseteq Counting(l)
    /\ faults' = 0 => faults = 0
    /\ faults' = 0 /\ link'[l] = "open" =>
         link[l] = "open" /\ Counting(l)' = Counting(l) /\ Burning(l) \subseteq Burning(l)'

LEMMA QuietBurn ==
  ASSUME Typed, NEW l \in Links, BurnInv(l), Quiet(l)
  PROVE  BurnInv(l)'
<1>1. link'[l] = "none" => attempts'[l] = 0 /\ tried'[l] = 0 /\ Counting(l)' = {}
  BY DEF Quiet, BurnInv
<1>2. ASSUME faults' = 0, link'[l] = "open"
      PROVE  /\ tried'[l] = attempts'[l] + Cardinality(Counting(l)')
             /\ attempts'[l] <= CODE_MAX_ATTEMPTS - 1 + Cardinality(Burning(l)')
  <2>1. /\ tried[l] = attempts[l] + Cardinality(Counting(l))
        /\ attempts[l] <= CODE_MAX_ATTEMPTS - 1 + Cardinality(Burning(l))
        /\ Counting(l)' = Counting(l) /\ Burning(l) \subseteq Burning(l)'
    BY <1>2 DEF Quiet, BurnInv
  <2>2. /\ Cardinality(Burning(l)) \in Nat /\ Cardinality(Burning(l)') \in Nat
        /\ Cardinality(Burning(l)) <= Cardinality(Burning(l)')
    <3>1. Burning(l) \in SUBSET Requests /\ Burning(l)' \in SUBSET Requests
      BY DEF Burning
    <3> QED  BY <2>1, <3>1, Sizes
  <2>3. attempts'[l] = attempts[l] /\ tried'[l] = tried[l] /\ attempts[l] \in Nat /\ CODE_MAX_ATTEMPTS \in Nat
    BY SignInConstants DEF Quiet, Typed, TypeOK
  <2> QED  BY <2>1, <2>2, <2>3
<1>3. faults' = 0 => tried'[l] <= CODE_MAX_ATTEMPTS - 1 + Cardinality(Requests)
  BY DEF Quiet, BurnInv
<1> QED  BY <1>1, <1>2, <1>3 DEF BurnInv

LEMMA CountBurn ==
  ASSUME Typed, NEW r \in Requests, NEW l \in Links, BurnInv(l), CountAttempt(r), job[r].link = l,
         link[l] = "open"
  PROVE  BurnInv(l)'
<1>1. /\ attempts[l] \in Nat /\ attempts'[l] = attempts[l] + 1 /\ CODE_MAX_ATTEMPTS \in Nat
      /\ UNCHANGED <<link, tried, faults>> /\ At(r, "count")
  BY SignInConstants DEF CountAttempt, Unconsumed, Typed, TypeOK, history
<1>2. /\ \A v \in Requests \ {r} : job'[v] = job[v]
      /\ attempts[l] + 1 >= CODE_MAX_ATTEMPTS => job'[r].pc = "burn" /\ job'[r].link = l
      /\ ~(attempts[l] + 1 >= CODE_MAX_ATTEMPTS) => job'[r].pc = "idle"
  BY DEF CountAttempt, Unconsumed, Goto, Finish, Idle, Typed, TypeOK, Job
<1>4. job'[r].pc # "count"
  BY <1>2
<1>5. Counting(l) = Counting(l)' \cup {r} /\ r \notin Counting(l)'
  BY <1>1, <1>2, <1>4 DEF Counting, At
<1>s. /\ Counting(l) \in SUBSET Requests /\ Counting(l)' \in SUBSET Requests
      /\ Burning(l) \in SUBSET Requests /\ Burning(l)' \in SUBSET Requests
  BY DEF Counting, Burning
<1>6. /\ Cardinality(Counting(l)) = Cardinality(Counting(l)') + 1
      /\ Cardinality(Counting(l)') \in Nat /\ Cardinality(Burning(l)) \in Nat
      /\ Cardinality(Burning(l)') \in Nat
  BY <1>5, <1>s, Sizes
<1>7. attempts[l] + 1 >= CODE_MAX_ATTEMPTS => Cardinality(Burning(l)') = Cardinality(Burning(l)) + 1
  <2>1. SUFFICES ASSUME attempts[l] + 1 >= CODE_MAX_ATTEMPTS
                 PROVE  Burning(l)' = Burning(l) \cup {r} /\ r \notin Burning(l)
    BY <1>s, Sizes
  <2> QED  BY <1>1, <1>2, <2>1 DEF Burning, At
<1>8. faults = 0 =>
        /\ tried'[l] = attempts'[l] + Cardinality(Counting(l)')
        /\ attempts'[l] <= CODE_MAX_ATTEMPTS - 1 + Cardinality(Burning(l)')
  BY <1>1, <1>6, <1>7 DEF BurnInv
<1> QED  BY <1>1, <1>8 DEF BurnInv

LEMMA CompareBurn ==
  ASSUME Typed, NEW r \in Requests, NEW l \in Links, BurnInv(l), ReadCode(r), job[r].link = l,
         link[l] = "open", Goto(r, "count"), tried' = [tried EXCEPT ![l] = @ + 1]
  PROVE  BurnInv(l)'
<1>1. /\ attempts[l] \in Nat /\ tried'[l] = tried[l] + 1 /\ CODE_MAX_ATTEMPTS \in Nat
      /\ UNCHANGED <<link, attempts, faults>> /\ At(r, "code")
  BY SignInConstants DEF ReadCode, Typed, TypeOK, linkVars
<1>2. /\ \A v \in Requests \ {r} : job'[v] = job[v]
      /\ job'[r].pc = "count" /\ job'[r].link = l
  BY DEF Goto, Typed, TypeOK, Job
<1>3. /\ Counting(l)' = Counting(l) \cup {r} /\ r \notin Counting(l)
      /\ Burning(l)' = Burning(l)
  BY <1>1, <1>2 DEF Counting, Burning, At
<1>4. /\ Cardinality(Counting(l)') = Cardinality(Counting(l)) + 1
      /\ Cardinality(Counting(l)) \in Nat /\ Cardinality(Burning(l)) \in Nat
      /\ Cardinality(Requests) \in Nat
  <2>1. /\ Counting(l) \in SUBSET Requests /\ Counting(l)' \in SUBSET Requests
        /\ Burning(l) \in SUBSET Requests
    BY DEF Counting, Burning
  <2> QED  BY <1>3, <2>1, Sizes
<1>5. Cardinality(Counting(l)') + Cardinality(Burning(l)) <= Cardinality(Requests)
  <2>1. (Cardinality(Guessing(l)) = Cardinality(Counting(l)) + Cardinality(Burning(l))
          /\ Cardinality(Guessing(l)) <= Cardinality(Requests))'
    <3>1. /\ Guessing(l)' = Counting(l)' \cup Burning(l)' /\ Counting(l)' \cap Burning(l)' = {}
          /\ Guessing(l)' \in SUBSET Requests /\ Counting(l)' \in SUBSET Requests
          /\ Burning(l)' \in SUBSET Requests
      BY DEF Guessing, Counting, Burning
    <3>2. IsFiniteSet(Counting(l)') /\ IsFiniteSet(Burning(l)')
      BY <3>1, SignInConstants, FS_Subset
    <3>3. Cardinality(Counting(l)' \cup Burning(l)')
            = Cardinality(Counting(l)') + Cardinality(Burning(l)') - 0
      BY <3>1, <3>2, FS_Union, FS_EmptySet
    <3>4. Cardinality(Counting(l)') \in Nat /\ Cardinality(Burning(l)') \in Nat
      BY <3>2, FS_CardinalityType
    <3>5. Cardinality(Guessing(l)') <= Cardinality(Requests)
      BY <3>1, Sizes
    <3> QED  BY <3>1, <3>3, <3>4, <3>5
  <2> QED  BY <1>3, <2>1
<1>6. faults = 0 =>
        /\ tried'[l] = attempts'[l] + Cardinality(Counting(l)')
        /\ attempts'[l] <= CODE_MAX_ATTEMPTS - 1 + Cardinality(Burning(l)')
        /\ tried'[l] <= CODE_MAX_ATTEMPTS - 1 + Cardinality(Requests)
  BY <1>1, <1>3, <1>4, <1>5 DEF BurnInv
<1> QED  BY <1>1, <1>6 DEF BurnInv

LEMMA InsertBurn ==
  ASSUME Typed, NEW r \in Requests, NEW l \in Links, BurnInv(l), InsertLink(r), job[r].link = l,
         link[l] = "none"
  PROVE  BurnInv(l)'
<1>1. /\ attempts'[l] = 0 /\ tried'[l] = 0 /\ link'[l] = "open" /\ Counting(l) = {} /\ faults' = faults
      /\ \A v \in Requests \ {r} : job'[v] = job[v]
      /\ job'[r].pc = "send"
  BY DEF InsertLink, BurnInv, Goto, Typed, TypeOK, Job, history
<1>2. Counting(l)' = {}
  BY <1>1 DEF Counting
<1>3. Cardinality(Burning(l)') \in Nat /\ Cardinality(Requests) \in Nat
  <2>1. Burning(l)' \in SUBSET Requests
    BY DEF Burning
  <2> QED  BY <2>1, Sizes
<1> QED  BY <1>1, <1>2, <1>3, SignInConstants, FS_EmptySet DEF BurnInv

\* A handler that has nothing to do with the codes of l.
LEMMA OthersQuiet ==
  ASSUME Typed, NEW r \in Requests, NEW l \in Links, \A v \in Requests \ {r} : job'[v] = job[v],
         attempts'[l] = attempts[l], tried'[l] = tried[l], faults' = faults,
         link'[l] = "none" => link[l] = "none",
         job'[r].pc # "count" \/ job'[r].link # l,
         link'[l] = "open" =>
             link[l] = "open" /\ (job[r].link = l => job[r].pc \notin {"count", "burn"})
  PROVE  Quiet(l)
  BY DEF Quiet, Counting, Burning

LEMMA BurnStep ==
  ASSUME Typed, Asked, [Next]_vars, NEW l \in Links, BurnInv(l)
  PROVE  BurnInv(l)'
<1>a. ASSUME NEW r \in Requests, Handle(r) \/ CallFails(r) PROVE \A v \in Requests \ {r} : job'[v] = job[v]
  BY <1>a, HandlersAdvance DEF Advances
<1>o. ASSUME NEW r \in Requests, CountAttempt(r) \/ ReadCode(r) \/ BurnLink(r) \/ InsertLink(r),
             job[r].link # l
      PROVE  Quiet(l)
  <2>1. /\ attempts'[l] = attempts[l] /\ tried'[l] = tried[l] /\ link'[l] = link[l] /\ faults' = faults
    BY <1>o DEF CountAttempt, ReadCode, BurnLink, InsertLink, Typed, TypeOK, linkVars, history
  <2>2. job'[r].pc # "count" \/ job'[r].link # l
    BY <1>o, HandlersAdvance DEF Handle, Advances, Idle
  <2> QED  BY <1>a, <1>o, <2>1, <2>2, OthersQuiet DEF Handle
<1>1. ASSUME NEW r \in Requests, CountAttempt(r) PROVE BurnInv(l)'
  <2>1. CASE job[r].link = l /\ link[l] = "open"
    BY <1>1, <2>1, CountBurn
  <2>2. CASE job[r].link = l /\ link[l] # "open"
    <3>1. UNCHANGED <<attempts, tried, link, faults>> /\ job'[r].pc = "idle"
      BY <1>1, <2>2 DEF CountAttempt, Unconsumed, Finish, Idle, Typed, TypeOK, history
    <3> QED  BY <1>1, <1>a, <2>2, <3>1, OthersQuiet, QuietBurn DEF Handle
  <2> QED  BY <1>1, <1>o, <2>1, <2>2, QuietBurn
<1>2. ASSUME NEW r \in Requests, ReadCode(r) PROVE BurnInv(l)'
  <2>1. CASE job[r].link = l /\ link[l] = "open" /\ Goto(r, "count") /\ tried' = [tried EXCEPT ![l] = @ + 1]
    BY <1>2, <2>1, CompareBurn
  <2>2. CASE job[r].link = l /\ UNCHANGED tried /\ (Goto(r, "use") \/ Finish(r))
    <3>1. UNCHANGED <<attempts, link, faults>> /\ job'[r].pc # "count" /\ job[r].pc = "code"
      BY <1>2, <2>2 DEF ReadCode, At, Goto, Finish, Idle, Typed, TypeOK, Job, linkVars
    <3> QED  BY <1>2, <1>a, <2>2, <3>1, OthersQuiet, QuietBurn DEF Handle
  <2>3. job[r].link = l =>
          \/ link[l] = "open" /\ Goto(r, "count") /\ tried' = [tried EXCEPT ![l] = @ + 1]
          \/ UNCHANGED tried /\ (Goto(r, "use") \/ Finish(r))
    BY <1>2 DEF ReadCode, Unconsumed
  <2> QED  BY <1>2, <1>o, <2>1, <2>2, <2>3, QuietBurn
<1>3. ASSUME NEW r \in Requests, InsertLink(r) PROVE BurnInv(l)'
  <2>1. link[job[r].link] = "none"
    BY <1>3 DEF InsertLink, At, Typed, WellFormed, Serves, Asked, Early
  <2> QED  BY <1>3, <1>o, <2>1, InsertBurn, QuietBurn
<1>4. ASSUME NEW r \in Requests, BurnLink(r) PROVE BurnInv(l)'
  <2>1. CASE job[r].link = l
    <3>1. /\ UNCHANGED <<attempts, tried, faults>> /\ job'[r].pc = "idle" /\ link'[l] # "open"
          /\ link'[l] = "none" => link[l] = "none"
      BY <1>4, <2>1 DEF BurnLink, Unconsumed, Finish, Idle, Typed, TypeOK, history
    <3> QED  BY <1>4, <1>a, <2>1, <3>1, OthersQuiet, QuietBurn DEF Handle
  <2> QED  BY <1>4, <1>o, <2>1, QuietBurn
<1>5. ASSUME NEW r \in Requests, Handle(r),
             ~CountAttempt(r), ~ReadCode(r), ~InsertLink(r), ~BurnLink(r)
      PROVE  BurnInv(l)'
  <2>1. /\ UNCHANGED <<attempts, tried, faults>>
        /\ job[r].pc \notin {"count", "burn"} /\ job'[r].pc # "count"
        /\ link' = link \/ \E k \in Links : link' = [link EXCEPT ![k] = "used"]
    <3> USE DEF At, Goto, Finish, Idle, HaveUser, AfterUser, Typed, TypeOK, Job, linkVars, history
    <3>1. CASE FindUser(r) \/ CreateUser(r) \/ RecheckUser(r)
      BY <3>1 DEF FindUser, CreateUser, RecheckUser
    <3>2. CASE SendMagicLink(r) \/ Reply(r) \/ ReadLink(r) \/ IssueCode(r) \/ CreateSession(r)
      BY <3>2 DEF SendMagicLink, Reply, ReadLink, IssueCode, CreateSession
    <3>3. CASE UseLink(r)
      <4>1. job[r].link \in Links
        BY <3>3 DEF UseLink, WellFormed
      <4> QED  BY <3>3, <4>1 DEF UseLink
    <3> QED  BY <1>5, <3>1, <3>2, <3>3 DEF Handle
  <2>2. /\ link'[l] = "none" => link[l] = "none"
        /\ link'[l] = "open" => link[l] = "open"
    BY <2>1 DEF Typed, TypeOK
  <2> QED  BY <1>5, <1>a, <2>1, <2>2, OthersQuiet, QuietBurn
<1>6. ASSUME NEW r \in Requests, Arrive(r) PROVE BurnInv(l)'
  <2> DEFINE Begins == /\ job[r] = Idle /\ UNCHANGED <<link, attempts, tried, faults>>
                       /\ \A v \in Requests \ {r} : job'[v] = job[v]
                       /\ job'[r].pc \in {"find", "claim", "code"}
  <2>1. Begins
    <3> USE DEF Begin, Idle, Typed, TypeOK, linkVars, history
    <3>1. (\E b \in Browsers, k \in Links : RequestLink(r, b, k)) => Begins
      BY DEF RequestLink
    <3>2. (\E b \in Browsers, k \in Links : OpenLink(r, b, k)) => Begins
      BY DEF OpenLink
    <3>3. (\E b \in Browsers, right \in BOOLEAN : EnterCode(r, b, right)) => Begins
      BY DEF EnterCode
    <3> QED  BY <1>6, <3>1, <3>2, <3>3 DEF Arrive
  <2>2. job[r].pc = "idle"
    BY <2>1 DEF Idle
  <2> QED  BY <2>1, <2>2, OthersQuiet, QuietBurn
<1>7. ASSUME (\E r \in Requests : CallFails(r)) \/ Crash PROVE BurnInv(l)'
  <2>1. /\ UNCHANGED <<attempts, tried, link>> /\ faults' = faults + 1 /\ faults \in Nat
    BY <1>7, SignInConstants DEF CallFails, Crash, Typed, TypeOK, linkVars, history
  <2>2. Counting(l)' \subseteq Counting(l)
    <3>1. CASE Crash
      BY <3>1 DEF Crash, Idle, Counting
    <3>2. ASSUME NEW r \in Requests, CallFails(r) PROVE Counting(l)' \subseteq Counting(l)
      <4>1. job'[r].pc # "count"
        BY <3>2 DEF CallFails, Goto, Finish, Idle, Typed, TypeOK, Job
      <4> QED  BY <1>a, <3>2, <4>1 DEF Counting
    <3> QED  BY <1>7, <3>1, <3>2
  <2> QED  BY <2>1, <2>2, QuietBurn DEF Quiet
<1>8. ASSUME (\E k \in Links : Expire(k)) \/ (\E m \in Emails : EraseAccount(m)) \/ UNCHANGED vars
      PROVE  BurnInv(l)'
  <2>1. /\ UNCHANGED <<attempts, tried, faults, job>>
        /\ link'[l] = "none" => link[l] = "none"
        /\ link'[l] = "open" => link[l] = "open"
    BY <1>8 DEF Expire, EraseAccount, vars, linkVars, history
  <2>2. Counting(l)' = Counting(l) /\ Burning(l)' = Burning(l)
    BY <2>1 DEF Counting, Burning
  <2> QED  BY <2>1, <2>2, QuietBurn DEF Quiet
<1> QED
  BY <1>1, <1>2, <1>3, <1>4, <1>5, <1>6, <1>7, <1>8 DEF Next

\* Absent failed calls a link lets CODE_MAX_ATTEMPTS wrong codes be tried one after
\* the other, and one more for each request that tries its own before the others
\* are counted (auth/magicLinks.ts:201-246).
THEOREM CodesBurn == Spec => []AttemptsBurn
<1> DEFINE Burns == \A l \in Links : BurnInv(l)
<1>1. Init => Burns
  <2> SUFFICES ASSUME Init, NEW l \in Links PROVE BurnInv(l)
    OBVIOUS
  <2>1. link[l] = "none" /\ attempts[l] = 0 /\ tried[l] = 0 /\ Counting(l) = {}
    BY DEF Init, Idle, Counting
  <2>2. Cardinality(Requests) \in Nat
    BY Sizes
  <2> QED  BY <2>1, <2>2, SignInConstants DEF BurnInv
<1>2. Typed /\ Asked /\ Burns /\ [Next]_vars => Burns'
  <2> SUFFICES ASSUME Typed, Asked, Burns, [Next]_vars, NEW l \in Links PROVE BurnInv(l)'
    OBVIOUS
  <2> QED  BY BurnStep
<1>3. Typed /\ Burns => AttemptsBurn
  <2> SUFFICES ASSUME Typed, Burns, faults = 0, NEW l \in Links
               PROVE  /\ Unconsumed(l) => tried[l] <= CODE_MAX_ATTEMPTS - 1 + Cardinality(Guessing(l))
                      /\ tried[l] <= CODE_MAX_ATTEMPTS - 1 + Cardinality(Requests)
    BY DEF AttemptsBurn
  <2>1. /\ attempts[l] \in Nat /\ CODE_MAX_ATTEMPTS \in Nat
        /\ Cardinality(Counting(l)) \in Nat /\ Cardinality(Burning(l)) \in Nat
    <3>1. Counting(l) \in SUBSET Requests /\ Burning(l) \in SUBSET Requests
      BY DEF Counting, Burning
    <3> QED  BY <3>1, Sizes, SignInConstants DEF Typed, TypeOK
  <2> QED  BY <2>1, GuessingSum DEF BurnInv, Unconsumed
<1> HIDE DEF Burns
<1> QED
  BY <1>1, <1>2, <1>3, Typing, BoundInit, BoundStep, AskedInit, AskedStep, PTL DEF Spec

=============================================================================
