----------------------------- MODULE Accounts_proofs -----------------------------
(* Proofs of the properties of Accounts, for every value of its constants. *)
EXTENDS Accounts, TLAPS

-----------------------------------------------------------------------------
(* Type correctness, and what a request has read and written. *)

\* The user of a request is known at these awaits.
Known == {"findSession", "storeSession", "verifyUser", "updateToken", "voidTokens",
          "createToken", "resetPassword", "findUser", "changePassword", "dropSession",
          "addMail"}

\* Where the next locals of a request belong to its operation.
Proper(w, users) ==
  /\ w.pc \in PcsOf(w.op)
  /\ w.op \in {"login", "resend", "forgot"} => w.email \in Emails
  /\ w.op \in {"register", "change", "refresh"} => w.user \in Users
  /\ w.op = "register" => w.user = <<w.slug, w.email>> /\ w.password \in Passwords
  /\ w.op \in {"reset", "change"} => w.newPassword \in Passwords
  /\ w.pc \in Known => w.user \in Users /\ (w.op # "refresh" => users[w.user] # None)
  /\ w.op \in {"login", "refresh"} /\ w.answer = "ok" => w.user \in Users
  /\ w.pc # "done" => w.answer = "none" /\ w.stop = "idle"
  /\ w.wrote => w.pc \in {"dropSession", "addMail", "done"}

LEMMA ProperIsRequestState ==
  \A r \in Requests : RequestState(r) <=> Proper(req[r], user)
BY DEF RequestState, Proper, Known, Exists

LEMMA InitKeeps == Init => AccountsInv
<1> SUFFICES ASSUME Init PROVE AccountsInv
  OBVIOUS
<1>1. Blank \in Request
  BY DEF Blank, Request, Op, Pc
<1>2. user \in [Users -> UserRow \cup {None}]
  BY AccountsAssumption DEF Init, InitialRow, UserRow
<1>3. tenant \in SUBSET Slugs
  BY DEF Init, Users
<1>4. mail \in [Requests -> MailJob]
  BY DEF Init, MailJob
<1>5. TypeOK
  BY <1>1, <1>2, <1>3, <1>4 DEF Init, TypeOK
<1>6. \A r \in Requests : /\ req[r] = Blank /\ mail[r].state = "none"
                          /\ resetToken[r] = "none" /\ r \notin delivered
  BY DEF Init
<1>7. \A r \in Requests : req[r].op = "none" /\ req[r].pc = "idle" /\ req[r].answer = "none"
                          /\ req[r].stop = "idle" /\ ~req[r].wrote
  BY <1>6 DEF Blank
<1>8. \A u \in Users : Exists(u) => user[u].token = None
                                    /\ (user[u].verified => Existing[u] = "verified")
  <2> SUFFICES ASSUME NEW u \in Users, Exists(u)
               PROVE  user[u].token = None /\ (user[u].verified => Existing[u] = "verified")
    OBVIOUS
  <2>1. PICK password \in Passwords : user[u] = InitialRow(u, password)
    BY DEF Init
  <2>2. user[u] = [password |-> password, verified |-> Existing[u] = "verified",
                   token |-> None, version |-> 0]
    BY <2>1 DEF InitialRow, Exists
  <2>3. user[u].token = None
    BY <2>2
  <2>4. CASE Existing[u] # "verified"
    <3>1. user[u] = [password |-> password, verified |-> FALSE, token |-> None, version |-> 0]
      BY <2>2, <2>4
    <3> QED BY <2>3, <3>1
  <2> QED BY <2>3, <2>4
<1>9. \A r \in Requests : RequestState(r)
  <2>1. "idle" \in PcsOf("none")
    BY DEF PcsOf
  <2> QED BY <1>7, <2>1 DEF RequestState
<1>13. \A r \in Requests : LinkState(r)
  BY <1>6, <1>7, <1>8, AccountsAssumption DEF LinkState
<1>10. RegisterState /\ RaceState /\ SessionState
  BY <1>6, <1>7 DEF RegisterState, RaceState, SessionState
<1>11. LinkFollowsToken /\ OneOwner /\ VerifiedThroughLink /\ LinkSetsOnePassword
       /\ OneUsableLink
  BY <1>6, <1>7, <1>8 DEF LinkFollowsToken, OneOwner, VerifiedThroughLink,
     LinkSetsOnePassword, OneUsableLink
<1>12. SessionEndsWithPassword /\ CounterEnds
  BY DEF Init, SessionEndsWithPassword, CounterEnds
<1> QED BY <1>5, <1>9, <1>10, <1>11, <1>12, <1>13 DEF AccountsInv

\* w is q with these fields; what was submitted stays.
Fields(w, q, pc, answer, who, version, overtaken, wrote, stop) ==
  /\ w.op = q.op /\ w.slug = q.slug /\ w.email = q.email /\ w.password = q.password
  /\ w.newPassword = q.newPassword /\ w.link = q.link
  /\ w.pc = pc /\ w.answer = answer /\ w.user = who /\ w.version = version
  /\ w.overtaken = overtaken /\ w.wrote = wrote /\ w.stop = stop

Answers == {"none", "ok", "refused", "failed"}

LEMMA GotoFields ==
  ASSUME NEW q \in Request, NEW pc \in Pc
  PROVE  LET w == [q EXCEPT !.pc = pc]
         IN w \in Request /\ Fields(w, q, pc, q.answer, q.user, q.version, q.overtaken,
                                    q.wrote, q.stop)
BY DEF Request, Fields

LEMMA ReplyFields ==
  ASSUME NEW q \in Request, NEW answer \in Answers
  PROVE  LET w == [q EXCEPT !.pc = "done", !.answer = answer]
         IN w \in Request /\ Fields(w, q, "done", answer, q.user, q.version, q.overtaken,
                                    q.wrote, q.stop)
<1>1. "done" \in Pc
  BY DEF Pc
<1>2. [q EXCEPT !.pc = "done", !.answer = answer] \in Request
  BY <1>1 DEF Request, Answers
<1> QED BY <1>2 DEF Request, Fields

LEMMA FailFields ==
  ASSUME NEW q \in Request
  PROVE  LET w == [q EXCEPT !.pc = "done", !.answer = "failed", !.stop = q.pc]
         IN w \in Request /\ Fields(w, q, "done", "failed", q.user, q.version, q.overtaken,
                                    q.wrote, q.pc)
<1>1. "done" \in Pc
  BY DEF Pc
<1> QED BY <1>1 DEF Request, Fields

LEMMA UserFields ==
  ASSUME NEW q \in Request, NEW pc \in Pc, NEW u \in Users
  PROVE  LET w == [q EXCEPT !.pc = pc, !.user = u]
         IN w \in Request /\ Fields(w, q, pc, q.answer, u, q.version, q.overtaken,
                                    q.wrote, q.stop)
BY DEF Request, Fields

LEMMA LoginFields ==
  ASSUME NEW q \in Request, NEW u \in Users, NEW v \in Nat
  PROVE  LET w == [q EXCEPT !.pc = "storeSession", !.user = u, !.version = v]
         IN w \in Request /\ Fields(w, q, "storeSession", q.answer, u, v, q.overtaken,
                                    q.wrote, q.stop)
<1>1. "storeSession" \in Pc
  BY DEF Pc
<1> QED BY <1>1 DEF Request, Fields

LEMMA SessionFields ==
  ASSUME NEW q \in Request, NEW v \in Nat, NEW o \in BOOLEAN
  PROVE  LET w == [q EXCEPT !.pc = "findSession", !.version = v, !.overtaken = o]
         IN w \in Request /\ Fields(w, q, "findSession", q.answer, q.user, v, o,
                                    q.wrote, q.stop)
<1>1. "findSession" \in Pc
  BY DEF Pc
<1> QED BY <1>1 DEF Request, Fields

LEMMA WroteFields ==
  ASSUME NEW q \in Request, NEW pc \in Pc
  PROVE  LET w == [q EXCEPT !.pc = pc, !.wrote = TRUE]
         IN w \in Request /\ Fields(w, q, pc, q.answer, q.user, q.version, q.overtaken,
                                    TRUE, q.stop)
BY DEF Request, Fields

LEMMA OvertakenFields ==
  ASSUME NEW q \in Request
  PROVE  LET w == [q EXCEPT !.overtaken = TRUE]
         IN w \in Request /\ Fields(w, q, q.pc, q.answer, q.user, q.version, TRUE,
                                    q.wrote, q.stop)
BY DEF Request, Fields

-----------------------------------------------------------------------------
(* How the locals of one request change. *)

Becomes(r, pc, answer, who, version, overtaken, wrote, stop) ==
  /\ req' \in [Requests -> Request]
  /\ \A t \in Requests \ {r} : req'[t] = req[t]
  /\ Fields(req'[r], req[r], pc, answer, who, version, overtaken, wrote, stop)

\* Another await; the answer; with a user found; with a transaction committed.
Went(r, pc) ==
  Becomes(r, pc, req[r].answer, req[r].user, req[r].version, req[r].overtaken,
          req[r].wrote, req[r].stop)
Replied(r, answer) ==
  Becomes(r, "done", answer, req[r].user, req[r].version, req[r].overtaken,
          req[r].wrote, req[r].stop)
Took(r, pc, u) ==
  Becomes(r, pc, req[r].answer, u, req[r].version, req[r].overtaken,
          req[r].wrote, req[r].stop)
Committed(r, pc) ==
  Becomes(r, pc, req[r].answer, req[r].user, req[r].version, req[r].overtaken,
          TRUE, req[r].stop)
Failed(r) ==
  Becomes(r, "done", "failed", req[r].user, req[r].version, req[r].overtaken,
          req[r].wrote, req[r].pc)

LEMMA SetTyped ==
  ASSUME TypeOK, NEW r \in Requests, NEW w \in Request, Set(r, w)
  PROVE  /\ req' \in [Requests -> Request] /\ req'[r] = w
         /\ \A t \in Requests \ {r} : req'[t] = req[t]
BY DEF TypeOK, Set

LEMMA Does ==
  ASSUME TypeOK, NEW r \in Requests
  PROVE  /\ req[r] \in Request
         /\ \A pc \in Pc : Goto(r, pc) => Went(r, pc)
         /\ \A answer \in Answers : Reply(r, answer) => Replied(r, answer)
         /\ Finish(r, req[r]) => Replied(r, "ok") \/ Replied(r, "failed")
         /\ \A pc \in Pc, u \in Users :
              Set(r, [req[r] EXCEPT !.pc = pc, !.user = u]) => Took(r, pc, u)
         /\ \A pc \in Pc :
              Set(r, [req[r] EXCEPT !.pc = pc, !.wrote = TRUE]) => Committed(r, pc)
         /\ Set(r, [req[r] EXCEPT !.pc = "done", !.answer = "failed", !.stop = req[r].pc])
              => Failed(r)
<1>1. req[r] \in Request
  BY DEF TypeOK
<1>2. ASSUME NEW pc \in Pc, Goto(r, pc) PROVE Went(r, pc)
  <2> DEFINE w == [req[r] EXCEPT !.pc = pc]
  <2>1. w \in Request /\ Fields(w, req[r], pc, req[r].answer, req[r].user, req[r].version,
                                req[r].overtaken, req[r].wrote, req[r].stop)
    BY <1>1, GotoFields
  <2>2. Set(r, w)
    BY <1>2 DEF Goto
  <2> HIDE DEF w
  <2> QED BY <2>1, <2>2, SetTyped DEF Went, Becomes
<1>3. ASSUME NEW answer \in Answers, Set(r, [req[r] EXCEPT !.pc = "done", !.answer = answer])
      PROVE  Replied(r, answer)
  <2> DEFINE w == [req[r] EXCEPT !.pc = "done", !.answer = answer]
  <2>1. w \in Request /\ Fields(w, req[r], "done", answer, req[r].user, req[r].version,
                                req[r].overtaken, req[r].wrote, req[r].stop)
    BY <1>1, ReplyFields
  <2>2. Set(r, w)
    BY <1>3
  <2> HIDE DEF w
  <2> QED BY <2>1, <2>2, SetTyped DEF Replied, Becomes
<1>4. \A answer \in Answers : Reply(r, answer) => Replied(r, answer)
  BY <1>3 DEF Reply
<1>5. Finish(r, req[r]) => Replied(r, "ok") \/ Replied(r, "failed")
  <2>1. "ok" \in Answers /\ "failed" \in Answers
    BY DEF Answers
  <2> QED BY <1>3, <2>1 DEF Finish
<1>6. ASSUME NEW pc \in Pc, NEW u \in Users, Set(r, [req[r] EXCEPT !.pc = pc, !.user = u])
      PROVE  Took(r, pc, u)
  <2> DEFINE w == [req[r] EXCEPT !.pc = pc, !.user = u]
  <2>1. w \in Request /\ Fields(w, req[r], pc, req[r].answer, u, req[r].version,
                                req[r].overtaken, req[r].wrote, req[r].stop)
    BY <1>1, UserFields
  <2>2. Set(r, w)
    BY <1>6
  <2> HIDE DEF w
  <2> QED BY <2>1, <2>2, SetTyped DEF Took, Becomes
<1>7. ASSUME NEW pc \in Pc, Set(r, [req[r] EXCEPT !.pc = pc, !.wrote = TRUE])
      PROVE  Committed(r, pc)
  <2> DEFINE w == [req[r] EXCEPT !.pc = pc, !.wrote = TRUE]
  <2>1. w \in Request /\ Fields(w, req[r], pc, req[r].answer, req[r].user, req[r].version,
                                req[r].overtaken, TRUE, req[r].stop)
    BY <1>1, WroteFields
  <2>2. Set(r, w)
    BY <1>7
  <2> HIDE DEF w
  <2> QED BY <2>1, <2>2, SetTyped DEF Committed, Becomes
<1>8. ASSUME Set(r, [req[r] EXCEPT !.pc = "done", !.answer = "failed", !.stop = req[r].pc])
      PROVE  Failed(r)
  <2> DEFINE w == [req[r] EXCEPT !.pc = "done", !.answer = "failed", !.stop = req[r].pc]
  <2>1. w \in Request /\ Fields(w, req[r], "done", "failed", req[r].user, req[r].version,
                                req[r].overtaken, req[r].wrote, req[r].pc)
    BY <1>1, FailFields
  <2>2. Set(r, w)
    BY <1>8
  <2> HIDE DEF w
  <2> QED BY <2>1, <2>2, SetTyped DEF Failed, Becomes
<1> QED BY <1>1, <1>2, <1>4, <1>5, <1>6, <1>7, <1>8

\* A request that goes on meets others that have read what it has just outdated.
Overtaken(t) ==
  Fields(req'[t], req[t], req[t].pc, req[t].answer, req[t].user, req[t].version, TRUE,
         req[t].wrote, req[t].stop)

LEMMA OvertakeDoes ==
  ASSUME TypeOK, NEW r \in Requests, NEW w \in Request, NEW C \in SUBSET Requests,
         req' = [t \in Requests |-> req'[t]], req'[r] = w,
         \A t \in C \ {r} : req'[t] = [req[t] EXCEPT !.overtaken = TRUE],
         \A t \in Requests \ C : t # r => req'[t] = req[t]
  PROVE  /\ req' \in [Requests -> Request] /\ req'[r] = w
         /\ \A t \in C \ {r} : Overtaken(t)
         /\ \A t \in Requests \ C : t # r => req'[t] = req[t]
<1>1. ASSUME NEW t \in Requests \ {r}, t \in C PROVE req'[t] \in Request /\ Overtaken(t)
  <2> DEFINE v == [req[t] EXCEPT !.overtaken = TRUE]
  <2>1. req[t] \in Request
    BY DEF TypeOK
  <2>2. v \in Request /\ Fields(v, req[t], req[t].pc, req[t].answer, req[t].user,
                                req[t].version, TRUE, req[t].wrote, req[t].stop)
    BY <2>1, OvertakenFields
  <2>3. req'[t] = v
    BY <1>1
  <2> HIDE DEF v
  <2> QED BY <2>2, <2>3 DEF Overtaken
<1>2. ASSUME NEW t \in Requests \ {r}, t \notin C PROVE req'[t] = req[t] /\ req'[t] \in Request
  BY <1>2 DEF TypeOK
<1>4. \A t \in Requests : req'[t] \in Request
  BY <1>1, <1>2
<1>5. req' \in [Requests -> Request]
  BY <1>4
<1> QED BY <1>1, <1>2, <1>5

\* The same for the request that moves, the others as OvertakeDoes has it.
Moves(r, pc, wrote) ==
  /\ req' \in [Requests -> Request]
  /\ Fields(req'[r], req[r], pc, req[r].answer, req[r].user, req[r].version,
            req[r].overtaken, wrote, req[r].stop)

LEMMA VoidTokensDoes ==
  ASSUME TypeOK, NEW r \in Requests, VoidTokens(r)
  PROVE  /\ Moves(r, "createToken", req[r].wrote)
         /\ \A t \in Requests \ {r} :
              IF req[t].pc = "createToken" /\ req[t].user = req[r].user
              THEN Overtaken(t) ELSE req'[t] = req[t]
<1> DEFINE w == [req[r] EXCEPT !.pc = "createToken"]
           C == {t \in Requests : req[t].pc = "createToken" /\ req[t].user = req[r].user}
<1>1. req[r] \in Request /\ "createToken" \in Pc
  BY DEF TypeOK, Pc
<1>2. w \in Request /\ Fields(w, req[r], "createToken", req[r].answer, req[r].user,
        req[r].version, req[r].overtaken, req[r].wrote, req[r].stop)
  BY <1>1, GotoFields
<1>3. /\ req' = [t \in Requests |-> req'[t]] /\ req'[r] = w
      /\ \A t \in C \ {r} : req'[t] = [req[t] EXCEPT !.overtaken = TRUE]
      /\ \A t \in Requests \ C : t # r => req'[t] = req[t]
  BY DEF VoidTokens
<1>4. \A t \in Requests :
        t \in C <=> req[t].pc = "createToken" /\ req[t].user = req[r].user
  OBVIOUS
<1>5. C \in SUBSET Requests
  OBVIOUS
<1> HIDE DEF w, C
<1>6. /\ req' \in [Requests -> Request] /\ req'[r] = w
      /\ \A t \in C \ {r} : Overtaken(t)
      /\ \A t \in Requests \ C : t # r => req'[t] = req[t]
  BY <1>2, <1>3, <1>5, OvertakeDoes
<1> QED BY <1>2, <1>4, <1>6 DEF Moves

LEMMA ResetPasswordDoes ==
  ASSUME TypeOK, NEW r \in Requests, ResetPassword(r)
  PROVE  /\ Moves(r, "dropSession", TRUE)
         /\ \A t \in Requests \ {r} :
              IF req[t].pc = "resetPassword" /\ req[t].link = req[r].link
              THEN Overtaken(t) ELSE req'[t] = req[t]
<1> DEFINE w == [req[r] EXCEPT !.pc = "dropSession", !.wrote = TRUE]
           C == {t \in Requests : req[t].pc = "resetPassword" /\ req[t].link = req[r].link}
<1>1. req[r] \in Request /\ "dropSession" \in Pc
  BY DEF TypeOK, Pc
<1>2. w \in Request /\ Fields(w, req[r], "dropSession", req[r].answer, req[r].user,
        req[r].version, req[r].overtaken, TRUE, req[r].stop)
  BY <1>1, WroteFields
<1>3. /\ req' = [t \in Requests |-> req'[t]] /\ req'[r] = w
      /\ \A t \in C \ {r} : req'[t] = [req[t] EXCEPT !.overtaken = TRUE]
      /\ \A t \in Requests \ C : t # r => req'[t] = req[t]
  BY DEF ResetPassword
<1>4. \A t \in Requests :
        t \in C <=> req[t].pc = "resetPassword" /\ req[t].link = req[r].link
  OBVIOUS
<1>5. C \in SUBSET Requests
  OBVIOUS
<1> HIDE DEF w, C
<1>6. /\ req' \in [Requests -> Request] /\ req'[r] = w
      /\ \A t \in C \ {r} : Overtaken(t)
      /\ \A t \in Requests \ C : t # r => req'[t] = req[t]
  BY <1>2, <1>3, <1>5, OvertakeDoes
<1> QED BY <1>2, <1>4, <1>6 DEF Moves

LEMMA DropSessionDoes ==
  ASSUME TypeOK, NEW r \in Requests, DropSession(r)
  PROVE  /\ Moves(r, "addMail", req[r].wrote)
         /\ \A t \in Requests \ {r} :
              IF req[t].pc \in {"findSession", "storeSession"} /\ req[t].user = req[r].user
              THEN Overtaken(t) ELSE req'[t] = req[t]
<1> DEFINE w == [req[r] EXCEPT !.pc = "addMail"]
           C == {t \in Requests : /\ req[t].pc \in {"findSession", "storeSession"}
                                  /\ req[t].user = req[r].user}
<1>1. req[r] \in Request /\ "addMail" \in Pc
  BY DEF TypeOK, Pc
<1>2. w \in Request /\ Fields(w, req[r], "addMail", req[r].answer, req[r].user,
        req[r].version, req[r].overtaken, req[r].wrote, req[r].stop)
  BY <1>1, GotoFields
<1>3. /\ req' = [t \in Requests |-> req'[t]] /\ req'[r] = w
      /\ \A t \in C \ {r} : req'[t] = [req[t] EXCEPT !.overtaken = TRUE]
      /\ \A t \in Requests \ C : t # r => req'[t] = req[t]
  BY DEF DropSession
<1>4. \A t \in Requests :
        t \in C <=> req[t].pc \in {"findSession", "storeSession"}
                    /\ req[t].user = req[r].user
  OBVIOUS
<1>5. C \in SUBSET Requests
  OBVIOUS
<1> HIDE DEF w, C
<1>6. /\ req' \in [Requests -> Request] /\ req'[r] = w
      /\ \A t \in C \ {r} : Overtaken(t)
      /\ \A t \in Requests \ C : t # r => req'[t] = req[t]
  BY <1>2, <1>3, <1>5, OvertakeDoes
<1> QED BY <1>2, <1>4, <1>6 DEF Moves

LEMMA FindLoginDoes ==
  ASSUME TypeOK, NEW r \in Requests, FindLogin(r)
  PROVE  \/ Replied(r, "refused")
         \/ \E u \in Users : /\ Exists(u)
                             /\ Becomes(r, "storeSession", req[r].answer, u, user[u].version,
                                        req[r].overtaken, req[r].wrote, req[r].stop)
<1>1. req[r] \in Request /\ "refused" \in Answers
  BY DEF TypeOK, Answers
<1>2. CASE Reply(r, "refused")
  BY <1>1, <1>2, Does
<1>3. ASSUME NEW u \in Users, Exists(u),
             Set(r, [req[r] EXCEPT !.pc = "storeSession", !.user = u,
                                   !.version = user[u].version])
      PROVE  Becomes(r, "storeSession", req[r].answer, u, user[u].version,
                     req[r].overtaken, req[r].wrote, req[r].stop)
  <2> DEFINE w == [req[r] EXCEPT !.pc = "storeSession", !.user = u,
                                 !.version = user[u].version]
  <2>1. user[u].version \in Nat
    BY <1>3 DEF TypeOK, Exists, UserRow
  <2>2. w \in Request /\ Fields(w, req[r], "storeSession", req[r].answer, u, user[u].version,
                                req[r].overtaken, req[r].wrote, req[r].stop)
    BY <1>1, <2>1, LoginFields
  <2>3. Set(r, w)
    BY <1>3
  <2> HIDE DEF w
  <2> QED BY <2>2, <2>3, SetTyped DEF Becomes
<1> QED BY <1>2, <1>3 DEF FindLogin

LEMMA GetSessionDoes ==
  ASSUME TypeOK, NEW r \in Requests, RequestState(r), GetSession(r)
  PROVE  \/ Replied(r, "refused")
         \/ LET s == session[req[r].user]
            IN /\ s # None
               /\ Becomes(r, "findSession", req[r].answer, req[r].user, s.version,
                          s.overtaken, req[r].wrote, req[r].stop)
<1> DEFINE s == session[req[r].user]
<1>1. req[r] \in Request /\ "refused" \in Answers
  BY DEF TypeOK, Answers
<1>2. CASE Reply(r, "refused")
  BY <1>1, <1>2, Does
<1>3. ASSUME s # None, Set(r, [req[r] EXCEPT !.pc = "findSession", !.version = s.version,
                                             !.overtaken = s.overtaken])
      PROVE  Becomes(r, "findSession", req[r].answer, req[r].user, s.version,
                     s.overtaken, req[r].wrote, req[r].stop)
  <2> DEFINE w == [req[r] EXCEPT !.pc = "findSession", !.version = s.version,
                                 !.overtaken = s.overtaken]
  <2>1. req[r].user \in Users
    BY <1>1 DEF GetSession, RequestState, PcsOf, Request, Op
  <2>2. s.version \in Nat /\ s.overtaken \in BOOLEAN
    BY <1>3, <2>1 DEF TypeOK, Session
  <2>3. Set(r, w)
    BY <1>3
  <2> HIDE DEF s
  <2>4. w \in Request /\ Fields(w, req[r], "findSession", req[r].answer, req[r].user,
                                s.version, s.overtaken, req[r].wrote, req[r].stop)
    BY <1>1, <2>2, SessionFields
  <2> HIDE DEF w
  <2> QED BY <2>3, <2>4, SetTyped DEF Becomes
<1> QED BY <1>2, <1>3 DEF GetSession

\* A request that has been received: what was submitted, and nothing else.
Received(w) ==
  /\ w.answer = "none" /\ w.stop = "idle" /\ w.wrote = FALSE /\ w.overtaken = FALSE
  /\ \/ w.op = "register" /\ w.pc = "findTenant" /\ w.user \in Users
        /\ w.user = <<w.slug, w.email>> /\ w.password \in Passwords
     \/ w.op = "login" /\ w.pc = "findLogin" /\ w.email \in Emails
     \/ w.op = "verify" /\ w.pc = "findLink" /\ w.link \in Links({"register", "resend"})
     \/ w.op = "resend" /\ w.pc = "lockResend" /\ w.email \in Emails
     \/ w.op = "forgot" /\ w.pc = "incrForgot" /\ w.email \in Emails
     \/ w.op = "reset" /\ w.pc = "findToken" /\ w.link \in Links({"forgot"})
        /\ w.newPassword \in Passwords
     \/ w.op = "change" /\ w.pc = "findUser" /\ w.user \in Users /\ Exists(w.user)
        /\ w.newPassword \in Passwords
     \/ w.op = "refresh" /\ w.pc = "getSession" /\ w.user \in Users

LEMMA ReceiveDoes ==
  ASSUME AccountsInv, NEW r \in Requests, Receive(r)
  PROVE  /\ req' \in [Requests -> Request]
         /\ \A t \in Requests \ {r} : req'[t] = req[t]
         /\ Received(req'[r])
<1>1. TypeOK
  BY DEF AccountsInv
<1>2. /\ "idle" \in Pc /\ "findTenant" \in Pc /\ "findLogin" \in Pc /\ "findLink" \in Pc
      /\ "lockResend" \in Pc /\ "incrForgot" \in Pc /\ "findToken" \in Pc
      /\ "findUser" \in Pc /\ "getSession" \in Pc
  BY DEF Pc
<1>3. /\ "register" \in Op /\ "login" \in Op /\ "verify" \in Op /\ "resend" \in Op
      /\ "forgot" \in Op /\ "reset" \in Op /\ "change" \in Op /\ "refresh" \in Op
  BY DEF Op
<1>4. \A ops : Links(ops) \subseteq Requests
  BY <1>1 DEF Links, TypeOK
<1>5. \A s \in Slugs, e \in Emails : <<s, e>> \in Users
  BY DEF Users
<1> SUFFICES \E w \in Request : Set(r, w) /\ Received(w)
  BY <1>1, SetTyped
<1>6. ASSUME NEW s \in Slugs, NEW e \in Emails, NEW p \in Passwords,
             Set(r, [Blank EXCEPT !.op = "register", !.pc = "findTenant", !.slug = s,
                       !.email = e, !.password = p, !.user = <<s, e>>])
      PROVE  \E w \in Request : Set(r, w) /\ Received(w)
  <2> DEFINE v == [Blank EXCEPT !.op = "register", !.pc = "findTenant", !.slug = s,
                !.email = e, !.password = p, !.user = <<s, e>>]
  <2>1. v \in Request /\ Received(v)
    BY <1>2, <1>3, <1>5 DEF Blank, Request, Received
  <2> QED BY <1>6, <2>1
<1>7. ASSUME NEW e \in Emails, NEW p \in Passwords,
             Set(r, [Blank EXCEPT !.op = "login", !.pc = "findLogin", !.email = e,
                       !.password = p])
      PROVE  \E w \in Request : Set(r, w) /\ Received(w)
  <2> DEFINE v == [Blank EXCEPT !.op = "login", !.pc = "findLogin", !.email = e,
                !.password = p]
  <2>1. v \in Request /\ Received(v)
    BY <1>2, <1>3 DEF Blank, Request, Received
  <2> QED BY <1>7, <2>1
<1>8. ASSUME NEW t \in Links({"register", "resend"}),
             Set(r, [Blank EXCEPT !.op = "verify", !.pc = "findLink", !.link = t])
      PROVE  \E w \in Request : Set(r, w) /\ Received(w)
  <2> DEFINE v == [Blank EXCEPT !.op = "verify", !.pc = "findLink", !.link = t]
  <2>1. v \in Request /\ Received(v)
    BY <1>2, <1>3, <1>4 DEF Blank, Request, Received
  <2> QED BY <1>8, <2>1
<1>9. ASSUME NEW e \in Emails, NEW s \in Slugs \cup {None},
             Set(r, [Blank EXCEPT !.op = "resend", !.pc = "lockResend",
                       !.email = e, !.slug = s])
      PROVE  \E w \in Request : Set(r, w) /\ Received(w)
  <2> DEFINE v == [Blank EXCEPT !.op = "resend", !.pc = "lockResend",
                !.email = e, !.slug = s]
  <2>1. v \in Request /\ Received(v)
    BY <1>2, <1>3 DEF Blank, Request, Received
  <2> QED BY <1>9, <2>1
<1>10. ASSUME NEW e \in Emails, NEW s \in Slugs \cup {None},
              Set(r, [Blank EXCEPT !.op = "forgot", !.pc = "incrForgot",
                        !.email = e, !.slug = s])
       PROVE  \E w \in Request : Set(r, w) /\ Received(w)
  <2> DEFINE v == [Blank EXCEPT !.op = "forgot", !.pc = "incrForgot",
                !.email = e, !.slug = s]
  <2>1. v \in Request /\ Received(v)
    BY <1>2, <1>3 DEF Blank, Request, Received
  <2> QED BY <1>10, <2>1
<1>11. ASSUME NEW t \in Links({"forgot"}), NEW p \in Passwords,
              Set(r, [Blank EXCEPT !.op = "reset", !.pc = "findToken", !.link = t,
                        !.newPassword = p])
       PROVE  \E w \in Request : Set(r, w) /\ Received(w)
  <2> DEFINE v == [Blank EXCEPT !.op = "reset", !.pc = "findToken", !.link = t,
                !.newPassword = p]
  <2>1. v \in Request /\ Received(v)
    BY <1>2, <1>3, <1>4 DEF Blank, Request, Received
  <2> QED BY <1>11, <2>1
<1>12. ASSUME NEW u \in Users, NEW p \in Passwords, NEW q \in Passwords, Exists(u),
              Set(r, [Blank EXCEPT !.op = "change", !.pc = "findUser", !.user = u,
                        !.password = p, !.newPassword = q])
       PROVE  \E w \in Request : Set(r, w) /\ Received(w)
  <2> DEFINE v == [Blank EXCEPT !.op = "change", !.pc = "findUser", !.user = u,
                !.password = p, !.newPassword = q]
  <2>1. v \in Request /\ Received(v)
    BY <1>2, <1>3, <1>12 DEF Blank, Request, Received
  <2> QED BY <1>12, <2>1
<1>13. ASSUME NEW t \in Requests, NEW u \in Users,
              Set(r, [Blank EXCEPT !.op = "refresh", !.pc = "getSession", !.link = t,
                        !.user = u])
       PROVE  \E w \in Request : Set(r, w) /\ Received(w)
  <2> DEFINE v == [Blank EXCEPT !.op = "refresh", !.pc = "getSession", !.link = t,
                !.user = u]
  <2>1. v \in Request /\ Received(v)
    BY <1>2, <1>3 DEF Blank, Request, Received
  <2> QED BY <1>13, <2>1
<1>14. \A t \in Issued : t \in Requests /\ req[t].user \in Users
  BY DEF Issued, AccountsInv, RequestState
<1> QED BY <1>6, <1>7, <1>8, <1>9, <1>10, <1>11, <1>12, <1>13, <1>14 DEF Receive

LEMMA CrashDoes ==
  ASSUME TypeOK, Crash
  PROVE  /\ req' \in [Requests -> Request]
         /\ \A t \in Requests :
              \/ req'[t] = req[t] /\ ~Running(t)
              \/ /\ Running(t)
                 /\ Fields(req'[t], req[t], "done", "failed", req[t].user, req[t].version,
                           req[t].overtaken, req[t].wrote, req[t].pc)
<1>1. ASSUME NEW t \in Requests, Running(t)
      PROVE  /\ req'[t] \in Request
             /\ Fields(req'[t], req[t], "done", "failed", req[t].user, req[t].version,
                       req[t].overtaken, req[t].wrote, req[t].pc)
  <2> DEFINE w == [req[t] EXCEPT !.pc = "done", !.answer = "failed", !.stop = req[t].pc]
  <2>1. req'[t] = w /\ req[t] \in Request
    BY <1>1 DEF Crash, TypeOK
  <2>2. w \in Request /\ Fields(w, req[t], "done", "failed", req[t].user, req[t].version,
                                req[t].overtaken, req[t].wrote, req[t].pc)
    BY <2>1, FailFields
  <2> HIDE DEF w
  <2> QED BY <2>1, <2>2
<1>2. ASSUME NEW t \in Requests, ~Running(t) PROVE req'[t] \in Request /\ req'[t] = req[t]
  BY <1>2 DEF Crash, TypeOK
<1>3. req' = [t \in Requests |-> req'[t]]
  BY DEF Crash
<1>4. \A t \in Requests : req'[t] \in Request
  BY <1>1, <1>2
<1>5. req' \in [Requests -> Request]
  BY <1>3, <1>4
<1> QED BY <1>1, <1>2, <1>5

LEMMA PcFacts ==
  /\ "idle" \in Pc /\ "findTenant" \in Pc /\ "createAccount" \in Pc
  /\ "findLogin" \in Pc /\ "getSession" \in Pc /\ "findSession" \in Pc
  /\ "storeSession" \in Pc /\ "findLink" \in Pc /\ "verifyUser" \in Pc
  /\ "lockResend" \in Pc /\ "findResend" \in Pc /\ "updateToken" \in Pc
  /\ "incrForgot" \in Pc /\ "expireForgot" \in Pc /\ "findForgot" \in Pc
  /\ "voidTokens" \in Pc /\ "createToken" \in Pc /\ "findToken" \in Pc
  /\ "resetPassword" \in Pc /\ "findUser" \in Pc /\ "changePassword" \in Pc
  /\ "dropSession" \in Pc /\ "addMail" \in Pc /\ "done" \in Pc
BY DEF Pc

LEMMA AnswerFacts == "ok" \in Answers /\ "refused" \in Answers /\ "failed" \in Answers
BY DEF Answers

-----------------------------------------------------------------------------
(* What a step may do to the locals of any request t. *)

Stable(t) ==
  LET q == req[t]
      w == req'[t]
  IN /\ q.pc = "done" => w = q
     /\ q.pc # "idle" =>
          /\ w.op = q.op /\ w.slug = q.slug /\ w.email = q.email /\ w.link = q.link
          /\ w.password = q.password /\ w.newPassword = q.newPassword
     /\ q.pc \in Known \/ q.op \in {"register", "change", "refresh"} => w.user = q.user
     /\ q.overtaken /\ q.pc \notin {"idle", "getSession"} => w.overtaken
     /\ q.wrote => w.wrote

-----------------------------------------------------------------------------
(* What the handlers do to the locals of their request, and why. *)

LEMMA FindTenantDoes ==
  ASSUME TypeOK, NEW r \in Requests, FindTenant(r)
  PROVE  /\ req[r].pc = "findTenant"
         /\ Replied(r, "refused") \/ Went(r, "createAccount")
BY Does, PcFacts, AnswerFacts DEF FindTenant

LEMMA CreateAccountDoes ==
  ASSUME TypeOK, NEW r \in Requests, CreateAccount(r)
  PROVE  /\ req[r].pc = "createAccount"
         /\ \/ Replied(r, "refused") /\ UNCHANGED tables
            \/ /\ req[r].slug \notin tenant /\ tenant' = tenant \cup {req[r].slug}
               /\ user' = [user EXCEPT ![req[r].user] = NewOwner(r)]
               /\ Committed(r, "addMail")
BY Does, PcFacts, AnswerFacts DEF CreateAccount

LEMMA FindSessionDoes ==
  ASSUME TypeOK, NEW r \in Requests, FindSession(r)
  PROVE  req[r].pc = "findSession" /\ Went(r, "storeSession")
BY Does, PcFacts DEF FindSession

LEMMA StoreSessionDoes ==
  ASSUME TypeOK, NEW r \in Requests, StoreSession(r)
  PROVE  /\ req[r].pc = "storeSession"
         /\ Replied(r, "ok") \/ Replied(r, "failed")
BY Does DEF StoreSession

LEMMA FindLinkDoes ==
  ASSUME TypeOK, NEW r \in Requests, FindLink(r)
  PROVE  /\ req[r].pc = "findLink"
         /\ \/ Replied(r, "refused")
            \/ Replied(r, "ok")
            \/ \E u \in Users : /\ Exists(u) /\ user[u].token = req[r].link
                                /\ Took(r, "verifyUser", u)
BY Does, PcFacts, AnswerFacts DEF FindLink

LEMMA VerifyUserDoes ==
  ASSUME TypeOK, NEW r \in Requests, VerifyUser(r)
  PROVE  /\ req[r].pc = "verifyUser"
         /\ Replied(r, "ok") \/ Replied(r, "failed")
BY Does DEF VerifyUser

LEMMA LockResendDoes ==
  ASSUME TypeOK, NEW r \in Requests, LockResend(r)
  PROVE  /\ req[r].pc = "lockResend"
         /\ Replied(r, "ok") \/ Went(r, "findResend")
BY Does, PcFacts, AnswerFacts DEF LockResend

LEMMA FoundExists ==
  ASSUME NEW r \in Requests, NEW u \in Users, Found(r, u) PROVE Exists(u)
BY DEF Found

LEMMA FindResendDoes ==
  ASSUME TypeOK, NEW r \in Requests, FindResend(r)
  PROVE  /\ req[r].pc = "findResend"
         /\ \/ Replied(r, "ok")
            \/ \E u \in Users : Exists(u) /\ Took(r, "updateToken", u)
BY Does, PcFacts, AnswerFacts, FoundExists DEF FindResend

LEMMA UpdateTokenDoes ==
  ASSUME TypeOK, NEW r \in Requests, UpdateToken(r)
  PROVE  req[r].pc = "updateToken" /\ Went(r, "addMail")
BY Does, PcFacts DEF UpdateToken

LEMMA IncrForgotDoes ==
  ASSUME TypeOK, NEW r \in Requests, IncrForgot(r)
  PROVE  /\ req[r].pc = "incrForgot"
         /\ Replied(r, "ok") \/ Went(r, "expireForgot") \/ Went(r, "findForgot")
BY Does, PcFacts, AnswerFacts DEF IncrForgot

LEMMA ExpireForgotDoes ==
  ASSUME TypeOK, NEW r \in Requests, ExpireForgot(r)
  PROVE  req[r].pc = "expireForgot" /\ Went(r, "findForgot")
BY Does, PcFacts DEF ExpireForgot

LEMMA FindForgotDoes ==
  ASSUME TypeOK, NEW r \in Requests, FindForgot(r)
  PROVE  /\ req[r].pc = "findForgot"
         /\ \/ Replied(r, "ok")
            \/ \E u \in Users : Exists(u) /\ Took(r, "voidTokens", u)
BY Does, PcFacts, AnswerFacts, FoundExists DEF FindForgot

LEMMA CreateTokenDoes ==
  ASSUME TypeOK, NEW r \in Requests, CreateToken(r)
  PROVE  req[r].pc = "createToken" /\ Went(r, "addMail")
BY Does, PcFacts DEF CreateToken

LEMMA FindTokenDoes ==
  ASSUME AccountsInv, NEW r \in Requests, FindToken(r)
  PROVE  /\ req[r].pc = "findToken"
         /\ \/ Replied(r, "refused")
            \/ \E u \in Users : /\ Exists(u) /\ resetToken[req[r].link] = "unused"
                                /\ Took(r, "resetPassword", u)
<1>1. TypeOK /\ RequestState(r) /\ LinkState(r) /\ req[r] \in Request
  BY DEF AccountsInv, TypeOK
<1>2. req[r].op = "reset"
  BY <1>1 DEF FindToken, RequestState, PcsOf, Request, Op
<1>3. /\ req[r].link \in Requests /\ req[r].link \in delivered
  BY <1>1, <1>2 DEF LinkState, Links, TypeOK
<1>4. /\ req[req[r].link].user \in Users /\ Exists(req[req[r].link].user)
  BY <1>3 DEF AccountsInv, LinkState
<1> QED BY <1>1, <1>4, Does, PcFacts, AnswerFacts DEF FindToken

LEMMA FindUserDoes ==
  ASSUME TypeOK, NEW r \in Requests, FindUser(r)
  PROVE  /\ req[r].pc = "findUser"
         /\ Replied(r, "refused") \/ Went(r, "changePassword")
BY Does, PcFacts, AnswerFacts DEF FindUser

LEMMA ChangePasswordDoes ==
  ASSUME TypeOK, NEW r \in Requests, ChangePassword(r)
  PROVE  req[r].pc = "changePassword" /\ Committed(r, "dropSession")
BY Does, PcFacts DEF ChangePassword

LEMMA AddMailDoes ==
  ASSUME TypeOK, NEW r \in Requests, AddMail(r)
  PROVE  /\ req[r].pc = "addMail"
         /\ Replied(r, "ok") \/ Replied(r, "failed")
BY Does DEF AddMail

LEMMA FailDoes ==
  ASSUME TypeOK, NEW r \in Requests, Fail(r) PROVE Running(r) /\ Failed(r)
BY Does DEF Fail

\* Which operation a request is of, by its await.
LEMMA OpAt ==
  ASSUME NEW q \in Request, q.pc \in PcsOf(q.op)
  PROVE  /\ q.pc = "idle" <=> q.op = "none"
         /\ q.pc \in {"findTenant", "createAccount"} => q.op = "register"
         /\ q.pc = "findLogin" => q.op = "login"
         /\ q.pc \in {"getSession", "findSession"} => q.op = "refresh"
         /\ q.pc = "storeSession" => q.op \in {"login", "refresh"}
         /\ q.pc \in {"findLink", "verifyUser"} => q.op = "verify"
         /\ q.pc \in {"lockResend", "findResend", "updateToken"} => q.op = "resend"
         /\ q.pc \in {"incrForgot", "expireForgot", "findForgot", "voidTokens",
                      "createToken"} => q.op = "forgot"
         /\ q.pc \in {"findToken", "resetPassword"} => q.op = "reset"
         /\ q.pc \in {"findUser", "changePassword"} => q.op = "change"
         /\ q.pc = "dropSession" => q.op \in {"reset", "change"}
         /\ q.pc = "addMail" => q.op \in {"register", "resend", "forgot", "reset", "change"}
BY DEF Request, Op, PcsOf

-----------------------------------------------------------------------------
(* Which requests a step moves. *)

Moved(r) ==
  /\ req' \in [Requests -> Request]
  /\ \A t \in Requests \ {r} : req'[t] = req[t] \/ (Overtaken(t) /\ req[t].pc # "done")

LEMMA ShapesAreStable ==
  ASSUME NEW r \in Requests, req[r].pc # "done"
  PROVE  /\ \A answer : Replied(r, answer) => Moved(r) /\ Stable(r)
         /\ \A pc : Went(r, pc) => Moved(r) /\ Stable(r)
         /\ \A pc : Committed(r, pc) => Moved(r) /\ Stable(r)
         /\ Failed(r) => Moved(r) /\ Stable(r)
         /\ req[r].pc \notin Known /\ req[r].op \notin {"register", "change", "refresh"}
              => \A pc, u : Took(r, pc, u) => Moved(r) /\ Stable(r)
         /\ \A pc : Moves(r, pc, req[r].wrote) \/ Moves(r, pc, TRUE) => Stable(r)
BY DEF Moved, Stable, Replied, Went, Committed, Failed, Took, Moves, Becomes, Fields

LEMMA HandleMoves ==
  ASSUME AccountsInv, NEW r \in Requests, Handle(r)
  PROVE  Moved(r) /\ Stable(r)
<1>1. TypeOK /\ RequestState(r) /\ req[r] \in Request /\ req[r].pc \in PcsOf(req[r].op)
  BY DEF AccountsInv, TypeOK, RequestState
<1>2. CASE Receive(r)
  <2>1. Moved(r)
    BY <1>2, ReceiveDoes DEF Moved
  <2>2. req[r].pc = "idle" /\ req[r].op = "none" /\ ~req[r].wrote
    BY <1>1, <1>2, OpAt DEF Receive, RequestState
  <2> QED BY <2>1, <2>2 DEF Stable, Known
<1>3. CASE FindTenant(r)
  BY <1>3, FindTenantDoes, <1>1, ShapesAreStable
<1>4. CASE CreateAccount(r)
  BY <1>4, CreateAccountDoes, <1>1, ShapesAreStable
<1>5. CASE FindLogin(r)
  <2>1. req[r].pc = "findLogin" /\ req[r].op = "login"
    BY <1>1, <1>5, OpAt DEF FindLogin
  <2>2. CASE Replied(r, "refused")
    BY <2>1, <2>2, ShapesAreStable
  <2>3. ASSUME NEW u, NEW v, Becomes(r, "storeSession", req[r].answer, u, v,
                 req[r].overtaken, req[r].wrote, req[r].stop)
        PROVE  Moved(r) /\ Stable(r)
    BY <2>1, <2>3 DEF Moved, Stable, Becomes, Fields, Known
  <2> QED BY <1>1, <1>5, <2>2, <2>3, FindLoginDoes
<1>6. CASE GetSession(r)
  BY <1>6, GetSessionDoes, <1>1, ShapesAreStable DEF GetSession, Moved, Stable,
  Becomes, Fields
<1>7. CASE FindSession(r)
  BY <1>7, FindSessionDoes, <1>1, ShapesAreStable
<1>8. CASE StoreSession(r)
  BY <1>8, StoreSessionDoes, <1>1, ShapesAreStable
<1>9. CASE FindLink(r)
  BY <1>9, FindLinkDoes, <1>1, ShapesAreStable, OpAt DEF Known
<1>10. CASE VerifyUser(r)
  BY <1>10, VerifyUserDoes, <1>1, ShapesAreStable
<1>11. CASE LockResend(r)
  BY <1>11, LockResendDoes, <1>1, ShapesAreStable
<1>12. CASE FindResend(r)
  BY <1>12, FindResendDoes, <1>1, ShapesAreStable, OpAt DEF Known
<1>13. CASE UpdateToken(r)
  BY <1>13, UpdateTokenDoes, <1>1, ShapesAreStable
<1>14. CASE IncrForgot(r)
  BY <1>14, IncrForgotDoes, <1>1, ShapesAreStable
<1>15. CASE ExpireForgot(r)
  BY <1>15, ExpireForgotDoes, <1>1, ShapesAreStable
<1>16. CASE FindForgot(r)
  BY <1>16, FindForgotDoes, <1>1, ShapesAreStable, OpAt DEF Known
<1>17. CASE VoidTokens(r)
  <2>1. Stable(r)
    BY <1>1, <1>17, VoidTokensDoes, ShapesAreStable DEF VoidTokens
  <2> QED BY <1>1, <1>17, <2>1, VoidTokensDoes DEF Moved, Moves
<1>18. CASE CreateToken(r)
  BY <1>18, CreateTokenDoes, <1>1, ShapesAreStable
<1>19. CASE FindToken(r)
  BY <1>19, FindTokenDoes, <1>1, ShapesAreStable, OpAt DEF Known
<1>20. CASE ResetPassword(r)
  <2>1. Stable(r)
    BY <1>1, <1>20, ResetPasswordDoes, ShapesAreStable DEF ResetPassword
  <2> QED BY <1>1, <1>20, <2>1, ResetPasswordDoes DEF Moved, Moves
<1>21. CASE FindUser(r)
  BY <1>21, FindUserDoes, <1>1, ShapesAreStable
<1>22. CASE ChangePassword(r)
  BY <1>22, ChangePasswordDoes, <1>1, ShapesAreStable
<1>23. CASE DropSession(r)
  <2>1. Stable(r)
    BY <1>1, <1>23, DropSessionDoes, ShapesAreStable DEF DropSession
  <2> QED BY <1>1, <1>23, <2>1, DropSessionDoes DEF Moved, Moves
<1>24. CASE AddMail(r)
  BY <1>24, AddMailDoes, <1>1, ShapesAreStable
<1>25. CASE Fail(r)
  BY <1>25, FailDoes, <1>1, ShapesAreStable DEF Running
<1> QED
  BY <1>2, <1>3, <1>4, <1>5, <1>6, <1>7, <1>8, <1>9, <1>10, <1>11, <1>12, <1>13, <1>14,
  <1>15, <1>16, <1>17, <1>18, <1>19, <1>20, <1>21, <1>22, <1>23, <1>24, <1>25 DEF
  Handle

LEMMA MovedStable ==
  ASSUME NEW r \in Requests, Moved(r), Stable(r)
  PROVE  \A t \in Requests : Stable(t)
BY DEF Moved, Stable, Overtaken, Fields

-----------------------------------------------------------------------------
(* What a step may do to a request, beside what Stable says: where it may have *)
(* come from, where it may have gone, and whom it may race with.               *)

Comes(t) ==
  LET q == req[t]
      w == req'[t]
  IN /\ q.pc = "addMail" => w.pc \in {"addMail", "done"}
     /\ w.op = "verify" => w.link \in Links({"register", "resend"})
     /\ w.op = "reset" => w.link \in Links({"forgot"})
     /\ w.pc = "verifyUser" =>
          \/ q.pc = "verifyUser"
          \/ w.user \in Users /\ Exists(w.user) /\ user[w.user].token = w.link
     /\ w.pc = "resetPassword" => q.pc = "resetPassword" \/ resetToken[w.link] = "unused"
     /\ w.op = "register" /\ (w.answer = "ok" \/ w.pc = "addMail") => w.wrote
     /\ w.pc \in {"findSession", "storeSession"} =>
          \/ /\ q.pc \in {"findSession", "storeSession"}
             /\ w.version = q.version
          \/ user' = user /\ Exists(w.user) /\ w.version = user[w.user].version
          \/ /\ user' = user /\ session[w.user] # None
             /\ w.version = session[w.user].version
             /\ w.overtaken = session[w.user].overtaken

\* After DropSession: the session is gone, and whoever is to store one is overtaken.
Dropped(u) ==
  /\ session'[u] = None
  /\ \A t \in Requests :
       req'[t].pc \in {"findSession", "storeSession"} /\ req'[t].user = u
         => req'[t].overtaken

Goes(t) ==
  LET q == req[t]
      w == req'[t]
  IN /\ q.pc = "addMail" => \/ "addMail" \in {w.pc, w.stop}
                            \/ mail'[t].state # "none"
     /\ q.pc = "dropSession" => "dropSession" \in {w.pc, w.stop} \/ Dropped(q.user)
     /\ q.pc = "expireForgot" => "expireForgot" \in {w.pc, w.stop} \/ forgotTtl'[q.email]

\* The others keep what they have written, or not.
Alone(t) == \A s \in Requests \ {t} : req'[s].wrote => req[s].wrote

Races(t) ==
  LET q == req[t]
      w == req'[t]
  IN /\ w.op = "register" /\ w.wrote /\ ~q.wrote =>
          Alone(t) /\ w.slug \notin tenant /\ w.slug \in tenant' /\ user'[w.user] # None
     /\ w.op = "reset" /\ w.wrote /\ ~q.wrote =>
          /\ Alone(t) /\ q.pc = "resetPassword" /\ resetToken'[w.link] = "used"
          /\ \A s \in Requests \ {t} :
               req'[s].pc = "resetPassword" /\ req'[s].link = w.link => req'[s].overtaken
     /\ w.pc = "createToken" /\ q.pc # "createToken" =>
          \A s \in Requests \ {t} : req'[s].user = w.user =>
            /\ resetToken'[s] # "unused"
            /\ req'[s].pc = "createToken" => req'[s].overtaken

\* Whoever does not move comes from nowhere and goes nowhere.
LEMMA StillEffects ==
  ASSUME AccountsInv, NEW t \in Requests,
         req'[t] = req[t] \/ (Overtaken(t) /\ req[t].pc # "done")
  PROVE  Comes(t) /\ Goes(t) /\ Races(t)
<1>1. RequestState(t) /\ LinkState(t) /\ RegisterState
  BY DEF AccountsInv
<1>2. Comes(t)
  BY <1>1 DEF Comes, Overtaken, Fields, LinkState, RegisterState
<1>3. Goes(t) /\ Races(t)
  BY DEF Goes, Races, Overtaken, Fields
<1> QED BY <1>2, <1>3

LEMMA HandleComes ==
  ASSUME AccountsInv, NEW r \in Requests, Handle(r)
  PROVE  Comes(r)
<1>1. /\ TypeOK /\ RequestState(r) /\ LinkState(r) /\ RegisterState /\ req[r] \in Request
      /\ req[r].pc \in PcsOf(req[r].op)
  BY DEF AccountsInv, TypeOK, RequestState
<1>2. CASE Receive(r)
  <2>1. Received(req'[r]) /\ req[r].pc = "idle"
    BY <1>2, ReceiveDoes DEF Receive
  <2> QED BY <2>1 DEF Received, Comes
<1>3. CASE FindTenant(r)
  <2>1. req[r].pc = "findTenant" /\ req[r].op = "register" /\ req[r].answer = "none"
    BY <1>1, <1>3, OpAt DEF FindTenant, RequestState
  <2>2. CASE Replied(r, "refused")
    BY <2>1, <2>2 DEF Comes, Replied, Becomes, Fields
  <2>3. CASE Went(r, "createAccount")
    BY <2>1, <2>3 DEF Comes, Went, Becomes, Fields
  <2> QED BY <1>1, <1>3, <2>2, <2>3, FindTenantDoes
<1>4. CASE CreateAccount(r)
  BY <1>4, CreateAccountDoes, <1>1, OpAt DEF Comes, Replied, Committed, Becomes, Fields
<1>5. CASE FindLogin(r)
  <2>1. req[r].pc = "findLogin" /\ req[r].op = "login" /\ user' = user
    BY <1>1, <1>5, OpAt DEF FindLogin, tables
  <2>2. CASE Replied(r, "refused")
    BY <2>1, <2>2 DEF Comes, Replied, Becomes, Fields
  <2>3. ASSUME NEW u \in Users, Exists(u),
               Becomes(r, "storeSession", req[r].answer, u, user[u].version,
                       req[r].overtaken, req[r].wrote, req[r].stop)
        PROVE  Comes(r)
    BY <2>1, <2>3 DEF Comes, Becomes, Fields
  <2> QED BY <1>1, <1>5, <2>2, <2>3, FindLoginDoes
<1>6. CASE GetSession(r)
  <2> DEFINE s == session[req[r].user]
  <2>1. req[r].pc = "getSession" /\ req[r].op = "refresh" /\ user' = user
    BY <1>1, <1>6, OpAt DEF GetSession, tables
  <2>2. CASE Replied(r, "refused")
    BY <2>1, <2>2 DEF Comes, Replied, Becomes, Fields
  <2>3. ASSUME s # None,
               Becomes(r, "findSession", req[r].answer, req[r].user, s.version,
                       s.overtaken, req[r].wrote, req[r].stop)
        PROVE  Comes(r)
    BY <2>1, <2>3 DEF Comes, Becomes, Fields
  <2> QED BY <1>1, <1>6, <2>2, <2>3, GetSessionDoes
<1>7. CASE FindSession(r)
  BY <1>7, FindSessionDoes, <1>1, OpAt DEF Comes, Went, Becomes, Fields
<1>8. CASE StoreSession(r)
  BY <1>8, StoreSessionDoes, <1>1, OpAt DEF Comes, Replied, Becomes, Fields
<1>9. CASE FindLink(r)
  BY <1>9, FindLinkDoes, <1>1, OpAt DEF Comes, Replied, Took, Becomes, Fields,
  LinkState
<1>10. CASE VerifyUser(r)
  BY <1>10, VerifyUserDoes, <1>1, OpAt DEF Comes, Replied, Becomes, Fields, LinkState
<1>11. CASE LockResend(r)
  BY <1>11, LockResendDoes, <1>1, OpAt DEF Comes, Replied, Went, Becomes, Fields
<1>12. CASE FindResend(r)
  BY <1>12, FindResendDoes, <1>1, OpAt DEF Comes, Replied, Took, Becomes, Fields
<1>13. CASE UpdateToken(r)
  BY <1>13, UpdateTokenDoes, <1>1, OpAt DEF Comes, Went, Becomes, Fields
<1>14. CASE IncrForgot(r)
  BY <1>14, IncrForgotDoes, <1>1, OpAt DEF Comes, Replied, Went, Becomes, Fields
<1>15. CASE ExpireForgot(r)
  BY <1>15, ExpireForgotDoes, <1>1, OpAt DEF Comes, Went, Becomes, Fields
<1>16. CASE FindForgot(r)
  BY <1>16, FindForgotDoes, <1>1, OpAt DEF Comes, Replied, Took, Becomes, Fields
<1>17. CASE VoidTokens(r)
  <2>1. req[r].pc = "voidTokens" /\ req[r].op = "forgot"
    BY <1>1, <1>17, OpAt DEF VoidTokens
  <2>2. req'[r].op = "forgot" /\ req'[r].pc = "createToken"
    BY <1>1, <1>17, <2>1, VoidTokensDoes DEF Moves, Fields
  <2> QED BY <2>1, <2>2 DEF Comes
<1>18. CASE CreateToken(r)
  BY <1>18, CreateTokenDoes, <1>1, OpAt DEF Comes, Went, Becomes, Fields
<1>19. CASE FindToken(r)
  BY <1>19, FindTokenDoes, <1>1, OpAt DEF Comes, Replied, Took, Becomes, Fields,
  LinkState
<1>20. CASE ResetPassword(r)
  <2>1. req[r].pc = "resetPassword" /\ req[r].op = "reset"
    BY <1>1, <1>20, OpAt DEF ResetPassword
  <2>2. req'[r].op = "reset" /\ req'[r].link = req[r].link /\ req'[r].pc = "dropSession"
    BY <1>1, <1>20, <2>1, ResetPasswordDoes DEF Moves, Fields
  <2> QED BY <1>1, <2>1, <2>2 DEF Comes, LinkState
<1>21. CASE FindUser(r)
  BY <1>21, FindUserDoes, <1>1, OpAt DEF Comes, Replied, Went, Becomes, Fields
<1>22. CASE ChangePassword(r)
  BY <1>22, ChangePasswordDoes, <1>1, OpAt DEF Comes, Committed, Becomes, Fields
<1>23. CASE DropSession(r)
  <2>1. req[r].pc = "dropSession" /\ req[r].op \in {"reset", "change"}
    BY <1>1, <1>23, OpAt DEF DropSession
  <2>2. /\ req'[r].op = req[r].op /\ req'[r].link = req[r].link /\ req'[r].pc = "addMail"
    BY <1>1, <1>23, DropSessionDoes DEF Moves, Fields
  <2> QED BY <1>1, <2>1, <2>2 DEF Comes, LinkState
<1>24. CASE AddMail(r)
  BY <1>24, AddMailDoes, <1>1, OpAt DEF Comes, Replied, Becomes, Fields, LinkState,
  RegisterState
<1>25. CASE Fail(r)
  BY <1>25, FailDoes, <1>1, OpAt DEF Comes, Failed, Becomes, Fields, LinkState,
  RegisterState
<1> QED
  BY <1>2, <1>3, <1>4, <1>5, <1>6, <1>7, <1>8, <1>9, <1>10, <1>11, <1>12, <1>13, <1>14,
  <1>15, <1>16, <1>17, <1>18, <1>19, <1>20, <1>21, <1>22, <1>23, <1>24, <1>25 DEF
  Handle

LEMMA NewOwnerIsRow ==
  ASSUME NEW r \in Requests, RequestState(r), req[r].op = "register"
  PROVE  NewOwner(r) \in UserRow
BY DEF RequestState, NewOwner, UserRow

LEMMA HandleGoes ==
  ASSUME AccountsInv, NEW r \in Requests, Handle(r)
  PROVE  Goes(r)
<1>1. TypeOK /\ RequestState(r)
  BY DEF AccountsInv
<1>2. CASE Receive(r)
  BY <1>2, ReceiveDoes DEF Receive, Goes
<1>3. CASE FindTenant(r)
  BY <1>3, FindTenantDoes, <1>1 DEF Goes
<1>4. CASE CreateAccount(r)
  BY <1>4, CreateAccountDoes, <1>1 DEF Goes
<1>5. CASE FindLogin(r)
  BY <1>5, FindLoginDoes DEF FindLogin, Goes
<1>6. CASE GetSession(r)
  BY <1>6, GetSessionDoes, <1>1 DEF GetSession, Goes
<1>7. CASE FindSession(r)
  BY <1>7, FindSessionDoes, <1>1 DEF Goes
<1>8. CASE StoreSession(r)
  BY <1>8, StoreSessionDoes, <1>1 DEF Goes
<1>9. CASE FindLink(r)
  BY <1>9, FindLinkDoes, <1>1 DEF Goes
<1>10. CASE VerifyUser(r)
  BY <1>10, VerifyUserDoes, <1>1 DEF Goes
<1>11. CASE LockResend(r)
  BY <1>11, LockResendDoes, <1>1 DEF Goes
<1>12. CASE FindResend(r)
  BY <1>12, FindResendDoes, <1>1 DEF Goes
<1>13. CASE UpdateToken(r)
  BY <1>13, UpdateTokenDoes, <1>1 DEF Goes
<1>14. CASE IncrForgot(r)
  BY <1>14, IncrForgotDoes, <1>1 DEF Goes
<1>15. CASE ExpireForgot(r)
  <2>1. req[r].pc = "expireForgot" /\ req[r].email \in Emails
    BY <1>1, <1>15, OpAt DEF ExpireForgot, RequestState, TypeOK
  <2>2. forgotTtl'[req[r].email]
    BY <1>1, <1>15, <2>1 DEF ExpireForgot, TypeOK
  <2> QED BY <2>1, <2>2 DEF Goes
<1>16. CASE FindForgot(r)
  BY <1>16, FindForgotDoes, <1>1 DEF Goes
<1>17. CASE VoidTokens(r)
  BY <1>17, VoidTokensDoes, <1>1 DEF VoidTokens, Goes
<1>18. CASE CreateToken(r)
  BY <1>18, CreateTokenDoes, <1>1 DEF Goes
<1>19. CASE FindToken(r)
  BY <1>19, FindTokenDoes, <1>1 DEF Goes
<1>20. CASE ResetPassword(r)
  BY <1>20, ResetPasswordDoes, <1>1 DEF ResetPassword, Goes
<1>21. CASE FindUser(r)
  BY <1>21, FindUserDoes, <1>1 DEF Goes
<1>22. CASE ChangePassword(r)
  BY <1>22, ChangePasswordDoes, <1>1 DEF Goes
<1>23. CASE DropSession(r)
  <2>1. req[r].pc = "dropSession" /\ req[r].user \in Users
    BY <1>1, <1>23 DEF DropSession, RequestState
  <2>2. session'[req[r].user] = None
    BY <1>1, <1>23, <2>1 DEF DropSession, TypeOK
  <2>3. ASSUME NEW t \in Requests, req'[t].user = req[r].user,
               req'[t].pc \in {"findSession", "storeSession"}
        PROVE  req'[t].overtaken
    <3>1. t # r /\ (Overtaken(t) => req'[t].overtaken)
      BY <1>1, <1>23, <2>3, DropSessionDoes DEF Moves, Fields, Overtaken
    <3>2. req'[t] = req[t] => Overtaken(t)
      BY <1>1, <1>23, <2>3, <3>1, DropSessionDoes
    <3> QED BY <1>1, <1>23, <3>1, <3>2, DropSessionDoes
  <2> QED BY <2>1, <2>2, <2>3 DEF Goes, Dropped
<1>24. CASE AddMail(r)
  <2>1. mail'[r].state = "queued"
    BY <1>1, <1>24 DEF AddMail, TypeOK, MailJob
  <2> QED BY <1>1, <1>24, <2>1, AddMailDoes DEF Goes
<1>25. CASE Fail(r)
  BY <1>25, FailDoes, <1>1 DEF Goes, Failed, Becomes, Fields
<1> QED
  BY <1>2, <1>3, <1>4, <1>5, <1>6, <1>7, <1>8, <1>9, <1>10, <1>11, <1>12, <1>13, <1>14,
  <1>15, <1>16, <1>17, <1>18, <1>19, <1>20, <1>21, <1>22, <1>23, <1>24, <1>25 DEF
  Handle

LEMMA HandleRaces ==
  ASSUME AccountsInv, NEW r \in Requests, Handle(r)
  PROVE  Races(r)
<1>1. /\ TypeOK /\ RequestState(r) /\ req[r] \in Request /\ req[r].pc \in PcsOf(req[r].op)
  BY DEF AccountsInv, TypeOK, RequestState
<1>2. CASE Receive(r)
  BY <1>2, ReceiveDoes, <1>1 DEF Received, Races
<1>3. CASE FindTenant(r)
  BY <1>3, FindTenantDoes, <1>1, OpAt DEF Races, Replied, Went, Becomes, Fields
<1>4. CASE CreateAccount(r)
  <2>1. CASE Replied(r, "refused")
    BY <2>1 DEF Races, Replied, Becomes, Fields
  <2>2. CASE /\ req[r].slug \notin tenant /\ tenant' = tenant \cup {req[r].slug}
             /\ user' = [user EXCEPT ![req[r].user] = NewOwner(r)]
             /\ Committed(r, "addMail")
    <3>1. req[r].pc = "createAccount" /\ req[r].op = "register" /\ req[r].user \in Users
      BY <1>1, <1>4, OpAt DEF CreateAccount, RequestState
    <3>2. req'[r].slug = req[r].slug /\ req'[r].user = req[r].user /\ req'[r].op = "register"
          /\ req'[r].pc = "addMail" /\ Alone(r)
      BY <2>2, <3>1 DEF Committed, Becomes, Fields, Alone
    <3>3. NewOwner(r) # None
      BY <1>1, <3>1, NewOwnerIsRow, AccountsAssumption
    <3>4. user'[req[r].user] # None
      BY <1>1, <2>2, <3>1, <3>3 DEF TypeOK
    <3> QED BY <2>2, <3>2, <3>4 DEF Races
  <2> QED BY <1>1, <1>4, <2>1, <2>2, CreateAccountDoes
<1>5. CASE FindLogin(r)
  BY <1>5, FindLoginDoes, <1>1 DEF Races, Replied, Went, Took, Committed, Failed,
  Becomes, Fields
<1>6. CASE GetSession(r)
  BY <1>6, GetSessionDoes, <1>1 DEF Races, Replied, Went, Took, Committed, Failed,
  Becomes, Fields
<1>7. CASE FindSession(r)
  BY <1>7, FindSessionDoes, <1>1, OpAt DEF Races, Went, Becomes, Fields
<1>8. CASE StoreSession(r)
  BY <1>8, StoreSessionDoes, <1>1, OpAt DEF Races, Replied, Becomes, Fields
<1>9. CASE FindLink(r)
  BY <1>9, FindLinkDoes, <1>1, OpAt DEF Races, Replied, Took, Becomes, Fields
<1>10. CASE VerifyUser(r)
  BY <1>10, VerifyUserDoes, <1>1, OpAt DEF Races, Replied, Becomes, Fields
<1>11. CASE LockResend(r)
  BY <1>11, LockResendDoes, <1>1, OpAt DEF Races, Replied, Went, Becomes, Fields
<1>12. CASE FindResend(r)
  BY <1>12, FindResendDoes, <1>1, OpAt DEF Races, Replied, Took, Becomes, Fields
<1>13. CASE UpdateToken(r)
  BY <1>13, UpdateTokenDoes, <1>1, OpAt DEF Races, Went, Becomes, Fields
<1>14. CASE IncrForgot(r)
  BY <1>14, IncrForgotDoes, <1>1, OpAt DEF Races, Replied, Went, Becomes, Fields
<1>15. CASE ExpireForgot(r)
  BY <1>15, ExpireForgotDoes, <1>1, OpAt DEF Races, Went, Becomes, Fields
<1>16. CASE FindForgot(r)
  BY <1>16, FindForgotDoes, <1>1, OpAt DEF Races, Replied, Took, Becomes, Fields
<1>17. CASE VoidTokens(r)
  <2>1. /\ Moves(r, "createToken", req[r].wrote)
        /\ \A t \in Requests \ {r} :
             IF req[t].pc = "createToken" /\ req[t].user = req[r].user
             THEN Overtaken(t) ELSE req'[t] = req[t]
    BY <1>1, <1>17, VoidTokensDoes
  <2>2. req[r].op = "forgot"
    BY <1>1, <1>17, OpAt DEF VoidTokens
  <2>3. req'[r].op = "forgot" /\ req'[r].user = req[r].user
    BY <2>1, <2>2 DEF Moves, Fields
  <2>4. ASSUME NEW s \in Requests \ {r}, req'[s].user = req[r].user
        PROVE  /\ resetToken'[s] # "unused"
               /\ req'[s].pc = "createToken" => req'[s].overtaken
    <3>1. req[s].user = req[r].user /\ req[s].pc = req'[s].pc
      BY <2>1, <2>4 DEF Overtaken, Fields
    <3>2. resetToken'[s] # "unused"
      BY <1>17, <3>1 DEF VoidTokens
    <3> QED BY <2>1, <3>1, <3>2 DEF Overtaken, Fields
  <2> QED BY <2>3, <2>4 DEF Races
<1>18. CASE CreateToken(r)
  BY <1>18, CreateTokenDoes, <1>1, OpAt DEF Races, Went, Becomes, Fields
<1>19. CASE FindToken(r)
  BY <1>19, FindTokenDoes, <1>1, OpAt DEF Races, Replied, Took, Becomes, Fields
<1>20. CASE ResetPassword(r)
  <2>1. /\ Moves(r, "dropSession", TRUE)
        /\ \A t \in Requests \ {r} :
             IF req[t].pc = "resetPassword" /\ req[t].link = req[r].link
             THEN Overtaken(t) ELSE req'[t] = req[t]
    BY <1>1, <1>20, ResetPasswordDoes
  <2>2. req[r].pc = "resetPassword" /\ req[r].op = "reset" /\ req[r].link \in Requests
    BY <1>1, <1>20, OpAt DEF ResetPassword, AccountsInv, LinkState, Links, TypeOK
  <2>3. req'[r].op = "reset" /\ req'[r].link = req[r].link /\ req'[r].pc = "dropSession"
    BY <2>1, <2>2 DEF Moves, Fields
  <2>4. resetToken'[req[r].link] = "used"
    BY <1>1, <1>20, <2>2 DEF ResetPassword, TypeOK
  <2>5. Alone(r) /\ \A s \in Requests \ {r} :
          req'[s].pc = "resetPassword" /\ req'[s].link = req[r].link => req'[s].overtaken
    BY <2>1 DEF Alone, Overtaken, Fields
  <2> QED BY <2>2, <2>3, <2>4, <2>5 DEF Races
<1>21. CASE FindUser(r)
  BY <1>21, FindUserDoes, <1>1, OpAt DEF Races, Replied, Went, Becomes, Fields
<1>22. CASE ChangePassword(r)
  BY <1>22, ChangePasswordDoes, <1>1, OpAt DEF Races, Committed, Becomes, Fields
<1>23. CASE DropSession(r)
  BY <1>23, DropSessionDoes, <1>1 DEF Races, Moves, Fields
<1>24. CASE AddMail(r)
  BY <1>24, AddMailDoes, <1>1, OpAt DEF Races, Replied, Becomes, Fields
<1>25. CASE Fail(r)
  BY <1>25, FailDoes, <1>1, OpAt DEF Races, Failed, Becomes, Fields
<1> QED
  BY <1>2, <1>3, <1>4, <1>5, <1>6, <1>7, <1>8, <1>9, <1>10, <1>11, <1>12, <1>13, <1>14,
  <1>15, <1>16, <1>17, <1>18, <1>19, <1>20, <1>21, <1>22, <1>23, <1>24, <1>25 DEF
  Handle

-----------------------------------------------------------------------------
(* What a step may do to the tables, to Redis and to the e-mail jobs. *)

Kept == tenant \subseteq tenant' /\ \A u \in Users : Exists(u) => user'[u] # None

RowMay(u) ==
  LET o == user[u]
      n == user'[u]
  IN n # None =>
       /\ n.token # None =>
            \/ Exists(u) /\ n.token = o.token /\ (o.verified => n.verified)
            \/ \E t \in Requests : /\ n.token = t /\ req'[t].pc = "addMail"
                                   /\ req'[t].op \in {"register", "resend"}
                                   /\ req'[t].user = u
       /\ n.verified =>
            \/ Exists(u) /\ o.verified
            \/ \E t \in Requests : req[t].pc = "verifyUser" /\ req[t].user = u
       /\ \/ n.version = 0
          \/ Exists(u) /\ n.version = o.version
          \/ \E t \in Requests : req'[t].pc = "dropSession" /\ req'[t].user = u

TokenMay(t) ==
  /\ resetToken[t] = "used" => resetToken'[t] = "used"
  /\ resetToken'[t] # "none" =>
       \/ resetToken[t] # "none"
       \/ /\ req'[t].op = "forgot" /\ req'[t].pc \in {"addMail", "done"}
          /\ req'[t].user \in Users
  /\ resetToken'[t] = "unused" => resetToken[t] = "unused" \/ req[t].pc = "createToken"

MailMay(t) ==
  /\ mail[t].state # "none" => mail'[t].state # "none"
  /\ mail'[t].state # "none" => \/ mail[t].state # "none"
                                \/ req[t].pc = "addMail" /\ req'[t].pc = "done"
  /\ t \in delivered => t \in delivered'
  /\ t \in delivered' => t \in delivered \/ mail[t].state # "none"

SessionMay(u) ==
  session'[u] # None =>
    \/ session'[u] = session[u]
    \/ \E t \in Requests : /\ req[t].pc = "storeSession" /\ req[t].user = u
                           /\ session'[u].version = req[t].version
                           /\ session'[u].overtaken = req[t].overtaken

CounterMay(e) ==
  forgotCount'[e] > 0 /\ ~forgotTtl'[e] =>
    \/ forgotCount[e] > 0 /\ ~forgotTtl[e]
    \/ \E t \in Requests : req'[t].pc = "expireForgot" /\ req'[t].email = e

Tables ==
  /\ Kept /\ \A u \in Users : RowMay(u) /\ SessionMay(u)
  /\ \A t \in Requests : TokenMay(t) /\ MailMay(t)
  /\ \A e \in Emails : CounterMay(e)

LEMMA Unchanged ==
  /\ UNCHANGED <<tenant, user>> => Kept /\ \A u \in Users : RowMay(u)
  /\ UNCHANGED resetToken => \A t \in Requests : TokenMay(t)
  /\ UNCHANGED mails => \A t \in Requests : MailMay(t)
  /\ UNCHANGED session => \A u \in Users : SessionMay(u)
  /\ UNCHANGED <<forgotCount, forgotTtl>> => \A e \in Emails : CounterMay(e)
BY DEF Kept, RowMay, TokenMay, MailMay, SessionMay, CounterMay, mails, Exists

LEMMA Quiet ==
  ASSUME TypeOK, req' \in [Requests -> Request], faults' \in Nat,
         UNCHANGED <<tables, expired, session, limits, mails>>
  PROVE  TypeOK' /\ Tables
<1>1. Tables
  BY Unchanged DEF Tables, tables, limits
<1>2. TypeOK'
  BY DEF TypeOK, tables, limits, mails
<1> QED BY <1>1, <1>2

\* Faults are counted.
LEMMA FinishFaults ==
  ASSUME TypeOK, NEW r \in Requests, Finish(r, req[r]) PROVE faults' \in Nat
BY DEF TypeOK, Finish

\* A row that is written: the others stay.
LEMMA RowWritten ==
  ASSUME TypeOK, NEW x \in Users, NEW n \in UserRow, user' = [user EXCEPT ![x] = n]
  PROVE  /\ user' \in [Users -> UserRow \cup {None}]
         /\ user'[x] = n /\ \A u \in Users \ {x} : user'[u] = user[u]
         /\ tenant \subseteq tenant' => Kept
         /\ \A u \in Users \ {x} : RowMay(u)
<1>1. n # None
  BY AccountsAssumption
<1>2. /\ user' \in [Users -> UserRow \cup {None}]
      /\ user'[x] = n /\ \A u \in Users \ {x} : user'[u] = user[u]
  BY DEF TypeOK
<1>3. tenant \subseteq tenant' => Kept
  BY <1>1, <1>2 DEF Kept, Exists
<1>4. \A u \in Users \ {x} : RowMay(u)
  BY <1>2 DEF RowMay, Exists
<1> QED BY <1>2, <1>3, <1>4

LEMMA VerifiedRow ==
  ASSUME NEW o \in UserRow
  PROVE  LET n == [o EXCEPT !.verified = TRUE, !.token = None]
         IN n \in UserRow /\ n.token = None /\ n.version = o.version
BY DEF UserRow

LEMMA TokenRow ==
  ASSUME NEW o \in UserRow, NEW t \in Requests
  PROVE  LET n == [o EXCEPT !.token = t]
         IN n \in UserRow /\ n.token = t /\ n.verified = o.verified /\ n.version = o.version
BY DEF UserRow

LEMMA PasswordRow ==
  ASSUME NEW o \in UserRow, NEW p \in Passwords
  PROVE  LET n == [o EXCEPT !.password = p, !.version = @ + 1]
         IN n \in UserRow /\ n.token = o.token /\ n.verified = o.verified
<1>1. o.version + 1 \in Nat
  BY DEF UserRow
<1>2. \A v \in Nat : LET n == [o EXCEPT !.password = p, !.version = v]
                    IN n \in UserRow /\ n.token = o.token /\ n.verified = o.verified
  BY DEF UserRow
<1> QED BY <1>1, <1>2

LEMMA CreateAccountTables ==
  ASSUME AccountsInv, NEW r \in Requests, CreateAccount(r) PROVE TypeOK' /\ Tables
<1>1. /\ TypeOK /\ RequestState(r) /\ req[r] \in Request /\ req[r].pc \in PcsOf(req[r].op)
      /\ req' \in [Requests -> Request]
  BY HandleMoves DEF AccountsInv, TypeOK, RequestState, Handle, Moved
<1>2. /\ req[r].pc = "createAccount" /\ req[r].op = "register"
      /\ req[r].user = <<req[r].slug, req[r].email>> /\ req[r].user \in Users
  BY <1>1, OpAt DEF CreateAccount, RequestState
<1>3. CASE UNCHANGED tables
  BY <1>1, <1>3, Quiet DEF CreateAccount, TypeOK
<1>4. CASE /\ req[r].slug \notin tenant /\ tenant' = tenant \cup {req[r].slug}
           /\ user' = [user EXCEPT ![req[r].user] = NewOwner(r)]
           /\ Committed(r, "addMail")
  <2> DEFINE x == req[r].user
             n == NewOwner(r)
  <2>1. n \in UserRow
    BY <1>1, <1>2, NewOwnerIsRow
  <2>2. n.token = r /\ n.verified = FALSE /\ n.version = 0
    BY DEF NewOwner
  <2>3. req'[r].pc = "addMail" /\ req'[r].op = "register" /\ req'[r].user = x
    BY <1>2, <1>4 DEF Committed, Becomes, Fields
  <2>4. /\ user' \in [Users -> UserRow \cup {None}] /\ user'[x] = n
        /\ Kept /\ \A u \in Users \ {x} : RowMay(u)
    BY <1>1, <1>2, <1>4, <2>1, RowWritten
  <2> HIDE DEF n, x
  <2>5. RowMay(x)
    BY <2>2, <2>3, <2>4 DEF RowMay
  <2>6. \A u \in Users : RowMay(u)
    BY <2>4, <2>5
  <2>7. UNCHANGED <<resetToken, expired, session, limits, mails, faults>>
    BY <1>4 DEF CreateAccount, tables
  <2>8. tenant' \in SUBSET Slugs
    BY <1>1, <1>2, <1>4 DEF TypeOK, Users
  <2>9. TypeOK'
    BY <1>1, <2>4, <2>7, <2>8 DEF TypeOK, limits, mails
  <2> QED BY <2>4, <2>6, <2>7, <2>9, Unchanged DEF Tables, limits
<1> QED BY <1>1, <1>3, <1>4, CreateAccountDoes

LEMMA Facts ==
  ASSUME AccountsInv, NEW r \in Requests, Handle(r)
  PROVE  /\ TypeOK /\ RequestState(r) /\ LinkState(r) /\ req[r] \in Request
         /\ req[r].pc \in PcsOf(req[r].op) /\ req' \in [Requests -> Request]
BY HandleMoves DEF AccountsInv, TypeOK, RequestState, Moved

\* An e-mail that has been accepted belongs to a request that has ended.
LEMMA MailedIsDone ==
  ASSUME AccountsInv, NEW r \in Requests, Handle(r), NEW t \in delivered
  PROVE  /\ t \in Requests /\ req[t].pc = "done" /\ req'[t] = req[t]
         /\ req[t].user \in Users /\ Exists(req[t].user)
<1>1. t \in Requests
  BY DEF AccountsInv, TypeOK
<1>2. req[t].pc = "done" /\ req[t].user \in Users /\ Exists(req[t].user)
  BY <1>1 DEF AccountsInv, LinkState
<1>3. Stable(t)
  BY <1>1, HandleMoves, MovedStable
<1> QED BY <1>1, <1>2, <1>3 DEF Stable

LEMMA VerifyUserTables ==
  ASSUME AccountsInv, NEW r \in Requests, VerifyUser(r) PROVE TypeOK' /\ Tables
<1> DEFINE x == req[r].user
           n == [user[x] EXCEPT !.verified = TRUE, !.token = None]
<1>1. TypeOK /\ RequestState(r) /\ req[r] \in Request /\ req[r].pc \in PcsOf(req[r].op)
      /\ req' \in [Requests -> Request]
  BY Facts DEF Handle
<1>2. req[r].pc = "verifyUser" /\ x \in Users /\ Exists(x)
  BY <1>1, OpAt DEF VerifyUser, RequestState
<1>3. user[x] \in UserRow
  BY <1>1, <1>2 DEF TypeOK, Exists
<1>4. n \in UserRow /\ n.token = None /\ n.version = user[x].version
  BY <1>3, VerifiedRow
<1>5. user' = [user EXCEPT ![x] = n]
  BY <1>1 DEF VerifyUser
<1>6. UNCHANGED <<tenant, resetToken, expired, session, limits, mails>> /\ faults' \in Nat
  BY <1>1, FinishFaults DEF VerifyUser
<1> HIDE DEF n
<1>7. /\ user' \in [Users -> UserRow \cup {None}] /\ user'[x] = n
      /\ Kept /\ \A u \in Users \ {x} : RowMay(u)
  BY <1>1, <1>2, <1>4, <1>5, <1>6, RowWritten
<1>8. RowMay(x)
  BY <1>2, <1>4, <1>7 DEF RowMay
<1>9. TypeOK'
  BY <1>1, <1>6, <1>7 DEF TypeOK, limits, mails
<1> HIDE DEF x
<1> QED BY <1>6, <1>7, <1>8, <1>9, Unchanged DEF Tables, limits

LEMMA UpdateTokenTables ==
  ASSUME AccountsInv, NEW r \in Requests, UpdateToken(r) PROVE TypeOK' /\ Tables
<1> DEFINE x == req[r].user
           n == [user[x] EXCEPT !.token = r]
<1>1. TypeOK /\ RequestState(r) /\ req[r] \in Request /\ req[r].pc \in PcsOf(req[r].op)
      /\ req' \in [Requests -> Request]
  BY Facts DEF Handle
<1>2. req[r].pc = "updateToken" /\ req[r].op = "resend" /\ x \in Users /\ Exists(x)
  BY <1>1, OpAt DEF UpdateToken, RequestState
<1>3. user[x] \in UserRow
  BY <1>1, <1>2 DEF TypeOK, Exists
<1>4. /\ n \in UserRow /\ n.token = r /\ n.verified = user[x].verified
      /\ n.version = user[x].version
  BY <1>3, TokenRow
<1>5. user' = [user EXCEPT ![x] = n]
  BY <1>1 DEF UpdateToken
<1>6. UNCHANGED <<tenant, resetToken, expired, session, limits, mails, faults>>
  BY DEF UpdateToken
<1>7. req'[r].pc = "addMail" /\ req'[r].op = "resend" /\ req'[r].user = x
  BY <1>1, <1>2, UpdateTokenDoes DEF Went, Becomes, Fields
<1> HIDE DEF n
<1>8. /\ user' \in [Users -> UserRow \cup {None}] /\ user'[x] = n
      /\ Kept /\ \A u \in Users \ {x} : RowMay(u)
  BY <1>1, <1>2, <1>4, <1>5, <1>6, RowWritten
<1>9. RowMay(x)
  BY <1>2, <1>4, <1>7, <1>8 DEF RowMay
<1>10. TypeOK'
  BY <1>1, <1>6, <1>8 DEF TypeOK, limits, mails
<1> HIDE DEF x
<1> QED BY <1>6, <1>8, <1>9, <1>10, Unchanged DEF Tables, limits

\* resetPassword and changePassword write the same row.
LEMMA PasswordWritten ==
  ASSUME AccountsInv, NEW r \in Requests, WritePassword(r),
         req[r].op \in {"reset", "change"}, req[r].pc \in {"resetPassword", "changePassword"},
         req'[r].pc = "dropSession", req'[r].user = req[r].user, UNCHANGED tenant
  PROVE  /\ user' \in [Users -> UserRow \cup {None}]
         /\ Kept /\ \A u \in Users : RowMay(u)
<1> DEFINE x == req[r].user
           n == [user[x] EXCEPT !.password = req[r].newPassword, !.version = @ + 1]
<1>1. TypeOK /\ RequestState(r)
  BY DEF AccountsInv
<1>2. x \in Users /\ Exists(x) /\ req[r].newPassword \in Passwords
  BY <1>1 DEF RequestState
<1>3. user[x] \in UserRow
  BY <1>1, <1>2 DEF TypeOK, Exists
<1>4. n \in UserRow /\ n.token = user[x].token /\ n.verified = user[x].verified
  BY <1>2, <1>3, PasswordRow
<1>5. user' = [user EXCEPT ![x] = n]
  BY <1>1 DEF WritePassword
<1> HIDE DEF n
<1>6. /\ user' \in [Users -> UserRow \cup {None}] /\ user'[x] = n
      /\ Kept /\ \A u \in Users \ {x} : RowMay(u)
  BY <1>1, <1>2, <1>4, <1>5, RowWritten
<1>7. RowMay(x)
  BY <1>2, <1>4, <1>6 DEF RowMay
<1> HIDE DEF x
<1> QED BY <1>6, <1>7

LEMMA ChangePasswordTables ==
  ASSUME AccountsInv, NEW r \in Requests, ChangePassword(r) PROVE TypeOK' /\ Tables
<1>1. TypeOK /\ RequestState(r) /\ req[r] \in Request /\ req[r].pc \in PcsOf(req[r].op)
      /\ req' \in [Requests -> Request]
  BY Facts DEF Handle
<1>2. req[r].pc = "changePassword" /\ req[r].op = "change" /\ WritePassword(r)
  BY <1>1, OpAt DEF ChangePassword
<1>3. req'[r].pc = "dropSession" /\ req'[r].user = req[r].user
  BY <1>1, ChangePasswordDoes DEF Committed, Becomes, Fields
<1>4. UNCHANGED <<tenant, resetToken, expired, session, limits, mails, faults>>
  BY DEF ChangePassword
<1>5. /\ user' \in [Users -> UserRow \cup {None}] /\ Kept /\ \A u \in Users : RowMay(u)
  BY <1>2, <1>3, <1>4, PasswordWritten
<1>6. TypeOK'
  BY <1>1, <1>4, <1>5 DEF TypeOK, limits, mails
<1> QED BY <1>4, <1>5, <1>6, Unchanged DEF Tables, limits

LEMMA ResetPasswordTables ==
  ASSUME AccountsInv, NEW r \in Requests, ResetPassword(r) PROVE TypeOK' /\ Tables
<1>1. TypeOK /\ RequestState(r) /\ LinkState(r) /\ req[r] \in Request
      /\ req[r].pc \in PcsOf(req[r].op) /\ req' \in [Requests -> Request]
  BY Facts DEF Handle
<1>2. req[r].pc = "resetPassword" /\ req[r].op = "reset" /\ WritePassword(r)
  BY <1>1, OpAt DEF ResetPassword
<1>3. req'[r].pc = "dropSession" /\ req'[r].user = req[r].user
  BY <1>1, ResetPasswordDoes DEF Moves, Fields
<1>4. UNCHANGED <<tenant, expired, session, limits, mails, faults>>
  BY DEF ResetPassword
<1>5. /\ user' \in [Users -> UserRow \cup {None}] /\ Kept /\ \A u \in Users : RowMay(u)
  BY <1>2, <1>3, <1>4, PasswordWritten
<1>6. resetToken' = [resetToken EXCEPT ![req[r].link] = "used"]
  BY DEF ResetPassword
<1>7. LET t == req[r].link
      IN t \in Requests /\ req'[t].op = "forgot" /\ req'[t].pc = "done" /\ req'[t].user \in Users
  BY <1>1, <1>2, MailedIsDone DEF LinkState, Links, TypeOK, Handle
<1>8. \A t \in Requests : TokenMay(t)
  BY <1>1, <1>6, <1>7 DEF TokenMay, TypeOK
<1>9. TypeOK'
  BY <1>1, <1>4, <1>5, <1>6 DEF TypeOK, limits, mails
<1> QED BY <1>4, <1>5, <1>8, <1>9, Unchanged DEF Tables, limits

LEMMA VoidTokensTables ==
  ASSUME AccountsInv, NEW r \in Requests, VoidTokens(r) PROVE TypeOK' /\ Tables
<1>1. TypeOK /\ req' \in [Requests -> Request]
  BY Facts DEF Handle
<1>2. UNCHANGED <<tenant, user, expired, session, limits, mails, faults>>
  BY DEF VoidTokens
<1>3. resetToken' = [t \in Requests |->
        IF resetToken[t] = "unused" /\ req[t].user = req[r].user THEN "used" ELSE resetToken[t]]
  BY DEF VoidTokens
<1>4. \A t \in Requests : TokenMay(t)
  BY <1>3 DEF TokenMay
<1>5. TypeOK'
  BY <1>1, <1>2, <1>3 DEF TypeOK, limits, mails
<1> QED BY <1>2, <1>4, <1>5, Unchanged DEF Tables, limits

LEMMA CreateTokenTables ==
  ASSUME AccountsInv, NEW r \in Requests, CreateToken(r) PROVE TypeOK' /\ Tables
<1>1. TypeOK /\ RequestState(r) /\ LinkState(r) /\ req[r] \in Request
      /\ req[r].pc \in PcsOf(req[r].op) /\ req' \in [Requests -> Request]
  BY Facts DEF Handle
<1>2. UNCHANGED <<tenant, user, expired, session, limits, mails, faults>>
  BY DEF CreateToken
<1>3. resetToken' = [resetToken EXCEPT ![r] = "unused"]
  BY DEF CreateToken
<1>4. /\ req[r].pc = "createToken" /\ req[r].op = "forgot" /\ req[r].user \in Users
      /\ resetToken[r] = "none"
  BY <1>1, OpAt DEF CreateToken, RequestState, LinkState, TypeOK
<1>5. req'[r].pc = "addMail" /\ req'[r].op = "forgot" /\ req'[r].user = req[r].user
  BY <1>1, <1>4, CreateTokenDoes DEF Went, Becomes, Fields
<1>6. TokenMay(r)
  BY <1>1, <1>3, <1>4, <1>5 DEF TokenMay, TypeOK
<1>7. \A t \in Requests \ {r} : TokenMay(t)
  BY <1>1, <1>3 DEF TokenMay, TypeOK
<1>8. TypeOK'
  BY <1>1, <1>2, <1>3 DEF TypeOK, limits, mails
<1> QED BY <1>2, <1>6, <1>7, <1>8, Unchanged DEF Tables, limits

LEMMA StoreSessionTables ==
  ASSUME AccountsInv, NEW r \in Requests, StoreSession(r) PROVE TypeOK' /\ Tables
<1> DEFINE s == [token |-> r, version |-> req[r].version, overtaken |-> req[r].overtaken]
           x == req[r].user
<1>1. TypeOK /\ RequestState(r) /\ req[r] \in Request /\ req' \in [Requests -> Request]
  BY Facts DEF Handle
<1>2. UNCHANGED <<tables, expired, limits, mails>> /\ faults' \in Nat
  BY <1>1, FinishFaults DEF StoreSession
<1>3. session' = [session EXCEPT ![x] = s] /\ req[r].pc = "storeSession"
  BY DEF StoreSession
<1>4. s \in Session /\ s.version = req[r].version /\ s.overtaken = req[r].overtaken
  BY <1>1 DEF Session, Request
<1>5. x \in Users
  BY <1>1, <1>3 DEF RequestState
<1> HIDE DEF s
<1>6. SessionMay(x)
  BY <1>1, <1>3, <1>4, <1>5 DEF SessionMay, TypeOK
<1>7. \A u \in Users \ {x} : SessionMay(u)
  BY <1>1, <1>3 DEF SessionMay, TypeOK
<1>8. session' \in [Users -> Session \cup {None}]
  BY <1>1, <1>3, <1>4 DEF TypeOK
<1> HIDE DEF x
<1>9. TypeOK'
  BY <1>1, <1>2, <1>8 DEF TypeOK, tables, limits, mails
<1> QED BY <1>2, <1>6, <1>7, <1>9, Unchanged DEF Tables, tables, limits

LEMMA DropSessionTables ==
  ASSUME AccountsInv, NEW r \in Requests, DropSession(r) PROVE TypeOK' /\ Tables
<1>1. TypeOK /\ req' \in [Requests -> Request]
  BY Facts DEF Handle
<1>2. UNCHANGED <<tables, expired, limits, mails, faults>>
  BY DEF DropSession
<1>3. session' = [session EXCEPT ![req[r].user] = None]
  BY DEF DropSession
<1>4. \A u \in Users : SessionMay(u)
  BY <1>1, <1>3 DEF SessionMay, TypeOK
<1>5. TypeOK'
  BY <1>1, <1>2, <1>3 DEF TypeOK, tables, limits, mails
<1> QED BY <1>2, <1>4, <1>5, Unchanged DEF Tables, tables, limits

LEMMA LockResendTables ==
  ASSUME AccountsInv, NEW r \in Requests, LockResend(r) PROVE TypeOK' /\ Tables
<1>1. TypeOK /\ RequestState(r) /\ req[r] \in Request
      /\ req[r].pc \in PcsOf(req[r].op) /\ req' \in [Requests -> Request]
  BY Facts DEF Handle
<1>2. UNCHANGED <<tables, expired, session, forgotCount, forgotTtl, mails, faults>>
  BY DEF LockResend
<1>3. req[r].email \in Emails
  BY <1>1, OpAt DEF LockResend, RequestState
<1>4. resendLock' \in SUBSET Emails
  BY <1>1, <1>3 DEF LockResend, TypeOK
<1>5. TypeOK'
  BY <1>1, <1>2, <1>4 DEF TypeOK, tables, mails
<1> QED BY <1>2, <1>5, Unchanged DEF Tables, tables

LEMMA IncrForgotTables ==
  ASSUME AccountsInv, NEW r \in Requests, IncrForgot(r) PROVE TypeOK' /\ Tables
<1> DEFINE e == req[r].email
           n == forgotCount[e] + 1
<1>1. TypeOK /\ RequestState(r) /\ req[r] \in Request
      /\ req[r].pc \in PcsOf(req[r].op) /\ req' \in [Requests -> Request]
  BY Facts DEF Handle
<1>2. UNCHANGED <<tables, expired, session, forgotTtl, resendLock, mails, faults>>
  BY DEF IncrForgot
<1>3. e \in Emails
  BY <1>1, OpAt DEF IncrForgot, RequestState
<1>4. forgotCount[e] \in Nat /\ n \in Nat
  BY <1>1, <1>3 DEF TypeOK
<1>5. forgotCount' = [forgotCount EXCEPT ![e] = n]
  BY DEF IncrForgot
<1>6. CounterMay(e)
  <2>1. CASE forgotCount[e] = 0
    <3>1. n = 1
      BY <2>1
    <3>2. Goto(r, "expireForgot")
      BY <3>1 DEF IncrForgot
    <3>3. Went(r, "expireForgot")
      BY <1>1, <3>2, Does, PcFacts
    <3>4. req'[r].pc = "expireForgot" /\ req'[r].email = e
      BY <3>3 DEF Went, Becomes, Fields
    <3> QED BY <3>4 DEF CounterMay
  <2>2. CASE forgotCount[e] > 0
    BY <1>2, <2>2 DEF CounterMay
  <2> QED BY <1>4, <2>1, <2>2
<1> HIDE DEF n
<1>7. \A f \in Emails \ {e} : CounterMay(f)
  BY <1>1, <1>2, <1>5 DEF CounterMay, TypeOK
<1>8. forgotCount' \in [Emails -> Nat]
  BY <1>1, <1>4, <1>5 DEF TypeOK
<1> HIDE DEF e
<1>9. TypeOK'
  BY <1>1, <1>2, <1>8 DEF TypeOK, tables, mails
<1> QED BY <1>2, <1>6, <1>7, <1>9, Unchanged DEF Tables, tables

LEMMA ExpireForgotTables ==
  ASSUME AccountsInv, NEW r \in Requests, ExpireForgot(r) PROVE TypeOK' /\ Tables
<1>1. TypeOK /\ req' \in [Requests -> Request]
  BY Facts DEF Handle
<1>2. UNCHANGED <<tables, expired, session, forgotCount, resendLock, mails, faults>>
  BY DEF ExpireForgot
<1>3. forgotTtl' = [forgotTtl EXCEPT ![req[r].email] = TRUE]
  BY DEF ExpireForgot
<1>4. \A e \in Emails : CounterMay(e)
  BY <1>1, <1>2, <1>3 DEF CounterMay, TypeOK
<1>5. TypeOK'
  BY <1>1, <1>2, <1>3 DEF TypeOK, tables, mails
<1> QED BY <1>2, <1>4, <1>5, Unchanged DEF Tables, tables

LEMMA AddMailTables ==
  ASSUME AccountsInv, NEW r \in Requests, AddMail(r) PROVE TypeOK' /\ Tables
<1> DEFINE n == [mail[r] EXCEPT !.state = "queued"]
<1>1. TypeOK /\ req' \in [Requests -> Request]
  BY Facts DEF Handle
<1>2. UNCHANGED <<tables, expired, session, limits, delivered>> /\ faults' \in Nat
  BY <1>1, FinishFaults DEF AddMail
<1>3. mail' = [mail EXCEPT ![r] = n] /\ req[r].pc = "addMail"
  BY <1>1 DEF AddMail
<1>4. n \in MailJob /\ n.state = "queued"
  BY <1>1 DEF TypeOK, MailJob
<1>5. req'[r].pc = "done"
  BY <1>1, AddMailDoes DEF Replied, Becomes, Fields
<1> HIDE DEF n
<1>6. MailMay(r)
  BY <1>1, <1>2, <1>3, <1>4, <1>5 DEF MailMay, TypeOK
<1>7. \A t \in Requests \ {r} : MailMay(t)
  BY <1>1, <1>2, <1>3 DEF MailMay, TypeOK
<1>8. mail' \in [Requests -> MailJob]
  BY <1>1, <1>3, <1>4 DEF TypeOK
<1>9. TypeOK'
  BY <1>1, <1>2, <1>8 DEF TypeOK, tables, limits
<1> QED BY <1>2, <1>6, <1>7, <1>9, Unchanged DEF Tables, tables, limits

LEMMA HandleTables ==
  ASSUME AccountsInv, NEW r \in Requests, Handle(r) PROVE TypeOK' /\ Tables
<1>1. TypeOK /\ req' \in [Requests -> Request] /\ faults \in Nat
  BY Facts DEF TypeOK
<1>2. CASE Receive(r)
  BY <1>1, <1>2, Quiet DEF Receive
<1>3. CASE FindTenant(r)
  BY <1>1, <1>3, Quiet DEF FindTenant
<1>4. CASE CreateAccount(r)
  BY <1>4, CreateAccountTables
<1>5. CASE FindLogin(r)
  BY <1>1, <1>5, Quiet DEF FindLogin
<1>6. CASE GetSession(r)
  BY <1>1, <1>6, Quiet DEF GetSession
<1>7. CASE FindSession(r)
  BY <1>1, <1>7, Quiet DEF FindSession
<1>8. CASE StoreSession(r)
  BY <1>8, StoreSessionTables
<1>9. CASE FindLink(r)
  BY <1>1, <1>9, Quiet DEF FindLink
<1>10. CASE VerifyUser(r)
  BY <1>10, VerifyUserTables
<1>11. CASE LockResend(r)
  BY <1>11, LockResendTables
<1>12. CASE FindResend(r)
  BY <1>1, <1>12, Quiet DEF FindResend
<1>13. CASE UpdateToken(r)
  BY <1>13, UpdateTokenTables
<1>14. CASE IncrForgot(r)
  BY <1>14, IncrForgotTables
<1>15. CASE ExpireForgot(r)
  BY <1>15, ExpireForgotTables
<1>16. CASE FindForgot(r)
  BY <1>1, <1>16, Quiet DEF FindForgot
<1>17. CASE VoidTokens(r)
  BY <1>17, VoidTokensTables
<1>18. CASE CreateToken(r)
  BY <1>18, CreateTokenTables
<1>19. CASE FindToken(r)
  BY <1>1, <1>19, Quiet DEF FindToken
<1>20. CASE ResetPassword(r)
  BY <1>20, ResetPasswordTables
<1>21. CASE FindUser(r)
  BY <1>1, <1>21, Quiet DEF FindUser
<1>22. CASE ChangePassword(r)
  BY <1>22, ChangePasswordTables
<1>23. CASE DropSession(r)
  BY <1>23, DropSessionTables
<1>24. CASE AddMail(r)
  BY <1>24, AddMailTables
<1>25. CASE Fail(r)
  BY <1>1, <1>25, Quiet DEF Fail
<1> QED
  BY <1>2, <1>3, <1>4, <1>5, <1>6, <1>7, <1>8, <1>9, <1>10, <1>11, <1>12, <1>13, <1>14,
  <1>15, <1>16, <1>17, <1>18, <1>19, <1>20, <1>21, <1>22, <1>23, <1>24, <1>25 DEF
  Handle

-----------------------------------------------------------------------------
(* The next locals of a request belong to its operation. *)

LEMMA PcTable ==
  /\ \A op \in Op : op # "none" => "done" \in PcsOf(op)
  /\ "createAccount" \in PcsOf("register") /\ "addMail" \in PcsOf("register")
  /\ "storeSession" \in PcsOf("login") /\ "verifyUser" \in PcsOf("verify")
  /\ "findResend" \in PcsOf("resend") /\ "updateToken" \in PcsOf("resend")
  /\ "addMail" \in PcsOf("resend")
  /\ "expireForgot" \in PcsOf("forgot") /\ "findForgot" \in PcsOf("forgot")
  /\ "voidTokens" \in PcsOf("forgot") /\ "createToken" \in PcsOf("forgot")
  /\ "addMail" \in PcsOf("forgot")
  /\ "resetPassword" \in PcsOf("reset") /\ "dropSession" \in PcsOf("reset")
  /\ "addMail" \in PcsOf("reset")
  /\ "changePassword" \in PcsOf("change") /\ "dropSession" \in PcsOf("change")
  /\ "addMail" \in PcsOf("change")
  /\ "findSession" \in PcsOf("refresh") /\ "storeSession" \in PcsOf("refresh")
BY DEF PcsOf, Op

LEMMA ProperStep ==
  ASSUME NEW r \in Requests, Proper(req[r], user), NEW pc, NEW answer, NEW u, NEW version,
         NEW overtaken, NEW wrote, NEW stop,
         Fields(req'[r], req[r], pc, answer, u, version, overtaken, wrote, stop),
         pc \in PcsOf(req[r].op),
         req[r].op \in {"register", "change", "refresh"} => u = req[r].user,
         pc \in Known => u \in Users /\ (req[r].op # "refresh" => user'[u] # None),
         req[r].op \in {"login", "refresh"} /\ answer = "ok" => u \in Users,
         pc # "done" => answer = "none" /\ stop = "idle",
         wrote => pc \in {"dropSession", "addMail", "done"}
  PROVE  Proper(req'[r], user')
<1> DEFINE w == req'[r]
           q == req[r]
<1>1. /\ w.op = q.op /\ w.slug = q.slug /\ w.email = q.email /\ w.password = q.password
      /\ w.newPassword = q.newPassword /\ w.pc = pc /\ w.answer = answer /\ w.user = u
      /\ w.wrote = wrote /\ w.stop = stop
  BY DEF Fields
<1>2. /\ q.op \in {"login", "resend", "forgot"} => q.email \in Emails
      /\ q.op \in {"register", "change", "refresh"} => q.user \in Users
      /\ q.op = "register" => q.user = <<q.slug, q.email>> /\ q.password \in Passwords
      /\ q.op \in {"reset", "change"} => q.newPassword \in Passwords
  BY DEF Proper
<1> HIDE DEF w, q
<1>3. /\ pc \in PcsOf(q.op)
      /\ q.op \in {"register", "change", "refresh"} => u = q.user
      /\ pc \in Known => u \in Users /\ (q.op # "refresh" => user'[u] # None)
      /\ q.op \in {"login", "refresh"} /\ answer = "ok" => u \in Users
  BY DEF q
<1>4. Proper(w, user')
  BY <1>1, <1>2, <1>3 DEF Proper
<1> QED BY <1>4 DEF w

LEMMA ProperWent ==
  ASSUME NEW r \in Requests, Proper(req[r], user), req[r].pc # "done", NEW pc,
         Went(r, pc) \/ Moves(r, pc, req[r].wrote),
         pc \in PcsOf(req[r].op), pc # "done", ~req[r].wrote \/ pc = "addMail",
         pc \in Known => /\ req[r].user \in Users
                         /\ req[r].op # "refresh" => Exists(req[r].user),
         \A u \in Users : Exists(u) => user'[u] # None
  PROVE  Proper(req'[r], user')
<1>1. Fields(req'[r], req[r], pc, req[r].answer, req[r].user, req[r].version,
             req[r].overtaken, req[r].wrote, req[r].stop)
  BY DEF Went, Moves, Becomes
<1>2. pc \in Known => /\ req[r].user \in Users
                      /\ req[r].op # "refresh" => user'[req[r].user] # None
  OBVIOUS
<1>3. req[r].wrote => pc \in {"dropSession", "addMail", "done"}
  OBVIOUS
<1>4. req[r].answer = "none" /\ req[r].stop = "idle"
  BY DEF Proper
<1> QED BY <1>1, <1>2, <1>3, <1>4, ProperStep

LEMMA ProperShapes ==
  ASSUME NEW r \in Requests, Proper(req[r], user), req[r] \in Request,
         req[r].pc \notin {"idle", "done"},
         \A u \in Users : Exists(u) => user'[u] # None
  PROVE  /\ \A answer :
              /\ Replied(r, answer)
              /\ req[r].op \in {"login", "refresh"} /\ answer = "ok" => req[r].user \in Users
              => Proper(req'[r], user')
         /\ Failed(r) => Proper(req'[r], user')
         /\ \A pc \in {"dropSession", "addMail"} :
              /\ Committed(r, pc) \/ Moves(r, pc, TRUE)
              /\ pc \in PcsOf(req[r].op) /\ req[r].op # "refresh"
              /\ req[r].user \in Users /\ user'[req[r].user] # None
              => Proper(req'[r], user')
         /\ \A pc, u :
              /\ Took(r, pc, u)
              /\ pc \in PcsOf(req[r].op) \ {"done"} /\ ~req[r].wrote
              /\ req[r].op \notin {"register", "change", "refresh"} /\ u \in Users /\ Exists(u)
              => Proper(req'[r], user')
<1>1. req[r].op # "none" /\ req[r].op \in Op
  BY DEF Proper, PcsOf, Request
<1>2. "done" \in PcsOf(req[r].op) /\ "done" \notin Known
  BY <1>1, PcTable DEF Known
<1>3. /\ req[r].answer = "none" /\ req[r].stop = "idle"
  BY DEF Proper
<1>4. ASSUME NEW answer, Replied(r, answer),
             req[r].op \in {"login", "refresh"} /\ answer = "ok" => req[r].user \in Users
      PROVE  Proper(req'[r], user')
  BY <1>2, <1>3, <1>4, ProperStep DEF Replied, Becomes
<1>5. ASSUME Failed(r) PROVE Proper(req'[r], user')
  BY <1>2, <1>3, <1>5, ProperStep DEF Failed, Becomes
<1>6. ASSUME NEW pc \in {"dropSession", "addMail"}, Committed(r, pc) \/ Moves(r, pc, TRUE),
             pc \in PcsOf(req[r].op), req[r].op # "refresh", req[r].user \in Users,
             user'[req[r].user] # None
      PROVE  Proper(req'[r], user')
  BY <1>3, <1>6, ProperStep DEF Committed, Moves, Becomes
<1>7. ASSUME NEW pc, NEW u, Took(r, pc, u), pc \in PcsOf(req[r].op) \ {"done"}, ~req[r].wrote,
             req[r].op \notin {"register", "change", "refresh"}, u \in Users, Exists(u)
      PROVE  Proper(req'[r], user')
  <2>1. Fields(req'[r], req[r], pc, req[r].answer, u, req[r].version,
               req[r].overtaken, req[r].wrote, req[r].stop)
    BY <1>7 DEF Took, Becomes
  <2>2. user'[u] # None
    BY <1>7
  <2>3. /\ pc \in PcsOf(req[r].op)
        /\ req[r].op \in {"register", "change", "refresh"} => u = req[r].user
        /\ req[r].op \in {"login", "refresh"} /\ req[r].answer = "ok" => u \in Users
        /\ req[r].wrote => pc \in {"dropSession", "addMail", "done"}
        /\ pc \in Known => u \in Users /\ (req[r].op # "refresh" => user'[u] # None)
        /\ pc # "done" => req[r].answer = "none" /\ req[r].stop = "idle"
    BY <1>3, <1>7, <2>2
  <2> QED BY <2>1, <2>3, ProperStep
<1> QED BY <1>4, <1>5, <1>6, <1>7

LEMMA HandleProper ==
  ASSUME AccountsInv, NEW r \in Requests, Handle(r)
  PROVE  Proper(req'[r], user')
<1>1. /\ TypeOK /\ req[r] \in Request /\ req[r].pc \in PcsOf(req[r].op)
      /\ Proper(req[r], user)
  BY Facts, ProperIsRequestState
<1>2. \A u \in Users : Exists(u) => user'[u] # None
  BY HandleTables DEF Tables, Kept
<1>3. /\ req[r].pc \in Known => /\ req[r].user \in Users
                                /\ req[r].op # "refresh" => Exists(req[r].user)
      /\ req[r].wrote => req[r].pc \in {"dropSession", "addMail", "done"}
      /\ req[r].op \in {"register", "change", "refresh"} => req[r].user \in Users
  BY <1>1 DEF Proper, Exists
<1>4. CASE Receive(r)
  <2>1. Received(req'[r])
    BY <1>1, <1>4, ReceiveDoes
  <2>2. user' = user
    BY <1>4 DEF Receive, tables
  <2>3. req'[r].pc \in PcsOf(req'[r].op)
    BY <2>1 DEF Received, PcsOf
  <2> QED BY <2>1, <2>2, <2>3 DEF Received, Proper, Known, Exists
<1>5. CASE FindTenant(r)
  <2>1. req[r].pc = "findTenant" /\ req[r].op = "register" /\ ~req[r].wrote
    BY <1>1, <1>3, <1>5, OpAt DEF FindTenant
  <2>2. "createAccount" \notin Known
    BY DEF Known
  <2>3. "createAccount" \in PcsOf(req[r].op)
    BY <2>1, PcTable
  <2>4. Replied(r, "refused") \/ Went(r, "createAccount")
    BY <1>1, <1>2, <1>5, <2>2, FindTenantDoes
  <2> QED BY <1>1, <1>2, <2>1, <2>2, <2>3, <2>4, ProperShapes, ProperWent
<1>6. CASE CreateAccount(r)
  <2>1. req[r].pc = "createAccount" /\ req[r].op = "register" /\ req[r].user \in Users
    BY <1>1, <1>3, <1>6, OpAt DEF CreateAccount
  <2>2. CASE Replied(r, "refused")
    BY <1>1, <1>2, <2>1, <2>2, ProperShapes
  <2>3. CASE /\ user' = [user EXCEPT ![req[r].user] = NewOwner(r)]
             /\ Committed(r, "addMail")
    <3>1. NewOwner(r) \in UserRow
      BY <2>1, Facts, NewOwnerIsRow DEF Handle
    <3>2. user'[req[r].user] # None
      BY <1>1, <2>1, <2>3, <3>1, AccountsAssumption DEF TypeOK
    <3> QED BY <1>1, <1>2, <2>1, <2>3, <3>2, PcTable, ProperShapes
  <2> QED BY <1>1, <1>6, <2>2, <2>3, CreateAccountDoes
<1>7. CASE FindLogin(r)
  <2>1. req[r].pc = "findLogin" /\ req[r].op = "login" /\ ~req[r].wrote
    BY <1>1, <1>3, <1>7, OpAt DEF FindLogin
  <2>2. CASE Replied(r, "refused")
    BY <1>1, <1>2, <2>1, <2>2, ProperShapes
  <2>3. ASSUME NEW u \in Users, Exists(u), NEW v,
               Becomes(r, "storeSession", req[r].answer, u, v,
                       req[r].overtaken, req[r].wrote, req[r].stop)
        PROVE  Proper(req'[r], user')
    <3>1. /\ req'[r].op = "login" /\ req'[r].email = req[r].email /\ req'[r].user = u
          /\ req'[r].pc = "storeSession" /\ req'[r].answer = req[r].answer
          /\ req'[r].stop = req[r].stop /\ ~req'[r].wrote
      BY <2>1, <2>3 DEF Becomes, Fields
    <3>2. req[r].answer = "none" /\ req[r].stop = "idle" /\ req[r].email \in Emails
      BY <1>1, <2>1 DEF Proper
    <3>3. user'[u] # None
      BY <1>2, <2>3
    <3> QED BY <3>1, <3>2, <3>3, PcTable DEF Proper
  <2> QED BY <1>1, <1>7, <2>2, <2>3, FindLoginDoes
<1>8. CASE GetSession(r)
  <2> DEFINE s == session[req[r].user]
  <2>1. req[r].pc = "getSession" /\ req[r].op = "refresh" /\ req[r].user \in Users
        /\ ~req[r].wrote
    BY <1>1, <1>3, <1>8, OpAt DEF GetSession
  <2>2. CASE Replied(r, "refused")
    BY <1>1, <1>2, <2>1, <2>2, ProperShapes
  <2>3. ASSUME Becomes(r, "findSession", req[r].answer, req[r].user, s.version,
                       s.overtaken, req[r].wrote, req[r].stop)
        PROVE  Proper(req'[r], user')
    <3>1. /\ req'[r].op = "refresh" /\ req'[r].user = req[r].user
          /\ req'[r].pc = "findSession" /\ req'[r].answer = req[r].answer
          /\ req'[r].stop = req[r].stop /\ ~req'[r].wrote
      BY <2>1, <2>3 DEF Becomes, Fields
    <3>2. req[r].answer = "none" /\ req[r].stop = "idle"
      BY <1>1, <2>1 DEF Proper
    <3> QED BY <2>1, <3>1, <3>2, PcTable DEF Proper
  <2> QED BY <1>1, Facts, <1>8, <2>2, <2>3, GetSessionDoes
<1>9. CASE FindSession(r)
  <2>1. req[r].pc = "findSession" /\ req[r].op = "refresh" /\ ~req[r].wrote
    BY <1>1, <1>3, <1>9, OpAt DEF FindSession
  <2>2. req[r].user \in Users
    BY <1>3, <2>1 DEF Known
  <2>3. "storeSession" \in PcsOf(req[r].op)
    BY <2>1, PcTable
  <2>4. Went(r, "storeSession")
    BY <1>1, <1>2, <1>9, <2>2, FindSessionDoes
  <2> QED BY <1>1, <1>2, <2>1, <2>2, <2>3, <2>4, ProperShapes, ProperWent
<1>10. CASE StoreSession(r)
  BY <1>10, StoreSessionDoes, <1>1, <1>2, <1>3, OpAt, PcTable, ProperShapes DEF Known
<1>11. CASE FindLink(r)
  BY <1>11, FindLinkDoes, <1>1, <1>2, <1>3, OpAt, PcTable, ProperShapes DEF Known
<1>12. CASE VerifyUser(r)
  BY <1>12, VerifyUserDoes, <1>1, <1>2, <1>3, OpAt, PcTable, ProperShapes DEF Known
<1>13. CASE LockResend(r)
  <2>1. req[r].pc = "lockResend" /\ req[r].op = "resend" /\ ~req[r].wrote
    BY <1>1, <1>3, <1>13, OpAt DEF LockResend
  <2>2. "findResend" \notin Known
    BY DEF Known
  <2>3. "findResend" \in PcsOf(req[r].op)
    BY <2>1, PcTable
  <2>4. Replied(r, "ok") \/ Went(r, "findResend")
    BY <1>1, <1>2, <1>13, <2>2, LockResendDoes
  <2> QED BY <1>1, <1>2, <2>1, <2>2, <2>3, <2>4, ProperShapes, ProperWent
<1>14. CASE FindResend(r)
  BY <1>14, FindResendDoes, <1>1, <1>2, <1>3, OpAt, PcTable, ProperShapes DEF Known
<1>15. CASE UpdateToken(r)
  <2>1. req[r].pc = "updateToken" /\ req[r].op = "resend" /\ ~req[r].wrote
    BY <1>1, <1>3, <1>15, OpAt DEF UpdateToken
  <2>2. req[r].user \in Users /\ Exists(req[r].user)
    BY <1>3, <2>1 DEF Known
  <2>3. "addMail" \in PcsOf(req[r].op)
    BY <2>1, PcTable
  <2>4. Went(r, "addMail")
    BY <1>1, <1>2, <1>15, <2>2, UpdateTokenDoes
  <2> QED BY <1>1, <1>2, <2>1, <2>2, <2>3, <2>4, ProperShapes, ProperWent
<1>16. CASE IncrForgot(r)
  <2>1. req[r].pc = "incrForgot" /\ req[r].op = "forgot" /\ ~req[r].wrote
    BY <1>1, <1>3, <1>16, OpAt DEF IncrForgot
  <2>2. "expireForgot" \notin Known /\ "findForgot" \notin Known
    BY DEF Known
  <2>3. "expireForgot" \in PcsOf(req[r].op) /\ "findForgot" \in PcsOf(req[r].op)
    BY <2>1, PcTable
  <2>4. Replied(r, "ok") \/ Went(r, "expireForgot") \/ Went(r, "findForgot")
    BY <1>1, <1>2, <1>16, <2>2, IncrForgotDoes
  <2> QED BY <1>1, <1>2, <2>1, <2>2, <2>3, <2>4, ProperShapes, ProperWent
<1>17. CASE ExpireForgot(r)
  <2>1. req[r].pc = "expireForgot" /\ req[r].op = "forgot" /\ ~req[r].wrote
    BY <1>1, <1>3, <1>17, OpAt DEF ExpireForgot
  <2>2. "findForgot" \notin Known
    BY DEF Known
  <2>3. "findForgot" \in PcsOf(req[r].op)
    BY <2>1, PcTable
  <2>4. Went(r, "findForgot")
    BY <1>1, <1>2, <1>17, <2>2, ExpireForgotDoes
  <2> QED BY <1>1, <1>2, <2>1, <2>2, <2>3, <2>4, ProperShapes, ProperWent
<1>18. CASE FindForgot(r)
  BY <1>18, FindForgotDoes, <1>1, <1>2, <1>3, OpAt, PcTable, ProperShapes DEF Known
<1>19. CASE VoidTokens(r)
  <2>1. req[r].pc = "voidTokens" /\ req[r].op = "forgot" /\ ~req[r].wrote
    BY <1>1, <1>3, <1>19, OpAt DEF VoidTokens
  <2>2. req[r].user \in Users /\ Exists(req[r].user)
    BY <1>3, <2>1 DEF Known
  <2>3. "createToken" \in PcsOf(req[r].op)
    BY <2>1, PcTable
  <2>4. Moves(r, "createToken", req[r].wrote)
    BY <1>1, <1>2, <1>19, <2>2, VoidTokensDoes
  <2> QED BY <1>1, <1>2, <2>1, <2>2, <2>3, <2>4, ProperShapes, ProperWent
<1>20. CASE CreateToken(r)
  <2>1. req[r].pc = "createToken" /\ req[r].op = "forgot" /\ ~req[r].wrote
    BY <1>1, <1>3, <1>20, OpAt DEF CreateToken
  <2>2. req[r].user \in Users /\ Exists(req[r].user)
    BY <1>3, <2>1 DEF Known
  <2>3. "addMail" \in PcsOf(req[r].op)
    BY <2>1, PcTable
  <2>4. Went(r, "addMail")
    BY <1>1, <1>2, <1>20, <2>2, CreateTokenDoes
  <2> QED BY <1>1, <1>2, <2>1, <2>2, <2>3, <2>4, ProperShapes, ProperWent
<1>21. CASE FindToken(r)
  BY <1>21, FindTokenDoes, <1>1, <1>2, <1>3, OpAt, PcTable, ProperShapes DEF Known
<1>22. CASE ResetPassword(r)
  <2>1. req[r].pc \in Known /\ req[r].op = "reset"
        /\ req[r].pc \notin {"idle", "done"}
    BY <1>1, <1>3, <1>22, OpAt DEF ResetPassword, Known
  <2>2. Moves(r, "dropSession", TRUE)
    BY <1>1, <1>22, ResetPasswordDoes
  <2> QED BY <1>1, <1>2, <1>3, <2>1, <2>2, PcTable, ProperShapes, ProperWent
<1>23. CASE FindUser(r)
  <2>1. req[r].pc = "findUser" /\ req[r].op = "change" /\ ~req[r].wrote
    BY <1>1, <1>3, <1>23, OpAt DEF FindUser
  <2>2. req[r].user \in Users /\ Exists(req[r].user)
    BY <1>3, <2>1 DEF Known
  <2>3. "changePassword" \in PcsOf(req[r].op)
    BY <2>1, PcTable
  <2>4. Replied(r, "refused") \/ Went(r, "changePassword")
    BY <1>1, <1>2, <1>23, <2>2, FindUserDoes
  <2> QED BY <1>1, <1>2, <2>1, <2>2, <2>3, <2>4, ProperShapes, ProperWent
<1>24. CASE ChangePassword(r)
  <2>1. req[r].pc = "changePassword" /\ req[r].op = "change"
    BY <1>1, <1>3, <1>24, OpAt DEF ChangePassword
  <2>2. req[r].user \in Users /\ Exists(req[r].user)
    BY <1>3, <2>1 DEF Known
  <2>3. "dropSession" \in PcsOf(req[r].op)
    BY <2>1, PcTable
  <2>4. Committed(r, "dropSession") /\ user'[req[r].user] # None
    BY <1>1, <1>2, <1>24, <2>2, ChangePasswordDoes
  <2> QED BY <1>1, <1>2, <2>1, <2>2, <2>3, <2>4, ProperShapes, ProperWent
<1>25. CASE DropSession(r)
  <2>1. req[r].pc \in Known /\ req[r].op \in {"reset", "change"}
        /\ req[r].pc \notin {"idle", "done"}
    BY <1>1, <1>3, <1>25, OpAt DEF DropSession, Known
  <2>2. Moves(r, "addMail", req[r].wrote)
    BY <1>1, <1>25, DropSessionDoes
  <2> QED BY <1>1, <1>2, <1>3, <2>1, <2>2, PcTable, ProperShapes, ProperWent
<1>26. CASE AddMail(r)
  BY <1>26, AddMailDoes, <1>1, <1>2, <1>3, OpAt, PcTable, ProperShapes DEF Known
<1>27. CASE Fail(r)
  BY <1>27, FailDoes, <1>1, <1>2, ProperShapes DEF Running
<1> QED
  BY <1>4, <1>5, <1>6, <1>7, <1>8, <1>9, <1>10, <1>11, <1>12, <1>13, <1>14, <1>15,
  <1>16, <1>17, <1>18, <1>19, <1>20, <1>21, <1>22, <1>23, <1>24, <1>25, <1>26, <1>27
  DEF Handle

-----------------------------------------------------------------------------
(* What any step may do. *)

StepMay ==
  /\ TypeOK' /\ Tables
  /\ \A t \in Requests : /\ Stable(t) /\ Comes(t) /\ Goes(t) /\ Races(t)
                         /\ Proper(req'[t], user')

LEMMA ProperStays ==
  ASSUME AccountsInv, Kept, NEW t \in Requests,
         req'[t] = req[t] \/ (Overtaken(t) /\ req[t].pc # "done")
  PROVE  Proper(req'[t], user')
<1>1. Proper(req[t], user)
  BY ProperIsRequestState DEF AccountsInv
<1>2. \A u \in Users : user[u] # None => user'[u] # None
  BY DEF Kept, Exists
<1>3. Proper(req[t], user')
  BY <1>1, <1>2 DEF Proper
<1>4. CASE req'[t] = req[t]
  BY <1>3, <1>4
<1>5. CASE Overtaken(t)
  BY <1>3, <1>5 DEF Proper, Overtaken, Fields
<1> QED BY <1>4, <1>5

LEMMA HandleMay ==
  ASSUME AccountsInv, NEW r \in Requests, Handle(r)
  PROVE  StepMay
<1>1. Moved(r) /\ \A t \in Requests : Stable(t)
  BY HandleMoves, MovedStable
<1>2. TypeOK' /\ Tables /\ Kept
  BY HandleTables DEF Tables
<1>3. Comes(r) /\ Goes(r) /\ Races(r) /\ Proper(req'[r], user')
  BY HandleComes, HandleGoes, HandleRaces, HandleProper
<1>4. \A t \in Requests \ {r} : Comes(t) /\ Goes(t) /\ Races(t) /\ Proper(req'[t], user')
  BY <1>1, <1>2, StillEffects, ProperStays DEF Moved
<1> QED BY <1>1, <1>2, <1>3, <1>4 DEF StepMay

\* No request moves.
LEMMA StillMay ==
  ASSUME AccountsInv, UNCHANGED req, TypeOK', Tables
  PROVE  StepMay
<1>1. \A t \in Requests : Stable(t)
  BY DEF Stable
<1>2. \A t \in Requests : Comes(t) /\ Goes(t) /\ Races(t) /\ Proper(req'[t], user')
  BY StillEffects, ProperStays DEF Tables
<1> QED BY <1>1, <1>2 DEF StepMay

LEMMA CrashMay ==
  ASSUME AccountsInv, Crash PROVE StepMay
<1>1. TypeOK
  BY DEF AccountsInv
<1>2. req' \in [Requests -> Request]
  BY <1>1, CrashDoes
<1>3. UNCHANGED <<tables, expired, session, limits, mails>> /\ faults' \in Nat
  <2>1. faults \in Nat /\ faults' = faults + 1
    BY <1>1 DEF Crash, TypeOK
  <2>2. UNCHANGED <<tables, expired, session, limits, mails>>
    BY DEF Crash
  <2> QED BY <2>1, <2>2
<1>4. TypeOK' /\ Tables /\ Kept
  BY <1>1, <1>2, <1>3, Quiet DEF Tables
<1>5. user' = user
  BY <1>3 DEF tables
<1> SUFFICES ASSUME NEW t \in Requests
             PROVE  Stable(t) /\ Comes(t) /\ Goes(t) /\ Races(t) /\ Proper(req'[t], user')
  BY <1>4 DEF StepMay
<1>6. CASE req'[t] = req[t]
  <2>1. Stable(t)
    BY <1>6 DEF Stable
  <2> QED BY <1>4, <1>6, <2>1, StillEffects, ProperStays
<1>7. CASE /\ Running(t)
           /\ Fields(req'[t], req[t], "done", "failed", req[t].user, req[t].version,
                     req[t].overtaken, req[t].wrote, req[t].pc)
  <2>1. /\ Proper(req[t], user) /\ LinkState(t) /\ RegisterState /\ req[t] \in Request
        /\ req[t].pc \notin {"idle", "done"}
    BY <1>7, ProperIsRequestState DEF AccountsInv, TypeOK, Running
  <2>2. Stable(t) /\ Goes(t) /\ Races(t)
    BY <1>7, <2>1 DEF Stable, Goes, Races, Fields
  <2>3. Comes(t)
    BY <1>7, <2>1 DEF Comes, Fields, LinkState
  <2>4. req[t].op # "none" /\ req[t].op \in Op
    BY <2>1 DEF Proper, PcsOf, Request
  <2>5. "done" \in PcsOf(req[t].op) /\ "done" \notin Known
    BY <2>4, PcTable DEF Known
  <2>6. Proper(req'[t], user')
    BY <1>7, <2>1, <2>5, ProperStep
  <2> QED BY <2>2, <2>3, <2>6
<1> QED BY <1>1, <1>6, <1>7, CrashDoes

LEMMA SendMailMay ==
  ASSUME AccountsInv, NEW r \in Requests, SendMail(r) PROVE StepMay
<1>1. TypeOK
  BY DEF AccountsInv
<1>2. UNCHANGED <<tables, expired, session, limits, req>> /\ faults' \in Nat
  BY <1>1 DEF SendMail, TypeOK
<1>3. \A s \in {"completed", "failed"} : [mail[r] EXCEPT !.state = s] \in MailJob
  BY <1>1 DEF TypeOK, MailJob
<1>4. [mail[r] EXCEPT !.stalls = @ + 1] \in MailJob
  <2>1. mail[r].stalls + 1 \in Nat
    BY <1>1 DEF TypeOK, MailJob
  <2>2. \A n \in Nat : [mail[r] EXCEPT !.stalls = n] \in MailJob
    BY <1>1 DEF TypeOK, MailJob
  <2> QED BY <2>1, <2>2
<1>5. \E j \in MailJob : mail' = [mail EXCEPT ![r] = j] /\ j.state # "none"
  <2>1. CASE mail' = [mail EXCEPT ![r].state = "completed"]
    <3> DEFINE j == [mail[r] EXCEPT !.state = "completed"]
    <3>1. j \in MailJob /\ j.state = "completed"
      BY <1>1, <1>3 DEF TypeOK, MailJob
    <3> QED BY <2>1, <3>1
  <2>2. CASE mail' = [mail EXCEPT ![r].state = "failed"]
    <3> DEFINE j == [mail[r] EXCEPT !.state = "failed"]
    <3>1. j \in MailJob /\ j.state = "failed"
      BY <1>1, <1>3 DEF TypeOK, MailJob
    <3> QED BY <2>2, <3>1
  <2>3. CASE mail' = [mail EXCEPT ![r].stalls = @ + 1]
    <3> DEFINE j == [mail[r] EXCEPT !.stalls = @ + 1]
    <3>1. j \in MailJob /\ j.state = mail[r].state /\ mail[r].state = "queued"
      BY <1>1, <1>4 DEF SendMail, TypeOK, MailJob
    <3> QED BY <2>3, <3>1
  <2> QED BY <2>1, <2>2, <2>3 DEF SendMail
<1>6. mail[r].state = "queued" /\ delivered' \in {delivered, delivered \cup {r}}
  BY DEF SendMail
<1>7. \A t \in Requests : MailMay(t)
  BY <1>1, <1>5, <1>6 DEF MailMay, TypeOK
<1>8. mail' \in [Requests -> MailJob] /\ delivered' \in SUBSET Requests
  BY <1>1, <1>5, <1>6 DEF TypeOK
<1>9. TypeOK'
  BY <1>1, <1>2, <1>8 DEF TypeOK, tables, limits
<1>10. Tables
  BY <1>2, <1>7, Unchanged DEF Tables, tables, limits
<1> QED BY <1>2, <1>9, <1>10, StillMay

LEMMA ExpireMay ==
  ASSUME AccountsInv PROVE /\ \A r \in Requests : ExpireToken(r) => StepMay
                           /\ \A e \in Emails : ExpireKeys(e) => StepMay
                           /\ UNCHANGED vars => StepMay
<1>1. TypeOK
  BY DEF AccountsInv
<1>2. ASSUME NEW r \in Requests, ExpireToken(r) PROVE StepMay
  <2>1. UNCHANGED <<tables, session, limits, mails, req, faults>>
    BY <1>2 DEF ExpireToken
  <2>2. expired' \in SUBSET Requests
    BY <1>1, <1>2 DEF ExpireToken, TypeOK
  <2>3. TypeOK'
    BY <1>1, <2>1, <2>2 DEF TypeOK, tables, limits, mails
  <2>4. Tables
    BY <2>1, Unchanged DEF Tables, tables, limits
  <2> QED BY <2>1, <2>3, <2>4, StillMay
<1>3. ASSUME NEW e \in Emails, ExpireKeys(e) PROVE StepMay
  <2>1. UNCHANGED <<tables, expired, session, mails, req, faults>>
    BY <1>3 DEF ExpireKeys
  <2>2. /\ forgotCount' \in [Emails -> Nat] /\ forgotTtl' \in [Emails -> BOOLEAN]
        /\ resendLock' \in SUBSET Emails
    <3>1. CASE resendLock' = resendLock \ {e} /\ UNCHANGED <<forgotCount, forgotTtl>>
      BY <1>1, <3>1 DEF TypeOK
    <3>2. CASE /\ forgotCount' = [forgotCount EXCEPT ![e] = 0]
               /\ forgotTtl' = [forgotTtl EXCEPT ![e] = FALSE] /\ UNCHANGED resendLock
      BY <1>1, <3>2 DEF TypeOK
    <3> QED BY <1>3, <3>1, <3>2 DEF ExpireKeys
  <2>3. \A f \in Emails : CounterMay(f)
    BY <1>1, <1>3 DEF ExpireKeys, TypeOK, CounterMay
  <2>4. TypeOK'
    BY <1>1, <2>1, <2>2 DEF TypeOK, tables, mails
  <2>5. Tables
    BY <2>1, <2>3, Unchanged DEF Tables, tables
  <2> QED BY <2>1, <2>4, <2>5, StillMay
<1>4. ASSUME UNCHANGED vars PROVE StepMay
  <2>1. UNCHANGED <<tables, expired, session, limits, mails, req, faults>>
    BY <1>4 DEF vars
  <2>2. TypeOK' /\ Tables
    BY <1>1, <2>1, Quiet DEF TypeOK
  <2> QED BY <2>1, <2>2, StillMay
<1> QED BY <1>2, <1>3, <1>4

LEMMA NextMay ==
  ASSUME AccountsInv, [Next]_vars PROVE StepMay
BY HandleMay, CrashMay, SendMailMay, ExpireMay DEF Next

-----------------------------------------------------------------------------
(* The invariant, from what a step may do: no action is looked at from here on. *)

\* What has ended stays as it was, and an e-mail of it is an e-mail.
LEMMA LinksGrow ==
  ASSUME AccountsInv, StepMay
  PROVE  /\ \A t \in delivered : /\ t \in Requests /\ t \in delivered' /\ req'[t] = req[t]
                                 /\ req[t].pc = "done" /\ req[t].user \in Users
                                 /\ Exists(req[t].user)
         /\ \A ops : Links(ops) \subseteq Links(ops)'
<1>1. ASSUME NEW t \in delivered
      PROVE  /\ t \in Requests /\ t \in delivered' /\ req'[t] = req[t] /\ req[t].pc = "done"
             /\ req[t].user \in Users /\ Exists(req[t].user)
  <2>1. t \in Requests
    BY DEF AccountsInv, TypeOK
  <2>2. req[t].pc = "done" /\ req[t].user \in Users /\ Exists(req[t].user)
    BY <2>1 DEF AccountsInv, LinkState
  <2>3. t \in delivered' /\ req'[t] = req[t]
    BY <2>1, <2>2 DEF StepMay, Tables, MailMay, Stable
  <2> QED BY <2>1, <2>2, <2>3
<1> QED BY <1>1 DEF Links

LEMMA RequestStateKept ==
  ASSUME AccountsInv, StepMay PROVE \A r \in Requests : RequestState(r)'
BY DEF StepMay, RequestState, Proper, Known, Exists

LEMMA LinkStateKept ==
  ASSUME AccountsInv, StepMay, NEW r \in Requests PROVE LinkState(r)'
<1> DEFINE q == req[r]
           w == req'[r]
<1>1. /\ TypeOK /\ RequestState(r) /\ LinkState(r) /\ Stable(r) /\ Comes(r)
      /\ TokenMay(r) /\ MailMay(r) /\ Kept /\ RequestState(r)'
  BY RequestStateKept DEF AccountsInv, StepMay, Tables
<1>2. w.op = "verify" => w.link \in Links({"register", "resend"})'
  BY <1>1, LinksGrow DEF Comes
<1>3. w.op = "reset" => w.link \in Links({"forgot"})'
  BY <1>1, LinksGrow DEF Comes
<1>4. ASSUME w.pc = "verifyUser" PROVE w.user = req'[w.link].user
  <2>1. w.op = "verify" /\ w.link \in Links({"register", "resend"})
    BY <1>1, <1>4, OpAt DEF Comes, RequestState, AccountsInv, StepMay, TypeOK
  <2>2. w.link \in Requests /\ req'[w.link] = req[w.link]
    BY <2>1, LinksGrow DEF Links
  <2>3. CASE q.pc = "verifyUser"
    <3>1. w.user = q.user /\ w.link = q.link
      BY <1>1, <2>3 DEF Stable, Known
    <3>2. q.user = req[q.link].user
      BY <1>1, <2>3 DEF LinkState
    <3> QED BY <2>2, <3>1, <3>2
  <2>4. CASE w.user \in Users /\ Exists(w.user) /\ user[w.user].token = w.link
    <3>1. LinkState(w.link)
      BY <2>2 DEF AccountsInv
    <3>2. req[w.link].user = w.user
      BY <2>4, <3>1 DEF LinkState
    <3> QED BY <2>2, <3>2
  <2> QED BY <1>1, <1>4, <2>3, <2>4 DEF Comes
<1>5. ASSUME mail'[r].state # "none"
      PROVE  w.pc = "done" /\ w.user \in Users /\ user'[w.user] # None
  <2>1. CASE mail[r].state # "none"
    BY <1>1, <2>1 DEF LinkState, Stable, Kept
  <2>2. CASE q.pc = "addMail" /\ w.pc = "done"
    <3>1. q.op # "refresh"
      BY <1>1, <2>2, OpAt DEF RequestState, TypeOK
    <3>2. q.user \in Users /\ Exists(q.user)
      BY <1>1, <2>2, <3>1 DEF RequestState
    <3> QED BY <1>1, <2>2, <3>2 DEF Stable, Known, Kept
  <2> QED BY <1>1, <1>5, <2>1, <2>2 DEF MailMay
<1>6. r \in delivered' => mail'[r].state # "none"
  BY <1>1 DEF MailMay, LinkState
<1>7. ASSUME resetToken'[r] # "none"
      PROVE  w.op = "forgot" /\ w.user \in Users /\ w.pc \in {"addMail", "done"}
  BY <1>1, <1>7 DEF TokenMay, LinkState, Stable, Comes, Known
<1>8. ASSUME NEW u \in Users, user'[u] # None, user'[u].token = r
      PROVE  w.op \in {"register", "resend"} /\ w.user = u /\ w.pc \in {"addMail", "done"}
  <2>1. user'[u].token # None
    BY <1>8, AccountsAssumption
  <2>2. CASE Exists(u) /\ user[u].token = r
    BY <1>1, <2>2 DEF LinkState, Stable, Comes, Known
  <2>3. CASE \E t \in Requests : /\ user'[u].token = t /\ req'[t].pc = "addMail"
                                 /\ req'[t].op \in {"register", "resend"}
                                 /\ req'[t].user = u
    BY <1>8, <2>3
  <2> QED BY <1>8, <2>1, <2>2, <2>3 DEF StepMay, Tables, RowMay
<1> QED BY <1>2, <1>3, <1>4, <1>5, <1>6, <1>7, <1>8 DEF LinkState, Exists

LEMMA LinkFollowsTokenKept ==
  ASSUME AccountsInv, StepMay PROVE LinkFollowsToken'
<1> SUFFICES ASSUME NEW u \in Users, user'[u] # None, ~user'[u].verified,
                    user'[u].token # None
             PROVE  LET t == user'[u].token
                    IN \/ req'[t].pc = "addMail" \/ mail'[t].state # "none"
                       \/ req'[t].stop = "addMail"
  BY DEF LinkFollowsToken, Exists
<1> DEFINE t == user'[u].token
<1>1. CASE \E s \in Requests : t = s /\ req'[s].pc = "addMail"
  BY <1>1
<1>2. CASE Exists(u) /\ t = user[u].token /\ ~user[u].verified
  <2>1. t \in Requests
    BY <1>2 DEF AccountsInv, TypeOK, UserRow, Exists
  <2>2. \/ req[t].pc = "addMail" \/ mail[t].state # "none" \/ req[t].stop = "addMail"
    BY <1>2 DEF AccountsInv, LinkFollowsToken
  <2>3. req[t].stop = "addMail" => req[t].pc = "done"
    BY <2>1 DEF AccountsInv, RequestState
  <2>4. Goes(t) /\ Stable(t) /\ MailMay(t)
    BY <2>1 DEF StepMay, Tables
  <2>5. \/ req'[t].pc = "addMail" \/ mail'[t].state # "none" \/ req'[t].stop = "addMail"
    <3> HIDE DEF t
    <3> QED BY <2>2, <2>3, <2>4 DEF Goes, Stable, MailMay
  <2> QED BY <2>5
<1> QED BY <1>1, <1>2 DEF StepMay, Tables, RowMay

LEMMA VerifiedThroughLinkKept ==
  ASSUME AccountsInv, StepMay PROVE VerifiedThroughLink'
<1> SUFFICES ASSUME NEW u \in Users, user'[u] # None, user'[u].verified
             PROVE  \/ Existing[u] = "verified"
                    \/ \E t \in Links({"register", "resend"})' : req'[t].user = u
  BY DEF VerifiedThroughLink, Exists
<1>1. \A t \in Links({"register", "resend"}) :
        t \in Links({"register", "resend"})' /\ req'[t] = req[t]
  BY LinksGrow DEF Links
<1>2. CASE Exists(u) /\ user[u].verified
  BY <1>1, <1>2 DEF AccountsInv, VerifiedThroughLink
<1>3. CASE \E t \in Requests : req[t].pc = "verifyUser" /\ req[t].user = u
  <2>1. PICK t \in Requests : req[t].pc = "verifyUser" /\ req[t].user = u
    BY <1>3
  <2>2. req[t].op = "verify" /\ LinkState(t)
    BY <2>1, OpAt DEF AccountsInv, RequestState, TypeOK
  <2>3. req[t].link \in Links({"register", "resend"}) /\ req[req[t].link].user = u
    BY <2>1, <2>2 DEF LinkState
  <2> QED BY <1>1, <2>3
<1> QED BY <1>2, <1>3 DEF StepMay, Tables, RowMay

\* What a request that has written keeps.
LEMMA WroteStays ==
  ASSUME AccountsInv, StepMay, NEW r \in Requests, req[r].wrote
  PROVE  /\ req'[r].wrote /\ req'[r].op = req[r].op /\ req'[r].slug = req[r].slug
         /\ req'[r].link = req[r].link /\ req[r].pc \notin {"idle", "resetPassword"}
         /\ req[r].op = "register" => req'[r].user = req[r].user
         /\ req[r].overtaken => req'[r].overtaken
<1>1. Stable(r) /\ req[r].pc \in {"dropSession", "addMail", "done"}
  BY DEF AccountsInv, RequestState, StepMay
<1> QED BY <1>1 DEF Stable

LEMMA RegisterKept ==
  ASSUME AccountsInv, StepMay PROVE RegisterState' /\ OneOwner'
<1>1. /\ RegisterState /\ Kept /\ TypeOK' /\ TypeOK
      /\ \A r \in Requests : /\ Stable(r) /\ Comes(r) /\ Races(r)
                             /\ RequestState(r) /\ RequestState(r)'
  BY RequestStateKept DEF AccountsInv, StepMay, Tables
<1>2. ASSUME NEW r \in Requests, req'[r].op = "register", req'[r].wrote
      PROVE  req'[r].slug \in tenant' /\ user'[req'[r].user] # None
  <2>1. CASE req[r].wrote
    <3>1. req[r].op = "register" /\ req'[r].slug = req[r].slug /\ req'[r].user = req[r].user
      BY <1>2, <2>1, WroteStays
    <3>2. req[r].slug \in tenant /\ Exists(req[r].user) /\ req[r].user \in Users
      BY <1>1, <2>1, <3>1 DEF RegisterState, RequestState
    <3> QED BY <1>1, <3>1, <3>2 DEF Kept
  <2>2. CASE ~req[r].wrote
    BY <1>1, <1>2, <2>2 DEF Races
  <2> QED BY <2>1, <2>2
<1>3. ASSUME NEW r \in Requests, NEW t \in Requests \ {r}, req'[r].op = "register",
             req'[t].op = "register", req'[t].slug = req'[r].slug, req'[r].wrote, req'[t].wrote
      PROVE  FALSE
  <2>1. CASE req[r].wrote /\ req[t].wrote
    BY <1>1, <1>3, <2>1, WroteStays DEF RegisterState
  <2>2. ASSUME NEW x \in Requests, NEW y \in Requests \ {x}, req'[x].op = "register",
               req'[y].op = "register", req'[y].slug = req'[x].slug,
               req'[x].wrote, ~req[x].wrote, req'[y].wrote
        PROVE  FALSE
    <3>1. Alone(x) /\ req'[x].slug \notin tenant
      BY <1>1, <2>2 DEF Races
    <3>2. req[y].wrote
      BY <2>2, <3>1 DEF Alone
    <3>3. req[y].op = "register" /\ req[y].slug = req'[y].slug
      BY <2>2, <3>2, WroteStays
    <3>4. req[y].slug \in tenant
      BY <1>1, <3>2, <3>3 DEF RegisterState
    <3> QED BY <2>2, <3>1, <3>3, <3>4
  <2> QED BY <1>3, <2>1, <2>2
<1>4. \A r \in Requests : req'[r].op = "register" =>
        (req'[r].answer = "ok" \/ req'[r].pc = "addMail" => req'[r].wrote)
  BY <1>1 DEF Comes
<1>5. RegisterState'
  BY <1>2, <1>3, <1>4 DEF RegisterState, Exists
<1>6. OneOwner'
  BY <1>2, <1>3, <1>4 DEF OneOwner, Exists
<1> QED BY <1>5, <1>6

LEMMA ResetKept ==
  ASSUME AccountsInv, StepMay
  PROVE  /\ LinkSetsOnePassword'
         /\ \A r, t \in Requests :
              /\ req'[r].op = "reset" /\ req'[r].wrote /\ req'[r].link = req'[t].link
              /\ req'[t].pc = "resetPassword"
              => req'[t].overtaken
<1>1. /\ RaceState /\ LinkSetsOnePassword /\ TypeOK /\ TypeOK'
      /\ \A r \in Requests : /\ Stable(r) /\ Comes(r) /\ Races(r) /\ LinkState(r)
                             /\ TokenMay(r) /\ RequestState(r) /\ RequestState(r)'
  BY RequestStateKept DEF AccountsInv, StepMay, Tables
<1>2. ASSUME NEW r \in Requests, req'[r].op = "reset", req'[r].wrote
      PROVE  resetToken'[req'[r].link] = "used"
  <2>1. CASE req[r].wrote
    <3>1. req[r].op = "reset" /\ req'[r].link = req[r].link
      BY <1>2, <2>1, WroteStays
    <3>2. resetToken[req[r].link] = "used" /\ req[r].link \in Requests
      BY <1>1, <2>1, <3>1 DEF LinkSetsOnePassword, LinkState, Links, TypeOK
    <3> QED BY <1>1, <3>1, <3>2 DEF TokenMay
  <2>2. CASE ~req[r].wrote
    BY <1>1, <1>2, <2>2 DEF Races
  <2> QED BY <2>1, <2>2
<1>3. ASSUME NEW r \in Requests, NEW t \in Requests, req'[r].op = "reset", req'[r].wrote,
             req'[r].link = req'[t].link, req'[t].pc = "resetPassword"
      PROVE  req'[t].overtaken
  <2>1. r # t /\ req'[t].op = "reset"
    BY <1>1, <1>3, OpAt DEF RequestState, TypeOK
  <2>2. CASE req[r].wrote
    <3>1. req[r].op = "reset" /\ req'[r].link = req[r].link
      BY <1>3, <2>2, WroteStays
    <3>2. resetToken[req[r].link] = "used"
      BY <1>1, <2>2, <3>1 DEF LinkSetsOnePassword
    <3>3. req[t].pc = "resetPassword"
      <4>1. req[t].pc = "resetPassword" \/ resetToken[req'[t].link] = "unused"
        BY <1>1, <1>3 DEF Comes
      <4> QED BY <1>3, <3>1, <3>2, <4>1
    <3>4. req'[t].link = req[t].link /\ (req[t].overtaken => req'[t].overtaken)
      BY <1>1, <3>3 DEF Stable
    <3>5. req[r].link = req[t].link
      BY <1>3, <3>1, <3>4
    <3>6. req[t].overtaken
      BY <1>1, <2>2, <3>1, <3>3, <3>5 DEF RaceState
    <3> QED BY <3>4, <3>6
  <2>3. CASE ~req[r].wrote
    BY <1>1, <1>3, <2>1, <2>3 DEF Races
  <2> QED BY <2>2, <2>3
<1>4. ASSUME NEW r \in Requests, NEW t \in Requests \ {r}, req'[r].op = "reset", req'[r].wrote,
             req'[t].op = "reset", req'[t].wrote, req'[t].link = req'[r].link
      PROVE  req'[t].overtaken \/ req'[r].overtaken
  <2>1. CASE req[r].wrote /\ req[t].wrote
    <3>1. /\ req[r].op = "reset" /\ req[t].op = "reset" /\ req[t].link = req[r].link
          /\ req[r].overtaken => req'[r].overtaken
          /\ req[t].overtaken => req'[t].overtaken
      BY <1>4, <2>1, WroteStays
    <3> QED BY <1>1, <2>1, <3>1 DEF LinkSetsOnePassword
  <2>2. ASSUME NEW x \in Requests, NEW y \in Requests \ {x}, req'[x].op = "reset",
               req'[y].op = "reset", req'[y].link = req'[x].link,
               req'[x].wrote, ~req[x].wrote, req'[y].wrote
        PROVE  req'[x].overtaken
    <3>1. Alone(x) /\ req[x].pc = "resetPassword"
      BY <1>1, <2>2 DEF Races
    <3>2. req[y].wrote
      BY <2>2, <3>1 DEF Alone
    <3>3. req[y].op = "reset" /\ req[y].link = req'[y].link
      BY <2>2, <3>2, WroteStays
    <3>4. req'[x].link = req[x].link /\ (req[x].overtaken => req'[x].overtaken)
      BY <1>1, <3>1 DEF Stable
    <3> QED BY <1>1, <2>2, <3>1, <3>2, <3>3, <3>4 DEF RaceState
  <2> QED BY <1>4, <2>1, <2>2
<1> QED BY <1>2, <1>3, <1>4 DEF LinkSetsOnePassword

LEMMA TokensKept ==
  ASSUME AccountsInv, StepMay PROVE RaceState' /\ OneUsableLink'
<1> DEFINE Active(t) == req[t].pc = "createToken" \/ resetToken[t] = "unused"
           Active2(t) == req'[t].pc = "createToken" \/ resetToken'[t] = "unused"
<1>1. /\ RaceState
      /\ \A r \in Requests : /\ Stable(r) /\ Races(r) /\ LinkState(r) /\ TokenMay(r)
  BY DEF AccountsInv, StepMay, Tables
<1>2. ASSUME NEW t \in Requests, Active2(t), Active(t)
      PROVE  req'[t].user = req[t].user /\ (req[t].overtaken => req'[t].overtaken)
  BY <1>1, <1>2 DEF Stable, LinkState, Known
<1>3. ASSUME NEW t \in Requests, Active2(t), ~Active(t)
      PROVE  \A s \in Requests \ {t} : req'[s].user = req'[t].user /\ Active2(s)
               => req'[s].overtaken
  BY <1>1, <1>3 DEF Races, TokenMay
<1>4. ASSUME NEW r \in Requests, NEW t \in Requests, r # t, req'[r].user = req'[t].user,
             Active2(r), Active2(t)
      PROVE  req'[r].overtaken \/ req'[t].overtaken
  <2>1. CASE Active(r) /\ Active(t)
    BY <1>1, <1>2, <1>4, <2>1 DEF RaceState
  <2> QED BY <1>3, <1>4, <2>1
<1>5. RaceState'
  BY <1>4, ResetKept DEF RaceState
<1>6. OneUsableLink'
  BY <1>4 DEF OneUsableLink
<1> QED BY <1>5, <1>6

LEMMA PendingStays ==
  ASSUME AccountsInv, StepMay, NEW u \in Users, ChangePending(u)
  PROVE  ChangePending(u)' \/ Dropped(u)
<1>1. PICK r \in Requests : req[r].user = u /\ "dropSession" \in {req[r].pc, req[r].stop}
  BY DEF ChangePending
<1>2. Stable(r) /\ Goes(r) /\ RequestState(r)
  BY DEF AccountsInv, StepMay
<1>3. CASE req[r].pc = "dropSession"
  BY <1>1, <1>2, <1>3 DEF Stable, Goes, Known, ChangePending
<1>4. CASE req[r].stop = "dropSession"
  BY <1>1, <1>2, <1>4 DEF Stable, RequestState, ChangePending
<1> QED BY <1>1, <1>3, <1>4

LEMMA SessionsKept ==
  ASSUME AccountsInv, StepMay PROVE SessionState' /\ SessionEndsWithPassword'
<1>1. /\ TypeOK /\ TypeOK' /\ SessionState /\ SessionEndsWithPassword
      /\ \A r \in Requests : Stable(r) /\ Comes(r) /\ RequestState(r) /\ RequestState(r)'
      /\ \A u \in Users : RowMay(u) /\ SessionMay(u)
  BY RequestStateKept DEF AccountsInv, StepMay, Tables
\* A version below the user's: it was so before, or the password has just been set.
<1>2. ASSUME NEW u \in Users, NEW v \in Nat, user'[u] # None, v < user'[u].version
      PROVE  (Exists(u) /\ v < user[u].version) \/ ChangePending(u)'
  BY <1>1, <1>2 DEF RowMay, ChangePending
<1>3. ASSUME NEW r \in Requests, req'[r].pc \in {"findSession", "storeSession"},
             NEW u, u = req'[r].user, user'[u] # None, req'[r].version < user'[u].version
      PROVE  req'[r].overtaken \/ ChangePending(u)'
  <2>1. u \in Users /\ req'[r].version \in Nat
    BY <1>1, <1>3 DEF RequestState, TypeOK, Request
  <2>2. SUFFICES ASSUME Exists(u), req'[r].version < user[u].version PROVE
                        req'[r].overtaken \/ ChangePending(u)'
    BY <1>2, <1>3, <2>1
  <2>3. Dropped(u) => req'[r].overtaken
    BY <1>3 DEF Dropped
  <2>4. CASE req[r].pc \in {"findSession", "storeSession"} /\ req'[r].version = req[r].version
    <3>1. req'[r].user = req[r].user /\ (req[r].overtaken => req'[r].overtaken)
      BY <1>1, <2>4 DEF Stable, Known
    <3>2. req[r].overtaken \/ ChangePending(u)
      BY <1>1, <1>3, <2>2, <2>4, <3>1 DEF SessionState
    <3> QED BY <2>1, <2>3, <3>1, <3>2, PendingStays
  <2>5. CASE user' = user /\ Exists(u) /\ req'[r].version = user[u].version
    <3>1. user[u].version \in Nat
      BY <1>1, <2>1, <2>5 DEF TypeOK, UserRow, Exists
    <3> QED BY <2>2, <2>5, <3>1
  <2>6. CASE /\ session[u] # None /\ req'[r].version = session[u].version
             /\ req'[r].overtaken = session[u].overtaken
    <3>1. session[u].overtaken \/ ChangePending(u)
      BY <1>1, <2>1, <2>2, <2>6 DEF SessionEndsWithPassword
    <3> QED BY <2>1, <2>3, <2>6, <3>1, PendingStays
  <2> QED BY <1>1, <1>3, <2>4, <2>5, <2>6 DEF Comes
<1>4. ASSUME NEW u \in Users, session'[u] # None, user'[u] # None,
             session'[u].version < user'[u].version
      PROVE  session'[u].overtaken \/ ChangePending(u)'
  <2>1. session'[u].version \in Nat
    BY <1>1, <1>4 DEF TypeOK, Session
  <2>2. SUFFICES ASSUME Exists(u), session'[u].version < user[u].version
                 PROVE  session'[u].overtaken \/ ChangePending(u)'
    BY <1>2, <1>4, <2>1
  <2>3. ~Dropped(u)
    BY <1>4 DEF Dropped
  <2>4. CASE session'[u] = session[u]
    <3>1. session[u].overtaken \/ ChangePending(u)
      BY <1>1, <1>4, <2>2, <2>4 DEF SessionEndsWithPassword
    <3> QED BY <2>3, <2>4, <3>1, PendingStays
  <2>5. ASSUME NEW t \in Requests, req[t].pc = "storeSession", req[t].user = u,
               session'[u].version = req[t].version, session'[u].overtaken = req[t].overtaken
        PROVE  session'[u].overtaken \/ ChangePending(u)'
    <3>1. req[t].overtaken \/ ChangePending(u)
      BY <1>1, <2>2, <2>5 DEF SessionState
    <3> QED BY <2>3, <2>5, <3>1, PendingStays
  <2> QED BY <1>1, <1>4, <2>4, <2>5 DEF SessionMay
<1>5. SessionState'
  BY <1>3 DEF SessionState, Exists
<1>6. SessionEndsWithPassword'
  BY <1>4 DEF SessionEndsWithPassword, Exists
<1> QED BY <1>5, <1>6

LEMMA CounterEndsKept ==
  ASSUME AccountsInv, StepMay PROVE CounterEnds'
<1> SUFFICES ASSUME NEW e \in Emails, forgotCount'[e] > 0, ~forgotTtl'[e]
             PROVE  \E r \in Requests : /\ req'[r].email = e
                                        /\ "expireForgot" \in {req'[r].pc, req'[r].stop}
  BY DEF CounterEnds
<1>1. CASE forgotCount[e] > 0 /\ ~forgotTtl[e]
  <2>1. PICK r \in Requests : req[r].email = e /\ "expireForgot" \in {req[r].pc, req[r].stop}
    BY <1>1 DEF AccountsInv, CounterEnds
  <2>2. Stable(r) /\ Goes(r) /\ RequestState(r)
    BY DEF AccountsInv, StepMay
  <2>3. req'[r].email = e /\ "expireForgot" \in {req'[r].pc, req'[r].stop}
    BY <2>1, <2>2 DEF Stable, Goes, RequestState
  <2> QED BY <2>3
<1>2. CASE \E t \in Requests : req'[t].pc = "expireForgot" /\ req'[t].email = e
  BY <1>2
<1> QED BY <1>1, <1>2 DEF StepMay, Tables, CounterMay

LEMMA NextKeeps ==
  ASSUME AccountsInv, [Next]_vars PROVE AccountsInv'
<1>1. StepMay
  BY NextMay
<1>2. TypeOK'
  BY <1>1 DEF StepMay
<1>3. \A r \in Requests : RequestState(r)' /\ LinkState(r)'
  BY <1>1, RequestStateKept, LinkStateKept
<1> QED BY <1>1, <1>2, <1>3, LinkFollowsTokenKept, VerifiedThroughLinkKept, RegisterKept,
     ResetKept, TokensKept, SessionsKept, CounterEndsKept DEF AccountsInv

-----------------------------------------------------------------------------
(* The theorems. *)

\* The inductive invariant of the accounts: every step of every handler, also
\* of handlers that overlap, fail or die, keeps it.
THEOREM AccountsInvariant == AccountsSpec => []AccountsInv
BY InitKeeps, NextKeeps, PTL DEF AccountsSpec

\* A token that register (129) or resendVerification (242) has written is
\* followed by its e-mail, unless adding that e-mail is what failed.
THEOREM LinkFollowsTokenHolds == AccountsSpec => []LinkFollowsToken
<1>1. AccountsInv => LinkFollowsToken
  BY DEF AccountsInv
<1> QED BY <1>1, AccountsInvariant, PTL

\* Of all that register a slug one is told that it succeeded, and owns it.
THEOREM OneOwnerHolds == AccountsSpec => []OneOwner
<1>1. AccountsInv => OneOwner
  BY DEF AccountsInv
<1> QED BY <1>1, AccountsInvariant, PTL

\* Nobody is verified but by a link mailed to that very user.
THEOREM VerifiedThroughLinkHolds == AccountsSpec => []VerifiedThroughLink
<1>1. AccountsInv => VerifiedThroughLink
  BY DEF AccountsInv
<1> QED BY <1>1, AccountsInvariant, PTL

\* A reset link sets one password, but for requests that had read it before.
THEOREM LinkSetsOnePasswordHolds == AccountsSpec => []LinkSetsOnePassword
<1>1. AccountsInv => LinkSetsOnePassword
  BY DEF AccountsInv
<1> QED BY <1>1, AccountsInvariant, PTL

\* A user has one usable reset link, but for requests that overlapped.
THEOREM OneUsableLinkHolds == AccountsSpec => []OneUsableLink
<1>1. AccountsInv => OneUsableLink
  BY DEF AccountsInv
<1> QED BY <1>1, AccountsInvariant, PTL

\* A session ends with the password it was opened with (357, 399).
THEOREM SessionEndsWithPasswordHolds == AccountsSpec => []SessionEndsWithPassword
<1>1. AccountsInv => SessionEndsWithPassword
  BY DEF AccountsInv
<1> QED BY <1>1, AccountsInvariant, PTL

\* The counter of forgotPassword ends (266-269), unless a request failed
\* between incr and expire.
THEOREM CounterEndsHolds == AccountsSpec => []CounterEnds
<1>1. AccountsInv => CounterEnds
  BY DEF AccountsInv
<1> QED BY <1>1, AccountsInvariant, PTL
=============================================================================
