------------------------------- MODULE Accounts -------------------------------
(***************************************************************************)
(* AuthService and EmailProcessor: the handlers that register an account,  *)
(* verify its e-mail, reset and change its password and keep its session,  *)
(* split at every call of PostgreSQL, Redis and the e-mail queue, with     *)
(* other requests, failures and expiries between the calls.                *)
(*                                                                         *)
(* A token is the request that generated it: crypto.randomBytes never      *)
(* repeats, and a request generates at most one.  So is a refresh token.   *)
(***************************************************************************)
EXTENDS Naturals, FiniteSets

CONSTANTS
  Slugs, Emails, Passwords,
  Requests,   \* HTTP requests, each served once
  Existing,   \* Existing[u]: what the database held of user u before
  ForgotMax,  \* FORGOT_MAX_PER_HOUR
  Faults,     \* bound: failed round trips and jobs, deaths of the process
  None

\* @@unique([tenantId, email]).
Users == Slugs \X Emails

UserRow == [password: Passwords, verified: BOOLEAN, token: Requests \cup {None},
            version: Nat]  \* history: how often the password has been set

ASSUME AccountsAssumption ==
  /\ None \notin Requests \cup Slugs \cup Users \cup UserRow
  /\ Existing \in [Users -> {"none", "seeded", "verified"}]
  /\ ForgotMax \in Nat \ {0}
  /\ Faults \in Nat

-----------------------------------------------------------------------------
VARIABLES
  tenant,      \* slugs of the tenants
  user,        \* users by their unique key
  resetToken,  \* password_reset_tokens, by the request that created them
  expired,     \* tokens whose expiresAt has passed
  session,     \* Redis: refresh:<userId>
  forgotCount, \* Redis: forgot-pwd:<email>, 0 when there is no such key
  forgotTtl,   \* whether that key has a time to live
  resendLock,  \* Redis: the resend-verify:<email> keys there are
  mail,        \* e-mail jobs, by the request that added them
  delivered,   \* requests whose e-mail the mail server has accepted
  req,         \* the locals of the handlers
  faults

tables == <<tenant, user, resetToken>>
limits == <<forgotCount, forgotTtl, resendLock>>
mails  == <<mail, delivered>>
vars   == <<tables, expired, session, limits, mails, req, faults>>

Session == [token: Requests, version: Nat, overtaken: BOOLEAN]
MailJob == [state: {"none", "queued", "completed", "failed"}, stalls: Nat]

Op == {"none", "register", "login", "verify", "resend", "forgot", "reset",
       "change", "refresh"}
Pc == {"idle", "findTenant", "createAccount", "findLogin", "getSession",
       "findSession", "storeSession", "findLink", "verifyUser", "lockResend",
       "findResend", "updateToken", "incrForgot", "expireForgot", "findForgot",
       "voidTokens", "createToken", "findToken", "resetPassword", "findUser",
       "changePassword", "dropSession", "addMail", "done"}
Request == [op: Op, pc: Pc,
  slug: Slugs \cup {None}, email: Emails \cup {None},  \* what was submitted
  password: Passwords \cup {None}, newPassword: Passwords \cup {None},
  link: Requests \cup {None},
  user: Users \cup {None},          \* the row that was found
  version: Nat,                     \* history: of the password it stands for
  overtaken: BOOLEAN,               \* history: see DropSession, VoidTokens, ResetPassword
  wrote: BOOLEAN,                   \* history: its transaction has committed
  stop: Pc,                         \* history: where an error struck, or "idle"
  answer: {"none", "ok", "refused", "failed"}]

Blank == [op |-> "none", pc |-> "idle", slug |-> None, email |-> None,
          password |-> None, newPassword |-> None, link |-> None, user |-> None,
          version |-> 0, overtaken |-> FALSE, wrote |-> FALSE, stop |-> "idle",
          answer |-> "none"]

Running(r) == req[r].pc \notin {"idle", "done"}
Set(r, locals) == req' = [req EXCEPT ![r] = locals]
Goto(r, pc) == Set(r, [req[r] EXCEPT !.pc = pc])
Reply(r, answer) == Set(r, [req[r] EXCEPT !.pc = "done", !.answer = answer])

\* The last await of a handler: its effect may be applied and the answer be an
\* error all the same.
Finish(r, locals) ==
  \/ /\ Set(r, [locals EXCEPT !.pc = "done", !.answer = "ok"])
     /\ UNCHANGED faults
  \/ /\ faults < Faults /\ faults' = faults + 1
     /\ Set(r, [locals EXCEPT !.pc = "done", !.answer = "failed"])

Exists(u) == user[u] # None

\* findUserByEmailAndTenant: without a slug the e-mail must name a single user.
Found(r, u) ==
  {v \in Users : Exists(v) /\ v[2] = req[r].email
                 /\ (req[r].slug # None => v[1] = req[r].slug)} = {u}
NotFound(r) == ~\E u \in Users : Found(r, u)

\* Accounts of the seed are unverified and have no token.
InitialRow(u, password) ==
  IF Existing[u] = "none" THEN None
  ELSE [password |-> password, verified |-> Existing[u] = "verified",
        token |-> None, version |-> 0]

Init ==
  /\ tenant = {u[1] : u \in {v \in Users : Existing[v] # "none"}}
  /\ \E password \in Passwords : user = [u \in Users |-> InitialRow(u, password)]
  /\ resetToken = [r \in Requests |-> "none"]
  /\ expired = {}
  /\ session = [u \in Users |-> None]
  /\ forgotCount = [e \in Emails |-> 0]
  /\ forgotTtl = [e \in Emails |-> FALSE]
  /\ resendLock = {}
  /\ mail = [r \in Requests |-> [state |-> "none", stalls |-> 0]]
  /\ delivered = {}
  /\ req = [r \in Requests |-> Blank]
  /\ faults = 0

-----------------------------------------------------------------------------
(* Requests.  A link is one that an e-mail has carried. *)

Links(ops) == {t \in delivered : req[t].op \in ops}
Issued == {t \in Requests : req[t].op \in {"login", "refresh"} /\ req[t].answer = "ok"}

Receive(r) ==
  /\ req[r].pc = "idle"
  /\ \/ \E s \in Slugs, e \in Emails, p \in Passwords :
          Set(r, [Blank EXCEPT !.op = "register", !.pc = "findTenant", !.slug = s,
                               !.email = e, !.password = p, !.user = <<s, e>>])
     \/ \E e \in Emails, p \in Passwords :
          Set(r, [Blank EXCEPT !.op = "login", !.pc = "findLogin", !.email = e,
                               !.password = p])
     \/ \E t \in Links({"register", "resend"}) :
          Set(r, [Blank EXCEPT !.op = "verify", !.pc = "findLink", !.link = t])
     \/ \E e \in Emails, s \in Slugs \cup {None} :
          \/ Set(r, [Blank EXCEPT !.op = "resend", !.pc = "lockResend",
                                  !.email = e, !.slug = s])
          \/ Set(r, [Blank EXCEPT !.op = "forgot", !.pc = "incrForgot",
                                  !.email = e, !.slug = s])
     \/ \E t \in Links({"forgot"}), p \in Passwords :
          Set(r, [Blank EXCEPT !.op = "reset", !.pc = "findToken", !.link = t,
                               !.newPassword = p])
     \/ \E u \in Users, p, q \in Passwords :
          /\ Exists(u)
          /\ Set(r, [Blank EXCEPT !.op = "change", !.pc = "findUser", !.user = u,
                                  !.password = p, !.newPassword = q])
     \/ \E t \in Issued :
          Set(r, [Blank EXCEPT !.op = "refresh", !.pc = "getSession", !.link = t,
                               !.user = req[t].user])
  /\ UNCHANGED <<tables, expired, session, limits, mails, faults>>

-----------------------------------------------------------------------------
(* register *)

FindTenant(r) ==
  /\ req[r].pc = "findTenant"
  /\ \/ req[r].slug \in tenant /\ Reply(r, "refused")
     \/ req[r].slug \notin tenant /\ Goto(r, "createAccount")
  /\ UNCHANGED <<tables, expired, session, limits, mails, faults>>

NewOwner(r) ==
  [password |-> req[r].password, verified |-> FALSE, token |-> r, version |-> 0]

\* Mutant: tenant.upsert in place of tenant.create, so the unique key refuses nobody.
UpsertAccount(r) ==
  /\ req[r].pc = "createAccount"
  /\ tenant' = tenant \cup {req[r].slug}
  /\ user' = [user EXCEPT ![req[r].user] = NewOwner(r)]
  /\ Set(r, [req[r] EXCEPT !.pc = "addMail", !.wrote = TRUE])
  /\ UNCHANGED <<resetToken, expired, session, limits, mails, faults>>

\* The transaction creates the tenant and its owner; the slug is unique, so the
\* loser of two that found it free fails.
CreateAccount(r) ==
  /\ req[r].pc = "createAccount"
  /\ \/ req[r].slug \in tenant /\ Reply(r, "refused") /\ UNCHANGED tables
     \/ /\ req[r].slug \notin tenant
        /\ tenant' = tenant \cup {req[r].slug}
        /\ user' = [user EXCEPT ![req[r].user] = NewOwner(r)]
        /\ Set(r, [req[r] EXCEPT !.pc = "addMail", !.wrote = TRUE])
        /\ UNCHANGED resetToken
  /\ UNCHANGED <<expired, session, limits, mails, faults>>

-----------------------------------------------------------------------------
(* login and refreshToken *)

\* findFirst by e-mail, whatever the tenant; the password is compared with the
\* row that was read.
FindLogin(r) ==
  /\ req[r].pc = "findLogin"
  /\ \/ /\ ~\E u \in Users : Exists(u) /\ u[2] = req[r].email
        /\ Reply(r, "refused")
     \/ \E u \in Users :
          /\ Exists(u) /\ u[2] = req[r].email
          /\ \/ /\ req[r].password = user[u].password
                /\ user[u].verified
                /\ Set(r, [req[r] EXCEPT !.pc = "storeSession", !.user = u,
                                         !.version = user[u].version])
             \/ /\ req[r].password # user[u].password \/ ~user[u].verified
                /\ Reply(r, "refused")
  /\ UNCHANGED <<tables, expired, session, limits, mails, faults>>

\* validateRefreshToken.
GetSession(r) ==
  LET s == session[req[r].user]
  IN /\ req[r].pc = "getSession"
     /\ \/ /\ s # None /\ s.token = req[r].link
           /\ Set(r, [req[r] EXCEPT !.pc = "findSession", !.version = s.version,
                                    !.overtaken = s.overtaken])
        \/ (s # None => s.token # req[r].link) /\ Reply(r, "refused")
     /\ UNCHANGED <<tables, expired, session, limits, mails, faults>>

\* The user is still there: nothing deletes or deactivates one.
FindSession(r) ==
  /\ req[r].pc = "findSession"
  /\ Goto(r, "storeSession")
  /\ UNCHANGED <<tables, expired, session, limits, mails, faults>>

\* storeRefreshToken, at the end of generateTokens.
StoreSession(r) ==
  /\ req[r].pc = "storeSession"
  /\ session' = [session EXCEPT ![req[r].user] =
       [token |-> r, version |-> req[r].version, overtaken |-> req[r].overtaken]]
  /\ Finish(r, req[r])
  /\ UNCHANGED <<tables, expired, limits, mails>>

-----------------------------------------------------------------------------
(* verifyEmail and resendVerification *)

FindLink(r) ==
  LET t == req[r].link
  IN /\ req[r].pc = "findLink"
     /\ \/ /\ \A u \in Users : Exists(u) => user[u].token # t
           /\ Reply(r, "refused")
        \/ \E u \in Users :
             /\ Exists(u) /\ user[u].token = t
             /\ \/ t \in expired /\ Reply(r, "refused")
                \/ t \notin expired /\ user[u].verified /\ Reply(r, "ok")
                \/ /\ t \notin expired /\ ~user[u].verified
                   /\ Set(r, [req[r] EXCEPT !.pc = "verifyUser", !.user = u])
     /\ UNCHANGED <<tables, expired, session, limits, mails, faults>>

\* The update names the user only: it clears whatever token is there by then.
VerifyUser(r) ==
  /\ req[r].pc = "verifyUser"
  /\ user' = [user EXCEPT ![req[r].user].verified = TRUE, ![req[r].user].token = None]
  /\ Finish(r, req[r])
  /\ UNCHANGED <<tenant, resetToken, expired, session, limits, mails>>

\* SET NX EX 60.
LockResend(r) ==
  /\ req[r].pc = "lockResend"
  /\ \/ req[r].email \in resendLock /\ Reply(r, "ok") /\ UNCHANGED resendLock
     \/ /\ req[r].email \notin resendLock
        /\ resendLock' = resendLock \cup {req[r].email}
        /\ Goto(r, "findResend")
  /\ UNCHANGED <<tables, expired, session, forgotCount, forgotTtl, mails, faults>>

FindResend(r) ==
  /\ req[r].pc = "findResend"
  /\ \/ NotFound(r) /\ Reply(r, "ok")
     \/ \E u \in Users :
          /\ Found(r, u)
          /\ \/ user[u].verified /\ Reply(r, "ok")
             \/ /\ ~user[u].verified
                /\ Set(r, [req[r] EXCEPT !.pc = "updateToken", !.user = u])
  /\ UNCHANGED <<tables, expired, session, limits, mails, faults>>

UpdateToken(r) ==
  /\ req[r].pc = "updateToken"
  /\ user' = [user EXCEPT ![req[r].user].token = r]
  /\ Goto(r, "addMail")
  /\ UNCHANGED <<tenant, resetToken, expired, session, limits, mails, faults>>

-----------------------------------------------------------------------------
(* forgotPassword *)

\* Mutant: off by one, the second request sets the time to live.
IncrForgotLate(r) ==
  LET e == req[r].email
      count == forgotCount[e] + 1
  IN /\ req[r].pc = "incrForgot"
     /\ forgotCount' = [forgotCount EXCEPT ![e] = count]
     /\ \/ count = 2 /\ Goto(r, "expireForgot")
        \/ count # 2 /\ count <= ForgotMax /\ Goto(r, "findForgot")
        \/ count # 2 /\ count > ForgotMax /\ Reply(r, "ok")
     /\ UNCHANGED <<tables, expired, session, forgotTtl, resendLock, mails, faults>>

\* The counter decides by its value after the increment; only the first one
\* gives the key a time to live.
IncrForgot(r) ==
  LET e == req[r].email
      count == forgotCount[e] + 1
  IN /\ req[r].pc = "incrForgot"
     /\ forgotCount' = [forgotCount EXCEPT ![e] = count]
     /\ \/ count = 1 /\ Goto(r, "expireForgot")
        \/ count > 1 /\ count <= ForgotMax /\ Goto(r, "findForgot")
        \/ count > 1 /\ count > ForgotMax /\ Reply(r, "ok")
     /\ UNCHANGED <<tables, expired, session, forgotTtl, resendLock, mails, faults>>

ExpireForgot(r) ==
  /\ req[r].pc = "expireForgot"
  /\ forgotTtl' = [forgotTtl EXCEPT ![req[r].email] = TRUE]
  /\ Goto(r, "findForgot")
  /\ UNCHANGED <<tables, expired, session, forgotCount, resendLock, mails, faults>>

FindForgot(r) ==
  /\ req[r].pc = "findForgot"
  /\ \/ NotFound(r) /\ Reply(r, "ok")
     \/ \E u \in Users : /\ Found(r, u)
                         /\ Set(r, [req[r] EXCEPT !.pc = "voidTokens", !.user = u])
  /\ UNCHANGED <<tables, expired, session, limits, mails, faults>>

\* Mutant: only the tokens that have expired are voided.
VoidExpired(r) ==
  /\ req[r].pc = "voidTokens"
  /\ resetToken' = [t \in Requests |->
       IF resetToken[t] = "unused" /\ req[t].user = req[r].user /\ t \in expired
       THEN "used" ELSE resetToken[t]]
  /\ Goto(r, "createToken")
  /\ UNCHANGED <<tenant, user, expired, session, limits, mails, faults>>

\* updateMany({userId, usedAt: null}).  A request of that user that is between
\* its own updateMany and create is overtaken.
VoidTokens(r) ==
  LET u == req[r].user
  IN /\ req[r].pc = "voidTokens"
     /\ resetToken' = [t \in Requests |->
          IF resetToken[t] = "unused" /\ req[t].user = u THEN "used" ELSE resetToken[t]]
     /\ req' = [t \in Requests |->
          IF t = r THEN [req[t] EXCEPT !.pc = "createToken"]
          ELSE IF req[t].pc = "createToken" /\ req[t].user = u
               THEN [req[t] EXCEPT !.overtaken = TRUE] ELSE req[t]]
     /\ UNCHANGED <<tenant, user, expired, session, limits, mails, faults>>

CreateToken(r) ==
  /\ req[r].pc = "createToken"
  /\ resetToken' = [resetToken EXCEPT ![r] = "unused"]
  /\ Goto(r, "addMail")
  /\ UNCHANGED <<tenant, user, expired, session, limits, mails, faults>>

-----------------------------------------------------------------------------
(* resetPassword and changePassword *)

\* Mutant: usedAt is not looked at.
FindAnyToken(r) ==
  LET u == req[req[r].link].user
  IN /\ req[r].pc = "findToken"
     /\ \/ /\ req[r].link \in expired \/ req[r].newPassword = user[u].password
           /\ Reply(r, "refused")
        \/ /\ req[r].link \notin expired /\ req[r].newPassword # user[u].password
           /\ Set(r, [req[r] EXCEPT !.pc = "resetPassword", !.user = u])
     /\ UNCHANGED <<tables, expired, session, limits, mails, faults>>

\* findUnique with the user: the link may be used up or expired, the new
\* password be the one the user has.
FindToken(r) ==
  LET t == req[r].link
      u == req[t].user
      valid == /\ resetToken[t] = "unused" /\ t \notin expired
               /\ req[r].newPassword # user[u].password
  IN /\ req[r].pc = "findToken"
     /\ \/ ~valid /\ Reply(r, "refused")
        \/ valid /\ Set(r, [req[r] EXCEPT !.pc = "resetPassword", !.user = u])
     /\ UNCHANGED <<tables, expired, session, limits, mails, faults>>

WritePassword(r) ==
  user' = [user EXCEPT ![req[r].user].password = req[r].newPassword,
                       ![req[r].user].version = @ + 1]

\* Mutant: usedAt is left to a statement that a crash may cut off.
ResetWithoutTransaction(r) ==
  /\ req[r].pc = "resetPassword"
  /\ WritePassword(r)
  /\ Set(r, [req[r] EXCEPT !.pc = "dropSession", !.wrote = TRUE])
  /\ UNCHANGED <<tenant, resetToken, expired, session, limits, mails, faults>>

\* Mutant: who could use a reset link counts as verified.
ResetAndVerify(r) ==
  LET u == req[r].user
  IN /\ req[r].pc = "resetPassword"
     /\ user' = [user EXCEPT ![u].password = req[r].newPassword, ![u].version = @ + 1,
                             ![u].verified = TRUE]
     /\ resetToken' = [resetToken EXCEPT ![req[r].link] = "used"]
     /\ Set(r, [req[r] EXCEPT !.pc = "dropSession", !.wrote = TRUE])
     /\ UNCHANGED <<tenant, expired, session, limits, mails, faults>>

\* The transaction: the password and usedAt.  A request that has read the same
\* link as unused is overtaken.
ResetPassword(r) ==
  /\ req[r].pc = "resetPassword"
  /\ WritePassword(r)
  /\ resetToken' = [resetToken EXCEPT ![req[r].link] = "used"]
  /\ req' = [t \in Requests |->
       IF t = r THEN [req[t] EXCEPT !.pc = "dropSession", !.wrote = TRUE]
       ELSE IF req[t].pc = "resetPassword" /\ req[t].link = req[r].link
            THEN [req[t] EXCEPT !.overtaken = TRUE] ELSE req[t]]
  /\ UNCHANGED <<tenant, expired, session, limits, mails, faults>>

FindUser(r) ==
  LET u == req[r].user
      valid == req[r].password = user[u].password /\ req[r].password # req[r].newPassword
  IN /\ req[r].pc = "findUser"
     /\ \/ ~valid /\ Reply(r, "refused")
        \/ valid /\ Goto(r, "changePassword")
     /\ UNCHANGED <<tables, expired, session, limits, mails, faults>>

ChangePassword(r) ==
  /\ req[r].pc = "changePassword"
  /\ WritePassword(r)
  /\ Set(r, [req[r] EXCEPT !.pc = "dropSession", !.wrote = TRUE])
  /\ UNCHANGED <<tenant, resetToken, expired, session, limits, mails, faults>>

\* Mutant: the session's end is not awaited, and its error lost.
DropSessionLater(r) ==
  /\ req[r].pc = "dropSession"
  /\ Set(r, [req[r] EXCEPT !.pc = "addMail"])
  /\ UNCHANGED <<tables, expired, session, limits, mails, faults>>

\* invalidateRefreshTokens.  A request that will store a session, and has read
\* what entitles it to, is overtaken.
DropSession(r) ==
  LET u == req[r].user
  IN /\ req[r].pc = "dropSession"
     /\ session' = [session EXCEPT ![u] = None]
     /\ req' = [t \in Requests |->
          IF t = r THEN [req[t] EXCEPT !.pc = "addMail"]
          ELSE IF req[t].pc \in {"findSession", "storeSession"} /\ req[t].user = u
               THEN [req[t] EXCEPT !.overtaken = TRUE] ELSE req[t]]
     /\ UNCHANGED <<tables, expired, limits, mails, faults>>

-----------------------------------------------------------------------------
(* The e-mail queue. *)

\* emailQueue.add, without options: a single attempt.
AddMail(r) ==
  /\ req[r].pc = "addMail"
  /\ mail' = [mail EXCEPT ![r].state = "queued"]
  /\ Finish(r, req[r])
  /\ UNCHANGED <<tables, expired, session, limits, delivered>>

MaxStalls == 1

\* EmailProcessor.process.  The mail server accepts the e-mail or not; an error
\* fails the job; if the process dies the job is moved back, once, and the
\* e-mail may go out twice.
SendMail(r) ==
  /\ mail[r].state = "queued"
  /\ \/ /\ mail' = [mail EXCEPT ![r].state = "completed"]
        /\ delivered' = delivered \cup {r}
        /\ UNCHANGED faults
     \/ /\ faults < Faults /\ faults' = faults + 1
        /\ delivered' \in {delivered, delivered \cup {r}}
        /\ \/ mail' = [mail EXCEPT ![r].state = "failed"]
           \/ /\ mail[r].stalls < MaxStalls
              /\ mail' = [mail EXCEPT ![r].stalls = @ + 1]
  /\ UNCHANGED <<tables, expired, session, limits, req>>

-----------------------------------------------------------------------------
(* The environment. *)

\* Mutant: an e-mail that cannot be queued is only logged.
ForgiveMail(r) ==
  /\ Running(r) /\ faults < Faults /\ faults' = faults + 1
  /\ Set(r, [req[r] EXCEPT !.pc = "done",
       !.answer = IF req[r].pc = "addMail" THEN "ok" ELSE "failed",
       !.stop = IF req[r].pc = "addMail" THEN "idle" ELSE req[r].pc])
  /\ UNCHANGED <<tables, expired, session, limits, mails>>

\* An await throws, or the process dies at it, before the call takes effect.
\* That it fails after it took effect is a failure of the next one.
Fail(r) ==
  /\ Running(r) /\ faults < Faults /\ faults' = faults + 1
  /\ Set(r, [req[r] EXCEPT !.pc = "done", !.answer = "failed", !.stop = req[r].pc])
  /\ UNCHANGED <<tables, expired, session, limits, mails>>

\* The process dies with every request it was serving.
Crash ==
  /\ \E r \in Requests : Running(r)
  /\ faults < Faults /\ faults' = faults + 1
  /\ req' = [r \in Requests |->
       IF Running(r) THEN [req[r] EXCEPT !.pc = "done", !.answer = "failed",
                                         !.stop = req[r].pc]
       ELSE req[r]]
  /\ UNCHANGED <<tables, expired, session, limits, mails>>

\* Time passes: a token or a Redis key with a time to live ends.
ExpireToken(r) ==
  /\ r \in delivered \ expired
  /\ expired' = expired \cup {r}
  /\ UNCHANGED <<tables, session, limits, mails, req, faults>>

ExpireKeys(e) ==
  /\ \/ /\ e \in resendLock /\ resendLock' = resendLock \ {e}
        /\ UNCHANGED <<forgotCount, forgotTtl>>
     \/ /\ forgotTtl[e]
        /\ forgotCount' = [forgotCount EXCEPT ![e] = 0]
        /\ forgotTtl' = [forgotTtl EXCEPT ![e] = FALSE]
        /\ UNCHANGED resendLock
  /\ UNCHANGED <<tables, expired, session, mails, req, faults>>

Handle(r) ==
  \/ Receive(r) \/ FindTenant(r) \/ CreateAccount(r)
  \/ FindLogin(r) \/ GetSession(r) \/ FindSession(r) \/ StoreSession(r)
  \/ FindLink(r) \/ VerifyUser(r)
  \/ LockResend(r) \/ FindResend(r) \/ UpdateToken(r)
  \/ IncrForgot(r) \/ ExpireForgot(r) \/ FindForgot(r) \/ VoidTokens(r) \/ CreateToken(r)
  \/ FindToken(r) \/ ResetPassword(r) \/ FindUser(r) \/ ChangePassword(r)
  \/ DropSession(r) \/ AddMail(r) \/ Fail(r)

Next ==
  \/ Crash
  \/ \E r \in Requests : Handle(r) \/ SendMail(r) \/ ExpireToken(r)
  \/ \E e \in Emails : ExpireKeys(e)

AccountsSpec == Init /\ [][Next]_vars

-----------------------------------------------------------------------------
(* Properties. *)

\* An account that is still to be verified and has a token gets its link: the
\* e-mail is queued, or about to be, or its add has failed and the answer said
\* so.  register (129) and resendVerification (242) write the token first, so
\* nothing else may come between.
LinkFollowsToken ==
  \A u \in Users : Exists(u) /\ ~user[u].verified /\ user[u].token # None =>
    LET t == user[u].token
    IN req[t].pc = "addMail" \/ mail[t].state # "none" \/ req[t].stop = "addMail"

\* Of all requests that try to register a slug, also at once, one is told that
\* it succeeded, and the owner is the user of that one (86-127).
OneOwner ==
  \A r \in Requests : req[r].op = "register" /\ req[r].answer = "ok" =>
    /\ Exists(req[r].user)
    /\ \A t \in Requests \ {r} :
         req[t].op = "register" /\ req[t].slug = req[r].slug => req[t].answer # "ok"

\* Nobody is verified but by a link that was mailed to that very user, however
\* links, new tokens and second clicks interleave (177-258).
VerifiedThroughLink ==
  \A u \in Users : Exists(u) /\ user[u].verified =>
    \/ Existing[u] = "verified"
    \/ \E t \in Links({"register", "resend"}) : req[t].user = u

\* A link that has set a password is used up, although a crash may come right
\* after; only requests that had read it before can still use it (325-355).
LinkSetsOnePassword ==
  \A r \in Requests : req[r].op = "reset" /\ req[r].wrote =>
    /\ resetToken[req[r].link] = "used"
    /\ \A t \in Requests \ {r} :
         req[t].op = "reset" /\ req[t].wrote /\ req[t].link = req[r].link
           => req[t].overtaken \/ req[r].overtaken

\* A user has one usable reset link, the last; two only if the requests for
\* them overlapped, since updateMany and create are two statements (283-304).
OneUsableLink ==
  \A r, t \in Requests :
    /\ r # t /\ resetToken[r] = "unused" /\ resetToken[t] = "unused"
    /\ req[r].user = req[t].user
    => req[r].overtaken \/ req[t].overtaken

ChangePending(u) ==
  \E r \in Requests : req[r].user = u /\ "dropSession" \in {req[r].pc, req[r].stop}

\* A session ends with the password it was opened with (357, 399): one that
\* outlives it was stored by a request under way when the session was dropped,
\* or the request that changed the password has not got to dropping it.
SessionEndsWithPassword ==
  \A u \in Users : session[u] # None /\ Exists(u) /\ session[u].version < user[u].version =>
    session[u].overtaken \/ ChangePending(u)

\* The counter of forgotPassword ends (266-269): one without a time to live has
\* a request that is about to set it, or that failed exactly there.
CounterEnds ==
  \A e \in Emails : forgotCount[e] > 0 /\ ~forgotTtl[e] =>
    \E r \in Requests : /\ req[r].email = e
                        /\ "expireForgot" \in {req[r].pc, req[r].stop}

-----------------------------------------------------------------------------
(* The inductive invariant. *)

TypeOK ==
  /\ tenant \in SUBSET Slugs
  /\ user \in [Users -> UserRow \cup {None}]
  /\ resetToken \in [Requests -> {"none", "unused", "used"}]
  /\ expired \in SUBSET Requests
  /\ session \in [Users -> Session \cup {None}]
  /\ forgotCount \in [Emails -> Nat]
  /\ forgotTtl \in [Emails -> BOOLEAN]
  /\ resendLock \in SUBSET Emails
  /\ mail \in [Requests -> MailJob]
  /\ delivered \in SUBSET Requests
  /\ req \in [Requests -> Request]
  /\ faults \in Nat

PcsOf(op) ==
  CASE op = "none"     -> {"idle"}
    [] op = "register" -> {"findTenant", "createAccount", "addMail", "done"}
    [] op = "login"    -> {"findLogin", "storeSession", "done"}
    [] op = "verify"   -> {"findLink", "verifyUser", "done"}
    [] op = "resend"   -> {"lockResend", "findResend", "updateToken", "addMail", "done"}
    [] op = "forgot"   -> {"incrForgot", "expireForgot", "findForgot", "voidTokens",
                           "createToken", "addMail", "done"}
    [] op = "reset"    -> {"findToken", "resetPassword", "dropSession", "addMail", "done"}
    [] op = "change"   -> {"findUser", "changePassword", "dropSession", "addMail", "done"}
    [] op = "refresh"  -> {"getSession", "findSession", "storeSession", "done"}

\* What a request has read and written at each await.
RequestState(r) ==
  /\ req[r].pc \in PcsOf(req[r].op)
  /\ req[r].op \in {"login", "resend", "forgot"} => req[r].email \in Emails
  /\ req[r].op \in {"register", "change", "refresh"} => req[r].user \in Users
  /\ req[r].op = "register" => /\ req[r].user = <<req[r].slug, req[r].email>>
                              /\ req[r].password \in Passwords
  /\ req[r].op \in {"reset", "change"} => req[r].newPassword \in Passwords
  /\ req[r].pc \in {"findSession", "storeSession", "verifyUser", "updateToken",
                    "voidTokens", "createToken", "resetPassword", "findUser",
                    "changePassword", "dropSession", "addMail"} =>
       req[r].user \in Users /\ (req[r].op # "refresh" => Exists(req[r].user))
  /\ req[r].op \in {"login", "refresh"} /\ req[r].answer = "ok" => req[r].user \in Users
  /\ req[r].pc # "done" => req[r].answer = "none" /\ req[r].stop = "idle"
  /\ req[r].wrote => req[r].pc \in {"dropSession", "addMail", "done"}

\* Links have been mailed; e-mails belong to requests that have ended; tokens to
\* the user they were made for.
LinkState(r) ==
  /\ req[r].op = "verify" => req[r].link \in Links({"register", "resend"})
  /\ req[r].pc = "verifyUser" => req[r].user = req[req[r].link].user
  /\ req[r].op = "reset" => req[r].link \in Links({"forgot"})
  /\ mail[r].state # "none" => /\ req[r].pc = "done" /\ req[r].user \in Users
                              /\ Exists(req[r].user)
  /\ r \in delivered => mail[r].state # "none"
  /\ resetToken[r] # "none" => /\ req[r].op = "forgot" /\ req[r].user \in Users
                               /\ req[r].pc \in {"addMail", "done"}
  /\ \A u \in Users : Exists(u) /\ user[u].token = r =>
       /\ req[r].op \in {"register", "resend"} /\ req[r].user = u
       /\ req[r].pc \in {"addMail", "done"}

\* Of two that register a slug, the first to commit makes the other fail.
RegisterState ==
  \A r \in Requests : req[r].op = "register" =>
    /\ req[r].answer = "ok" \/ req[r].pc = "addMail" => req[r].wrote
    /\ req[r].wrote => req[r].slug \in tenant /\ Exists(req[r].user)
    /\ \A t \in Requests \ {r} : req[t].op = "register" /\ req[t].slug = req[r].slug
         => ~(req[r].wrote /\ req[t].wrote)

\* A request that is about to use a link somebody has used is overtaken; so is
\* one of any two that are creating reset tokens, or have.
RaceState ==
  \A r, t \in Requests :
    /\ /\ req[r].op = "reset" /\ req[r].wrote /\ req[r].link = req[t].link
       /\ req[t].pc = "resetPassword"
       => req[t].overtaken
    /\ /\ r # t /\ req[r].user = req[t].user
       /\ req[r].pc = "createToken" \/ resetToken[r] = "unused"
       /\ req[t].pc = "createToken" \/ resetToken[t] = "unused"
       => req[r].overtaken \/ req[t].overtaken

\* A request stands for the user's password, or is overtaken, or the change is
\* not through.
SessionState ==
  \A r \in Requests :
    LET u == req[r].user
    IN req[r].pc \in {"findSession", "storeSession"} /\ Exists(u)
         /\ req[r].version < user[u].version
       => req[r].overtaken \/ ChangePending(u)

AccountsInv ==
  /\ TypeOK
  /\ \A r \in Requests : RequestState(r) /\ LinkState(r)
  /\ RegisterState /\ RaceState /\ SessionState
  /\ LinkFollowsToken /\ OneOwner /\ VerifiedThroughLink /\ LinkSetsOnePassword
  /\ OneUsableLink /\ SessionEndsWithPassword /\ CounterEnds
=============================================================================
