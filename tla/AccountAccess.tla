---------------------------- MODULE AccountAccess ----------------------------
(***************************************************************************)
(* Accounts, sessions and the requests that sign in, sign out, change and  *)
(* reset passwords and change who is an active administrator.              *)
(*                                                                         *)
(* A request authenticates twice, in the route wrapper and in its handler, *)
(* and goes on with the account as it was then.  Transactions run at READ  *)
(* COMMITTED; each statement that may wait for a row lock, or that looks   *)
(* at rows which others may add to or change before COMMIT, is a step.     *)
(*                                                                         *)
(* Row locks.  An UPDATE of an account locks its row against other updates *)
(* and against FOR UPDATE; FOR UPDATE also keeps out the KEY SHARE lock    *)
(* that a foreign key to the account takes.  Every session and audit row   *)
(* refers to an account: to write one waits for a FOR UPDATE lock of       *)
(* another transaction on it.                                              *)
(*                                                                         *)
(* The progressive delay of sign-ins, the display name and the audit rows  *)
(* themselves are left out, and so are the short locks of TouchSession and *)
(* of the sweep.  Two accounts never share a canonical username: an        *)
(* account stands for its username.                                        *)
(***************************************************************************)

CONSTANTS
    Account,
    Seed,           \* the account admintool seed-admin created
    Token,          \* slots for sessions
    Request,        \* slots for concurrent requests, and runs of admintool
    Patch           \* the bodies PATCH /users/{id} is sent with

ASSUME SeedAssumption == Seed \in Account
ASSUME TokenAssumption == "none" \notin Token

VARIABLES
    acct,           \* table account
    sess,           \* table session: rows still good, and rows to come
    req             \* requests in flight

vars == <<acct, sess, req>>

-----------------------------------------------------------------------------
Role == {"admin", "manager"}
AccountRow == [known: BOOLEAN, role: Role, active: BOOLEAN, mustChange: BOOLEAN]

(* A session is "coming" while the sign-in that issues it runs.  Two marks *)
(* are history: stale, the password was replaced after the sign-in had     *)
(* read the account; late, the sign-in was running when a transaction had  *)
(* already revoked the sessions of the account and not yet committed.      *)
SessionRow == [state: {"none", "coming", "live"}, of: Account,
               stale: BOOLEAN, late: BOOLEAN]
NoSession == [state |-> "none", of |-> Seed, stale |-> FALSE, late |-> FALSE]

(* A PATCH of an account: a field the body leaves out is "absent".         *)
Body == [role: Role \cup {"absent"}, active: {"true", "false", "absent"}]
NoToken == "none"
NoBody == [role |-> "absent", active |-> "absent"]

ASSUME PatchAssumption == Patch \subseteq Body \ {NoBody}

(* own: the operations open to anyone, also while a password change is     *)
(* outstanding.  must: what a new password sets must_change_password to.   *)
(* check, told, was: what the handler concluded from the account it read:  *)
(* the administrators are to be counted; an audit row names the actor;     *)
(* the account was active.  seen: rows of the snapshot of FOR UPDATE still *)
(* to be locked; locks: those it has locked; rows: the sessions that       *)
(* RevokeAllForAccount found, dead when the transaction commits.           *)
PC == {"idle", "signIn", "admitted", "in", "out", "passwordSet", "passwordRevoking",
       "userLoaded", "userCounting", "userReady", "userUpdated", "userRevoking"}
RequestState == [pc: PC, own: BOOLEAN, token: Token \cup {NoToken},
                 actor: Account, target: Account, body: Body, must: BOOLEAN,
                 check: BOOLEAN, told: BOOLEAN, was: BOOLEAN,
                 seen: SUBSET Account, locks: SUBSET Account, rows: SUBSET Token]
Idle == [pc |-> "idle", own |-> FALSE, token |-> NoToken, actor |-> Seed,
         target |-> Seed, body |-> NoBody, must |-> FALSE, check |-> FALSE,
         told |-> FALSE, was |-> FALSE, seen |-> {}, locks |-> {}, rows |-> {}]

Init ==
    /\ acct = [a \in Account |-> [known |-> a = Seed, role |-> "admin", active |-> TRUE,
                                  mustChange |-> TRUE]]
    /\ sess = [t \in Token |-> NoSession]
    /\ req = [r \in Request |-> Idle]

At(r, pc) == req[r].pc = pc
Move(r, state) == req' = [req EXCEPT ![r] = state]

(* Mutant: the transaction is left open, with its locks.                   *)
FinishKeepsLocks(r) == Move(r, [Idle EXCEPT !.locks = req[r].locks])

(* COMMIT or ROLLBACK releases every lock.                                 *)
Finish(r) == Move(r, Idle)

IsAdmin(a) == acct[a].known /\ acct[a].active /\ acct[a].role = "admin"
ActiveAdmins == {a \in Account : IsAdmin(a)}

-----------------------------------------------------------------------------
(* Row locks.                                                              *)

(* The transaction has updated the row of its target.                      *)
Written(q) ==
    req[q].pc \in {"passwordSet", "passwordRevoking", "userUpdated", "userRevoking"}

Revoking(q) == req[q].pc \in {"passwordRevoking", "userRevoking"}

(* Account rows it keeps from an UPDATE, and the one it holds in KEY SHARE *)
(* while it may still wait for something else.                             *)
Held(q) == req[q].locks \cup {a \in Account : Written(q) /\ a = req[q].target}
Shared(q) == {a \in Account : At(q, "userRevoking") /\ a = req[q].actor}

UpdateFree(a, r) == \A q \in Request \ {r} : a \notin Held(q)
ForUpdateFree(a, r) == \A q \in Request \ {r} : a \notin Held(q) \cup Shared(q)

(* The row of the actor may be referred to.                                *)
ActorFree(r) == \A q \in Request \ {r} : req[r].actor \notin req[q].locks

(* A sign-out has updated the row of the session and not committed yet.    *)
SigningOut(q, t) == At(q, "out") /\ req[q].token = t
SessionFree(t, r) == \A q \in Request \ {r} : ~SigningOut(q, t)
SessionsFree(r) == \A t \in req[r].rows : SessionFree(t, r)

(* A slot is given to a new session when nobody means the old one by it.   *)
Unused(t) ==
    /\ sess[t].state = "none"
    /\ \A q \in Request : req[q].token # t /\ t \notin req[q].rows

-----------------------------------------------------------------------------
(* Sessions.                                                               *)

(* handleSignIn: FindByCanonical, the password, the active flag.           *)
SignInRead(r, a, t) ==
    /\ At(r, "idle")
    /\ acct[a].known /\ acct[a].active
    /\ Unused(t)
    /\ sess' = [sess EXCEPT ![t] =
        [state |-> "coming", of |-> a, stale |-> FALSE,
         late |-> \E q \in Request : Revoking(q) /\ req[q].target = a]]
    /\ Move(r, [Idle EXCEPT !.pc = "signIn", !.actor = a, !.token = t])
    /\ UNCHANGED acct

(* IssueSession, audit row, COMMIT, long after the account was read.       *)
SignInCommit(r) ==
    /\ At(r, "signIn")
    /\ ActorFree(r)
    /\ sess' = [sess EXCEPT ![req[r].token].state = "live"]
    /\ Finish(r)
    /\ UNCHANGED acct

(* LookupSession finds the row and FindByID an active account.             *)
Authenticates(t) == sess[t].state = "live" /\ acct[sess[t].of].active

(* The route wrapper authed: the role of the route and an outstanding      *)
(* password change.                                                        *)
Admit(r, t, own) ==
    /\ At(r, "idle")
    /\ Authenticates(t)
    /\ ~own => acct[sess[t].of].role = "admin" /\ ~acct[sess[t].of].mustChange
    /\ Move(r, [Idle EXCEPT !.pc = "admitted", !.own = own, !.token = t,
                            !.actor = sess[t].of])
    /\ UNCHANGED <<acct, sess>>

(* The handler authenticates again; the rest of it trusts this reading.    *)
Enter(r) ==
    /\ At(r, "admitted")
    /\ Authenticates(req[r].token)
    /\ ~req[r].own => acct[req[r].actor].role = "admin"
    /\ Move(r, [req[r] EXCEPT !.pc = "in",
                              !.token = IF req[r].own THEN @ ELSE NoToken])
    /\ UNCHANGED <<acct, sess>>

(* handleSignOut: RevokeSession, which locks the row if it is still good.  *)
SignOut(r) ==
    /\ At(r, "in") /\ req[r].own
    /\ SessionFree(req[r].token, r)
    /\ Move(r, [req[r] EXCEPT !.pc = "out"])
    /\ UNCHANGED <<acct, sess>>

(* Its audit row and COMMIT.                                               *)
CommitSignOut(r) ==
    /\ At(r, "out")
    /\ ActorFree(r)
    /\ sess' = [sess EXCEPT ![req[r].token] = NoSession]
    /\ Finish(r)
    /\ UNCHANGED acct

(* Idle for 30 minutes, 8 hours old, or swept.                             *)
Expire(t) ==
    /\ sess[t].state = "live"
    /\ sess' = [sess EXCEPT ![t] = NoSession]
    /\ UNCHANGED <<acct, req>>

-----------------------------------------------------------------------------
(* Ending the sessions of an account.                                      *)

(* Mutant: the revocation sits in the branch of the role change.           *)
DeactivatesWithRole(r) ==
    req[r].body.active = "false" /\ req[r].was /\ req[r].body.role # "absent"

(* A PATCH that deactivates an account which was active when it was read.  *)
Deactivates(r) == req[r].body.active = "false" /\ req[r].was

(* Mutant: the sessions of the actor are revoked.                          *)
OwnSessions(r) == {t \in Token : sess[t].state = "live" /\ sess[t].of = req[r].actor}

(* The sessions the UPDATE of RevokeAllForAccount finds.                   *)
SessionsOf(r) == {t \in Token : sess[t].state = "live" /\ sess[t].of = req[r].target}

(* RevokeAllForAccount begins: its snapshot does not show the sessions of  *)
(* sign-ins still under way.  It waits for session rows being signed out,  *)
(* which is left to the COMMIT; a PATCH has written the first audit row by *)
(* then and keeps the actor's row in KEY SHARE.                            *)
RevokeAllForAccount(r) ==
    /\ \/ At(r, "passwordSet")
       \/ At(r, "userUpdated") /\ Deactivates(r) /\ ActorFree(r)
    /\ Move(r, [req[r] EXCEPT
            !.pc = IF @ = "passwordSet" THEN "passwordRevoking" ELSE "userRevoking",
            !.rows = SessionsOf(r)])
    /\ sess' = [t \in Token |->
            IF sess[t].state = "coming" /\ sess[t].of = req[r].target
            THEN [sess[t] EXCEPT !.late = TRUE]
            ELSE sess[t]]
    /\ UNCHANGED acct

-----------------------------------------------------------------------------
(* Passwords.  UPDATE, RevokeAllForAccount, two audit rows, COMMIT.        *)

UpdatePassword(r, a, must, told) ==
    /\ UpdateFree(a, r)
    /\ Move(r, [Idle EXCEPT !.pc = "passwordSet", !.actor = req[r].actor, !.target = a,
                            !.must = must, !.told = told])
    /\ UNCHANGED <<acct, sess>>

(* handleChangePassword, by someone who knew the password the handler has  *)
(* read; the UPDATE does not look at it again.                             *)
ChangePassword(r) ==
    /\ At(r, "in") /\ req[r].own
    /\ UpdatePassword(r, req[r].actor, FALSE, TRUE)

(* handleResetUserPassword: any account, the administrator's own included. *)
ResetPassword(r, a) ==
    /\ At(r, "in") /\ ~req[r].own
    /\ acct[a].known
    /\ UpdatePassword(r, a, TRUE, TRUE)

(* admintool reset-admin, run on the host; its audit rows name no actor.   *)
RecoverPassword(r, a, must) ==
    /\ At(r, "idle")
    /\ acct[a].known
    /\ UpdatePassword(r, a, must, FALSE)

(* The audit rows and COMMIT.  Sessions committed since the snapshot stay. *)
CommitPassword(r) ==
    LET a == req[r].target IN
    /\ At(r, "passwordRevoking")
    /\ SessionsFree(r)
    /\ req[r].told => ActorFree(r)
    /\ acct' = [acct EXCEPT ![a].mustChange = req[r].must]
    /\ sess' = [t \in Token |->
            CASE t \in req[r].rows -> NoSession
              [] t \notin req[r].rows /\ sess[t].state # "none" /\ sess[t].of = a ->
                    [sess[t] EXCEPT !.stale = TRUE]
              [] OTHER -> sess[t]]
    /\ Finish(r)

-----------------------------------------------------------------------------
(* Accounts.                                                               *)

(* handleCreateUser; the unique index refuses a username that is known.    *)
CreateUser(r, a, role) ==
    /\ At(r, "in") /\ ~req[r].own
    /\ ~acct[a].known
    /\ ActorFree(r)
    /\ acct' = [acct EXCEPT ![a] = [known |-> TRUE, role |-> role, active |-> TRUE,
                                    mustChange |-> TRUE]]
    /\ Finish(r)
    /\ UNCHANGED sess

(* What the account would be after the change, by the account as read now. *)
PostRole(a, body) == IF body.role = "absent" THEN acct[a].role ELSE body.role
PostActive(a, body) ==
    IF body.active = "absent" THEN acct[a].active ELSE body.active = "true"
MustCheck(a, body) == ~PostActive(a, body) \/ PostRole(a, body) = "manager"

(* handleUpdateUser reads the account before anything is locked, and       *)
(* refuses a change of the administrator's own account.                    *)
UserLoad(r, a, body) ==
    /\ At(r, "in") /\ ~req[r].own
    /\ acct[a].known
    /\ a # req[r].actor
    /\ Move(r, [Idle EXCEPT
            !.pc = "userLoaded", !.actor = req[r].actor, !.target = a, !.body = body,
            !.check = MustCheck(a, body),
            !.told = PostRole(a, body) # acct[a].role \/ PostActive(a, body) # acct[a].active,
            !.was = acct[a].active])
    /\ UNCHANGED <<acct, sess>>

(* SELECT .. FOR UPDATE of the active administrators begins: it looks for  *)
(* the rows its snapshot shows.                                            *)
LockAdmins(r) ==
    /\ At(r, "userLoaded")
    /\ req[r].check
    /\ Move(r, [req[r] EXCEPT !.pc = "userCounting", !.seen = ActiveAdmins])
    /\ UNCHANGED <<acct, sess>>

(* It locks them one by one, in no order it asks for, and keeps those it   *)
(* has while it waits for the next.                                        *)
LockRow(r, a) ==
    /\ At(r, "userCounting")
    /\ a \in req[r].seen
    /\ ForUpdateFree(a, r)
    /\ Move(r, [req[r] EXCEPT !.seen = @ \ {a}, !.locks = @ \cup {a}])
    /\ UNCHANGED <<acct, sess>>

(* A locked row is looked at again: who is no active administrator any     *)
(* more is left out of the result, though its row stays locked.            *)
Counted(r) == req[r].locks \cap ActiveAdmins

(* Mutant: the last administrator may go as well.                          *)
EnsureNotLastAdminOffByOne(r) ==
    /\ At(r, "userCounting")
    /\ req[r].seen = {}
    /\ req[r].target \in Counted(r) => Counted(r) # {}
    /\ Move(r, [req[r] EXCEPT !.pc = "userReady"])
    /\ UNCHANGED <<acct, sess>>

(* All of them are locked, and counted.                                    *)
EnsureNotLastAdmin(r) ==
    /\ At(r, "userCounting")
    /\ req[r].seen = {}
    /\ req[r].target \in Counted(r) => Counted(r) # {req[r].target}
    /\ Move(r, [req[r] EXCEPT !.pc = "userReady"])
    /\ UNCHANGED <<acct, sess>>

(* Neither a demotion nor a deactivation: nothing is locked.               *)
SkipCheck(r) ==
    /\ At(r, "userLoaded")
    /\ ~req[r].check
    /\ Move(r, [req[r] EXCEPT !.pc = "userReady"])
    /\ UNCHANGED <<acct, sess>>

(* The UPDATE, which writes the fields the body has into the row as it is  *)
(* now; others see them at COMMIT.                                         *)
UpdateAccount(r) ==
    /\ At(r, "userReady")
    /\ UpdateFree(req[r].target, r)
    /\ Move(r, [req[r] EXCEPT !.pc = "userUpdated"])
    /\ UNCHANGED <<acct, sess>>

(* Everything is written: no sessions were to be revoked, or they are.     *)
UserWritten(r) ==
    \/ At(r, "userUpdated") /\ ~Deactivates(r) /\ (req[r].told => ActorFree(r))
    \/ At(r, "userRevoking") /\ SessionsFree(r)

(* Mutant: a field the body leaves out is written as well.                 *)
CommitUserWritesAbsent(r) ==
    LET a == req[r].target
        body == req[r].body IN
    /\ UserWritten(r)
    /\ acct' = [acct EXCEPT ![a].role = body.role, ![a].active = body.active = "true"]
    /\ sess' = [t \in Token |-> IF t \in req[r].rows THEN NoSession ELSE sess[t]]
    /\ Finish(r)

CommitUser(r) ==
    LET a == req[r].target
        body == req[r].body IN
    /\ UserWritten(r)
    /\ acct' = [acct EXCEPT
        ![a].role = IF body.role = "absent" THEN @ ELSE body.role,
        ![a].active = IF body.active = "absent" THEN @ ELSE body.active = "true"]
    /\ sess' = [t \in Token |-> IF t \in req[r].rows THEN NoSession ELSE sess[t]]
    /\ Finish(r)

(* What the handlers refuse, with their transactions rolled back.          *)
Refuse(r) ==
    /\ \/ At(r, "admitted") /\ ~Authenticates(req[r].token)
       \/ At(r, "admitted") /\ ~req[r].own /\ acct[req[r].actor].role # "admin"
       \/ At(r, "userCounting") /\ req[r].seen = {} /\ Counted(r) = {req[r].target}
    /\ Finish(r)
    /\ UNCHANGED <<acct, sess>>

(* A transaction is rolled back, and a session to come never comes.        *)
Rollback(r) ==
    /\ sess' = [t \in Token |->
            IF At(r, "signIn") /\ t = req[r].token THEN NoSession ELSE sess[t]]
    /\ Finish(r)
    /\ UNCHANGED acct

(* An error, a cancelled request, a crash.                                 *)
Fail(r) == ~At(r, "idle") /\ Rollback(r)

-----------------------------------------------------------------------------
(* Deadlocks.                                                              *)

(* The requests that keep r from going on.                                 *)
WaitsFor(r) ==
    CASE At(r, "userCounting") /\ ~\E a \in req[r].seen : ForUpdateFree(a, r) ->
            {q \in Request \ {r} : req[r].seen \cap (Held(q) \cup Shared(q)) # {}}
      [] At(r, "userReady") ->
            {q \in Request \ {r} : req[r].target \in Held(q)}
      [] Revoking(r) /\ ~SessionsFree(r) ->
            {q \in Request \ {r} : \E t \in req[r].rows : SigningOut(q, t)}
      [] \/ At(r, "signIn") \/ At(r, "out")
         \/ At(r, "passwordRevoking") /\ SessionsFree(r) /\ req[r].told
         \/ At(r, "userUpdated") /\ req[r].told ->
            {q \in Request \ {r} : req[r].actor \in req[q].locks}
      [] OTHER -> {}

Circle(circle) == \A r \in circle : WaitsFor(r) \cap circle # {}

(* PostgreSQL finds a circle of waiting transactions and aborts one.       *)
AbortDeadlock(r) ==
    /\ \E circle \in SUBSET Request : r \in circle /\ Circle(circle)
    /\ Rollback(r)

-----------------------------------------------------------------------------
Start(r) ==
    \/ \E a \in Account, t \in Token : SignInRead(r, a, t)
    \/ \E t \in Token, own \in BOOLEAN : Admit(r, t, own)
    \/ \E a \in Account, must \in BOOLEAN : RecoverPassword(r, a, must)

Handle(r) ==
    \/ Enter(r) \/ ChangePassword(r)
    \/ \E a \in Account : ResetPassword(r, a)
    \/ \E a \in Account, role \in Role : CreateUser(r, a, role)
    \/ \E a \in Account, body \in Patch : UserLoad(r, a, body)
    \/ LockAdmins(r) \/ EnsureNotLastAdmin(r) \/ SkipCheck(r) \/ Refuse(r)

(* The steps of an open transaction that wait for row locks.               *)
Wait(r) ==
    \/ SignInCommit(r) \/ SignOut(r) \/ CommitSignOut(r)
    \/ \E a \in Account : LockRow(r, a)
    \/ UpdateAccount(r) \/ RevokeAllForAccount(r) \/ CommitPassword(r) \/ CommitUser(r)

Next ==
    \/ \E r \in Request : Start(r) \/ Handle(r) \/ Wait(r) \/ Fail(r) \/ AbortDeadlock(r)
    \/ \E t \in Token : Expire(t)

Spec == Init /\ [][Next]_vars

(***************************************************************************)
(* Fairness.  A handler goroutine runs on (WF of its steps); a transaction *)
(* that waits for row locks is queued and gets them in the end when they   *)
(* become free again and again (SF); PostgreSQL looks for deadlocks (WF).  *)
(***************************************************************************)
FairSpec ==
    /\ Spec
    /\ \A r \in Request : WF_vars(Handle(r)) /\ SF_vars(Wait(r)) /\ WF_vars(AbortDeadlock(r))

-----------------------------------------------------------------------------
(* Properties that hold.                                                   *)

(* Every variable keeps its type.                                          *)
TypeOK ==
    /\ acct \in [Account -> AccountRow]
    /\ sess \in [Token -> SessionRow]
    /\ req \in [Request -> RequestState]

(* The administrators can only run out through a change whose own lock     *)
(* statement did not find its target: when the target was among the rows   *)
(* it locked and counted, another administrator is left.                   *)
CountedAdminIsNotLast ==
    [][ActiveAdmins = {} \/ ActiveAdmins' # {} \/
        \E r \in Request : CommitUser(r) /\ req[r].target \notin req[r].locks]_vars

(* FR-020: a session does not outlive the password it was opened with,     *)
(* unless its sign-in was under way between the revocation of a new        *)
(* password, or of a deactivation, and its COMMIT.                         *)
NewPasswordEndsSessions ==
    \A t \in Token : sess[t].state = "live" /\ sess[t].stale => sess[t].late

(* FR-020: a deactivation ends the sessions of the account, but for those  *)
(* whose sign-in was under way between its revocation and its COMMIT, and  *)
(* unless the handler had read the account before somebody activated it.   *)
DeactivationEndsSessions ==
    [][\A a \in Account : acct[a].active /\ ~acct'[a].active =>
        \/ \A t \in Token : sess'[t].state = "live" /\ sess'[t].of = a => sess'[t].late
        \/ \E r \in Request : CommitUser(r) /\ req[r].target = a /\ ~req[r].was]_vars

(* A transaction that changes an account, a password or a session ends,    *)
(* committed, refused or aborted, whatever locks it has to wait for.       *)
TransactionsEnd ==
    \A r \in Request :
        req[r].pc \notin {"idle", "signIn", "admitted", "in"} ~> req[r].pc = "idle"

-----------------------------------------------------------------------------
(* What the documents promise and the code does not keep.                  *)

(* The comment of EnsureNotLastAdmin: no concurrent change slips past the  *)
(* locks, there is always an active administrator.                         *)
AlwaysAnAdmin == ActiveAdmins # {}
=============================================================================
