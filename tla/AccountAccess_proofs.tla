------------------------- MODULE AccountAccess_proofs -------------------------
(***************************************************************************)
(* Theorems about AccountAccess, for every set of accounts, sessions,      *)
(* requests and bodies of changes.                                         *)
(*                                                                         *)
(* The inductive invariant has three parts beyond the types.               *)
(* Bare: only a change of an account has locks of EnsureNotLastAdmin, and  *)
(* only on accounts that exist.  LocksHold: no account row is held twice,  *)
(* and a change that counted its target holds another administrator's row  *)
(* until it commits.  MarksHold: a sign-in that runs beside a revocation   *)
(* is marked late, before its session can be missed by the COMMIT.         *)
(***************************************************************************)
EXTENDS AccountAccess, TLAPS

BarePC == {"idle", "signIn", "admitted", "in", "out", "userLoaded",
           "passwordSet", "passwordRevoking"}

Bare ==
    \A r \in Request :
        /\ req[r].pc \in BarePC => req[r].locks = {} /\ req[r].seen = {}
        /\ \A a \in req[r].locks \cup req[r].seen : acct[a].known

Exclusive == \A q, r \in Request : q # r => Held(q) \cap Held(r) = {}

(* What the locks of a counted change are worth.                           *)
CountHolds ==
    \A r \in Request :
        ~At(r, "userCounting") /\ req[r].target \in Counted(r) =>
            \E a \in Counted(r) : a # req[r].target

LocksHold == Exclusive /\ CountHolds

MarksHold ==
    /\ \A r \in Request, t \in Token :
        /\ Revoking(r) /\ sess[t].of = req[r].target
        /\ sess[t].state = "coming" \/ (sess[t].state = "live" /\ t \notin req[r].rows)
        => sess[t].late
    /\ \A t \in Token : sess[t].state # "none" /\ sess[t].stale => sess[t].late

(* The slot of a session to come is the sign-in's alone.                   *)
SlotsHold ==
    \A r \in Request : At(r, "signIn") =>
        /\ req[r].token \in Token /\ sess[req[r].token].state = "coming"
        /\ \A q \in Request \ {r} :
            req[q].token # req[r].token /\ req[r].token \notin req[q].rows

IInv == TypeOK /\ Bare /\ LocksHold /\ SlotsHold /\ MarksHold

-----------------------------------------------------------------------------
(* Types.                                                                  *)

LEMMA IdleType == Idle \in RequestState /\ NoSession \in SessionRow /\ NoBody \in Body
BY SeedAssumption
DEF Idle, RequestState, PC, Body, NoBody, NoToken, Role, NoSession, SessionRow

LEMMA MoveType ==
    ASSUME TypeOK, NEW r \in Request, NEW state \in RequestState, Move(r, state)
    PROVE  req' \in [Request -> RequestState]
BY DEF TypeOK, Move

LEMMA FinishType ==
    ASSUME TypeOK, NEW r \in Request, Finish(r)
    PROVE  req' \in [Request -> RequestState]
BY IdleType, MoveType DEF Finish

(* What the type says of one request.                                      *)
LEMMA RequestType ==
    ASSUME TypeOK, NEW r \in Request
    PROVE  /\ req[r] \in RequestState
           /\ req[r].actor \in Account /\ req[r].target \in Account
           /\ req[r].body \in Body /\ req[r].token \in Token \cup {NoToken}
           /\ req[r].pc \in PC
BY DEF TypeOK, RequestState

LEMMA PasswordType ==
    ASSUME TypeOK, NEW r \in Request, NEW a \in Account, NEW must \in BOOLEAN,
           NEW told \in BOOLEAN, UpdatePassword(r, a, must, told)
    PROVE  TypeOK'
<1>1. [Idle EXCEPT !.pc = "passwordSet", !.actor = req[r].actor, !.target = a,
                   !.must = must, !.told = told] \in RequestState
  BY IdleType, RequestType DEF RequestState, PC
<1> QED BY <1>1, MoveType DEF UpdatePassword, TypeOK

(* The type invariant is inductive.                                        *)
LEMMA TypeStep == ASSUME TypeOK, [Next]_vars PROVE TypeOK'
<1>1. ASSUME NEW r \in Request, NEW a \in Account, NEW t \in Token, SignInRead(r, a, t)
      PROVE  TypeOK'
  <2>1. [Idle EXCEPT !.pc = "signIn", !.actor = a, !.token = t] \in RequestState
    BY IdleType DEF RequestState, PC
  <2>2. [state |-> "coming", of |-> a, stale |-> FALSE,
         late |-> \E q \in Request : Revoking(q) /\ req[q].target = a] \in SessionRow
    BY DEF SessionRow
  <2>3. sess' \in [Token -> SessionRow]
    BY <1>1, <2>2 DEF SignInRead, TypeOK
  <2> QED BY <1>1, <2>1, <2>3, MoveType DEF SignInRead, TypeOK
<1>2. ASSUME NEW r \in Request, NEW t \in Token, NEW own \in BOOLEAN, Admit(r, t, own)
      PROVE  TypeOK'
  <2>1. sess[t].of \in Account
    BY DEF TypeOK, SessionRow
  <2>2. [Idle EXCEPT !.pc = "admitted", !.own = own, !.token = t, !.actor = sess[t].of]
        \in RequestState
    BY IdleType, <2>1 DEF RequestState, PC
  <2> QED BY <1>2, <2>2, MoveType DEF Admit, TypeOK
<1>3. ASSUME NEW r \in Request, SignInCommit(r) PROVE TypeOK'
  <2>1. \A t \in Token : [sess[t] EXCEPT !.state = "live"] \in SessionRow
    BY DEF TypeOK, SessionRow
  <2>2. sess' \in [Token -> SessionRow]
    BY <1>3, <2>1 DEF SignInCommit, TypeOK
  <2> QED BY <1>3, <2>2, FinishType DEF SignInCommit, TypeOK
<1>4. ASSUME NEW r \in Request, Enter(r) PROVE TypeOK'
  <2>1. [req[r] EXCEPT !.pc = "in", !.token = IF req[r].own THEN @ ELSE NoToken]
        \in RequestState
    BY RequestType DEF RequestState, PC
  <2> QED BY <1>4, <2>1, MoveType DEF Enter, TypeOK
<1>5. ASSUME NEW r \in Request, SignOut(r) PROVE TypeOK'
  <2>1. [req[r] EXCEPT !.pc = "out"] \in RequestState
    BY RequestType DEF RequestState, PC
  <2> QED BY <1>5, <2>1, MoveType DEF SignOut, TypeOK
<1>6. ASSUME NEW r \in Request, CommitSignOut(r) PROVE TypeOK'
  <2>1. sess' \in [Token -> SessionRow]
    BY <1>6, IdleType DEF CommitSignOut, TypeOK
  <2> QED BY <1>6, <2>1, FinishType DEF CommitSignOut, TypeOK
<1>7. ASSUME NEW t \in Token, Expire(t) PROVE TypeOK'
  BY <1>7, IdleType DEF Expire, TypeOK
<1>8. ASSUME NEW r \in Request, RevokeAllForAccount(r) PROVE TypeOK'
  <2> DEFINE state == [req[r] EXCEPT
            !.pc = IF @ = "passwordSet" THEN "passwordRevoking" ELSE "userRevoking",
            !.rows = SessionsOf(r)]
  <2>1. SessionsOf(r) \in SUBSET Token
    BY DEF SessionsOf
  <2>2. state \in RequestState
    BY <2>1, RequestType DEF RequestState, PC
  <2>3. Move(r, state) /\ UNCHANGED acct
    BY <1>8 DEF RevokeAllForAccount
  <2>4. sess' \in [Token -> SessionRow]
    BY <1>8 DEF RevokeAllForAccount, TypeOK, SessionRow
  <2> HIDE DEF state
  <2> QED BY <2>2, <2>3, <2>4, MoveType DEF TypeOK
<1>9. ASSUME NEW r \in Request,
             \/ ChangePassword(r)
             \/ \E a \in Account : ResetPassword(r, a)
             \/ \E a \in Account, must \in BOOLEAN : RecoverPassword(r, a, must)
      PROVE  TypeOK'
  BY <1>9, RequestType, PasswordType DEF ChangePassword, ResetPassword, RecoverPassword
<1>10. ASSUME NEW r \in Request, CommitPassword(r) PROVE TypeOK'
  <2>1. req[r].must \in BOOLEAN
    BY RequestType DEF RequestState
  <2>2. acct' \in [Account -> AccountRow]
    BY <1>10, <2>1, RequestType DEF CommitPassword, TypeOK, AccountRow
  <2>3. \A t \in Token : [sess[t] EXCEPT !.stale = TRUE] \in SessionRow
    BY DEF TypeOK, SessionRow
  <2>4. sess' \in [Token -> SessionRow]
    BY <1>10, <2>3, IdleType DEF CommitPassword, TypeOK
  <2> QED BY <1>10, <2>2, <2>4, FinishType DEF CommitPassword, TypeOK
<1>11. ASSUME NEW r \in Request, NEW a \in Account, NEW role \in Role, CreateUser(r, a, role)
       PROVE  TypeOK'
  <2>1. acct' \in [Account -> AccountRow]
    BY <1>11 DEF CreateUser, TypeOK, AccountRow
  <2> QED BY <1>11, <2>1, FinishType DEF CreateUser, TypeOK
<1>12. ASSUME NEW r \in Request, NEW a \in Account, NEW body \in Body, UserLoad(r, a, body)
       PROVE  TypeOK'
  <2> DEFINE told == PostRole(a, body) # acct[a].role \/ PostActive(a, body) # acct[a].active
  <2>1. MustCheck(a, body) \in BOOLEAN /\ told \in BOOLEAN /\ acct[a].active \in BOOLEAN
    BY DEF MustCheck, TypeOK, AccountRow
  <2> DEFINE state == [Idle EXCEPT
            !.pc = "userLoaded", !.actor = req[r].actor, !.target = a, !.body = body,
            !.check = MustCheck(a, body), !.told = told, !.was = acct[a].active]
  <2>2. Move(r, state) /\ UNCHANGED <<acct, sess>>
    BY <1>12 DEF UserLoad
  <2> HIDE DEF told
  <2>3. state \in RequestState
    BY IdleType, RequestType, <2>1 DEF RequestState, PC
  <2> HIDE DEF state
  <2> QED BY <2>2, <2>3, MoveType DEF TypeOK
<1>13. ASSUME NEW r \in Request, LockAdmins(r) PROVE TypeOK'
  <2>1. [req[r] EXCEPT !.pc = "userCounting", !.seen = ActiveAdmins] \in RequestState
    BY RequestType DEF RequestState, PC, ActiveAdmins
  <2> QED BY <1>13, <2>1, MoveType DEF LockAdmins, TypeOK
<1>14. ASSUME NEW r \in Request, NEW a \in Account, LockRow(r, a) PROVE TypeOK'
  <2>1. [req[r] EXCEPT !.seen = @ \ {a}, !.locks = @ \cup {a}] \in RequestState
    BY RequestType DEF RequestState
  <2> QED BY <1>14, <2>1, MoveType DEF LockRow, TypeOK
<1>15. ASSUME NEW r \in Request, EnsureNotLastAdmin(r) \/ SkipCheck(r) PROVE TypeOK'
  <2>1. [req[r] EXCEPT !.pc = "userReady"] \in RequestState
    BY RequestType DEF RequestState, PC
  <2> QED BY <1>15, <2>1, MoveType DEF EnsureNotLastAdmin, SkipCheck, TypeOK
<1>16. ASSUME NEW r \in Request, UpdateAccount(r) PROVE TypeOK'
  <2>1. [req[r] EXCEPT !.pc = "userUpdated"] \in RequestState
    BY RequestType DEF RequestState, PC
  <2> QED BY <1>16, <2>1, MoveType DEF UpdateAccount, TypeOK
<1>17. ASSUME NEW r \in Request, CommitUser(r) PROVE TypeOK'
  <2>1. PICK a \in Account, body \in Body : a = req[r].target /\ body = req[r].body
    BY RequestType
  <2>2. acct' = [acct EXCEPT
          ![a].role = IF body.role = "absent" THEN @ ELSE body.role,
          ![a].active = IF body.active = "absent" THEN @ ELSE body.active = "true"]
    BY <1>17, <2>1 DEF CommitUser
  <2>3. acct[a] \in AccountRow /\ (body.role = "absent" \/ body.role \in Role)
    BY <2>1 DEF TypeOK, Body
  <2>4. acct' \in [Account -> AccountRow]
    BY <2>2, <2>3 DEF TypeOK, AccountRow
  <2>5. sess' \in [Token -> SessionRow]
    BY <1>17, IdleType DEF CommitUser, TypeOK
  <2> QED BY <1>17, <2>4, <2>5, FinishType DEF CommitUser, TypeOK
<1>18. ASSUME NEW r \in Request, Rollback(r) PROVE TypeOK'
  <2>1. sess' \in [Token -> SessionRow]
    BY <1>18, IdleType DEF Rollback, TypeOK
  <2> QED BY <1>18, <2>1, FinishType DEF Rollback, TypeOK
<1>19. ASSUME NEW r \in Request, Refuse(r) PROVE TypeOK'
  BY <1>19, FinishType DEF Refuse, TypeOK
<1>20. CASE UNCHANGED vars
  BY <1>20 DEF TypeOK, vars
<1> QED
  BY <1>1, <1>2, <1>3, <1>4, <1>5, <1>6, <1>7, <1>8, <1>9, <1>10, <1>11, <1>12, <1>13,
     <1>14, <1>15, <1>16, <1>17, <1>18, <1>19, <1>20, PatchAssumption
  DEF Next, Start, Handle, Wait, Fail, AbortDeadlock

-----------------------------------------------------------------------------
(* What a step does.                                                       *)

(* One request moves.                                                      *)
LEMMA MoveIs ==
    ASSUME TypeOK, NEW s \in Request, NEW state, Move(s, state)
    PROVE  req'[s] = state /\ \A q \in Request : q # s => req'[q] = req[q]
BY DEF Move, TypeOK

(* It is left without locks and outside a change, or it takes one of the   *)
(* steps of a change or a revocation.                                      *)
Calm(s) ==
    /\ req'[s].pc \in {"idle", "signIn", "admitted", "in", "out", "userLoaded"}
    /\ req'[s].locks = {} /\ req'[s].seen = {}
    /\ \/ \E a \in Account, t \in Token : SignInRead(s, a, t)
       \/ /\ req'[s].pc # "signIn"
          /\ \/ \E t \in Token, own \in BOOLEAN : Admit(s, t, own)
             \/ req'[s].token \in {req[s].token, NoToken} /\ req'[s].rows \subseteq req[s].rows

Advance(s) ==
    \/ \E a \in Account, must \in BOOLEAN, told \in BOOLEAN : UpdatePassword(s, a, must, told)
    \/ RevokeAllForAccount(s)
    \/ LockAdmins(s)
    \/ \E a \in Account : LockRow(s, a)
    \/ EnsureNotLastAdmin(s) \/ SkipCheck(s) \/ UpdateAccount(s)

LEMMA WhoMoves ==
    ASSUME TypeOK, Bare, [Next]_vars
    PROVE  \/ UNCHANGED req
           \/ \E s \in Request :
                /\ \A q \in Request : q # s => req'[q] = req[q]
                /\ Calm(s) \/ Advance(s)
<1> DEFINE Good(s) == /\ \A q \in Request : q # s => req'[q] = req[q]
                      /\ Calm(s) \/ Advance(s)
<1>1. ASSUME NEW s \in Request, Finish(s) PROVE Good(s)
  BY <1>1, MoveIs DEF Finish, Idle, Calm
<1>2. ASSUME NEW s \in Request, NEW a \in Account, NEW t \in Token, SignInRead(s, a, t)
      PROVE  Good(s)
  <2> DEFINE state == [Idle EXCEPT !.pc = "signIn", !.actor = a, !.token = t]
  <2>1. Move(s, state) /\ state.pc = "signIn" /\ state.locks = {} /\ state.seen = {}
    BY <1>2 DEF SignInRead, Idle
  <2> HIDE DEF state
  <2> QED BY <1>2, <2>1, MoveIs DEF Calm
<1>3. ASSUME NEW s \in Request, NEW t \in Token, NEW own \in BOOLEAN, Admit(s, t, own)
      PROVE  Good(s)
  <2> DEFINE state == [Idle EXCEPT !.pc = "admitted", !.own = own, !.token = t,
                                   !.actor = sess[t].of]
  <2>1. Move(s, state) /\ state.pc = "admitted" /\ state.locks = {} /\ state.seen = {}
    BY <1>3 DEF Admit, Idle
  <2> HIDE DEF state
  <2> QED BY <1>3, <2>1, MoveIs DEF Calm
<1>4. ASSUME NEW s \in Request, Enter(s) PROVE Good(s)
  <2> DEFINE state == [req[s] EXCEPT !.pc = "in",
                                     !.token = IF req[s].own THEN @ ELSE NoToken]
  <2>1. /\ Move(s, state) /\ state.pc = "in"
        /\ state.locks = req[s].locks /\ state.seen = req[s].seen
    BY <1>4, RequestType DEF Enter, RequestState
  <2>3. state.token \in {req[s].token, NoToken} /\ state.rows = req[s].rows
    BY RequestType DEF RequestState
  <2>2. req[s].locks = {} /\ req[s].seen = {}
    BY <1>4 DEF Enter, At, Bare, BarePC
  <2> HIDE DEF state
  <2> QED BY <2>1, <2>2, <2>3, MoveIs DEF Calm
<1>5. ASSUME NEW s \in Request, SignOut(s) PROVE Good(s)
  <2> DEFINE state == [req[s] EXCEPT !.pc = "out"]
  <2>1. /\ Move(s, state) /\ state.pc = "out"
        /\ state.locks = req[s].locks /\ state.seen = req[s].seen
    BY <1>5, RequestType DEF SignOut, RequestState
  <2>3. state.token = req[s].token /\ state.rows = req[s].rows
    BY RequestType DEF RequestState
  <2>2. req[s].locks = {} /\ req[s].seen = {}
    BY <1>5 DEF SignOut, At, Bare, BarePC
  <2> HIDE DEF state
  <2> QED BY <2>1, <2>2, <2>3, MoveIs DEF Calm
<1>6. ASSUME NEW s \in Request, NEW a \in Account, NEW body \in Body, UserLoad(s, a, body)
      PROVE  Good(s)
  <2> DEFINE state == [Idle EXCEPT
        !.pc = "userLoaded", !.actor = req[s].actor, !.target = a, !.body = body,
        !.check = MustCheck(a, body),
        !.told = PostRole(a, body) # acct[a].role \/ PostActive(a, body) # acct[a].active,
        !.was = acct[a].active]
  <2>1. /\ Move(s, state) /\ state.pc = "userLoaded" /\ state.locks = {}
        /\ state.seen = {} /\ state.rows = {} /\ state.token = NoToken
    BY <1>6 DEF UserLoad, Idle
  <2> HIDE DEF state
  <2> QED BY <2>1, MoveIs DEF Calm
<1>7. ASSUME NEW s \in Request, Advance(s) PROVE Good(s)
  <2>1. PICK state : Move(s, state)
    BY <1>7 DEF Advance, UpdatePassword, RevokeAllForAccount, LockAdmins, LockRow,
                EnsureNotLastAdmin, SkipCheck, UpdateAccount
  <2> QED BY <1>7, <2>1, MoveIs
<1>8. ASSUME NEW s \in Request,
             \/ ChangePassword(s)
             \/ \E a \in Account : ResetPassword(s, a)
             \/ \E a \in Account, must \in BOOLEAN : RecoverPassword(s, a, must)
      PROVE  Advance(s)
  BY <1>8, RequestType DEF ChangePassword, ResetPassword, RecoverPassword, Advance
<1>9. CASE UNCHANGED req
  BY <1>9
<1> HIDE DEF Good
<1>10. ASSUME NEW s \in Request, Start(s) PROVE Good(s)
  BY <1>2, <1>3, <1>7, <1>8, <1>10 DEF Start
<1>11. ASSUME NEW s \in Request, Handle(s) PROVE Good(s)
  <2>1. CASE LockAdmins(s) \/ EnsureNotLastAdmin(s) \/ SkipCheck(s)
    BY <1>7, <2>1 DEF Advance
  <2>2. CASE Refuse(s) \/ \E a \in Account, role \in Role : CreateUser(s, a, role)
    BY <1>1, <2>2 DEF Refuse, CreateUser
  <2> QED BY <1>4, <1>6, <1>7, <1>8, <1>11, <2>1, <2>2, PatchAssumption DEF Handle
<1>12. ASSUME NEW s \in Request, Wait(s) PROVE Good(s)
  <2>1. CASE SignInCommit(s) \/ CommitSignOut(s) \/ CommitPassword(s) \/ CommitUser(s)
    BY <1>1, <2>1 DEF SignInCommit, CommitSignOut, CommitPassword, CommitUser
  <2>2. CASE UpdateAccount(s) \/ RevokeAllForAccount(s) \/ \E a \in Account : LockRow(s, a)
    BY <1>7, <2>2 DEF Advance
  <2> QED BY <1>5, <1>12, <2>1, <2>2 DEF Wait
<1>13. ASSUME NEW s \in Request, Fail(s) \/ AbortDeadlock(s) PROVE Good(s)
  BY <1>1, <1>13 DEF Fail, AbortDeadlock, Rollback
<1>14. ASSUME NEW t \in Token, Expire(t) PROVE UNCHANGED req
  BY <1>14 DEF Expire
<1> QED
  BY <1>9, <1>10, <1>11, <1>12, <1>13, <1>14 DEF Next, vars, Good

(* What it does to the accounts.  Only the COMMIT of a change alters the   *)
(* role or the active flag of an account that exists.                      *)
LEMMA AccountsKept ==
    ASSUME TypeOK, [Next]_vars, \A r \in Request : ~CommitUser(r),
           NEW a \in Account, acct[a].known
    PROVE  acct'[a].known /\ acct'[a].role = acct[a].role /\ acct'[a].active = acct[a].active
<1> DEFINE Kept == acct'[a].known /\ acct'[a].role = acct[a].role
                   /\ acct'[a].active = acct[a].active
<1>1. ASSUME NEW r \in Request, CommitPassword(r) PROVE Kept
  BY <1>1, RequestType DEF CommitPassword, TypeOK, AccountRow
<1>2. ASSUME NEW r \in Request, NEW b \in Account, NEW role \in Role, CreateUser(r, b, role)
      PROVE  Kept
  BY <1>2 DEF CreateUser, TypeOK, AccountRow
<1>3. CASE UNCHANGED acct
  BY <1>3
<1> QED
  BY <1>1, <1>2, <1>3
  DEF Next, Start, Handle, Wait, SignInRead, Admit, SignInCommit, Enter, SignOut,
      CommitSignOut, RevokeAllForAccount, UpdatePassword, ChangePassword, ResetPassword,
      RecoverPassword, UserLoad, LockAdmins, LockRow, SkipCheck, Refuse,
      EnsureNotLastAdmin, UpdateAccount, Rollback, Fail, AbortDeadlock, Expire, vars

LEMMA AdminsStay ==
    ASSUME TypeOK, [Next]_vars, \A r \in Request : ~CommitUser(r)
    PROVE  ActiveAdmins \subseteq ActiveAdmins'
BY AccountsKept DEF ActiveAdmins, IsAdmin

(* And that COMMIT alters its target alone.                                *)
LEMMA OnlyTarget ==
    ASSUME TypeOK, NEW r \in Request, CommitUser(r)
    PROVE  /\ \A b \in Account \ {req[r].target} : acct'[b] = acct[b]
           /\ acct'[req[r].target].known = acct[req[r].target].known
           /\ ActiveAdmins \ {req[r].target} \subseteq ActiveAdmins'
<1>1. PICK a \in Account, body \in Body : a = req[r].target /\ body = req[r].body
  BY RequestType
<1>2. acct' = [acct EXCEPT
        ![a].role = IF body.role = "absent" THEN @ ELSE body.role,
        ![a].active = IF body.active = "absent" THEN @ ELSE body.active = "true"]
  BY <1>1 DEF CommitUser
<1>3. \A b \in Account \ {a} : acct'[b] = acct[b]
  BY <1>2 DEF TypeOK
<1>4. acct'[a].known = acct[a].known
  BY <1>2 DEF TypeOK, AccountRow
<1> QED BY <1>1, <1>3, <1>4 DEF ActiveAdmins, IsAdmin

LEMMA KnownStays ==
    ASSUME TypeOK, [Next]_vars, NEW a \in Account, acct[a].known
    PROVE  acct'[a].known
<1>1. ASSUME NEW r \in Request, CommitUser(r) PROVE acct'[a].known
  BY <1>1, OnlyTarget
<1> QED BY <1>1, AccountsKept

-----------------------------------------------------------------------------
(* Locks.                                                                  *)

(* The steps of a change, and what they leave of its locks.                *)
LEMMA AdvanceIs ==
    ASSUME TypeOK, NEW s \in Request, Advance(s)
    PROVE  /\ UNCHANGED acct
           /\ \/ /\ req'[s].pc = "passwordSet" /\ UpdateFree(req'[s].target, s)
                 /\ req'[s].locks = {} /\ req'[s].seen = {} /\ req'[s].rows = {}
                 /\ req'[s].token = NoToken
              \/ /\ req'[s].target = req[s].target /\ req'[s].token = req[s].token
                 /\ \/ /\ Written(s) /\ req[s].pc \in {"passwordSet", "userUpdated"}
                       /\ req'[s].pc = IF At(s, "passwordSet") THEN "passwordRevoking"
                                       ELSE "userRevoking"
                       /\ req'[s].locks = req[s].locks /\ req'[s].seen = req[s].seen
                       /\ RevokeAllForAccount(s)
                    \/ /\ req'[s].rows = req[s].rows
                       /\ \/ /\ At(s, "userLoaded") /\ req'[s].pc = "userCounting"
                             /\ req'[s].locks = req[s].locks /\ req'[s].seen = ActiveAdmins
                          \/ \E a \in req[s].seen :
                             /\ At(s, "userCounting") /\ req'[s].pc = "userCounting"
                             /\ ForUpdateFree(a, s)
                             /\ req'[s].locks = req[s].locks \cup {a}
                             /\ req'[s].seen = req[s].seen \ {a}
                          \/ /\ At(s, "userCounting") /\ req'[s].pc = "userReady"
                             /\ EnsureNotLastAdmin(s)
                             /\ req'[s].locks = req[s].locks /\ req'[s].seen = req[s].seen
                          \/ /\ At(s, "userLoaded") /\ req'[s].pc = "userReady"
                             /\ req'[s].locks = req[s].locks /\ req'[s].seen = req[s].seen
                          \/ /\ At(s, "userReady") /\ req'[s].pc = "userUpdated"
                             /\ UpdateFree(req[s].target, s)
                             /\ req'[s].locks = req[s].locks /\ req'[s].seen = req[s].seen
<1>0. req[s] \in RequestState
  BY RequestType
<1>1. ASSUME NEW a \in Account, NEW must \in BOOLEAN, NEW told \in BOOLEAN,
             UpdatePassword(s, a, must, told)
      PROVE  /\ UNCHANGED acct
             /\ req'[s].pc = "passwordSet" /\ UpdateFree(req'[s].target, s)
             /\ req'[s].locks = {} /\ req'[s].seen = {} /\ req'[s].rows = {}
             /\ req'[s].token = NoToken
  <2> DEFINE state == [Idle EXCEPT !.pc = "passwordSet", !.actor = req[s].actor,
                                   !.target = a, !.must = must, !.told = told]
  <2>1. /\ Move(s, state) /\ UpdateFree(a, s) /\ UNCHANGED acct
        /\ state.pc = "passwordSet" /\ state.locks = {} /\ state.seen = {}
        /\ state.rows = {} /\ state.token = NoToken /\ state.target = a
    BY <1>1 DEF UpdatePassword, Idle
  <2> HIDE DEF state
  <2> QED BY <2>1, MoveIs
<1>2. CASE RevokeAllForAccount(s)
  <2> DEFINE state == [req[s] EXCEPT
            !.pc = IF @ = "passwordSet" THEN "passwordRevoking" ELSE "userRevoking",
            !.rows = SessionsOf(s)]
  <2>1. /\ Move(s, state) /\ UNCHANGED acct
        /\ state.pc = IF At(s, "passwordSet") THEN "passwordRevoking" ELSE "userRevoking"
        /\ state.locks = req[s].locks /\ state.seen = req[s].seen
        /\ state.target = req[s].target /\ state.token = req[s].token
        /\ req[s].pc \in {"passwordSet", "userUpdated"}
    BY <1>0, <1>2 DEF RevokeAllForAccount, RequestState, At
  <2> HIDE DEF state
  <2> QED BY <1>2, <2>1, MoveIs DEF Written
<1>3. CASE LockAdmins(s)
  <2> DEFINE state == [req[s] EXCEPT !.pc = "userCounting", !.seen = ActiveAdmins]
  <2>1. /\ state.target = req[s].target /\ state.token = req[s].token
        /\ state.rows = req[s].rows /\ state.pc = "userCounting"
        /\ state.locks = req[s].locks /\ state.seen = ActiveAdmins
    BY <1>0 DEF RequestState
  <2>2. Move(s, state) /\ UNCHANGED acct /\ At(s, "userLoaded")
    BY <1>3 DEF LockAdmins
  <2> HIDE DEF state
  <2>3. req'[s] = state
    BY <2>2, MoveIs
  <2> QED BY <2>1, <2>2, <2>3
<1>4. ASSUME NEW a \in Account, LockRow(s, a)
      PROVE  /\ UNCHANGED acct /\ a \in req[s].seen
             /\ req'[s].target = req[s].target /\ req'[s].token = req[s].token
             /\ req'[s].rows = req[s].rows
             /\ At(s, "userCounting") /\ req'[s].pc = "userCounting"
             /\ ForUpdateFree(a, s)
             /\ req'[s].locks = req[s].locks \cup {a}
             /\ req'[s].seen = req[s].seen \ {a}
  <2> DEFINE state == [req[s] EXCEPT !.seen = @ \ {a}, !.locks = @ \cup {a}]
  <2>1. /\ state.target = req[s].target /\ state.token = req[s].token
        /\ state.rows = req[s].rows /\ state.pc = req[s].pc
        /\ state.locks = req[s].locks \cup {a} /\ state.seen = req[s].seen \ {a}
    BY <1>0 DEF RequestState
  <2>2. Move(s, state) /\ UNCHANGED acct
    BY <1>4 DEF LockRow
  <2> HIDE DEF state
  <2>3. req'[s] = state
    BY <2>2, MoveIs
  <2> QED BY <1>4, <2>1, <2>2, <2>3 DEF LockRow, At
<1>5. CASE EnsureNotLastAdmin(s)
  BY <1>0, <1>5, MoveIs DEF EnsureNotLastAdmin, RequestState
<1>6. CASE SkipCheck(s)
  BY <1>0, <1>6, MoveIs DEF SkipCheck, RequestState
<1>7. CASE UpdateAccount(s)
  BY <1>0, <1>7, MoveIs DEF UpdateAccount, RequestState
<1> QED BY <1>1, <1>2, <1>3, <1>4, <1>5, <1>6, <1>7 DEF Advance

LEMMA BareStep == ASSUME TypeOK, Bare, [Next]_vars PROVE Bare'
<1>1. ASSUME NEW q \in Request, req'[q] = req[q]
      PROVE  /\ req'[q].pc \in BarePC => req'[q].locks = {} /\ req'[q].seen = {}
             /\ \A a \in req'[q].locks \cup req'[q].seen : acct'[a].known
  <2>1. req[q].locks \cup req[q].seen \subseteq Account
    BY RequestType DEF RequestState
  <2> QED BY <1>1, <2>1, KnownStays DEF Bare
<1>2. ASSUME NEW s \in Request, Calm(s) \/ Advance(s)
      PROVE  /\ req'[s].pc \in BarePC => req'[s].locks = {} /\ req'[s].seen = {}
             /\ \A a \in req'[s].locks \cup req'[s].seen : acct'[a].known
  <2>1. CASE Calm(s)
    BY <2>1 DEF Calm
  <2>2. CASE Advance(s)
    <3>1. \A a \in ActiveAdmins : acct[a].known
      BY DEF ActiveAdmins, IsAdmin
    <3> QED BY <2>2, <3>1, AdvanceIs DEF Bare, BarePC, At
  <2> QED BY <1>2, <2>1, <2>2
<1> QED BY <1>1, <1>2, WhoMoves DEF Bare

(* A row newly held was free of the locks of every other request.          *)
LEMMA HeldSteps ==
    ASSUME TypeOK, Bare, NEW s \in Request, Calm(s) \/ Advance(s), NEW a \in Held(s)'
    PROVE  a \in Held(s) \/ UpdateFree(a, s)
<1>1. CASE Calm(s)
  BY <1>1 DEF Calm, Held, Written
<1>2. CASE Advance(s)
  <2>1. CASE a \in req'[s].locks
    BY <1>2, <2>1, AdvanceIs DEF Held, ForUpdateFree, UpdateFree
  <2>2. CASE a = req'[s].target /\ a \in Account /\ Written(s)'
    BY <1>2, <2>2, AdvanceIs DEF Held, Written, At
  <2> QED BY <2>1, <2>2 DEF Held
<1> QED BY <1>1, <1>2

LEMMA ExclusiveStep ==
    ASSUME TypeOK, Bare, Exclusive, [Next]_vars
    PROVE  Exclusive'
<1>1. CASE UNCHANGED req
  BY <1>1 DEF Exclusive, Held, Written
<1>2. ASSUME NEW s \in Request, \A q \in Request : q # s => req'[q] = req[q],
             Calm(s) \/ Advance(s)
      PROVE  Exclusive'
  <2>1. \A q \in Request : q # s => Held(q)' = Held(q)
    BY <1>2 DEF Held, Written
  <2>2. \A a \in Held(s)' : a \in Held(s) \/ UpdateFree(a, s)
    BY <1>2, HeldSteps
  <2>3. \A q \in Request : q # s => Held(s)' \cap Held(q) = {}
    BY <2>2 DEF Exclusive, UpdateFree
  <2> QED BY <2>1, <2>3 DEF Exclusive
<1> QED BY <1>1, <1>2, WhoMoves

(* A row that is locked stays what it is until its transaction commits.    *)
LEMMA LockedRowsStay ==
    ASSUME TypeOK, Bare, Exclusive, [Next]_vars, NEW r \in Request, ~CommitUser(r),
           NEW a \in req[r].locks
    PROVE  a \in ActiveAdmins' <=> a \in ActiveAdmins
<1>1. a \in Account /\ acct[a].known
  BY RequestType DEF Bare, RequestState
<1>2. ASSUME NEW q \in Request, CommitUser(q) PROVE acct'[a] = acct[a]
  <2>1. Written(q)
    BY <1>2 DEF CommitUser, UserWritten, Written, At
  <2>2. req[q].target \in Held(q) /\ a \in Held(r)
    BY <2>1, RequestType DEF Held
  <2>3. q # r
    BY <1>2
  <2>4. a # req[q].target
    BY <2>2, <2>3 DEF Exclusive
  <2> QED BY <1>1, <1>2, <2>4, OnlyTarget
<1>3. CASE \A q \in Request : ~CommitUser(q)
  BY <1>1, <1>3, AccountsKept DEF ActiveAdmins, IsAdmin
<1> QED BY <1>2, <1>3 DEF ActiveAdmins, IsAdmin

LEMMA CountStep ==
    ASSUME TypeOK, Bare, LocksHold, [Next]_vars
    PROVE  CountHolds'
<1> SUFFICES ASSUME NEW r \in Request, req'[r].pc # "userCounting",
                    req'[r].target \in req'[r].locks \cap ActiveAdmins'
             PROVE  \E a \in req'[r].locks \cap ActiveAdmins' : a # req'[r].target
  BY DEF CountHolds, Counted, At
<1>1. ASSUME ~CommitUser(r), req'[r].locks = req[r].locks, req'[r].target = req[r].target
      PROVE  Counted(r)' = Counted(r)
  BY <1>1, LockedRowsStay DEF Counted, LocksHold
<1>2. CASE req'[r] = req[r]
  <2>1. ~CommitUser(r)
    <3>1. CASE CommitUser(r)
      BY <1>2, <3>1, MoveIs DEF CommitUser, UserWritten, Finish, Idle, At
    <3> QED BY <3>1
  <2> QED BY <1>1, <1>2, <2>1 DEF LocksHold, CountHolds, Counted, At
<1>3. CASE Calm(r)
  BY <1>3 DEF Calm
<1>4. CASE Advance(r)
  <2>1. ~CommitUser(r)
    <3>1. CASE CommitUser(r)
      <4>1. req'[r].pc = "idle"
        BY <3>1, MoveIs DEF CommitUser, Finish, Idle
      <4> QED BY <1>4, <4>1, AdvanceIs
    <3> QED BY <3>1
  <2>2. CASE EnsureNotLastAdmin(r)
    <3>1. req'[r].locks = req[r].locks /\ req'[r].target = req[r].target
      BY <2>2, RequestType, MoveIs DEF EnsureNotLastAdmin, RequestState
    <3> QED BY <1>1, <2>1, <2>2, <3>1 DEF EnsureNotLastAdmin, Counted
  <2>3. CASE req[r].pc = "userLoaded" /\ req'[r].locks = req[r].locks
    BY <2>3 DEF Bare, BarePC
  <2>4. CASE /\ req[r].pc \in {"passwordSet", "userUpdated", "userReady"}
             /\ req'[r].locks = req[r].locks /\ req'[r].target = req[r].target
    BY <1>1, <2>1, <2>4 DEF LocksHold, CountHolds, Counted, At
  <2> QED BY <1>4, <2>2, <2>3, <2>4, AdvanceIs DEF At
<1> QED BY <1>2, <1>3, <1>4, WhoMoves

-----------------------------------------------------------------------------
(* Sessions.                                                               *)

LEMMA SignInReadIs ==
    ASSUME TypeOK, NEW r \in Request, NEW a \in Account, NEW t \in Token, SignInRead(r, a, t)
    PROVE  /\ req'[r].token = t /\ req'[r].rows = {} /\ req'[r].pc = "signIn"
           /\ \A q \in Request : q # r => req'[q] = req[q]
<1> DEFINE state == [Idle EXCEPT !.pc = "signIn", !.actor = a, !.token = t]
<1>1. Move(r, state) /\ state.token = t /\ state.rows = {} /\ state.pc = "signIn"
  BY DEF SignInRead, Idle
<1> HIDE DEF state
<1> QED BY <1>1, MoveIs

LEMMA RevokeIs ==
    ASSUME TypeOK, NEW r \in Request, RevokeAllForAccount(r)
    PROVE  /\ req'[r].target = req[r].target /\ req'[r].token = req[r].token
           /\ req'[r].rows = SessionsOf(r)
           /\ \A q \in Request : q # r => req'[q] = req[q]
<1> DEFINE state == [req[r] EXCEPT
        !.pc = IF @ = "passwordSet" THEN "passwordRevoking" ELSE "userRevoking",
        !.rows = SessionsOf(r)]
<1>1. /\ state.target = req[r].target /\ state.token = req[r].token
      /\ state.rows = SessionsOf(r)
  BY RequestType DEF RequestState
<1>2. Move(r, state)
  BY DEF RevokeAllForAccount
<1> HIDE DEF state
<1> QED BY <1>1, <1>2, MoveIs

LEMMA SlotStep ==
    ASSUME TypeOK, Bare, SlotsHold, [Next]_vars
    PROVE  SlotsHold'
<1> USE DEF At
<1>1. ASSUME NEW r \in Request, NEW a \in Account, NEW t \in Token, SignInRead(r, a, t)
      PROVE  SlotsHold'
  <2>1. /\ req'[r].token = t /\ req'[r].rows = {} /\ Unused(t)
        /\ \A q \in Request : q # r => req'[q] = req[q]
    BY <1>1, SignInReadIs DEF SignInRead
  <2>2. \A u \in Token : u # t => sess'[u] = sess[u]
    BY <1>1 DEF SignInRead, TypeOK
  <2>3. sess'[t].state = "coming"
    BY <1>1 DEF SignInRead, TypeOK
  <2> QED BY <2>1, <2>2, <2>3 DEF SlotsHold, Unused
<1>2. ASSUME NEW r \in Request, ~(\E a \in Account, t \in Token : SignInRead(r, a, t)),
             req'[r].pc = "signIn"
      PROVE  req'[r] = req[r]
  BY <1>2, WhoMoves, AdvanceIs DEF Calm
<1>3. ASSUME \A q \in Request, a \in Account, t \in Token : ~SignInRead(q, a, t),
             NEW r \in Request, req'[r].pc = "signIn", NEW q \in Request, q # r
      PROVE  req'[q].token # req'[r].token /\ req'[r].token \notin req'[q].rows
  <2>1. /\ req'[r] = req[r] /\ req[r].token \in Token
        /\ sess[req[r].token].state = "coming"
        /\ req[q].token # req[r].token /\ req[r].token \notin req[q].rows
    BY <1>2, <1>3 DEF SlotsHold
  <2>2. CASE req'[q] = req[q]
    BY <2>1, <2>2
  <2>3. CASE Calm(q)
    <3>1. CASE \E t \in Token, own \in BOOLEAN : Admit(q, t, own)
      <4>1. PICK t \in Token, own \in BOOLEAN : Admit(q, t, own)
        BY <3>1
      <4> DEFINE state == [Idle EXCEPT !.pc = "admitted", !.own = own, !.token = t,
                                       !.actor = sess[t].of]
      <4>2. Move(q, state) /\ state.token = t /\ state.rows = {}
        BY <4>1 DEF Admit, Idle
      <4> HIDE DEF state
      <4>3. req'[q].token = t /\ req'[q].rows = {} /\ sess[t].state = "live"
        BY <4>1, <4>2, MoveIs DEF Admit, Authenticates
      <4> QED BY <2>1, <4>3
    <3>2. CASE req'[q].token \in {req[q].token, NoToken} /\ req'[q].rows \subseteq req[q].rows
      BY <2>1, <3>2, TokenAssumption DEF NoToken
    <3> QED BY <1>3, <2>3, <3>1, <3>2 DEF Calm
  <2>4. CASE Advance(q)
    <3>1. CASE RevokeAllForAccount(q)
      <4>1. req'[q].rows = SessionsOf(q) /\ req'[q].token = req[q].token
        BY <3>1, RevokeIs
      <4> QED BY <2>1, <4>1 DEF SessionsOf
    <3>2. CASE ~RevokeAllForAccount(q)
      <4>1. /\ req'[q].rows = {} \/ req'[q].rows = req[q].rows
            /\ req'[q].token = NoToken \/ req'[q].token = req[q].token
        BY <2>4, <3>2, AdvanceIs
      <4> QED BY <2>1, <4>1, TokenAssumption DEF NoToken
    <3> QED BY <3>1, <3>2
  <2> QED BY <2>2, <2>3, <2>4, WhoMoves
<1>4. ASSUME \A q \in Request, a \in Account, t \in Token : ~SignInRead(q, a, t),
             NEW r \in Request, req'[r].pc = "signIn"
      PROVE  req'[r].token \in Token /\ sess'[req'[r].token].state = "coming"
  <2>0. req'[r] = req[r] /\ req[r].token \in Token
    BY <1>2, <1>4 DEF SlotsHold
  <2> PICK t \in Token : t = req[r].token
    BY <2>0
  <2>1. /\ req'[r] = req[r] /\ sess[t].state = "coming"
        /\ \A q \in Request \ {r} : req[q].token # t /\ t \notin req[q].rows
    BY <1>4, <2>0 DEF SlotsHold
  <2>2. ASSUME NEW q \in Request, Finish(q) PROVE q # r
    BY <1>4, <2>2, MoveIs DEF Finish, Idle
  <2>3. ASSUME NEW q \in Request,
               SignInCommit(q) \/ CommitSignOut(q) \/ CommitPassword(q) \/ CommitUser(q)
               \/ Rollback(q)
        PROVE  sess'[t].state = "coming"
    <3>1. Finish(q) /\ q # r
      BY <2>2, <2>3 DEF SignInCommit, CommitSignOut, CommitPassword, CommitUser, Rollback
    <3>2. req[q].token # t /\ t \notin req[q].rows
      BY <2>1, <3>1
    <3>3. CASE SignInCommit(q) \/ CommitSignOut(q)
      BY <2>1, <3>2, <3>3 DEF SignInCommit, CommitSignOut, TypeOK
    <3>4. CASE CommitPassword(q)
      <4>1. sess[t] \in SessionRow
        BY <2>1 DEF TypeOK
      <4>2. sess'[t] = sess[t] \/ sess'[t] = [sess[t] EXCEPT !.stale = TRUE]
        BY <2>1, <3>2, <3>4 DEF CommitPassword
      <4> QED BY <2>1, <4>1, <4>2 DEF SessionRow
    <3>5. CASE CommitUser(q) \/ Rollback(q)
      BY <2>1, <3>2, <3>5 DEF CommitUser, Rollback
    <3> QED BY <2>3, <3>3, <3>4, <3>5
  <2>4. ASSUME NEW q \in Request, RevokeAllForAccount(q) PROVE sess'[t].state = "coming"
    <3>1. sess[t] \in SessionRow
      BY <2>1 DEF TypeOK
    <3>2. sess'[t] = sess[t] \/ sess'[t] = [sess[t] EXCEPT !.late = TRUE]
      BY <2>1, <2>4 DEF RevokeAllForAccount
    <3> QED BY <2>1, <3>1, <3>2 DEF SessionRow
  <2>5. ASSUME NEW u \in Token, Expire(u) PROVE sess'[t].state = "coming"
    BY <2>1, <2>5 DEF Expire, TypeOK
  <2>6. ASSUME UNCHANGED sess PROVE sess'[t].state = "coming"
    BY <2>1, <2>6
  <2>7. ASSUME NEW q \in Request, Start(q) \/ Handle(q) PROVE UNCHANGED sess
    BY <1>4, <2>7
    DEF Start, Handle, Admit, Enter, UpdatePassword, ChangePassword, ResetPassword,
        RecoverPassword, CreateUser, UserLoad, LockAdmins, SkipCheck, Refuse,
        EnsureNotLastAdmin
  <2>8. ASSUME NEW q \in Request, Wait(q) PROVE sess'[t].state = "coming"
    BY <2>3, <2>4, <2>6, <2>8 DEF Wait, SignOut, LockRow, UpdateAccount
  <2>9. sess'[t].state = "coming"
    BY <2>3, <2>5, <2>6, <2>7, <2>8 DEF Next, Fail, AbortDeadlock, vars
  <2> QED BY <2>0, <2>9
<1>5. CASE \A q \in Request, a \in Account, t \in Token : ~SignInRead(q, a, t)
  BY <1>3, <1>4, <1>5 DEF SlotsHold
<1> QED BY <1>1, <1>5

(* A transaction that has revoked sessions is one that had before, or it   *)
(* begins to now.                                                          *)
LEMMA RevokingSteps ==
    ASSUME TypeOK, Bare, [Next]_vars, NEW r \in Request, Revoking(r)'
    PROVE  req'[r] = req[r] \/ RevokeAllForAccount(r)
<1>1. ASSUME Calm(r) PROVE FALSE
  BY <1>1 DEF Calm, Revoking
<1>2. CASE Advance(r)
  BY <1>2, AdvanceIs DEF Revoking
<1> QED BY <1>1, <1>2, WhoMoves

(* Who the COMMIT of a password misses is late already: that is the order  *)
(* in which RevokeAllForAccount, the sign-ins and the COMMIT come.         *)
LEMMA MarksStep ==
    ASSUME TypeOK, Bare, SlotsHold, MarksHold, [Next]_vars
    PROVE  MarksHold'
<1> DEFINE Missed(r, t) ==
        /\ Revoking(r) /\ sess[t].of = req[r].target
        /\ sess[t].state = "coming" \/ (sess[t].state = "live" /\ t \notin req[r].rows)
    Marked(t) == sess[t].state # "none" /\ sess[t].stale
<1>0. \A t \in Token : sess[t] \in SessionRow
  BY DEF TypeOK
<1>1. ASSUME \A r \in Request : ~RevokeAllForAccount(r),
             \A r \in Request, t \in Token : ~\E a \in Account : SignInRead(r, a, t),
             \A t \in Token :
                \/ sess'[t].state = "none"
                \/ /\ sess'[t].of = sess[t].of /\ sess'[t].late = sess[t].late
                   /\ \/ sess'[t].state = sess[t].state
                      \/ sess'[t].state = "live" /\ sess[t].state = "coming"
                   /\ \/ sess'[t].stale = sess[t].stale
                      \/ sess[t].late
      PROVE  MarksHold'
  <2>1. ASSUME NEW r \in Request, NEW t \in Token, Missed(r, t)' PROVE sess'[t].late
    <3>1. req'[r] = req[r]
      BY <1>1, <2>1, RevokingSteps
    <3>2. Missed(r, t)
      BY <1>1, <2>1, <3>1 DEF Revoking
    <3> QED BY <1>1, <2>1, <3>2 DEF MarksHold
  <2>2. ASSUME NEW t \in Token, Marked(t)' PROVE sess'[t].late
    BY <1>1, <2>2 DEF MarksHold
  <2> QED BY <2>1, <2>2 DEF MarksHold
<1>2. ASSUME NEW s \in Request, NEW b \in Account, NEW u \in Token, SignInRead(s, b, u)
      PROVE  MarksHold'
  <2>1. /\ sess'[u].of = b /\ ~sess'[u].stale
        /\ sess'[u].late <=> \E q \in Request : Revoking(q) /\ req[q].target = b
    BY <1>2 DEF SignInRead, TypeOK
  <2>2. \A t \in Token : t # u => sess'[t] = sess[t]
    BY <1>2 DEF SignInRead, TypeOK
  <2>3. ASSUME NEW r \in Request, Revoking(r)' PROVE req'[r] = req[r] /\ Revoking(r)
    <3>1. r # s /\ req'[r] = req[r]
      BY <1>2, <2>3, SignInReadIs DEF Revoking
    <3> QED BY <2>3, <3>1 DEF Revoking
  <2>4. ASSUME NEW r \in Request, NEW t \in Token, Missed(r, t)' PROVE sess'[t].late
    BY <2>1, <2>2, <2>3, <2>4 DEF MarksHold
  <2>5. ASSUME NEW t \in Token, Marked(t)' PROVE sess'[t].late
    BY <2>1, <2>2, <2>5 DEF MarksHold
  <2> QED BY <2>4, <2>5 DEF MarksHold
<1>3. ASSUME NEW s \in Request, RevokeAllForAccount(s) PROVE MarksHold'
  <2>1. /\ req'[s].target = req[s].target /\ req'[s].rows = SessionsOf(s)
        /\ \A q \in Request : q # s => req'[q] = req[q]
    BY <1>3, RevokeIs
  <2>2. ASSUME NEW t \in Token
        PROVE  /\ sess'[t].state = sess[t].state /\ sess'[t].of = sess[t].of
               /\ sess'[t].stale = sess[t].stale
               /\ sess[t].late => sess'[t].late
               /\ sess[t].state = "coming" /\ sess[t].of = req[s].target => sess'[t].late
    <3>1. CASE sess[t].state = "coming" /\ sess[t].of = req[s].target
      <4>1. sess'[t] = [sess[t] EXCEPT !.late = TRUE]
        BY <1>3, <3>1 DEF RevokeAllForAccount
      <4> QED BY <1>0, <4>1 DEF SessionRow
    <3>2. CASE ~(sess[t].state = "coming" /\ sess[t].of = req[s].target)
      <4>1. sess'[t] = sess[t]
        BY <1>3, <3>2 DEF RevokeAllForAccount
      <4> QED BY <3>2, <4>1
    <3> QED BY <3>1, <3>2
  <2>3. ASSUME NEW r \in Request, NEW t \in Token, Missed(r, t)' PROVE sess'[t].late
    <3>1. CASE r = s
      BY <2>1, <2>2, <2>3, <3>1 DEF SessionsOf
    <3>2. CASE r # s
      BY <2>1, <2>2, <2>3, <3>2 DEF MarksHold, Revoking
    <3> QED BY <3>1, <3>2
  <2>4. ASSUME NEW t \in Token, Marked(t)' PROVE sess'[t].late
    BY <2>2, <2>4 DEF MarksHold
  <2> QED BY <2>3, <2>4 DEF MarksHold
<1> DEFINE Grows(t) ==
        \/ sess'[t].state = "none"
        \/ /\ sess'[t].of = sess[t].of /\ sess'[t].late = sess[t].late
           /\ \/ sess'[t].state = sess[t].state
              \/ sess'[t].state = "live" /\ sess[t].state = "coming"
           /\ sess'[t].stale = sess[t].stale \/ sess[t].late
<1>4. ASSUME NEW s \in Request, CommitPassword(s), NEW t \in Token PROVE Grows(t)
  <2>1. CASE t \in req[s].rows
    BY <1>4, <2>1 DEF CommitPassword, NoSession
  <2>2. CASE t \notin req[s].rows /\ sess[t].state # "none" /\ sess[t].of = req[s].target
    <3>1. sess'[t] = [sess[t] EXCEPT !.stale = TRUE]
      BY <1>4, <2>2 DEF CommitPassword
    <3>2. Revoking(s) /\ sess[t].state \in {"coming", "live"}
      BY <1>0, <1>4, <2>2 DEF CommitPassword, Revoking, At, SessionRow
    <3>3. sess[t].late
      BY <2>2, <3>2 DEF MarksHold
    <3> QED BY <1>0, <3>1, <3>3 DEF SessionRow
  <2>3. CASE t \notin req[s].rows /\ ~(sess[t].state # "none" /\ sess[t].of = req[s].target)
    BY <1>4, <2>3 DEF CommitPassword
  <2> QED BY <2>1, <2>2, <2>3
<1>5. ASSUME NEW s \in Request, SignInCommit(s), NEW t \in Token PROVE Grows(t)
  <2>1. req[s].token \in Token /\ sess[req[s].token].state = "coming"
    BY <1>5 DEF SignInCommit, SlotsHold
  <2> QED BY <1>0, <1>5, <2>1 DEF SignInCommit, TypeOK, SessionRow
<1>6. ASSUME NEW s \in Request, CommitSignOut(s) \/ CommitUser(s) \/ Rollback(s),
             NEW t \in Token
      PROVE  Grows(t)
  BY <1>6 DEF CommitSignOut, CommitUser, Rollback, NoSession, TypeOK
<1>7. ASSUME NEW u \in Token, Expire(u), NEW t \in Token PROVE Grows(t)
  BY <1>7 DEF Expire, NoSession, TypeOK
<1>8. ASSUME UNCHANGED sess, NEW t \in Token PROVE Grows(t)
  BY <1>8
<1>9. ASSUME \A r \in Request : ~RevokeAllForAccount(r),
             \A r \in Request, t \in Token : ~\E a \in Account : SignInRead(r, a, t),
             NEW t \in Token
      PROVE  Grows(t)
  <2> HIDE DEF Grows
  <2> QED BY <1>4, <1>5, <1>6, <1>7, <1>8, <1>9
      DEF Next, Start, Handle, Wait, Admit, Enter, SignOut, UpdatePassword, ChangePassword,
          ResetPassword, RecoverPassword, CreateUser, UserLoad, LockAdmins, LockRow,
          SkipCheck, Refuse, EnsureNotLastAdmin, UpdateAccount, Fail, AbortDeadlock, vars
<1> QED BY <1>1, <1>2, <1>3, <1>9

-----------------------------------------------------------------------------
(* The inductive invariant.                                                *)

LEMMA Initially == Init => IInv
<1> SUFFICES ASSUME Init PROVE IInv
  OBVIOUS
<1>1. TypeOK
  BY IdleType, SeedAssumption DEF Init, TypeOK, AccountRow, Role
<1>2. Bare /\ LocksHold /\ SlotsHold
  BY DEF Init, Bare, BarePC, LocksHold, Exclusive, CountHolds, Counted, SlotsHold, Held,
         Written, Idle, At
<1>3. MarksHold
  BY DEF Init, MarksHold, NoSession
<1> QED BY <1>1, <1>2, <1>3 DEF IInv

(* IInv holds in every reachable state.                                    *)
THEOREM Invariance == Spec => []IInv
<1>1. IInv /\ [Next]_vars => IInv'
  BY TypeStep, BareStep, ExclusiveStep, CountStep, SlotStep, MarksStep DEF IInv, LocksHold
<1> QED BY Initially, <1>1, PTL DEF Spec

(* Every variable keeps its type.                                          *)
THEOREM TypeCorrect == Spec => []TypeOK
<1>1. IInv => TypeOK
  BY DEF IInv
<1> QED BY Invariance, <1>1, PTL

(* No row of an account is locked or written by two open transactions.     *)
THEOREM RowsExclusive == Spec => []Exclusive
<1>1. IInv => Exclusive
  BY DEF IInv, LocksHold
<1> QED BY Invariance, <1>1, PTL

(* A live session whose password was replaced had its sign-in under way    *)
(* between a revocation and its COMMIT: all others were revoked.           *)
THEOREM NewPasswordIsNewStart == Spec => []NewPasswordEndsSessions
<1>1. IInv => NewPasswordEndsSessions
  BY DEF IInv, MarksHold, NewPasswordEndsSessions
<1> QED BY Invariance, <1>1, PTL

(* The administrators run out only through a change whose lock statement   *)
(* did not find its target: a target that was locked and counted left      *)
(* another row locked, and that row is an administrator still.             *)
THEOREM CountedIsNeverLast == Spec => CountedAdminIsNotLast
<1> DEFINE A == ActiveAdmins = {} \/ ActiveAdmins' # {} \/
                \E r \in Request : CommitUser(r) /\ req[r].target \notin req[r].locks
<1>1. ASSUME IInv, [Next]_vars PROVE A
  <2>1. CASE \A r \in Request : ~CommitUser(r)
    BY <1>1, <2>1, AdminsStay DEF IInv
  <2>2. ASSUME NEW r \in Request, CommitUser(r), req[r].target \in req[r].locks
        PROVE  A
    <3>1. CASE req[r].target \in ActiveAdmins
      <4>1. PICK a \in Counted(r) : a # req[r].target
        BY <1>1, <2>2, <3>1
        DEF IInv, LocksHold, CountHolds, Counted, CommitUser, UserWritten, At
      <4>2. a \in ActiveAdmins \ {req[r].target}
        BY <4>1 DEF Counted
      <4> QED BY <1>1, <2>2, <4>2, OnlyTarget DEF IInv
    <3>2. CASE req[r].target \notin ActiveAdmins
      BY <1>1, <2>2, <3>2, OnlyTarget DEF IInv
    <3> QED BY <3>1, <3>2
  <2>3. ASSUME NEW r \in Request, CommitUser(r), req[r].target \notin req[r].locks PROVE A
    BY <2>3
  <2> HIDE DEF A
  <2> QED BY <2>1, <2>2, <2>3
<1>2. IInv /\ [Next]_vars => [A]_vars
  BY <1>1
<1> QED BY Invariance, <1>2, PTL DEF Spec, CountedAdminIsNotLast

(* A deactivation leaves only sessions whose sign-in ran beside it, or it  *)
(* is one that had read the account while it was inactive.                 *)
THEOREM DeactivationRevokes == Spec => DeactivationEndsSessions
<1> DEFINE D(a) == acct[a].active /\ ~acct'[a].active =>
        \/ \A t \in Token : sess'[t].state = "live" /\ sess'[t].of = a => sess'[t].late
        \/ \E r \in Request : CommitUser(r) /\ req[r].target = a /\ ~req[r].was
<1>1. ASSUME IInv, NEW r \in Request, CommitUser(r), NEW a \in Account PROVE D(a)
  <2>0. TypeOK /\ MarksHold
    BY <1>1 DEF IInv
  <2>1. CASE req[r].target = a /\ ~req[r].was
    BY <1>1, <2>1
  <2>2. CASE req[r].target = a /\ req[r].was
    <3>1. SUFFICES ASSUME acct[a].active, ~acct'[a].active
                   PROVE  \A t \in Token :
                            sess'[t].state = "live" /\ sess'[t].of = a => sess'[t].late
      OBVIOUS
    <3>2. req[r].body.active = "false"
      <4>1. PICK body \in Body : body = req[r].body
        BY <2>0, RequestType
      <4>2. acct' = [acct EXCEPT
              ![a].role = IF body.role = "absent" THEN @ ELSE body.role,
              ![a].active = IF body.active = "absent" THEN @ ELSE body.active = "true"]
        BY <1>1, <2>2, <4>1 DEF CommitUser
      <4>3. acct'[a].active = IF body.active = "absent" THEN acct[a].active
                                                       ELSE body.active = "true"
        BY <2>0, <4>2 DEF TypeOK, AccountRow
      <4> QED BY <3>1, <4>1, <4>3 DEF Body
    <3>3. Revoking(r)
      BY <1>1, <2>2, <3>2 DEF CommitUser, UserWritten, Deactivates, Revoking, At
    <3>4. ASSUME NEW t \in Token, sess'[t].state = "live", sess'[t].of = a
          PROVE  sess'[t].late
      <4>1. t \notin req[r].rows /\ sess'[t] = sess[t]
        BY <1>1, <3>4 DEF CommitUser, NoSession
      <4> QED BY <2>0, <2>2, <3>3, <3>4, <4>1 DEF MarksHold
    <3> QED BY <3>4
  <2>3. CASE req[r].target # a
    <3>1. acct'[a] = acct[a]
      BY <1>1, <2>0, <2>3, OnlyTarget
    <3> QED BY <3>1
  <2> QED BY <2>1, <2>2, <2>3
<1>2. ASSUME TypeOK, [Next]_vars, \A r \in Request : ~CommitUser(r), NEW a \in Account
      PROVE  acct[a].active => acct'[a].active
  <2>1. ASSUME NEW r \in Request, CommitPassword(r)
        PROVE  acct[a].active => acct'[a].active
    BY <1>2, <2>1, RequestType DEF CommitPassword, TypeOK, AccountRow
  <2>2. ASSUME NEW r \in Request, NEW b \in Account, NEW role \in Role,
               CreateUser(r, b, role)
        PROVE  acct[a].active => acct'[a].active
    BY <1>2, <2>2 DEF CreateUser, TypeOK
  <2>3. CASE UNCHANGED acct
    BY <2>3
  <2> QED
    BY <1>2, <2>1, <2>2, <2>3
    DEF Next, Start, Handle, Wait, SignInRead, Admit, SignInCommit, Enter, SignOut,
        CommitSignOut, RevokeAllForAccount, UpdatePassword, ChangePassword, ResetPassword,
        RecoverPassword, UserLoad, LockAdmins, LockRow, SkipCheck, Refuse,
        EnsureNotLastAdmin, UpdateAccount, Rollback, Fail, AbortDeadlock, Expire, vars
<1>3. ASSUME IInv, [Next]_vars, NEW a \in Account PROVE D(a)
  <2>1. CASE \A r \in Request : ~CommitUser(r)
    BY <1>2, <1>3, <2>1 DEF IInv
  <2> HIDE DEF D
  <2> QED BY <1>1, <1>3, <2>1
<1>4. IInv /\ [Next]_vars => [\A a \in Account : D(a)]_vars
  BY <1>3
<1> QED BY Invariance, <1>4, PTL DEF Spec, DeactivationEndsSessions

-----------------------------------------------------------------------------
(* Deadlocks.  Writers of passwords, sign-ins, sign-outs and the changes   *)
(* that need no count wait for each other in one direction only: for the   *)
(* row of an account, then for the rows of sessions.  It takes the rows    *)
(* that EnsureNotLastAdmin keeps to close a circle.                        *)
THEOREM CircleNeedsCount ==
    ASSUME NEW circle \in SUBSET Request, circle # {}, Circle(circle)
    PROVE  \E r \in circle : req[r].locks # {}
<1> SUFFICES ASSUME \A r \in circle : req[r].locks = {} PROVE FALSE
  OBVIOUS
<1>1. ASSUME NEW r \in circle PROVE ~At(r, "out") /\ ~At(r, "signIn")
  BY <1>1 DEF Circle, WaitsFor, At, Revoking
<1>2. ASSUME NEW r \in circle PROVE ~Written(r)
  <2>1. CASE Revoking(r) /\ ~SessionsFree(r)
    BY <1>1, <2>1 DEF Circle, WaitsFor, Revoking, At, SigningOut
  <2>2. CASE Written(r) /\ ~(Revoking(r) /\ ~SessionsFree(r))
    BY <2>2 DEF Circle, WaitsFor, Revoking, Written, At
  <2> QED BY <2>1, <2>2
<1>3. \A r \in circle : Held(r) = {} /\ Shared(r) = {}
  BY <1>2 DEF Held, Shared, Written, At
<1>4. ASSUME NEW r \in circle PROVE FALSE
  BY <1>1, <1>2, <1>3 DEF Circle, WaitsFor, Revoking, Written, At
<1> QED BY <1>4

-----------------------------------------------------------------------------
(* One change at a time keeps an administrator.  The hole found by the run *)
(* find_last_admin_gone needs a second change between the snapshot of the  *)
(* lock statement and its locks; everything else may run beside a change.  *)

Changing(r) ==
    req[r].pc \in {"userLoaded", "userCounting", "userReady", "userUpdated", "userRevoking"}

OneChange == \A q, r \in Request : Changing(q) /\ Changing(r) => q = r

(* What the handler concluded of its target is still true.                 *)
TargetKnown(r) ==
    LET a == req[r].target IN
    /\ acct[a].known
    /\ req[r].check <=> MustCheck(a, req[r].body)
    /\ At(r, "userCounting") => (IsAdmin(a) => a \in req[r].seen \cup req[r].locks)
    /\ req[r].pc \in {"userReady", "userUpdated", "userRevoking"} /\ req[r].check /\ IsAdmin(a)
        => a \in req[r].locks

ChangeInv == AlwaysAnAdmin /\ \A r \in Request : Changing(r) => TargetKnown(r)

(* The steps of a change after its load.                                   *)
GoesOn(r) ==
    \/ LockAdmins(r) \/ EnsureNotLastAdmin(r) \/ SkipCheck(r) \/ UpdateAccount(r)
    \/ \E a \in Account : LockRow(r, a)
    \/ At(r, "userUpdated") /\ RevokeAllForAccount(r)

LEMMA GoesOnIs ==
    ASSUME TypeOK, NEW r \in Request, GoesOn(r)
    PROVE  /\ UNCHANGED acct /\ Changing(r)
           /\ req'[r].target = req[r].target /\ req'[r].body = req[r].body
           /\ req'[r].check = req[r].check
           /\ \/ /\ LockAdmins(r) /\ req'[r].pc = "userCounting"
                 /\ req'[r].seen = ActiveAdmins /\ req'[r].locks = req[r].locks
              \/ \E b \in Account :
                 /\ LockRow(r, b) /\ req'[r].pc = "userCounting"
                 /\ req'[r].seen = req[r].seen \ {b} /\ req'[r].locks = req[r].locks \cup {b}
              \/ /\ EnsureNotLastAdmin(r) \/ SkipCheck(r)
                 /\ req'[r].pc = "userReady" /\ req'[r].locks = req[r].locks
              \/ /\ req[r].pc \in {"userReady", "userUpdated"}
                 /\ req'[r].pc \in {"userUpdated", "userRevoking"}
                 /\ req'[r].locks = req[r].locks
<1> DEFINE Same(state) == /\ state.target = req[r].target /\ state.body = req[r].body
                          /\ state.check = req[r].check
<1>0. req[r] \in RequestState
  BY RequestType
<1>1. CASE LockAdmins(r)
  <2> DEFINE state == [req[r] EXCEPT !.pc = "userCounting", !.seen = ActiveAdmins]
  <2>1. /\ Same(state) /\ state.pc = "userCounting" /\ state.seen = ActiveAdmins
        /\ state.locks = req[r].locks
    BY <1>0 DEF RequestState
  <2>2. Move(r, state) /\ UNCHANGED acct /\ At(r, "userLoaded")
    BY <1>1 DEF LockAdmins
  <2> HIDE DEF state
  <2> QED BY <1>1, <2>1, <2>2, MoveIs DEF Changing, At
<1>2. ASSUME NEW b \in Account, LockRow(r, b)
      PROVE  /\ UNCHANGED acct /\ Changing(r) /\ Same(req'[r])
             /\ LockRow(r, b) /\ req'[r].pc = "userCounting"
             /\ req'[r].seen = req[r].seen \ {b} /\ req'[r].locks = req[r].locks \cup {b}
  <2> DEFINE state == [req[r] EXCEPT !.seen = @ \ {b}, !.locks = @ \cup {b}]
  <2>1. /\ Same(state) /\ state.pc = req[r].pc /\ state.seen = req[r].seen \ {b}
        /\ state.locks = req[r].locks \cup {b}
    BY <1>0 DEF RequestState
  <2>2. Move(r, state) /\ UNCHANGED acct /\ At(r, "userCounting")
    BY <1>2 DEF LockRow
  <2> HIDE DEF state
  <2> QED BY <1>2, <2>1, <2>2, MoveIs DEF Changing, At
<1>3. CASE EnsureNotLastAdmin(r) \/ SkipCheck(r)
  <2> DEFINE state == [req[r] EXCEPT !.pc = "userReady"]
  <2>1. Same(state) /\ state.pc = "userReady" /\ state.locks = req[r].locks
    BY <1>0 DEF RequestState
  <2>2. /\ Move(r, state) /\ UNCHANGED acct
        /\ At(r, "userCounting") \/ At(r, "userLoaded")
    BY <1>3 DEF EnsureNotLastAdmin, SkipCheck
  <2> HIDE DEF state
  <2> QED BY <1>3, <2>1, <2>2, MoveIs DEF Changing, At
<1>4. CASE UpdateAccount(r)
  <2> DEFINE state == [req[r] EXCEPT !.pc = "userUpdated"]
  <2>1. Same(state) /\ state.pc = "userUpdated" /\ state.locks = req[r].locks
    BY <1>0 DEF RequestState
  <2>2. Move(r, state) /\ UNCHANGED acct /\ At(r, "userReady")
    BY <1>4 DEF UpdateAccount
  <2> HIDE DEF state
  <2> QED BY <2>1, <2>2, MoveIs DEF Changing, At
<1>5. CASE At(r, "userUpdated") /\ RevokeAllForAccount(r)
  <2> DEFINE state == [req[r] EXCEPT
            !.pc = IF @ = "passwordSet" THEN "passwordRevoking" ELSE "userRevoking",
            !.rows = SessionsOf(r)]
  <2>1. Same(state) /\ state.pc = "userRevoking" /\ state.locks = req[r].locks
    BY <1>0, <1>5 DEF RequestState, At
  <2>2. Move(r, state) /\ UNCHANGED acct
    BY <1>5 DEF RevokeAllForAccount
  <2> HIDE DEF state
  <2> QED BY <1>5, <2>1, <2>2, MoveIs DEF Changing, At
<1> QED BY <1>1, <1>2, <1>3, <1>4, <1>5 DEF GoesOn

LEMMA ChangingSteps ==
    ASSUME TypeOK, [Next]_vars, NEW r \in Request, Changing(r)'
    PROVE  \/ req'[r] = req[r]
           \/ \E a \in Account, body \in Patch : UserLoad(r, a, body)
           \/ GoesOn(r)
<1> DEFINE Good == \/ req'[r] = req[r]
                   \/ \E a \in Account, body \in Patch : UserLoad(r, a, body)
                   \/ GoesOn(r)
<1>1. ASSUME NEW s \in Request, NEW state, Move(s, state), state.pc \notin
             {"userLoaded", "userCounting", "userReady", "userUpdated", "userRevoking"}
      PROVE  req'[r] = req[r]
  BY <1>1, MoveIs DEF Changing
<1>2. ASSUME NEW s \in Request, NEW state, Move(s, state), s # r PROVE req'[r] = req[r]
  BY <1>2, MoveIs
<1>3. ASSUME NEW s \in Request, Finish(s) PROVE Good
  BY <1>1, <1>3 DEF Finish, Idle
<1>4. ASSUME NEW s \in Request, NEW a \in Account, NEW must \in BOOLEAN,
             NEW told \in BOOLEAN, UpdatePassword(s, a, must, told)
      PROVE  Good
  <2> DEFINE state == [Idle EXCEPT !.pc = "passwordSet", !.actor = req[s].actor,
                                   !.target = a, !.must = must, !.told = told]
  <2>1. Move(s, state) /\ state.pc = "passwordSet"
    BY <1>4 DEF UpdatePassword, Idle
  <2> HIDE DEF state
  <2> QED BY <1>1, <2>1
<1>5. ASSUME NEW s \in Request, Start(s) PROVE Good
  <2>1. ASSUME NEW a \in Account, NEW t \in Token, SignInRead(s, a, t) PROVE Good
    BY <2>1, SignInReadIs DEF Changing
  <2>2. ASSUME NEW t \in Token, NEW own \in BOOLEAN, Admit(s, t, own) PROVE Good
    <3> DEFINE state == [Idle EXCEPT !.pc = "admitted", !.own = own, !.token = t,
                                     !.actor = sess[t].of]
    <3>1. Move(s, state) /\ state.pc = "admitted"
      BY <2>2 DEF Admit, Idle
    <3> HIDE DEF state
    <3> QED BY <1>1, <3>1
  <2> HIDE DEF Good
  <2> QED BY <1>4, <1>5, <2>1, <2>2 DEF Start, RecoverPassword
<1>6. ASSUME NEW s \in Request, Enter(s) \/ SignOut(s) PROVE Good
  <2>1. CASE Enter(s)
    <3> DEFINE state == [req[s] EXCEPT !.pc = "in",
                                       !.token = IF req[s].own THEN @ ELSE NoToken]
    <3>1. Move(s, state) /\ state.pc = "in"
      BY <2>1, RequestType DEF Enter, RequestState
    <3> HIDE DEF state
    <3> QED BY <1>1, <3>1
  <2>2. CASE SignOut(s)
    <3> DEFINE state == [req[s] EXCEPT !.pc = "out"]
    <3>1. Move(s, state) /\ state.pc = "out"
      BY <2>2, RequestType DEF SignOut, RequestState
    <3> HIDE DEF state
    <3> QED BY <1>1, <3>1
  <2> QED BY <1>6, <2>1, <2>2
<1>7. ASSUME NEW s \in Request, NEW a \in Account, NEW body \in Patch, UserLoad(s, a, body)
      PROVE  Good
  BY <1>2, <1>7 DEF UserLoad
<1>8. ASSUME NEW s \in Request,
             \/ LockAdmins(s) \/ EnsureNotLastAdmin(s) \/ SkipCheck(s) \/ UpdateAccount(s)
             \/ \E a \in Account : LockRow(s, a)
      PROVE  Good
  BY <1>2, <1>8
  DEF LockAdmins, EnsureNotLastAdmin, SkipCheck, UpdateAccount, LockRow, GoesOn
<1>9. ASSUME NEW s \in Request, RevokeAllForAccount(s) PROVE Good
  <2>1. CASE s # r
    BY <1>9, <2>1, RevokeIs
  <2>2. CASE At(s, "passwordSet") /\ s = r
    <3> DEFINE state == [req[s] EXCEPT
            !.pc = IF @ = "passwordSet" THEN "passwordRevoking" ELSE "userRevoking",
            !.rows = SessionsOf(s)]
    <3>1. Move(s, state) /\ state.pc = "passwordRevoking"
      BY <1>9, <2>2, RequestType DEF RevokeAllForAccount, RequestState, At
    <3> HIDE DEF state
    <3> QED BY <1>1, <3>1
  <2>3. CASE At(s, "userUpdated") /\ s = r
    BY <1>9, <2>3 DEF GoesOn
  <2> QED BY <1>9, <2>1, <2>2, <2>3 DEF RevokeAllForAccount
<1>10. CASE UNCHANGED req
  BY <1>10
<1> HIDE DEF Good
<1>11. ASSUME NEW s \in Request, Handle(s) PROVE Good
  <2>1. CASE ChangePassword(s) \/ \E a \in Account : ResetPassword(s, a)
    BY <1>4, <2>1, RequestType DEF ChangePassword, ResetPassword
  <2>2. CASE Refuse(s) \/ \E a \in Account, role \in Role : CreateUser(s, a, role)
    BY <1>3, <2>2 DEF Refuse, CreateUser
  <2> QED BY <1>6, <1>7, <1>8, <1>11, <2>1, <2>2 DEF Handle
<1>12. ASSUME NEW s \in Request, Wait(s) PROVE Good
  <2>1. CASE SignInCommit(s) \/ CommitSignOut(s) \/ CommitPassword(s) \/ CommitUser(s)
    BY <1>3, <2>1 DEF SignInCommit, CommitSignOut, CommitPassword, CommitUser
  <2> QED BY <1>6, <1>8, <1>9, <1>12, <2>1 DEF Wait
<1>13. ASSUME NEW s \in Request, Fail(s) \/ AbortDeadlock(s) PROVE Good
  BY <1>3, <1>13 DEF Fail, AbortDeadlock, Rollback
<1> QED
  BY <1>5, <1>10, <1>11, <1>12, <1>13 DEF Next, Expire, vars, Good

LEMMA TargetKnownStep ==
    ASSUME IInv, OneChange, ChangeInv, [Next]_vars, NEW r \in Request, Changing(r)'
    PROVE  TargetKnown(r)'
<1>0. TypeOK /\ Bare /\ LocksHold
  BY DEF IInv
<1>1. ASSUME NEW a \in Account, NEW body \in Patch, UserLoad(r, a, body)
      PROVE  TargetKnown(r)'
  <2> DEFINE state == [Idle EXCEPT
        !.pc = "userLoaded", !.actor = req[r].actor, !.target = a, !.body = body,
        !.check = MustCheck(a, body),
        !.told = PostRole(a, body) # acct[a].role \/ PostActive(a, body) # acct[a].active,
        !.was = acct[a].active]
  <2>1. /\ Move(r, state) /\ state.pc = "userLoaded" /\ state.target = a
        /\ state.body = body /\ state.check = MustCheck(a, body)
        /\ UNCHANGED acct /\ acct[a].known
    BY <1>1 DEF UserLoad, Idle
  <2> HIDE DEF state
  <2>2. /\ req'[r].pc = "userLoaded" /\ req'[r].target = a /\ req'[r].body = body
        /\ req'[r].check = MustCheck(a, body)
    BY <1>0, <2>1, MoveIs
  <2> QED BY <2>1, <2>2 DEF TargetKnown, MustCheck, PostRole, PostActive, IsAdmin, At
<1>2. CASE req'[r] = req[r]
  <2>1. Changing(r) /\ TargetKnown(r)
    BY <1>2 DEF Changing, ChangeInv
  <2>2. \A q \in Request : ~CommitUser(q)
    <3>1. SUFFICES ASSUME NEW q \in Request, CommitUser(q) PROVE FALSE
      OBVIOUS
    <3>2. q = r
      BY <2>1, <3>1 DEF OneChange, Changing, CommitUser, UserWritten, At
    <3>3. req'[q].pc = "idle"
      BY <1>0, <3>1, MoveIs DEF CommitUser, Finish, Idle
    <3> QED BY <1>2, <2>1, <3>2, <3>3 DEF Changing
  <2> DEFINE a == req[r].target
  <2>3. a \in Account /\ acct[a].known
    BY <1>0, <2>1, RequestType DEF TargetKnown
  <2>4. acct'[a].known /\ acct'[a].role = acct[a].role /\ acct'[a].active = acct[a].active
    BY <1>0, <2>2, <2>3, AccountsKept
  <2> QED BY <1>2, <2>1, <2>3, <2>4
          DEF TargetKnown, MustCheck, PostRole, PostActive, IsAdmin, At
<1>3. CASE GoesOn(r)
  <2>1. /\ UNCHANGED acct /\ TargetKnown(r)
        /\ req'[r].target = req[r].target /\ req'[r].body = req[r].body
        /\ req'[r].check = req[r].check
    BY <1>0, <1>3, GoesOnIs DEF ChangeInv
  <2> DEFINE a == req[r].target
  <2>2. /\ acct'[a].known
        /\ req'[r].check <=> MustCheck(a, req[r].body)'
        /\ IsAdmin(a)' <=> IsAdmin(a)
    BY <2>1 DEF TargetKnown, MustCheck, PostRole, PostActive, IsAdmin
  <2>3. a \in Account
    BY <1>0, RequestType
  <2>4. /\ req'[r].pc = "userCounting" => (IsAdmin(a) => a \in req'[r].seen \cup req'[r].locks)
        /\ req'[r].pc \in {"userReady", "userUpdated", "userRevoking"} /\ req[r].check
           /\ IsAdmin(a) => a \in req'[r].locks
    <3>1. CASE req'[r].pc = "userCounting" /\ req'[r].seen = ActiveAdmins
      BY <2>3, <3>1 DEF ActiveAdmins
    <3>2. ASSUME NEW b \in Account, LockRow(r, b), req'[r].pc = "userCounting",
                 req'[r].seen = req[r].seen \ {b}, req'[r].locks = req[r].locks \cup {b}
          PROVE  IsAdmin(a) => a \in req'[r].seen \cup req'[r].locks
      BY <2>1, <3>2 DEF TargetKnown, LockRow
    <3>3. CASE /\ EnsureNotLastAdmin(r) \/ SkipCheck(r)
               /\ req'[r].pc = "userReady" /\ req'[r].locks = req[r].locks
      BY <2>1, <3>3 DEF TargetKnown, EnsureNotLastAdmin, SkipCheck
    <3>4. CASE /\ req[r].pc \in {"userReady", "userUpdated"}
               /\ req'[r].pc \in {"userUpdated", "userRevoking"}
               /\ req'[r].locks = req[r].locks
      BY <2>1, <3>4 DEF TargetKnown
    <3> HIDE DEF a
    <3> QED BY <1>0, <1>3, <3>1, <3>2, <3>3, <3>4, GoesOnIs
  <2> QED BY <2>1, <2>2, <2>4 DEF TargetKnown, At
<1> QED BY <1>0, <1>1, <1>2, <1>3, ChangingSteps

LEMMA AdminStep ==
    ASSUME IInv, ChangeInv, [Next]_vars
    PROVE  AlwaysAnAdmin'
<1>0. TypeOK /\ Bare /\ LocksHold /\ ActiveAdmins # {}
  BY DEF IInv, ChangeInv, AlwaysAnAdmin
<1>1. CASE \A r \in Request : ~CommitUser(r)
  BY <1>0, <1>1, AdminsStay DEF AlwaysAnAdmin
<1>2. ASSUME NEW r \in Request, CommitUser(r) PROVE AlwaysAnAdmin'
  <2>1. PICK a \in Account, body \in Body : a = req[r].target /\ body = req[r].body
    BY <1>0, RequestType
  <2>2. /\ TargetKnown(r) /\ req[r].pc \in {"userUpdated", "userRevoking"}
        /\ ActiveAdmins \ {a} \subseteq ActiveAdmins'
    BY <1>0, <1>2, <2>1, OnlyTarget DEF ChangeInv, Changing, CommitUser, UserWritten, At
  <2>3. CASE ~req[r].check
    <3>1. acct' = [acct EXCEPT
            ![a].role = IF body.role = "absent" THEN @ ELSE body.role,
            ![a].active = IF body.active = "absent" THEN @ ELSE body.active = "true"]
      BY <1>2, <2>1 DEF CommitUser
    <3>2. acct[a] \in AccountRow
      BY <1>0 DEF TypeOK
    <3>3. /\ acct'[a].known = acct[a].known
          /\ acct'[a].role = PostRole(a, body) /\ acct'[a].active = PostActive(a, body)
      BY <1>0, <3>1, <3>2 DEF TypeOK, AccountRow, PostRole, PostActive
    <3>4. acct[a].known /\ PostActive(a, body) /\ PostRole(a, body) # "manager"
      BY <2>1, <2>2, <2>3 DEF TargetKnown, MustCheck
    <3>5. PostRole(a, body) \in {"admin", "manager"}
      BY <3>2, <2>1 DEF PostRole, AccountRow, Body, Role
    <3>6. a \in ActiveAdmins'
      BY <3>3, <3>4, <3>5 DEF ActiveAdmins, IsAdmin
    <3> QED BY <3>6 DEF AlwaysAnAdmin
  <2>4. CASE req[r].check /\ a \in ActiveAdmins
    <3>1. a \in Counted(r)
      BY <2>1, <2>2, <2>4 DEF TargetKnown, Counted, ActiveAdmins
    <3>2. PICK b \in Counted(r) : b # a
      BY <1>0, <2>1, <2>2, <3>1 DEF LocksHold, CountHolds, At
    <3> QED BY <2>2, <3>2 DEF Counted, AlwaysAnAdmin
  <2>5. CASE a \notin ActiveAdmins
    BY <1>0, <2>2, <2>5 DEF AlwaysAnAdmin
  <2> QED BY <2>3, <2>4, <2>5
<1> QED BY <1>1, <1>2

(* As long as changes of accounts do not overlap there is an active        *)
(* administrator, whatever else runs beside them.                          *)
THEOREM OneChangeKeepsAnAdmin == Spec /\ []OneChange => []AlwaysAnAdmin
<1>1. Init => ChangeInv
  <2> SUFFICES ASSUME Init PROVE ChangeInv
    OBVIOUS
  <2>1. IsAdmin(Seed)
    <3> DEFINE Row(a) == [known |-> a = Seed, role |-> "admin", active |-> TRUE,
                          mustChange |-> TRUE]
    <3>1. acct[Seed] = Row(Seed)
      BY SeedAssumption DEF Init
    <3> DEFINE row == Row(Seed)
    <3>2. row.known /\ row.active /\ row.role = "admin"
      OBVIOUS
    <3>3. acct[Seed] = row
      BY <3>1
    <3> HIDE DEF row
    <3> QED BY <3>2, <3>3 DEF IsAdmin
  <2>2. \A r \in Request : ~Changing(r)
    BY DEF Init, Idle, Changing
  <2> QED BY <2>1, <2>2, SeedAssumption DEF ChangeInv, AlwaysAnAdmin, ActiveAdmins
<1>2. IInv /\ OneChange /\ ChangeInv /\ [Next]_vars => ChangeInv'
  BY TargetKnownStep, AdminStep DEF ChangeInv
<1>3. ChangeInv => AlwaysAnAdmin
  BY DEF ChangeInv
<1> QED BY Invariance, <1>1, <1>2, <1>3, PTL DEF Spec
=============================================================================
