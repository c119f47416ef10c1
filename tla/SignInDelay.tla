---------------------------- MODULE SignInDelay ----------------------------
(***************************************************************************)
(* The progressive delay of sign-in: one login_failure row per submitted   *)
(* username, consulted and written by concurrent attempts, each of which   *)
(* is one transaction at READ COMMITTED.                                   *)
(*                                                                         *)
(* Consult reads the row without a lock.  Deleting a row locks it until    *)
(* the transaction ends and shows to others only then.  RecordFailure      *)
(* first sweeps the expired rows of every username, so that two attempts   *)
(* can wait for each other; PostgreSQL then aborts one of them.            *)
(*                                                                         *)
(* Time is kept as ages.  The database and the server share one clock, and *)
(* a request ends within Span.                                             *)
(***************************************************************************)
EXTENDS Integers

CONSTANTS
    Name,           \* canonical submitted usernames, of accounts or not
    Attempt,        \* handlers of POST /auth/sign-in that may run at once
    Free,           \* no attempt: the row is not locked
    MaxWait,        \* the longest wait, 60 s in the code
    Expire,         \* failureExpire, 15 min in the code
    Span,           \* bound on the time one attempt takes
    MaxCount        \* failures beyond this one are not told apart

ASSUME TimesAssumption ==
    /\ MaxWait \in Nat /\ Expire \in Nat /\ Span \in Nat
    /\ MaxCount \in Nat \ {0}
ASSUME FreeAssumption == Free \notin Attempt

VARIABLES
    count,          \* consecutive_failures of the committed row, 0 without one
    age,            \* time since its last_failure_at
    lock,           \* the attempt whose transaction locks the row
    at              \* the attempts

vars == <<count, age, lock, at>>

-----------------------------------------------------------------------------
(* began is the time since the transaction began, which is its now();      *)
(* expired says that Consult read an expired row, gone is the rows the     *)
(* transaction has deleted and not yet committed.                          *)
PC == {"idle", "consult", "drop", "verify", "record"}
AttemptState == [pc: PC, name: Name, began: 0..Span, expired: BOOLEAN, gone: SUBSET Name]

(* An age beyond this one is kept as this one: it is expired for everyone. *)
MaxAge == Expire + Span + 1

Init ==
    /\ count = [u \in Name |-> 0]
    /\ age = [u \in Name |-> 0]
    /\ lock = [u \in Name |-> Free]
    /\ at \in [Attempt -> {s \in AttemptState :
                             s.pc = "idle" /\ s.began = 0 /\ ~s.expired /\ s.gone = {}}]

-----------------------------------------------------------------------------
(* The schedule: min(cap, 2^(n-1)), the shift bounded by the code.         *)
RequiredWait(n, cap) ==
    LET shift == IF n - 1 > 30 THEN 30 ELSE n - 1
        w == 2 ^ shift
    IN  IF n <= 0 THEN 0 ELSE IF w > cap THEN cap ELSE w

RemainingWait(u) ==
    LET remaining == RequiredWait(count[u], MaxWait) - age[u]
    IN  IF remaining <= 0 THEN 0 ELSE remaining

HasRow(u) == count[u] > 0
Expired(u) == HasRow(u) /\ age[u] > Expire

(* One more failure.                                                       *)
Bump(n) == IF n < MaxCount THEN n + 1 ELSE n

-----------------------------------------------------------------------------
(* Mutant: a path that returns and leaves the transaction open.            *)
DoneLeaking(a) ==
    /\ at' = [at EXCEPT ![a] = [pc |-> "idle", name |-> @.name, began |-> 0,
                                expired |-> FALSE, gone |-> {}]]
    /\ UNCHANGED lock

(* The end of a transaction: its locks are released.                       *)
Done(a) ==
    /\ lock' = [u \in Name |-> IF lock[u] = a THEN Free ELSE lock[u]]
    /\ at' = [at EXCEPT ![a] = [pc |-> "idle", name |-> @.name, began |-> 0,
                                expired |-> FALSE, gone |-> {}]]

Commit(a) ==
    /\ Done(a)
    /\ count' = [u \in Name |-> IF u \in at[a].gone THEN 0 ELSE count[u]]
    /\ UNCHANGED age

(* An error, or the client that goes away: everything is rolled back.      *)
Rollback(a) == Done(a) /\ UNCHANGED <<count, age>>

GoTo(a, pc) == at' = [at EXCEPT ![a].pc = pc]

Begin(a, u) ==
    /\ at[a].pc = "idle"
    /\ at' = [at EXCEPT ![a] = [pc |-> "consult", name |-> u, began |-> 0,
                                expired |-> FALSE, gone |-> {}]]
    /\ UNCHANGED <<count, age, lock>>

(* Mutant: an attempt that came too soon counts as a failure.              *)
TooSoonCounted(a) ==
    LET u == at[a].name IN
    /\ at[a].pc = "consult"
    /\ ~Expired(u)
    /\ RemainingWait(u) > 0
    /\ Done(a)
    /\ count' = [count EXCEPT ![u] = Bump(@)]
    /\ age' = [age EXCEPT ![u] = at[a].began]

(* 429: the wait is not over.  Nothing is recorded.                        *)
TooSoon(a) ==
    /\ at[a].pc = "consult"
    /\ ~Expired(at[a].name)
    /\ RemainingWait(at[a].name) > 0
    /\ Commit(a)

Admit(a) ==
    /\ at[a].pc = "consult"
    /\ ~Expired(at[a].name)
    /\ RemainingWait(at[a].name) = 0
    /\ GoTo(a, "verify")
    /\ UNCHANGED <<count, age, lock>>

FindExpired(a) ==
    /\ at[a].pc = "consult"
    /\ Expired(at[a].name)
    /\ at' = [at EXCEPT ![a].pc = "drop", ![a].expired = TRUE]
    /\ UNCHANGED <<count, age, lock>>

(* The DELETE of Consult.  It names the username alone, and the row may    *)
(* have changed since it was read.                                         *)
DropExpired(a) ==
    LET u == at[a].name IN
    /\ at[a].pc = "drop"
    /\ lock[u] = Free
    /\ IF HasRow(u)
       THEN /\ lock' = [lock EXCEPT ![u] = a]
            /\ at' = [at EXCEPT ![a].pc = "verify", ![a].gone = {u}]
       ELSE GoTo(a, "verify") /\ UNCHANGED lock
    /\ UNCHANGED <<count, age>>

(* Unknown username or wrong password: the failure will be recorded.       *)
Refuse(a) ==
    /\ at[a].pc = "verify"
    /\ GoTo(a, "record")
    /\ UNCHANGED <<count, age, lock>>

(* The right password of a deactivated account: refused, not recorded.     *)
RefuseInactive(a) ==
    /\ at[a].pc = "verify"
    /\ Commit(a)

(* Success: the session is issued and Reset deletes the row.               *)
SignIn(a) ==
    LET u == at[a].name IN
    /\ at[a].pc = "verify"
    /\ lock[u] \in {Free, a}
    /\ Done(a)
    /\ count' = [v \in Name |-> IF v = u \/ v \in at[a].gone THEN 0 ELSE count[v]]
    /\ UNCHANGED age

-----------------------------------------------------------------------------
(* RecordFailure.                                                          *)

(* Mutant: the sweep deletes whatever has the age of a longest wait.       *)
SweptEarly(a) ==
    {u \in Name : HasRow(u) /\ age[u] - at[a].began >= MaxWait} \ at[a].gone

(* What the sweep still has to delete: rows that had expired at now(),     *)
(* which is when the transaction began.                                    *)
Swept(a) ==
    {u \in Name : HasRow(u) /\ age[u] - at[a].began > Expire} \ at[a].gone

SweepRow(a, u) ==
    /\ at[a].pc = "record"
    /\ u \in Swept(a)
    /\ lock[u] = Free
    /\ lock' = [lock EXCEPT ![u] = a]
    /\ at' = [at EXCEPT ![a].gone = @ \cup {u}]
    /\ UNCHANGED <<count, age>>

(* Mutant: the row an attempt found missing is written with one failure,   *)
(* over a row that another attempt has inserted meanwhile.                 *)
RecordFailureOnce(a) ==
    LET u == at[a].name IN
    /\ at[a].pc = "record"
    /\ Swept(a) = {}
    /\ lock[u] \in {Free, a}
    /\ Done(a)
    /\ count' = [v \in Name |->
                    CASE v = u -> 1
                      [] v # u /\ v \in at[a].gone -> 0
                      [] OTHER -> count[v]]
    /\ age' = [age EXCEPT ![u] = at[a].began]

(* The upsert, the audit record and the commit.                            *)
RecordFailure(a) ==
    LET u == at[a].name IN
    /\ at[a].pc = "record"
    /\ Swept(a) = {}
    /\ lock[u] \in {Free, a}
    /\ Done(a)
    /\ count' = [v \in Name |->
                    CASE v = u -> Bump(IF u \in at[a].gone THEN 0 ELSE count[u])
                      [] v # u /\ v \in at[a].gone -> 0
                      [] OTHER -> count[v]]
    /\ age' = [age EXCEPT ![u] = at[a].began]

(* The attempts that keep a from going on.                                 *)
WaitsFor(a) ==
    LET wanted == CASE at[a].pc = "record" /\ Swept(a) # {} -> Swept(a)
                    [] at[a].pc = "consult" \/ at[a].pc = "idle" -> {}
                    [] OTHER -> {at[a].name}
    IN  IF \E u \in wanted : lock[u] \in {Free, a}
        THEN {}
        ELSE {lock[u] : u \in wanted}

(* PostgreSQL finds a circle of waiting transactions.  The sweep's error   *)
(* is ignored, but then the audit record cannot be written either.         *)
Deadlock(a) ==
    \E circle \in SUBSET Attempt :
        a \in circle /\ \A b \in circle : WaitsFor(b) \cap circle # {}

AbortDeadlock(a) == Deadlock(a) /\ Rollback(a)

Fail(a) == at[a].pc # "idle" /\ Rollback(a)

-----------------------------------------------------------------------------
Older(x, limit) == IF x < limit THEN x + 1 ELSE x

Tick ==
    /\ \A a \in Attempt : at[a].pc # "idle" => at[a].began < Span
    /\ age' = [u \in Name |-> IF HasRow(u) THEN Older(age[u], MaxAge) ELSE age[u]]
    /\ at' = [a \in Attempt |->
                IF at[a].pc = "idle" THEN at[a] ELSE [at[a] EXCEPT !.began = @ + 1]]
    /\ UNCHANGED <<count, lock>>

(* What the handler does by itself once the request has come.              *)
Step(a) ==
    \/ TooSoon(a) \/ Admit(a) \/ FindExpired(a) \/ DropExpired(a)
    \/ Refuse(a) \/ RefuseInactive(a) \/ SignIn(a)
    \/ \E u \in Name : SweepRow(a, u)
    \/ RecordFailure(a)
    \/ AbortDeadlock(a)

Next ==
    \/ Tick
    \/ \E a \in Attempt : Step(a) \/ Fail(a) \/ (\E u \in Name : Begin(a, u))

(* Time passes, and a request that has come is worked on; PostgreSQL gives *)
(* a row lock to those that wait for it in turn.                           *)
Fairness == WF_vars(Tick) /\ \A a \in Attempt : SF_vars(Step(a))

Spec == Init /\ [][Next]_vars /\ Fairness

-----------------------------------------------------------------------------
(* Properties that hold.                                                   *)

(* Every variable keeps its type, and a row is locked by the transaction   *)
(* that deleted it and by no other.                                        *)
TypeOK ==
    /\ count \in [Name -> 0..MaxCount]
    /\ age \in [Name -> 0..MaxAge]
    /\ lock \in [Name -> Attempt \cup {Free}]
    /\ at \in [Attempt -> AttemptState]
    /\ \A u \in Name, a \in Attempt : lock[u] = a <=> u \in at[a].gone

Fresh(u) == HasRow(u) /\ age[u] <= Expire

(* A count that has not expired is lowered by a success under its username *)
(* alone, whatever the other attempts delete and whatever they roll back.  *)
(* The one exception is an attempt that had read the expired predecessor   *)
(* of the row and deletes what has replaced it.                            *)
FreshCountKept ==
    [][\A u \in Name :
          Fresh(u) /\ count'[u] < count[u] =>
              \E a \in Attempt :
                  /\ at[a].name = u
                  /\ at[a].expired \/ SignIn(a)]_vars

(* Attempts that were all admitted before one of them had failed are each  *)
(* counted when they fail, none overwrites the failure of another.         *)
FailureCounts ==
    [][\A a \in Attempt :
          LET u == at[a].name IN
          RecordFailure(a) /\ Fresh(u) /\ ~at[a].expired =>
              count'[u] > count[u] \/ count[u] = MaxCount]_vars

(* No username is locked: its wait is over again and again, however many   *)
(* attempts come and however they fail, wait for each other or abort.      *)
NeverLocked == \A u \in Name : []<>(RemainingWait(u) = 0)
=============================================================================
