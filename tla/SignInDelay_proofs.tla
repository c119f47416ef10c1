------------------------ MODULE SignInDelay_proofs -------------------------
(* Proofs about SignInDelay for any usernames, attempts and times.         *)
EXTENDS SignInDelay, TLAPS

(* What a transaction has deleted: rows that had expired for everyone, and *)
(* under its own username what it took for one.  Nobody else changes a row *)
(* that is locked, so an expired one stays so until the transaction ends.  *)
DeletedWasExpired ==
    \A a \in Attempt : \A u \in at[a].gone :
        (u = at[a].name /\ at[a].expired) \/ age[u] > Expire

(* A transaction deletes nothing before Consult has judged its row.        *)
Orderly(s) ==
    /\ s.pc \in {"idle", "consult", "drop"} => s.gone = {}
    /\ s.pc = "drop" => s.expired

IInv == TypeOK /\ DeletedWasExpired /\ \A a \in Attempt : Orderly(at[a])

USE TimesAssumption, FreeAssumption

(* The components of a state that is typed.                                *)
LEMMA Typed ==
    ASSUME TypeOK
    PROVE  /\ \A u \in Name : /\ count[u] \in 0..MaxCount
                              /\ age[u] \in 0..MaxAge
                              /\ lock[u] \in Attempt \cup {Free}
           /\ \A a \in Attempt : /\ at[a] \in AttemptState
                                 /\ at[a].pc \in PC
                                 /\ at[a].name \in Name
                                 /\ at[a].began \in 0..Span
                                 /\ at[a].expired \in BOOLEAN
                                 /\ at[a].gone \in SUBSET Name
BY DEF TypeOK, AttemptState

(* The invariant holds at the beginning.                                   *)
LEMMA InitIInv == Init => IInv
<1> SUFFICES ASSUME Init PROVE IInv
  OBVIOUS
<1>1. /\ count \in [Name -> 0..MaxCount]
      /\ age \in [Name -> 0..MaxAge]
      /\ lock \in [Name -> Attempt \cup {Free}]
  BY DEF Init, MaxAge
<1>2. at \in [Attempt -> AttemptState] /\ \A a \in Attempt : at[a].gone = {}
  BY DEF Init
<1>3. \A u \in Name, a \in Attempt : lock[u] = a <=> u \in at[a].gone
  BY <1>2 DEF Init
<1>4. \A a \in Attempt : Orderly(at[a])
  BY DEF Init, Orderly
<1> QED
  BY <1>1, <1>2, <1>3, <1>4 DEF IInv, TypeOK, DeletedWasExpired

(* The end of a transaction keeps what the others have.                    *)
LEMMA DoneKeeps ==
    ASSUME TypeOK, NEW a \in Attempt, Done(a)
    PROVE  /\ lock' \in [Name -> Attempt \cup {Free}]
           /\ at' \in [Attempt -> AttemptState]
           /\ at'[a].gone = {} /\ at'[a].pc = "idle"
           /\ \A b \in Attempt \ {a} : at'[b] = at[b]
           /\ \A u \in Name, b \in Attempt : lock'[u] = b <=> u \in at'[b].gone
<1> DEFINE ended == [pc |-> "idle", name |-> at[a].name, began |-> 0,
                     expired |-> FALSE, gone |-> {}]
<1>1. lock' \in [Name -> Attempt \cup {Free}]
  BY Typed DEF Done
<1>2. at' = [at EXCEPT ![a] = ended]
  BY DEF Done, TypeOK
<1>3. ended \in AttemptState
  BY Typed DEF AttemptState, PC
<1>4. at' \in [Attempt -> AttemptState]
  BY <1>2, <1>3 DEF TypeOK
<1>5. at'[a] = ended /\ \A b \in Attempt \ {a} : at'[b] = at[b]
  BY <1>2 DEF TypeOK
<1>6. at'[a].gone = {} /\ at'[a].pc = "idle"
  BY <1>5
<1>7. ASSUME NEW u \in Name, NEW b \in Attempt
      PROVE  lock'[u] = b <=> u \in at'[b].gone
  <2>1. lock'[u] = IF lock[u] = a THEN Free ELSE lock[u]
    BY DEF Done
  <2>2. lock[u] = b <=> u \in at[b].gone
    BY DEF TypeOK
  <2>3. CASE b = a
    BY <2>1, <2>3, <1>6, Typed
  <2>4. CASE b # a
    <3>1. at'[b].gone = at[b].gone
      BY <2>4, <1>5
    <3>2. lock'[u] = b <=> lock[u] = b
      BY <2>1, <2>4, Typed
    <3> QED
      BY <3>1, <3>2, <2>2
  <2> QED
    BY <2>3, <2>4
<1> HIDE DEF ended
<1> QED
  BY <1>1, <1>4, <1>5, <1>6, <1>7

(* An end that leaves the rows locked by the others untouched keeps the    *)
(* invariant.                                                              *)
LEMMA EndKeeps ==
    ASSUME IInv, NEW a \in Attempt, Done(a),
           count' \in [Name -> 0..MaxCount], age' \in [Name -> 0..MaxAge],
           \A u \in Name : lock[u] \notin {Free, a} => age'[u] = age[u]
    PROVE  IInv'
<1>1. TypeOK'
  BY DoneKeeps DEF IInv, TypeOK
<1>2. ASSUME NEW b \in Attempt, NEW u \in at'[b].gone
      PROVE  (u = at'[b].name /\ at'[b].expired) \/ age'[u] > Expire
  <2>1. b # a
    BY <1>2, DoneKeeps DEF IInv
  <2>2. at'[b] = at[b]
    BY <2>1, DoneKeeps DEF IInv
  <2>3. u \in at[b].gone /\ u \in Name
    BY <1>2, <2>2, Typed DEF IInv
  <2>4. lock[u] = b
    BY <2>3 DEF IInv, TypeOK
  <2>5. age'[u] = age[u]
    BY <2>1, <2>3, <2>4
  <2> QED
    BY <2>2, <2>3, <2>5 DEF IInv, DeletedWasExpired
<1>3. \A b \in Attempt : Orderly(at'[b])
  BY DoneKeeps DEF IInv, Orderly
<1> QED
  BY <1>1, <1>2, <1>3 DEF IInv, DeletedWasExpired

(* A step to another pc that deletes nothing keeps the invariant.          *)
LEMMA MoveKeeps ==
    ASSUME IInv, NEW a \in Attempt, NEW s \in AttemptState,
           at' = [at EXCEPT ![a] = s], s.gone = at[a].gone, s.name = at[a].name \/ s.gone = {},
           at[a].expired => s.expired \/ s.gone = {}, Orderly(s),
           UNCHANGED <<count, age, lock>>
    PROVE  IInv'
<1>1. /\ at' \in [Attempt -> AttemptState]
      /\ at'[a] = s
      /\ \A b \in Attempt \ {a} : at'[b] = at[b]
  BY DEF IInv, TypeOK
<1>2. \A b \in Attempt : at'[b].gone = at[b].gone
  BY <1>1
<1>3. TypeOK'
  BY <1>1, <1>2 DEF IInv, TypeOK
<1>4. DeletedWasExpired'
  <2> SUFFICES ASSUME NEW b \in Attempt, NEW u \in at'[b].gone
               PROVE  (u = at'[b].name /\ at'[b].expired) \/ age'[u] > Expire
    BY DEF DeletedWasExpired
  <2>1. u \in at[b].gone
    BY <1>2
  <2>2. (u = at[b].name /\ at[b].expired) \/ age[u] > Expire
    BY <2>1 DEF IInv, DeletedWasExpired
  <2>3. CASE b = a
    BY <2>1, <2>2, <2>3, <1>1
  <2>4. CASE b # a
    BY <2>2, <2>4, <1>1
  <2> QED
    BY <2>3, <2>4
<1>5. \A b \in Attempt : Orderly(at'[b])
  BY <1>1 DEF IInv
<1> QED
  BY <1>3, <1>4, <1>5 DEF IInv

(* A row that is deleted was unlocked, and was an expired one or the       *)
(* attempt's own.                                                          *)
LEMMA DeleteKeeps ==
    ASSUME IInv, NEW a \in Attempt, NEW v \in Name, NEW s \in AttemptState,
           lock[v] = Free, lock' = [lock EXCEPT ![v] = a],
           at' = [at EXCEPT ![a] = s], s.gone = at[a].gone \cup {v},
           s.name = at[a].name, s.expired = at[a].expired, Orderly(s),
           (v = at[a].name /\ at[a].expired) \/ age[v] > Expire,
           UNCHANGED <<count, age>>
    PROVE  IInv'
<1>1. /\ at' \in [Attempt -> AttemptState]
      /\ at'[a] = s
      /\ \A b \in Attempt \ {a} : at'[b] = at[b]
      /\ lock' \in [Name -> Attempt \cup {Free}]
      /\ lock'[v] = a
      /\ \A u \in Name \ {v} : lock'[u] = lock[u]
  BY DEF IInv, TypeOK
<1>2. ASSUME NEW u \in Name, NEW b \in Attempt
      PROVE  lock'[u] = b <=> u \in at'[b].gone
  <2>1. lock[u] = b <=> u \in at[b].gone
    BY DEF IInv, TypeOK
  <2>2. CASE b = a
    <3>1. at'[b].gone = at[b].gone \cup {v}
      BY <2>2, <1>1
    <3> QED
      BY <3>1, <2>1, <2>2, <1>1
  <2>3. CASE b # a
    <3>1. at'[b].gone = at[b].gone
      BY <2>3, <1>1
    <3> QED
      BY <3>1, <2>1, <2>3, <1>1
  <2> QED
    BY <2>2, <2>3
<1>3. TypeOK'
  BY <1>1, <1>2 DEF IInv, TypeOK
<1>4. DeletedWasExpired'
  <2> SUFFICES ASSUME NEW b \in Attempt, NEW u \in at'[b].gone
               PROVE  (u = at'[b].name /\ at'[b].expired) \/ age'[u] > Expire
    BY DEF DeletedWasExpired
  <2>1. CASE b = a
    <3>1. u = v \/ u \in at[a].gone
      BY <2>1, <1>1
    <3>2. CASE u = v
      BY <2>1, <3>2, <1>1
    <3>3. CASE u \in at[a].gone
      <4>1. (u = at[a].name /\ at[a].expired) \/ age[u] > Expire
        BY <3>3 DEF IInv, DeletedWasExpired
      <4> QED
        BY <4>1, <2>1, <1>1
    <3> QED
      BY <3>1, <3>2, <3>3
  <2>2. CASE b # a
    <3>1. u \in at[b].gone
      BY <2>2, <1>1
    <3> QED
      BY <3>1, <2>2, <1>1 DEF IInv, DeletedWasExpired
  <2> QED
    BY <2>1, <2>2
<1>5. \A b \in Attempt : Orderly(at'[b])
  BY <1>1 DEF IInv
<1> QED
  BY <1>3, <1>4, <1>5 DEF IInv

(* What a recorded failure makes of the counts and ages.                   *)
LEMMA RecordedCounts ==
    ASSUME TypeOK, NEW a \in Attempt, RecordFailure(a)
    PROVE  /\ count' \in [Name -> 0..MaxCount]
           /\ age' \in [Name -> 0..MaxAge]
           /\ \A u \in Name : lock[u] \notin {Free, a} => age'[u] = age[u]
<1>1. \A n \in 0..MaxCount : Bump(n) \in 0..MaxCount
  BY DEF Bump
<1>2. ASSUME NEW v \in Name
      PROVE  (CASE v = at[a].name -> Bump(IF at[a].name \in at[a].gone THEN 0
                                          ELSE count[at[a].name])
                [] v # at[a].name /\ v \in at[a].gone -> 0
                [] OTHER -> count[v]) \in 0..MaxCount
  <2>1. (IF at[a].name \in at[a].gone THEN 0 ELSE count[at[a].name]) \in 0..MaxCount
    BY Typed
  <2>2. Bump(IF at[a].name \in at[a].gone THEN 0 ELSE count[at[a].name]) \in 0..MaxCount
    BY <2>1, <1>1
  <2>3. count[v] \in 0..MaxCount /\ 0 \in 0..MaxCount
    BY Typed
  <2>4. CASE v = at[a].name
    BY <2>4, <2>2
  <2>5. CASE v # at[a].name /\ v \in at[a].gone
    BY <2>5, <2>3
  <2>6. CASE v # at[a].name /\ v \notin at[a].gone
    BY <2>6, <2>3
  <2> QED
    BY <2>4, <2>5, <2>6
<1>3. count' \in [Name -> 0..MaxCount]
  BY <1>2 DEF RecordFailure
<1>4. at[a].began \in 0..MaxAge
  BY Typed DEF MaxAge
<1>5. age' = [age EXCEPT ![at[a].name] = at[a].began]
  BY DEF RecordFailure
<1>6. age' \in [Name -> 0..MaxAge]
  BY <1>4, <1>5 DEF TypeOK
<1>7. ASSUME NEW u \in Name, lock[u] \notin {Free, a}
      PROVE  age'[u] = age[u]
  <2>1. u # at[a].name
    BY <1>7 DEF RecordFailure
  <2> QED
    BY <2>1, <1>5 DEF TypeOK
<1> QED
  BY <1>3, <1>6, <1>7

(* Time keeps the invariant: an expired row stays expired.                 *)
LEMMA TickKeeps == IInv /\ Tick => IInv'
<1> SUFFICES ASSUME IInv, Tick PROVE IInv'
  OBVIOUS
<1>1. \A u \in Name : age[u] \in 0..MaxAge
  BY Typed DEF IInv
<1>2. \A x \in 0..MaxAge : Older(x, MaxAge) \in 0..MaxAge /\ Older(x, MaxAge) >= x
  BY DEF Older, MaxAge
<1>3. age' \in [Name -> 0..MaxAge] /\ \A u \in Name : age'[u] >= age[u]
  BY <1>1, <1>2 DEF Tick, MaxAge
<1>4. ASSUME NEW a \in Attempt
      PROVE  /\ at'[a] \in AttemptState
             /\ at'[a].gone = at[a].gone
             /\ at'[a].name = at[a].name
             /\ at'[a].expired = at[a].expired
             /\ at'[a].pc = at[a].pc
  <2>1. at[a] \in AttemptState
    BY Typed DEF IInv
  <2>2. CASE at[a].pc = "idle"
    <3>1. at'[a] = at[a]
      BY <2>2 DEF Tick
    <3> QED
      BY <2>1, <3>1
  <2>3. CASE at[a].pc # "idle"
    <3>1. at'[a] = [at[a] EXCEPT !.began = at[a].began + 1]
      BY <2>3 DEF Tick
    <3>2. at[a].began \in 0..Span /\ at[a].began < Span
      BY <2>1, <2>3 DEF Tick, AttemptState
    <3>3. at[a].began + 1 \in 0..Span
      BY <3>2
    <3> QED
      BY <2>1, <3>1, <3>3 DEF AttemptState
  <2> QED
    BY <2>2, <2>3
<1>5. at' \in [Attempt -> AttemptState]
  BY <1>4 DEF Tick
<1>6. TypeOK'
  BY <1>3, <1>4, <1>5 DEF IInv, TypeOK, Tick
<1>7. ASSUME NEW a \in Attempt, NEW u \in at'[a].gone
      PROVE  (u = at'[a].name /\ at'[a].expired) \/ age'[u] > Expire
  <2>1. u \in at[a].gone /\ u \in Name
    BY <1>4, Typed DEF IInv
  <2>2. (u = at[a].name /\ at[a].expired) \/ age[u] > Expire
    BY <2>1 DEF IInv, DeletedWasExpired
  <2>3. age[u] \in Nat /\ age'[u] \in Nat /\ age'[u] >= age[u]
    BY <1>1, <1>3, <2>1 DEF MaxAge
  <2> QED
    BY <1>4, <2>2, <2>3
<1>8. \A b \in Attempt : Orderly(at'[b])
  BY <1>4 DEF IInv, Orderly
<1> QED
  BY <1>6, <1>7, <1>8 DEF IInv, DeletedWasExpired

(* The end of a transaction that changes no age.                           *)
LEMMA EndsKeep ==
    ASSUME IInv, NEW a \in Attempt, Commit(a) \/ Rollback(a) \/ SignIn(a)
    PROVE  IInv'
<1>1. Done(a) /\ age' = age
  BY DEF Commit, Rollback, SignIn
<1>2. 0 \in 0..MaxCount /\ \A u \in Name : count[u] \in 0..MaxCount
  BY Typed DEF IInv
<1>3. count' \in [Name -> 0..MaxCount]
  <2>1. CASE Commit(a)
    BY <2>1, <1>2 DEF Commit
  <2>2. CASE Rollback(a)
    BY <2>2 DEF Rollback, IInv, TypeOK
  <2>3. CASE SignIn(a)
    BY <2>3, <1>2 DEF SignIn
  <2> QED
    BY <2>1, <2>2, <2>3
<1>4. age' \in [Name -> 0..MaxAge]
  BY <1>1 DEF IInv, TypeOK
<1> QED
  BY <1>1, <1>3, <1>4, EndKeeps

(* Every step keeps the invariant.                                         *)
LEMMA NextIInv == IInv /\ [Next]_vars => IInv'
<1> SUFFICES ASSUME IInv, [Next]_vars PROVE IInv'
  OBVIOUS
<1>1. CASE UNCHANGED vars
  BY <1>1 DEF vars, IInv, TypeOK, DeletedWasExpired
<1>2. CASE Tick
  BY <1>2, TickKeeps
<1>3. ASSUME NEW a \in Attempt, NEW u \in Name, Begin(a, u)
      PROVE  IInv'
  <2> DEFINE s == [pc |-> "consult", name |-> u, began |-> 0, expired |-> FALSE, gone |-> {}]
  <2>1. s \in AttemptState
    BY DEF AttemptState, PC
  <2>2. at' = [at EXCEPT ![a] = s] /\ UNCHANGED <<count, age, lock>>
    BY <1>3 DEF Begin
  <2>3. at[a].pc = "idle"
    BY <1>3 DEF Begin
  <2>4. at[a].gone = {}
    BY <2>3 DEF IInv, Orderly
  <2>5. s.gone = at[a].gone /\ s.gone = {} /\ Orderly(s)
    BY <2>4 DEF Orderly
  <2> HIDE DEF s
  <2> QED
    BY <2>1, <2>2, <2>5, MoveKeeps
<1>4. ASSUME NEW a \in Attempt, Step(a) \/ Fail(a)
      PROVE  IInv'
  <2>0. /\ at[a] \in AttemptState /\ at[a].name \in Name
        /\ at \in [Attempt -> AttemptState]
    BY Typed DEF IInv, TypeOK
  <2>1. CASE TooSoon(a) \/ RefuseInactive(a) \/ SignIn(a) \/ AbortDeadlock(a) \/ Fail(a)
    BY <2>1, EndsKeep DEF TooSoon, RefuseInactive, AbortDeadlock, Fail
  <2>2. CASE Admit(a) \/ Refuse(a)
    <3>1. PICK pc \in {"verify", "record"} :
              GoTo(a, pc) /\ UNCHANGED <<count, age, lock>>
      BY <2>2 DEF Admit, Refuse
    <3>2. PICK s : s = [at[a] EXCEPT !.pc = pc]
      OBVIOUS
    <3>3. /\ s \in AttemptState /\ s.gone = at[a].gone /\ s.name = at[a].name
          /\ s.expired = at[a].expired /\ Orderly(s)
      BY <2>0, <3>2 DEF AttemptState, PC, Orderly
    <3>4. at' = [at EXCEPT ![a] = s]
      BY <2>0, <3>1, <3>2 DEF GoTo
    <3> QED
      BY <3>1, <3>3, <3>4, MoveKeeps
  <2>3. CASE FindExpired(a)
    <3>1. PICK s : s = [at[a] EXCEPT !.pc = "drop", !.expired = TRUE]
      OBVIOUS
    <3>0. at[a].gone = {}
      BY <2>3 DEF FindExpired, IInv, Orderly
    <3>2. /\ s \in AttemptState /\ s.gone = at[a].gone /\ s.name = at[a].name
          /\ s.expired /\ Orderly(s)
      BY <2>0, <3>0, <3>1 DEF AttemptState, PC, Orderly
    <3>3. at' = [at EXCEPT ![a] = s] /\ UNCHANGED <<count, age, lock>>
      BY <2>0, <2>3, <3>1 DEF FindExpired
    <3> QED
      BY <3>2, <3>3, MoveKeeps
  <2>4. CASE DropExpired(a)
    <3>1. at[a].gone = {} /\ at[a].expired
      BY <2>4 DEF DropExpired, IInv, Orderly
    <3>2. CASE ~HasRow(at[a].name)
      <4>1. PICK s : s = [at[a] EXCEPT !.pc = "verify"]
        OBVIOUS
      <4>2. /\ s \in AttemptState /\ s.gone = at[a].gone /\ s.name = at[a].name
            /\ s.expired = at[a].expired /\ Orderly(s)
        BY <2>0, <4>1 DEF AttemptState, PC, Orderly
      <4>3. at' = [at EXCEPT ![a] = s] /\ UNCHANGED <<count, age, lock>>
        BY <2>0, <2>4, <3>2, <4>1 DEF DropExpired, GoTo
      <4> QED
        BY <4>2, <4>3, MoveKeeps
    <3>3. CASE HasRow(at[a].name)
      <4>1. PICK s : s = [at[a] EXCEPT !.pc = "verify", !.gone = {at[a].name}]
        OBVIOUS
      <4>2. /\ s \in AttemptState /\ s.gone = at[a].gone \cup {at[a].name}
            /\ s.name = at[a].name /\ s.expired = at[a].expired /\ Orderly(s)
        BY <2>0, <3>1, <4>1 DEF AttemptState, PC, Orderly
      <4>3. at' = [at EXCEPT ![a] = s]
        BY <2>0, <2>4, <3>3, <4>1 DEF DropExpired
      <4>4. /\ lock[at[a].name] = Free /\ lock' = [lock EXCEPT ![at[a].name] = a]
            /\ UNCHANGED <<count, age>>
        BY <2>4, <3>3 DEF DropExpired
      <4> QED
        BY <2>0, <3>1, <4>2, <4>3, <4>4, DeleteKeeps
    <3> QED
      BY <3>2, <3>3
  <2>5. ASSUME NEW u \in Name, SweepRow(a, u)
        PROVE  IInv'
    <3>1. PICK s : s = [at[a] EXCEPT !.gone = @ \cup {u}]
      OBVIOUS
    <3>2. /\ s \in AttemptState /\ s.gone = at[a].gone \cup {u} /\ s.name = at[a].name
          /\ s.expired = at[a].expired /\ Orderly(s)
      BY <2>0, <2>5, <3>1 DEF AttemptState, SweepRow, Orderly
    <3>3. at' = [at EXCEPT ![a] = s]
      BY <2>0, <2>5, <3>1 DEF SweepRow
    <3>4. age[u] \in 0..MaxAge /\ at[a].began \in 0..Span
      BY Typed DEF IInv
    <3>5. age[u] - at[a].began > Expire
      BY <2>5 DEF SweepRow, Swept
    <3>6. age[u] > Expire
      BY <3>4, <3>5 DEF MaxAge
    <3>7. lock[u] = Free /\ lock' = [lock EXCEPT ![u] = a] /\ UNCHANGED <<count, age>>
      BY <2>5 DEF SweepRow
    <3> QED
      BY <3>2, <3>3, <3>6, <3>7, DeleteKeeps
  <2>6. CASE RecordFailure(a)
    <3>1. Done(a)
      BY <2>6 DEF RecordFailure
    <3> QED
      BY <2>6, <3>1, RecordedCounts, EndKeeps DEF IInv
  <2> QED
    BY <1>4, <2>1, <2>2, <2>3, <2>4, <2>5, <2>6 DEF Step
<1> QED
  BY <1>1, <1>2, <1>3, <1>4 DEF Next

(* The invariant holds in every behaviour.                                 *)
THEOREM Invariance == Spec => []IInv
BY InitIInv, NextIInv, PTL DEF Spec

(* Every variable keeps its type and every row lock its owner.             *)
THEOREM TypeCorrect == Spec => []TypeOK
<1>1. IInv => TypeOK
  BY DEF IInv
<1> QED
  BY <1>1, Invariance, PTL

(* No attempt lowers a count that has not expired, except one that signs   *)
(* in under the username or that had found the row expired: neither the    *)
(* sweep of an attempt on another username nor a rollback touches it.      *)
THEOREM FreshCountsKept == Spec => FreshCountKept
<1>1. ASSUME IInv, [Next]_vars
      PROVE  [\A u \in Name :
                Fresh(u) /\ count'[u] < count[u] =>
                    \E a \in Attempt :
                        /\ at[a].name = u
                        /\ at[a].expired \/ SignIn(a)]_vars
  <2> SUFFICES ASSUME Next, NEW u \in Name, Fresh(u), count'[u] < count[u]
               PROVE  \E a \in Attempt : at[a].name = u /\ (at[a].expired \/ SignIn(a))
    BY <1>1 DEF vars
  <2>1. count[u] \in Nat /\ age[u] \in Nat /\ age[u] <= Expire
    BY <1>1, Typed DEF IInv, Fresh, MaxAge
  <2>2. count' # count
    BY <2>1
  <2>3. PICK a \in Attempt : Commit(a) \/ SignIn(a) \/ RecordFailure(a)
    BY <2>2 DEF Next, Step, Tick, Begin, TooSoon, Admit, FindExpired, DropExpired, Refuse,
                RefuseInactive, SweepRow, AbortDeadlock, Fail, Rollback
  <2>4. ASSUME u \in at[a].gone
        PROVE  at[a].name = u /\ at[a].expired
    BY <1>1, <2>1, <2>4 DEF IInv, DeletedWasExpired
  <2>5. CASE u \in at[a].gone
    BY <2>4, <2>5
  <2>6. CASE u \notin at[a].gone
    <3>1. CASE Commit(a)
      BY <2>1, <2>6, <3>1 DEF Commit
    <3>2. CASE SignIn(a)
      <4>1. u = at[a].name
        BY <2>1, <2>6, <3>2 DEF SignIn
      <4> QED
        BY <3>2, <4>1
    <3>3. CASE RecordFailure(a)
      <4>1. CASE u = at[a].name
        <5>1. count'[u] = Bump(count[u])
          BY <2>6, <3>3, <4>1 DEF RecordFailure
        <5>2. Bump(count[u]) \in Nat /\ Bump(count[u]) >= count[u]
          BY <2>1 DEF Bump
        <5> QED
          BY <2>1, <5>1, <5>2
      <4>2. CASE u # at[a].name
        BY <2>1, <2>6, <3>3, <4>2 DEF RecordFailure
      <4> QED
        BY <4>1, <4>2
    <3> QED
      BY <2>3, <3>1, <3>2, <3>3
  <2> QED
    BY <2>5, <2>6
<1> QED
  BY <1>1, Invariance, PTL DEF Spec, FreshCountKept

(* Every failure that is answered is counted, also when several attempts   *)
(* were admitted before the first of them had failed.                      *)
THEOREM FailuresCount == Spec => FailureCounts
<1>1. ASSUME IInv, [Next]_vars
      PROVE  [\A a \in Attempt :
                LET u == at[a].name IN
                RecordFailure(a) /\ Fresh(u) /\ ~at[a].expired =>
                    count'[u] > count[u] \/ count[u] = MaxCount]_vars
  <2> SUFFICES ASSUME NEW a \in Attempt, RecordFailure(a), Fresh(at[a].name), ~at[a].expired
               PROVE  count'[at[a].name] > count[at[a].name] \/ count[at[a].name] = MaxCount
    OBVIOUS
  <2>1. /\ at[a].name \in Name /\ count[at[a].name] \in 0..MaxCount
        /\ age[at[a].name] \in Nat /\ age[at[a].name] <= Expire
    BY <1>1, Typed DEF IInv, Fresh, MaxAge
  <2>2. at[a].name \notin at[a].gone
    BY <1>1, <2>1 DEF IInv, DeletedWasExpired
  <2>3. count'[at[a].name] = Bump(count[at[a].name])
    BY <2>1, <2>2 DEF RecordFailure
  <2> QED
    BY <2>1, <2>3 DEF Bump
<1> QED
  BY <1>1, Invariance, PTL DEF Spec, FailureCounts

-----------------------------------------------------------------------------
(* The wait.  That no username stays locked is a property of TLC's run; it *)
(* rests on these: a wait is bounded, runs down with time, and is set up   *)
(* again only by a failure under its own username.                         *)

(* A wait is never longer than the cap and starts from no failure at all.  *)
LEMMA RequiredWaitBounds ==
    ASSUME NEW n \in Nat, NEW cap \in Nat
    PROVE  RequiredWait(n, cap) \in Int /\ RequiredWait(n, cap) <= cap
<1> DEFINE shift == IF n - 1 > 30 THEN 30 ELSE n - 1
<1>1. CASE n = 0
  BY <1>1 DEF RequiredWait
<1>2. CASE n # 0
  <2>1. shift \in Nat
    BY <1>2
  <2>2. \A k \in Nat : 2 ^ k \in Int
    OBVIOUS
  <2>3. 2 ^ shift \in Int
    BY <2>1, <2>2
  <2>4. RequiredWait(n, cap) = IF 2 ^ shift > cap THEN cap ELSE 2 ^ shift
    BY <1>2 DEF RequiredWait
  <2> HIDE DEF shift
  <2> QED
    BY <2>3, <2>4
<1> QED
  BY <1>1, <1>2

LEMMA NothingOwed == ASSUME NEW cap PROVE RequiredWait(0, cap) = 0
BY DEF RequiredWait

(* What is left of a wait, in numbers.                                     *)
LEMMA WaitBounds ==
    ASSUME TypeOK, NEW u \in Name
    PROVE  /\ RequiredWait(count[u], MaxWait) \in Int
           /\ RequiredWait(count[u], MaxWait) <= MaxWait
           /\ age[u] \in 0..MaxAge
           /\ RemainingWait(u) \in 0..MaxWait
<1>1. count[u] \in Nat /\ age[u] \in 0..MaxAge /\ age[u] \in Nat
  BY Typed DEF MaxAge
<1>2. /\ RequiredWait(count[u], MaxWait) \in Int
      /\ RequiredWait(count[u], MaxWait) <= MaxWait
  BY <1>1, RequiredWaitBounds
<1>3. RemainingWait(u) \in 0..MaxWait
  BY <1>1, <1>2 DEF RemainingWait
<1> QED
  BY <1>1, <1>2, <1>3

(* Nobody is told to wait for longer than the cap, whatever the attempts   *)
(* under the username have done: the row keeps no older debt.              *)
WaitIsBounded == \A u \in Name : RemainingWait(u) \in 0..MaxWait

(* WaitIsBounded holds: no earlier failure can make a wait exceed the cap. *)
THEOREM WaitsAreBounded == Spec => []WaitIsBounded
<1>1. IInv => WaitIsBounded
  BY WaitBounds DEF IInv, WaitIsBounded
<1> QED
  BY <1>1, Invariance, PTL

(* A count that falls falls to none: a row is deleted, never reduced.      *)
LEMMA CountsFallToNone ==
    ASSUME TypeOK, NEW a \in Attempt, NEW u \in Name,
           Commit(a) \/ SignIn(a) \/ (RecordFailure(a) /\ u # at[a].name)
    PROVE  age'[u] = age[u] /\ count'[u] \in {0, count[u]}
<1>1. CASE Commit(a)
  BY <1>1 DEF Commit
<1>2. CASE SignIn(a)
  BY <1>2 DEF SignIn
<1>3. CASE RecordFailure(a) /\ u # at[a].name
  <2>1. age' = [age EXCEPT ![at[a].name] = at[a].began]
    BY <1>3 DEF RecordFailure
  <2>2. age'[u] = age[u]
    BY <1>3, <2>1 DEF TypeOK
  <2>3. count'[u] \in {0, count[u]}
    BY <1>3 DEF RecordFailure
  <2> QED
    BY <2>2, <2>3
<1> QED
  BY <1>1, <1>2, <1>3

(* The wait of a username is lengthened by the failures under it and by    *)
(* nothing else: not by an attempt that came too soon, by an attempt on    *)
(* another username that sweeps, or by one that is rolled back.            *)
WaitLengthenedByItsFailures ==
    [][\A u \in Name :
          RemainingWait(u)' > RemainingWait(u) =>
              \E a \in Attempt : at[a].name = u /\ RecordFailure(a)]_vars

(* Only a failure under the username lengthens its wait.                   *)
THEOREM OnlyFailuresLengthen == Spec => WaitLengthenedByItsFailures
<1>1. ASSUME IInv, IInv', [Next]_vars
      PROVE  [\A u \in Name :
                RemainingWait(u)' > RemainingWait(u) =>
                    \E a \in Attempt : at[a].name = u /\ RecordFailure(a)]_vars
  <2> SUFFICES ASSUME Next, NEW u \in Name,
                      \A a \in Attempt : RecordFailure(a) => u # at[a].name
               PROVE  ~(RemainingWait(u)' > RemainingWait(u))
    BY <1>1 DEF vars
  <2>1. /\ RequiredWait(count[u], MaxWait) \in Int
        /\ age[u] \in Nat /\ RemainingWait(u) \in Nat
    BY <1>1, WaitBounds DEF IInv, MaxAge
  <2>2. age'[u] \in Nat
    BY <1>1 DEF IInv, TypeOK, MaxAge
  <2>3. (age'[u] >= age[u] /\ count'[u] = count[u]) \/ (age'[u] = age[u] /\ count'[u] = 0)
    <3>1. CASE Tick
      <4>1. \A x \in 0..MaxAge : Older(x, MaxAge) >= x
        BY DEF Older, MaxAge
      <4>2. age[u] \in 0..MaxAge
        BY <1>1, WaitBounds DEF IInv
      <4> QED
        BY <3>1, <4>1, <4>2, <2>1 DEF Tick
    <3>2. ASSUME NEW a \in Attempt, Commit(a) \/ SignIn(a) \/ RecordFailure(a)
          PROVE  (age'[u] >= age[u] /\ count'[u] = count[u])
                     \/ (age'[u] = age[u] /\ count'[u] = 0)
      BY <1>1, <3>2, <2>1, CountsFallToNone DEF IInv
    <3>3. CASE UNCHANGED <<count, age>>
      BY <3>3, <2>1
    <3>4. Tick \/ UNCHANGED <<count, age>>
            \/ \E a \in Attempt : Commit(a) \/ SignIn(a) \/ RecordFailure(a)
      BY DEF Next, Step, Begin, TooSoon, Admit, FindExpired, DropExpired, Refuse,
             RefuseInactive, SweepRow, AbortDeadlock, Fail, Rollback
    <3> QED
      BY <3>1, <3>2, <3>3, <3>4
  <2>4. RemainingWait(u)' = LET remaining == RequiredWait(count'[u], MaxWait) - age'[u]
                            IN  IF remaining <= 0 THEN 0 ELSE remaining
    BY DEF RemainingWait
  <2>5. CASE age'[u] >= age[u] /\ count'[u] = count[u]
    BY <2>1, <2>2, <2>4, <2>5 DEF RemainingWait
  <2>6. CASE age'[u] = age[u] /\ count'[u] = 0
    <3>1. RemainingWait(u)' = 0
      BY <2>2, <2>4, <2>6, NothingOwed
    <3> QED
      BY <2>1, <3>1
  <2> QED
    BY <2>3, <2>5, <2>6
<1> QED
  BY <1>1, Invariance, PTL DEF Spec, WaitLengthenedByItsFailures

(* A wait that is running is shorter by one after every unit of time: with *)
(* an expiry no shorter than the longest wait, as 15 minutes against 60    *)
(* seconds, no wait is cut off and none stands still.                      *)
WaitRunsDown ==
    [][Tick => \A u \in Name :
          RemainingWait(u) > 0 => RemainingWait(u)' = RemainingWait(u) - 1]_vars

(* Every wait runs down with the time, down to none.                       *)
THEOREM WaitsRunDown ==
    ASSUME MaxWait <= Expire
    PROVE  Spec => WaitRunsDown
<1>1. ASSUME IInv, [Next]_vars
      PROVE  [Tick => \A u \in Name :
                RemainingWait(u) > 0 => RemainingWait(u)' = RemainingWait(u) - 1]_vars
  <2> SUFFICES ASSUME Tick, NEW u \in Name, RemainingWait(u) > 0
               PROVE  RemainingWait(u)' = RemainingWait(u) - 1
    OBVIOUS
  <2>1. /\ RequiredWait(count[u], MaxWait) \in Int
        /\ RequiredWait(count[u], MaxWait) <= MaxWait
        /\ age[u] \in Nat /\ count[u] \in Nat
    BY <1>1, WaitBounds, Typed DEF IInv, MaxAge
  <2>2. RequiredWait(count[u], MaxWait) - age[u] > 0
    BY <2>1 DEF RemainingWait
  <2>3. HasRow(u)
    <3>1. count[u] # 0
      BY <2>1, <2>2, NothingOwed
    <3> QED
      BY <2>1, <3>1 DEF HasRow
  <2>4. age[u] < MaxAge
    BY <2>1, <2>2 DEF MaxAge
  <2>5. count'[u] = count[u] /\ age'[u] = age[u] + 1
    BY <2>3, <2>4 DEF Tick, Older
  <2>6. RemainingWait(u)' = LET remaining == RequiredWait(count[u], MaxWait) - (age[u] + 1)
                            IN  IF remaining <= 0 THEN 0 ELSE remaining
    BY <2>5 DEF RemainingWait
  <2> QED
    BY <2>1, <2>2, <2>6 DEF RemainingWait
<1> QED
  BY <1>1, Invariance, PTL DEF Spec, WaitRunsDown

-----------------------------------------------------------------------------
(* Deadlocks.                                                              *)

(* An attempt in the sweep of RecordFailure: it still has rows to delete,  *)
(* or holds one of another username that it has deleted.                   *)
Sweeping(a) ==
    /\ at[a].pc = "record"
    /\ Swept(a) # {} \/ \E u \in at[a].gone : u # at[a].name

(* Attempts that wait for each other in a circle do so because RecordFailure *)
(* sweeps the rows of every username: Consult, Reset and the upsert, which *)
(* delete and write the own row alone, can never close a circle.           *)
OnlySweepsDeadlock ==
    \A circle \in SUBSET Attempt :
        circle # {} /\ (\A b \in circle : WaitsFor(b) \cap circle # {})
            => \E b \in circle : Sweeping(b)

(* An attempt that is waited for holds a row, and one that waits wants a   *)
(* row that another holds.                                                 *)
LEMMA WaitedForHolds ==
    ASSUME TypeOK, NEW a \in Attempt, NEW b \in Attempt, b \in WaitsFor(a)
    PROVE  \E u \in Name : u \in at[b].gone
<1> DEFINE wanted == CASE at[a].pc = "record" /\ Swept(a) # {} -> Swept(a)
                       [] at[a].pc = "consult" \/ at[a].pc = "idle" -> {}
                       [] OTHER -> {at[a].name}
<1>1. b \in {lock[u] : u \in wanted}
  BY DEF WaitsFor
<1>2. wanted \subseteq Name
  BY Typed DEF Swept
<1>3. PICK u \in Name : lock[u] = b
  <2> HIDE DEF wanted
  <2> QED
    BY <1>1, <1>2
<1> QED
  BY <1>3 DEF TypeOK

LEMMA WaitingForItsOwn ==
    ASSUME IInv, NEW a \in Attempt, WaitsFor(a) # {}, ~Sweeping(a)
    PROVE  at[a].name \notin at[a].gone
<1>1. /\ at[a].pc \in PC /\ at[a].name \in Name
      /\ lock[at[a].name] = a <=> at[a].name \in at[a].gone
  BY Typed DEF IInv, TypeOK
<1>2. ~(at[a].pc = "record" /\ Swept(a) # {})
  BY DEF Sweeping
<1>3. at[a].pc # "consult" /\ at[a].pc # "idle"
  BY <1>2 DEF WaitsFor
<1>4. lock[at[a].name] \notin {Free, a}
  BY <1>2, <1>3 DEF WaitsFor
<1> QED
  BY <1>1, <1>4

(* Without a sweep an attempt holds its own row alone.                     *)
OwnRowOnly == \A a \in Attempt : at[a].pc # "record" => at[a].gone \subseteq {at[a].name}

(* PostgreSQL's deadlock detector ends an attempt only in such a circle,   *)
(* with any number of attempts and usernames.                              *)
THEOREM DeadlocksComeFromSweeps == Spec => []OnlySweepsDeadlock
<1>1. IInv /\ OwnRowOnly => OnlySweepsDeadlock
  <2> SUFFICES ASSUME IInv, OwnRowOnly, NEW circle \in SUBSET Attempt, circle # {},
                      \A b \in circle : WaitsFor(b) \cap circle # {},
                      \A b \in circle : ~Sweeping(b)
               PROVE  FALSE
    BY DEF OnlySweepsDeadlock
  <2>1. PICK a \in circle, b \in circle : b \in WaitsFor(a)
    OBVIOUS
  <2>2. PICK u \in Name : u \in at[b].gone
    BY <2>1, WaitedForHolds DEF IInv
  <2>3. u = at[b].name
    BY <2>2 DEF OwnRowOnly, Sweeping
  <2>4. WaitsFor(b) # {}
    OBVIOUS
  <2> QED
    BY <2>2, <2>3, <2>4, WaitingForItsOwn
<1>2. Init => OwnRowOnly
  BY DEF Init, OwnRowOnly
<1>3. ASSUME IInv, OwnRowOnly, [Next]_vars
      PROVE  OwnRowOnly'
  <2>0. /\ at \in [Attempt -> AttemptState]
        /\ \A a \in Attempt : at[a].pc \in {"idle", "consult", "drop"} => at[a].gone = {}
    BY <1>3 DEF IInv, TypeOK, Orderly
  <2> SUFFICES ASSUME NEW b \in Attempt, at'[b].pc # "record"
               PROVE  at'[b].gone \subseteq {at'[b].name}
    BY DEF OwnRowOnly
  <2>1. CASE at'[b] = at[b]
    BY <1>3, <2>1 DEF OwnRowOnly
  <2>2. CASE Tick
    <3>1. /\ at'[b].gone = at[b].gone /\ at'[b].name = at[b].name
          /\ at'[b].pc = at[b].pc
      <4>1. CASE at[b].pc = "idle"
        BY <2>2, <4>1 DEF Tick
      <4>2. CASE at[b].pc # "idle"
        <5>1. at'[b] = [at[b] EXCEPT !.began = at[b].began + 1]
          BY <2>2, <4>2 DEF Tick
        <5>2. at[b] \in AttemptState
          BY <2>0
        <5> QED
          BY <5>1, <5>2 DEF AttemptState
      <4> QED
        BY <4>1, <4>2
    <3> QED
      BY <1>3, <3>1 DEF OwnRowOnly
  <2>3. ASSUME NEW a \in Attempt, Done(a)
        PROVE  at'[b].gone \subseteq {at'[b].name}
    BY <1>3, <2>1, <2>3, DoneKeeps DEF IInv
  <2>4. ASSUME NEW a \in Attempt, NEW u \in Name, Begin(a, u)
        PROVE  at'[b].gone \subseteq {at'[b].name}
    BY <2>0, <2>1, <2>4 DEF Begin
  <2>5. ASSUME NEW a \in Attempt, Admit(a) \/ FindExpired(a) \/ DropExpired(a) \/ Refuse(a)
        PROVE  at'[b].gone \subseteq {at'[b].name}
    <3>1. CASE a = b
      <4>0. at[a] \in AttemptState
        BY <2>0
      <4>1. CASE Admit(a)
        BY <2>0, <3>1, <4>0, <4>1 DEF Admit, GoTo, AttemptState
      <4>2. CASE FindExpired(a)
        BY <2>0, <3>1, <4>0, <4>2 DEF FindExpired, AttemptState
      <4>3. CASE DropExpired(a)
        BY <2>0, <3>1, <4>0, <4>3 DEF DropExpired, GoTo, AttemptState
      <4>4. CASE Refuse(a)
        BY <2>0, <3>1, <4>0, <4>4 DEF Refuse, GoTo, AttemptState
      <4> QED
        BY <2>5, <4>1, <4>2, <4>3, <4>4
    <3>2. CASE a # b
      <4>1. at'[b] = at[b]
        BY <2>0, <2>5, <3>2 DEF Admit, FindExpired, DropExpired, Refuse, GoTo
      <4> QED
        BY <2>1, <4>1
    <3> QED
      BY <3>1, <3>2
  <2>6. ASSUME NEW a \in Attempt, NEW u \in Name, SweepRow(a, u)
        PROVE  at'[b].gone \subseteq {at'[b].name}
    <3>1. CASE a = b
      <4>1. at'[b].pc = "record"
        BY <2>0, <2>6, <3>1 DEF SweepRow, AttemptState
      <4> QED
        BY <4>1
    <3>2. CASE a # b
      BY <2>0, <2>1, <2>6, <3>2 DEF SweepRow
    <3> QED
      BY <3>1, <3>2
  <2>7. CASE UNCHANGED vars
    BY <2>1, <2>7 DEF vars
  <2> QED
    BY <1>3, <2>2, <2>3, <2>4, <2>5, <2>6, <2>7
       DEF Next, Step, TooSoon, RefuseInactive, SignIn, RecordFailure, AbortDeadlock, Fail,
           Commit, Rollback
<1>4. Spec => []OwnRowOnly
  BY <1>2, <1>3, Invariance, PTL DEF Spec
<1> QED
  BY <1>1, <1>4, Invariance, PTL
=============================================================================
