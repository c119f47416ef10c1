------------------------ MODULE PropertyRegister_proofs ------------------------
(***************************************************************************)
(* Theorems about PropertyRegister, for every set of properties, sessions, *)
(* values and fields and every bound.                                      *)
(*                                                                         *)
(* A step either moves one session or writes one row together with one     *)
(* audit row.  SoundWrite collects what a write has to satisfy, SessionOK  *)
(* what a session may rely on between its reads and its write; each        *)
(* property then follows from SoundWrite alone.                            *)
(***************************************************************************)
EXTENDS PropertyRegister, FiniteSetTheorems, TLAPS

-----------------------------------------------------------------------------
(* The inductive invariant.                                                *)

(* What session x has read, and what still holds of it: a version that has *)
(* not moved stands for a content that has not moved.                      *)
SessionOK(x) ==
    /\ x.pc \in {"open", "prior", "undoResolved", "undoRead"} => row[x.id].live
    /\ x.pc \in {"open", "prior", "undoRead"} => x.version <= row[x.id].version
    /\ x.pc \in {"open", "prior"} /\ x.version = row[x.id].version
        => x.seen = row[x.id].content
    /\ x.pc \in {"prior", "undoRead"} /\ x.version = row[x.id].version
        => x.prior = row[x.id].content
    /\ x.pc \in {"undo", "undoResolved", "undoRead"} =>
        /\ x.target \in DOMAIN log
        /\ log[x.target].action = "modified" => ChangedSensitive(log[x.target]) = {}

SessionsOK == \A s \in Session : SessionOK(ses[s])

(* What a change of each kind starts from, and what it leaves alone.       *)
Shaped(r) ==
    /\ r.action \in {"modified", "archived", "codeChanged"} => r.was.status = "active"
    /\ r.action = "modified" =>
        r.now = [r.was EXCEPT !.name = r.now.name, !.custom = r.now.custom]
    /\ r.action = "archived" =>
        r.now.status # "active" /\ r.now = [r.was EXCEPT !.status = r.now.status]
    /\ r.action = "restored" =>
        /\ r.was.status # "active" /\ r.now.status = "active"
        /\ r.now = [r.was EXCEPT !.status = "active"]
    /\ r.action = "codeChanged" => r.now = [r.was EXCEPT !.code = r.now.code]

RecordsShaped == \A k \in DOMAIN log : Shaped(log[k])

(* The last audit row of a property, unless it is an undo, says what the   *)
(* property is now.                                                        *)
LastRecordIsContent ==
    \A p \in PropId : \A k \in LastChangeOf(p) :
        log[k].action # "reverted" => log[k].now = row[p].content

IInv == TypeOK /\ CodesUnique /\ SessionsOK /\ RecordsShaped /\ LastRecordIsContent

(* What the undo of record u writes over the content that is there, and    *)
(* what its own record r tells.                                            *)
Reverts(u, current, content, r) ==
    /\ u.action \in Undoable
    /\ current.status = "active" <=> u.action # "archived"
    /\ content = Promise!Undone(u, current)
    /\ r.code = content.code
    /\ IF u.action = "modified"
       THEN r.was = u.now /\ r.now = u.was
       ELSE r.was = current /\ r.now = content

(* What every committed write of a row satisfies.                          *)
SoundWrite(s, p, content, r) ==
    /\ Written(p, content, r, s)
    /\ content \in Content /\ r \in Record /\ r.prop = p
    /\ Free(content.code, p)
    /\ row[p].live /\ row[p].content.status # "active" =>
        content = [row[p].content EXCEPT !.status = content.status]
    /\ ses[s].pc \in {"open", "prior"} =>
        /\ p = ses[s].id /\ ses[s].seen = row[p].content
        /\ r.was = row[p].content /\ r.now = content /\ r.code = content.code
    /\ r.action = "created" =>
        ~row[p].live /\ r.was = content /\ content.status = "active"
    /\ r.action # "created" => row[p].live
    /\ r.action \in Undoable => r.was = row[p].content
    /\ r.action # "reverted" =>
        /\ r.now = content /\ r.code = content.code /\ r.reverses = 0 /\ Shaped(r)
    /\ r.action = "reverted" =>
        /\ r.reverses \in DOMAIN log
        /\ Reverts(log[r.reverses], row[p].content, content, r)
    /\ r.reverses \in LastChangeOf(p) => content = log[r.reverses].was

(* What every other step does.                                             *)
SessionStep(s, x) ==
    /\ UNCHANGED <<row, log>> /\ seq' \in 0..MaxCode
    /\ x \in SessionState /\ SessionOK(x)
    /\ ses' = [ses EXCEPT ![s] = x]

-----------------------------------------------------------------------------
(* Types.                                                                  *)

LEMMA AnyTypes ==
    /\ AnyContent \in Content /\ AnyId \in PropId
    /\ NoRow \in Row /\ IdleSession \in SessionState /\ IdleSession.pc = "idle"
<1>1. PICK v \in Value : v = CHOOSE w \in Value : TRUE
  BY SetsAssumption
<1>2. AnyId \in PropId
  BY SetsAssumption DEF AnyId
<1>3. AnyContent \in Content
  BY <1>1, BoundsAssumption DEF AnyContent, Content, Code, Status
<1>4. NoRow \in Row
  BY <1>3 DEF NoRow, Row
<1>5. 1 \in Code /\ 0 \in 0..(Budget - 1) /\ 0 \in Nat
  BY BoundsAssumption DEF Code
<1>6. IdleSession \in SessionState
  BY <1>2, <1>3, <1>5 DEF IdleSession, SessionState, PC
<1> QED BY <1>2, <1>3, <1>4, <1>6 DEF IdleSession

LEMMA SessionTypes == ASSUME TypeOK, NEW s \in Session
    PROVE /\ ses[s] \in SessionState /\ ses[s].id \in PropId
          /\ row[ses[s].id] \in Row /\ row[ses[s].id].content \in Content
          /\ ses[s].prior \in Content /\ ses[s].seen \in Content
          /\ ses[s].version \in Nat /\ row[ses[s].id].version \in Nat
          /\ ses[s].code \in Code /\ ses[s].target \in Nat
  BY DEF TypeOK, SessionState, Row

LEMMA RecordTypes == ASSUME NEW r \in Record
    PROVE /\ r.action \in Action /\ r.prop \in PropId /\ r.code \in Code
          /\ r.was \in Content /\ r.now \in Content /\ r.reverses \in Nat
  BY DEF Record

LEMMA RecordOfTypes ==
    ASSUME TypeOK, NEW s \in Session, NEW action \in Action,
           NEW was \in Content, NEW now \in Content, NEW k \in Nat
    PROVE  LET r == RecordOf(s, action, was, now, k) IN
           /\ r \in Record /\ r.action = action /\ r.prop = ses[s].id /\ r.reverses = k
           /\ r.was = was /\ r.now = now /\ r.code = now.code
  BY SessionTypes DEF RecordOf, Record, Content

LEMMA ContentUpdates == ASSUME NEW c \in Content
    PROVE /\ \A x \in Status : [c EXCEPT !.status = x] \in Content
          /\ \A x \in Code : [c EXCEPT !.code = x] \in Content
          /\ \A v \in Value : [c EXCEPT !.name = v] \in Content
          /\ \A v \in Value, cv \in [Field -> Value] :
                [c EXCEPT !.name = v, !.custom = cv] \in Content
          /\ c.code \in Code /\ c.status \in Status /\ c.name \in Value
          /\ c.custom \in [Field -> Value]
  BY DEF Content

-----------------------------------------------------------------------------
(* Steps of one session.                                                   *)

LEMMA FreshSession ==
    ASSUME TypeOK, NEW s \in Session, NEW x \in SessionState,
           Set(s, x), UNCHANGED <<row, log>>, seq' \in 0..MaxCode,
           x.pc \in {"idle", "generating", "creating"}
    PROVE  SessionStep(s, x)
  BY DEF Set, SessionStep, SessionOK

LEMMA NextCodeStep ==
    ASSUME TypeOK, NEW s \in Session, NextCode(s)
    PROVE  \E x \in SessionState : SessionStep(s, x)
<1> DEFINE create == [IdleSession EXCEPT !.pc = "creating", !.code = seq + 1]
           again == [IdleSession EXCEPT !.pc = "generating", !.attempts = ses[s].attempts + 1]
<1>1. seq \in Nat /\ seq + 1 \in Code /\ seq' \in 0..MaxCode /\ UNCHANGED <<row, log>>
  BY BoundsAssumption DEF NextCode, TypeOK, Code
<1>2. create \in SessionState /\ create.pc = "creating"
  BY <1>1, AnyTypes DEF SessionState, PC
<1>3. ses[s].attempts \in Nat
  BY BoundsAssumption DEF TypeOK, SessionState
<1>4. ASSUME ses[s].attempts + 1 < Budget
      PROVE  again \in SessionState /\ again.pc = "generating"
  <2>1. ses[s].attempts + 1 \in 0..(Budget - 1)
    BY <1>3, <1>4, BoundsAssumption
  <2> QED BY <2>1, AnyTypes DEF SessionState, PC
<1>5. \/ Set(s, create)
      \/ ses[s].attempts + 1 < Budget /\ Set(s, again)
      \/ Set(s, IdleSession)
  BY DEF NextCode
<1> HIDE DEF create, again
<1> QED BY <1>1, <1>2, <1>4, <1>5, FreshSession, AnyTypes

LEMMA SupplyCodeStep ==
    ASSUME TypeOK, NEW s \in Session, NEW c \in Code, SupplyCode(s, c)
    PROVE  \E x \in SessionState : SessionStep(s, x)
<1>1. PICK x : x = [IdleSession EXCEPT !.pc = "creating", !.code = c]
  OBVIOUS
<1>2. x \in SessionState /\ x.pc = "creating"
  BY <1>1, AnyTypes DEF SessionState, PC
<1> QED BY <1>1, <1>2, FreshSession DEF SupplyCode, TypeOK

LEMMA GiveUpStep ==
    ASSUME TypeOK, NEW s \in Session, GiveUp(s)
    PROVE  \E x \in SessionState : SessionStep(s, x)
  BY FreshSession, AnyTypes DEF GiveUp, TypeOK

LEMMA OpenStep ==
    ASSUME TypeOK, NEW s \in Session, NEW p \in PropId, Open(s, p)
    PROVE  \E x \in SessionState : SessionStep(s, x)
<1>1. PICK x : x = [IdleSession EXCEPT !.pc = "open", !.id = p, !.version = row[p].version,
                                       !.seen = row[p].content]
  OBVIOUS
<1>2. row[p].version \in Nat /\ row[p].content \in Content
  BY DEF TypeOK, Row
<1>3. /\ x \in SessionState
      /\ x.pc = "open" /\ x.id = p /\ x.version = row[p].version /\ x.seen = row[p].content
  BY <1>1, <1>2, AnyTypes DEF SessionState, PC
<1>4. SessionOK(x)
  BY <1>2, <1>3 DEF SessionOK, Open
<1> QED BY <1>1, <1>3, <1>4 DEF Open, Set, SessionStep, TypeOK

LEMMA ReadPriorStep ==
    ASSUME TypeOK, SessionsOK, NEW s \in Session, ReadPrior(s)
    PROVE  \E x \in SessionState : SessionStep(s, x)
<1>1. PICK x : x = [ses[s] EXCEPT !.pc = "prior", !.prior = row[ses[s].id].content]
  OBVIOUS
<1>2. /\ x \in SessionState /\ x.pc = "prior" /\ x.id = ses[s].id
      /\ x.version = ses[s].version /\ x.seen = ses[s].seen
      /\ x.prior = row[ses[s].id].content
  BY <1>1, SessionTypes DEF SessionState, PC
<1>3. SessionOK(x)
  BY <1>2 DEF SessionOK, SessionsOK, ReadPrior, At
<1> QED BY <1>1, <1>2, <1>3 DEF ReadPrior, Set, SessionStep, TypeOK

LEMMA UndoLoadStep ==
    ASSUME TypeOK, NEW s \in Session, NEW k \in DOMAIN log, UndoLoad(s, k)
    PROVE  \E x \in SessionState : SessionStep(s, x)
<1>1. PICK x : x = [IdleSession EXCEPT !.pc = "undo", !.target = k]
  OBVIOUS
<1>2. k \in Nat
  BY DEF TypeOK
<1>3. x \in SessionState /\ x.pc = "undo" /\ x.target = k
  BY <1>1, <1>2, AnyTypes DEF SessionState, PC
<1>4. SessionOK(x)
  BY <1>3 DEF SessionOK, UndoLoad
<1> QED BY <1>1, <1>3, <1>4 DEF UndoLoad, Set, SessionStep, TypeOK

LEMMA UndoResolveStep ==
    ASSUME TypeOK, SessionsOK, NEW s \in Session, NEW p \in PropId, UndoResolve(s, p)
    PROVE  \E x \in SessionState : SessionStep(s, x)
<1>1. PICK x : x = [ses[s] EXCEPT !.pc = "undoResolved", !.id = p]
  OBVIOUS
<1>2. x \in SessionState /\ x.pc = "undoResolved" /\ x.id = p /\ x.target = ses[s].target
  BY <1>1, SessionTypes DEF SessionState, PC
<1>3. SessionOK(x)
  BY <1>2 DEF SessionOK, SessionsOK, UndoResolve, At
<1> QED BY <1>1, <1>2, <1>3 DEF UndoResolve, Set, SessionStep, TypeOK

LEMMA UndoReadStep ==
    ASSUME TypeOK, SessionsOK, NEW s \in Session, UndoRead(s)
    PROVE  \E x \in SessionState : SessionStep(s, x)
<1>1. PICK x : x = [ses[s] EXCEPT !.pc = "undoRead", !.version = row[ses[s].id].version,
                                  !.prior = row[ses[s].id].content]
  OBVIOUS
<1>2. /\ x \in SessionState /\ x.pc = "undoRead" /\ x.id = ses[s].id
      /\ x.target = ses[s].target
      /\ x.version = row[ses[s].id].version /\ x.prior = row[ses[s].id].content
  BY <1>1, SessionTypes DEF SessionState, PC
<1>3. SessionOK(x)
  BY <1>2, SessionTypes DEF SessionOK, SessionsOK, UndoRead, At
<1> QED BY <1>1, <1>2, <1>3 DEF UndoRead, Set, SessionStep, TypeOK

-----------------------------------------------------------------------------
(* Steps that write.                                                       *)

LEMMA CodeKeptIsFree ==
    ASSUME CodesUnique, NEW p \in PropId, row[p].live
    PROVE  Free(row[p].content.code, p)
  BY DEF CodesUnique, Free

LEMMA NoChangeZero == ASSUME TypeOK, NEW p \in PropId PROVE 0 \notin LastChangeOf(p)
  BY DEF LastChangeOf, TypeOK

LEMMA InsertWrite ==
    ASSUME IInv, NEW s \in Session, NEW p \in PropId, Insert(s, p)
    PROVE  \E content \in Content, r \in Record : SoundWrite(s, p, content, r)
<1>1. PICK v, cv, content, r :
        /\ v \in Value /\ cv \in [Field -> Value]
        /\ content = [code |-> ses[s].code, status |-> "active", name |-> v, custom |-> cv]
        /\ r = [action |-> "created", prop |-> p, code |-> ses[s].code,
                was |-> content, now |-> content, reverses |-> 0]
        /\ Written(p, content, r, s)
  BY DEF Insert, Created
<1>2. content \in Content /\ content.code = ses[s].code
  BY <1>1, SessionTypes DEF IInv, Content, Status
<1>3. /\ r \in Record /\ r.action = "created" /\ r.prop = p /\ r.reverses = 0
      /\ r.now = content /\ r.was = content /\ r.code = content.code
      /\ content.status = "active"
  BY <1>1, <1>2, SessionTypes DEF IInv, Record, Action
<1>4. Free(content.code, p) /\ Shaped(r)
  BY <1>2, <1>3 DEF Insert, Taken, Free, Shaped, Created
<1> QED BY <1>1, <1>2, <1>3, <1>4, NoChangeZero
        DEF SoundWrite, Insert, At, IInv, Created, Undoable

(* What a session at its UPDATE knows when the version still matches.      *)
LEMMA AtUpdate ==
    ASSUME IInv, NEW s \in Session, VersionMatches(s)
    PROVE  LET current == row[ses[s].id].content IN
           /\ current \in Content /\ ses[s].id \in PropId
           /\ ses[s].pc \in {"open", "prior", "undoRead"} =>
                row[ses[s].id].live /\ Free(current.code, ses[s].id)
           /\ ses[s].pc \in {"open", "prior"} => ses[s].seen = current
           /\ ses[s].pc \in {"prior", "undoRead"} => ses[s].prior = current
  BY SessionTypes, CodeKeptIsFree DEF IInv, SessionsOK, SessionOK, VersionMatches

(* A change by the person whose version matched: what remains to show is   *)
(* the content it writes.                                                  *)
LEMMA EditIsSound ==
    ASSUME IInv, NEW s \in Session, VersionMatches(s), ses[s].pc \in {"open", "prior"},
           NEW action \in Undoable, NEW p \in PropId, p = ses[s].id,
           NEW was \in Content, was = row[p].content, NEW now \in Content,
           Change(s, action, was, now),
           Free(now.code, p),
           was.status # "active" => now = [was EXCEPT !.status = now.status],
           \A r \in Record : r.action = action /\ r.was = was /\ r.now = now => Shaped(r)
    PROVE  \E q \in PropId, content \in Content, r \in Record : SoundWrite(s, q, content, r)
<1>1. PICK r : r = RecordOf(s, action, was, now, 0)
  OBVIOUS
<1>2. action \in Action /\ 0 \in Nat /\ TypeOK
  BY DEF Undoable, IInv
<1>3. /\ r \in Record /\ r.action = action /\ r.prop = p /\ r.reverses = 0
      /\ r.was = was /\ r.now = now /\ r.code = now.code
  BY <1>1, <1>2, RecordOfTypes
<1>4. Written(p, now, r, s) /\ Shaped(r)
  BY <1>1, <1>3 DEF Change
<1>5. ses[s].seen = was /\ 0 \notin LastChangeOf(p) /\ row[p].live
  BY <1>2, AtUpdate, NoChangeZero
<1>6. action # "created" /\ action # "reverted"
  BY DEF Undoable
<1>7. SoundWrite(s, p, now, r)
  BY <1>3, <1>4, <1>5, <1>6 DEF SoundWrite
<1> QED BY <1>3, <1>7

LEMMA UpdateWrite ==
    ASSUME IInv, NEW s \in Session, Update(s)
    PROVE  \E p \in PropId, content \in Content, r \in Record : SoundWrite(s, p, content, r)
<1>1. PICK p, current : p = ses[s].id /\ current = row[p].content
  OBVIOUS
<1>2. /\ VersionMatches(s) /\ ses[s].pc = "prior"
      /\ p \in PropId /\ current \in Content /\ row[p].live /\ Free(current.code, p)
      /\ ses[s].prior = current /\ current.status = "active"
  BY <1>1, AtUpdate DEF Update, At, IsActive
<1>3. PICK v, cv, now, was :
        /\ v \in Value /\ cv \in [Field -> Value]
        /\ now = [current EXCEPT !.name = v, !.custom = cv]
        /\ was = [current EXCEPT !.name = ses[s].prior.name]
        /\ Change(s, "modified", was, now)
  BY <1>1 DEF Update
<1>4. was = current
  BY <1>2, <1>3 DEF Content
<1>5. /\ now \in Content /\ now.code = current.code
      /\ now = [current EXCEPT !.name = now.name, !.custom = now.custom]
  BY <1>2, <1>3, ContentUpdates DEF Content
<1>6. ASSUME NEW r \in Record, r.action = "modified", r.was = current, r.now = now
      PROVE  Shaped(r)
  BY <1>2, <1>5, <1>6 DEF Shaped
<1>7. "modified" \in Undoable
  BY DEF Undoable, Action
<1>8. Change(s, "modified", current, now) /\ Free(now.code, p)
  BY <1>2, <1>3, <1>4, <1>5
<1> QED BY <1>1, <1>2, <1>5, <1>6, <1>7, <1>8, EditIsSound

LEMMA ArchiveWrite ==
    ASSUME IInv, NEW s \in Session, Archive(s)
    PROVE  \E p \in PropId, content \in Content, r \in Record : SoundWrite(s, p, content, r)
<1>1. PICK p, current : p = ses[s].id /\ current = row[p].content
  OBVIOUS
<1>2. /\ VersionMatches(s) /\ ses[s].pc = "prior"
      /\ p \in PropId /\ current \in Content /\ row[p].live /\ Free(current.code, p)
      /\ current.status = "active"
  BY <1>1, AtUpdate DEF Archive, At, IsActive, Archived
<1>3. PICK status, now :
        /\ status \in {"archived", "noted"}
        /\ now = [current EXCEPT !.status = status]
        /\ Change(s, "archived", current, now)
  BY <1>1 DEF Archive, Archived
<1>4. /\ now \in Content /\ now.code = current.code /\ now.status # "active"
      /\ now = [current EXCEPT !.status = now.status]
  BY <1>2, <1>3, ContentUpdates DEF Content, Status
<1>5. ASSUME NEW r \in Record, r.action = "archived", r.was = current, r.now = now
      PROVE  Shaped(r)
  BY <1>2, <1>4, <1>5 DEF Shaped
<1>6. "archived" \in Undoable
  BY DEF Undoable, Action
<1>7. Change(s, "archived", current, now) /\ Free(now.code, p)
  BY <1>2, <1>3, <1>4
<1> QED BY <1>1, <1>2, <1>4, <1>5, <1>6, <1>7, EditIsSound

LEMMA RestoreWrite ==
    ASSUME IInv, NEW s \in Session, Restore(s)
    PROVE  \E p \in PropId, content \in Content, r \in Record : SoundWrite(s, p, content, r)
<1>1. PICK p, current : p = ses[s].id /\ current = row[p].content
  OBVIOUS
<1>2. /\ VersionMatches(s) /\ ses[s].pc = "prior"
      /\ p \in PropId /\ current \in Content /\ row[p].live /\ Free(current.code, p)
      /\ ses[s].prior = current /\ current.status # "active"
  BY <1>1, AtUpdate DEF Restore, At, IsActive, Restored
<1>3. PICK now, was :
        /\ now = [current EXCEPT !.status = "active"]
        /\ was = [current EXCEPT !.status =
                    IF ses[s].prior.status = "noted" THEN "noted" ELSE "archived"]
        /\ Change(s, "restored", was, now)
  BY <1>1 DEF Restore, Restored
<1>4. was = current
  BY <1>2, <1>3 DEF Content, Status
<1>5. /\ now \in Content /\ now.code = current.code /\ now.status = "active"
      /\ now = [current EXCEPT !.status = now.status]
  BY <1>2, <1>3, ContentUpdates DEF Content, Status
<1>6. ASSUME NEW r \in Record, r.action = "restored", r.was = current, r.now = now
      PROVE  Shaped(r)
  BY <1>2, <1>3, <1>5, <1>6 DEF Shaped
<1>7. "restored" \in Undoable
  BY DEF Undoable, Action
<1>8. Change(s, "restored", current, now) /\ Free(now.code, p)
  BY <1>2, <1>3, <1>4, <1>5
<1> QED BY <1>1, <1>2, <1>5, <1>6, <1>7, <1>8, EditIsSound

LEMMA ChangeCodeWrite ==
    ASSUME IInv, NEW s \in Session, NEW c \in Code, ChangeCode(s, c)
    PROVE  \E p \in PropId, content \in Content, r \in Record : SoundWrite(s, p, content, r)
<1>1. PICK p, current : p = ses[s].id /\ current = row[p].content
  OBVIOUS
<1>2. /\ VersionMatches(s) /\ ses[s].pc = "open"
      /\ p \in PropId /\ current \in Content /\ Free(c, p) /\ current.status = "active"
  BY <1>1, AtUpdate DEF ChangeCode, At, IsActive, Recoded
<1>3. PICK now :
        now = [current EXCEPT !.code = c] /\ Change(s, "codeChanged", current, now)
  BY <1>1 DEF ChangeCode, Recoded
<1>4. now \in Content /\ now.code = c /\ now = [current EXCEPT !.code = now.code]
  BY <1>2, <1>3, ContentUpdates DEF Content
<1>5. ASSUME NEW r \in Record, r.action = "codeChanged", r.was = current, r.now = now
      PROVE  Shaped(r)
  BY <1>2, <1>4, <1>5 DEF Shaped
<1>6. "codeChanged" \in Undoable
  BY DEF Undoable, Action
<1>7. Change(s, "codeChanged", current, now) /\ Free(now.code, p)
  BY <1>2, <1>3, <1>4
<1> QED BY <1>1, <1>2, <1>4, <1>5, <1>6, <1>7, EditIsSound

(* What an undo knows when its version matched.                            *)
LEMMA AtRevert ==
    ASSUME IInv, NEW s \in Session, NEW action \in Undoable, Undoing(s, action)
    PROVE  LET k == ses[s].target
               current == row[ses[s].id].content IN
           /\ VersionMatches(s) /\ ses[s].pc = "undoRead"
           /\ ses[s].id \in PropId /\ current \in Content /\ ses[s].prior = current
           /\ Free(current.code, ses[s].id)
           /\ k \in DOMAIN log /\ k \in Nat /\ log[k] \in Record /\ log[k].action = action
           /\ log[k].was \in Content /\ log[k].now \in Content /\ Shaped(log[k])
           /\ action = "modified" => ChangedSensitive(log[k]) = {}
           /\ k \in LastChangeOf(ses[s].id) => log[k].now = current
<1>1. TypeOK /\ SessionOK(ses[s]) /\ VersionMatches(s) /\ ses[s].pc = "undoRead"
  BY DEF IInv, SessionsOK, Undoing, At
<1>2. ses[s].target \in DOMAIN log /\ log[ses[s].target].action = action
  BY <1>1 DEF SessionOK, Undoing
<1>3. log[ses[s].target] \in Record
  BY <1>1, <1>2 DEF TypeOK
<1>4. action # "reverted"
  BY DEF Undoable
<1>5. Shaped(log[ses[s].target])
  BY <1>2 DEF IInv, RecordsShaped
<1>6. ses[s].target \in LastChangeOf(ses[s].id)
        => log[ses[s].target].now = row[ses[s].id].content
  BY <1>1, <1>2, <1>4, SessionTypes DEF IInv, LastRecordIsContent
<1>7. action = "modified" => ChangedSensitive(log[ses[s].target]) = {}
  BY <1>1, <1>2 DEF SessionOK
<1>8. log[ses[s].target].was \in Content /\ log[ses[s].target].now \in Content
  BY <1>3, RecordTypes
<1>9. /\ ses[s].id \in PropId /\ row[ses[s].id].content \in Content
      /\ ses[s].prior = row[ses[s].id].content
      /\ Free(row[ses[s].id].content.code, ses[s].id)
      /\ ses[s].target \in Nat
  BY <1>1, AtUpdate, SessionTypes
<1> QED BY <1>1, <1>2, <1>3, <1>5, <1>6, <1>7, <1>8, <1>9

LEMMA RevertIsSound ==
    ASSUME IInv, NEW s \in Session, ses[s].pc = "undoRead",
           NEW p \in PropId, p = ses[s].id,
           NEW current \in Content, current = row[p].content,
           NEW was \in Content, NEW now \in Content, NEW content \in Content,
           Revert(s, was, now, content),
           Free(content.code, p),
           current.status # "active" => content = [current EXCEPT !.status = content.status],
           ses[s].target \in LastChangeOf(p) => content = log[ses[s].target].was,
           VersionMatches(s), ses[s].target \in DOMAIN log,
           \A r \in Record : r.was = was /\ r.now = now /\ r.code = content.code
                => Reverts(log[ses[s].target], current, content, r)
    PROVE  \E q \in PropId, c \in Content, r \in Record : SoundWrite(s, q, c, r)
<1>1. PICK r0 : r0 = RecordOf(s, "reverted", was, now, ses[s].target)
  OBVIOUS
<1>2. PICK r : r = [r0 EXCEPT !.code = content.code]
  OBVIOUS
<1>3. "reverted" \in Action /\ ses[s].target \in Nat /\ TypeOK /\ content.code \in Code
  BY SessionTypes, ContentUpdates DEF Action, IInv
<1>4. /\ r0 \in Record /\ r0.action = "reverted" /\ r0.prop = p
      /\ r0.reverses = ses[s].target /\ r0.was = was /\ r0.now = now
  BY <1>1, <1>3, RecordOfTypes
<1>5. /\ r \in Record /\ r.action = "reverted" /\ r.prop = p /\ r.reverses = ses[s].target
      /\ r.was = was /\ r.now = now /\ r.code = content.code
  BY <1>2, <1>3, <1>4 DEF Record
<1>6. Written(p, content, r, s) /\ row[p].live
  BY <1>1, <1>2, AtUpdate DEF Revert
<1>7. SoundWrite(s, p, content, r)
  BY <1>5, <1>6 DEF SoundWrite, Undoable
<1> QED BY <1>5, <1>7

LEMMA UndoModifiedWrite ==
    ASSUME IInv, NEW s \in Session, UndoModified(s)
    PROVE  \E p \in PropId, content \in Content, r \in Record : SoundWrite(s, p, content, r)
<1>1. PICK p, current, k : p = ses[s].id /\ current = row[p].content /\ k = ses[s].target
  OBVIOUS
<1>2. PICK u : u = log[k]
  OBVIOUS
<1>3. "modified" \in Undoable /\ Undoing(s, "modified") /\ current.status = "active"
  BY <1>1 DEF Undoable, Action, UndoModified, IsActive
<1>4. /\ ses[s].pc = "undoRead" /\ p \in PropId /\ current \in Content
      /\ ses[s].prior = current /\ Free(current.code, p)
      /\ u \in Record /\ u.action = "modified" /\ u.was \in Content /\ u.now \in Content
      /\ Shaped(u) /\ ChangedSensitive(u) = {}
      /\ k \in LastChangeOf(p) => u.now = current
  BY <1>1, <1>2, <1>3, AtRevert
<1>5. PICK name, cv, content :
        /\ name = IF u.was.name # u.now.name THEN u.was.name ELSE current.name
        /\ cv = [f \in Field |->
                    IF f \in Mentions(u) THEN u.was.custom[f] ELSE current.custom[f]]
        /\ content = [current EXCEPT !.name = name, !.custom = cv]
        /\ Revert(s, u.now, u.was, content)
  BY <1>1, <1>2, <1>4 DEF UndoModified
<1>6. name \in Value /\ cv \in [Field -> Value]
  BY <1>4, <1>5, ContentUpdates
<1>7. content \in Content /\ content.code = current.code
  BY <1>4, <1>5, <1>6, ContentUpdates DEF Content
<1>8. ASSUME u.now = current PROVE content = u.was
  <2>1. u.now = [u.was EXCEPT !.name = u.now.name, !.custom = u.now.custom]
    BY <1>4 DEF Shaped
  <2>2. name = u.was.name
    BY <1>5, <1>8
  <2>3. \A f \in Field : cv[f] = u.was.custom[f]
    BY <1>4, <1>5, <1>8 DEF Mentions, ChangedSensitive
  <2>4. cv = u.was.custom
    <3>1. u.was.custom \in [Field -> Value]
      BY <1>4, ContentUpdates
    <3> QED BY <1>6, <2>3, <3>1
  <2>5. u.was.code = current.code /\ u.was.status = current.status
    BY <1>4, <1>8, <2>1 DEF Content
  <2> QED BY <1>4, <1>5, <2>2, <2>4, <2>5 DEF Content
<1>9. k \in LastChangeOf(p) => content = log[k].was
  BY <1>2, <1>4, <1>8
<1>10. Revert(s, u.now, u.was, content) /\ Free(content.code, p)
  BY <1>4, <1>5, <1>7
<1>11. VersionMatches(s) /\ k \in DOMAIN log
  BY <1>1, <1>3, AtRevert
<1>12. content = Promise!Undone(u, current)
  <2>1. \A f \in Field : f \in Mentions(u) <=> u.was.custom[f] # u.now.custom[f]
    BY <1>4 DEF Mentions, ChangedSensitive
  <2>2. cv = [f \in Field |-> IF u.was.custom[f] # u.now.custom[f] THEN u.was.custom[f]
                             ELSE current.custom[f]]
    BY <1>5, <2>1
  <2> QED BY <1>4, <1>5, <2>2 DEF Promise!Undone
<1>13. ASSUME NEW r \in Record, r.was = u.now, r.now = u.was, r.code = content.code
       PROVE  Reverts(log[k], current, content, r)
  BY <1>2, <1>3, <1>4, <1>12, <1>13 DEF Reverts
<1> QED BY <1>1, <1>4, <1>7, <1>9, <1>10, <1>11, <1>13, <1>3, RevertIsSound

LEMMA UndoArchivedWrite ==
    ASSUME IInv, NEW s \in Session, UndoArchived(s)
    PROVE  \E p \in PropId, content \in Content, r \in Record : SoundWrite(s, p, content, r)
<1>1. PICK p, current, k : p = ses[s].id /\ current = row[p].content /\ k = ses[s].target
  OBVIOUS
<1>2. PICK u : u = log[k]
  OBVIOUS
<1>3. "archived" \in Undoable /\ Undoing(s, "archived") /\ current.status # "active"
  BY <1>1 DEF Undoable, Action, UndoArchived, IsActive, Restored
<1>4. /\ ses[s].pc = "undoRead" /\ p \in PropId /\ current \in Content
      /\ ses[s].prior = current /\ Free(current.code, p)
      /\ u.action = "archived" /\ u.was \in Content /\ Shaped(u)
      /\ k \in LastChangeOf(p) => u.now = current
  BY <1>1, <1>2, <1>3, AtRevert
<1>5. PICK content :
        /\ content = [current EXCEPT !.status = "active"]
        /\ Revert(s, current, content, content)
  BY <1>1, <1>4 DEF UndoArchived, Restored
<1>6. /\ content \in Content /\ content.code = current.code
      /\ content = [current EXCEPT !.status = content.status]
  BY <1>4, <1>5, ContentUpdates DEF Content, Status
<1>7. ASSUME u.now = current PROVE content = u.was
  BY <1>4, <1>5, <1>7 DEF Shaped, Content
<1>8. k \in LastChangeOf(p) => content = log[k].was
  BY <1>2, <1>4, <1>7
<1>9. Revert(s, current, content, content) /\ Free(content.code, p)
  BY <1>4, <1>5, <1>6
<1>10. VersionMatches(s) /\ k \in DOMAIN log
  BY <1>1, <1>3, AtRevert
<1>11. content = Promise!Undone(u, current)
  BY <1>4, <1>5 DEF Promise!Undone
<1>12. ASSUME NEW r \in Record, r.was = current, r.now = content, r.code = content.code
      PROVE  Reverts(log[k], current, content, r)
  BY <1>2, <1>3, <1>4, <1>11, <1>12 DEF Reverts
<1> QED BY <1>1, <1>4, <1>6, <1>8, <1>9, <1>10, <1>12, RevertIsSound

LEMMA UndoRestoredWrite ==
    ASSUME IInv, NEW s \in Session, UndoRestored(s)
    PROVE  \E p \in PropId, content \in Content, r \in Record : SoundWrite(s, p, content, r)
<1>1. PICK p, current, k : p = ses[s].id /\ current = row[p].content /\ k = ses[s].target
  OBVIOUS
<1>2. PICK u : u = log[k]
  OBVIOUS
<1>3. "restored" \in Undoable /\ Undoing(s, "restored") /\ current.status = "active"
  BY <1>1 DEF Undoable, Action, UndoRestored, IsActive, Archived
<1>4. /\ ses[s].pc = "undoRead" /\ p \in PropId /\ current \in Content
      /\ Free(current.code, p)
      /\ u.action = "restored" /\ u.was \in Content /\ Shaped(u)
      /\ k \in LastChangeOf(p) => u.now = current
  BY <1>1, <1>2, <1>3, AtRevert
<1>5. PICK content :
        /\ content = [current EXCEPT !.status = u.was.status]
        /\ Revert(s, current, content, content)
  BY <1>1, <1>2 DEF UndoRestored, Archived
<1>6. content \in Content /\ content.code = current.code
  BY <1>4, <1>5, ContentUpdates DEF Content
<1>7. ASSUME u.now = current PROVE content = u.was
  <2>1. u.now = [u.was EXCEPT !.status = "active"]
    BY <1>4 DEF Shaped
  <2> QED BY <1>4, <1>5, <1>7, <2>1 DEF Content
<1>8. k \in LastChangeOf(p) => content = log[k].was
  BY <1>2, <1>4, <1>7
<1>9. Revert(s, current, content, content) /\ Free(content.code, p)
  BY <1>4, <1>5, <1>6
<1>10. VersionMatches(s) /\ k \in DOMAIN log
  BY <1>1, <1>3, AtRevert
<1>11. content = Promise!Undone(u, current)
  BY <1>4, <1>5 DEF Promise!Undone
<1>12. ASSUME NEW r \in Record, r.was = current, r.now = content, r.code = content.code
      PROVE  Reverts(log[k], current, content, r)
  BY <1>2, <1>3, <1>4, <1>11, <1>12 DEF Reverts
<1> QED BY <1>1, <1>3, <1>4, <1>6, <1>8, <1>9, <1>10, <1>12, RevertIsSound

LEMMA UndoCodeChangedWrite ==
    ASSUME IInv, NEW s \in Session, UndoCodeChanged(s)
    PROVE  \E p \in PropId, content \in Content, r \in Record : SoundWrite(s, p, content, r)
<1>1. PICK p, current, k : p = ses[s].id /\ current = row[p].content /\ k = ses[s].target
  OBVIOUS
<1>2. PICK u : u = log[k]
  OBVIOUS
<1>3. /\ "codeChanged" \in Undoable /\ Undoing(s, "codeChanged")
      /\ current.status = "active" /\ Free(u.was.code, p)
  BY <1>1, <1>2 DEF Undoable, Action, UndoCodeChanged, IsActive, Recoded
<1>4. /\ ses[s].pc = "undoRead" /\ p \in PropId /\ current \in Content
      /\ ses[s].prior = current
      /\ u.action = "codeChanged" /\ u.was \in Content /\ Shaped(u)
      /\ k \in LastChangeOf(p) => u.now = current
  BY <1>1, <1>2, <1>3, AtRevert
<1>5. PICK content :
        /\ content = [current EXCEPT !.code = u.was.code]
        /\ Revert(s, current, content, content)
  BY <1>1, <1>2, <1>4 DEF UndoCodeChanged, Recoded
<1>6. u.was.code \in Code
  BY <1>4, ContentUpdates
<1>7. content \in Content /\ content.code = u.was.code
  BY <1>4, <1>5, <1>6, ContentUpdates DEF Content
<1>8. ASSUME u.now = current PROVE content = u.was
  <2>1. u.now = [u.was EXCEPT !.code = u.now.code]
    BY <1>4 DEF Shaped
  <2> QED BY <1>4, <1>5, <1>8, <2>1 DEF Content
<1>9. k \in LastChangeOf(p) => content = log[k].was
  BY <1>2, <1>4, <1>8
<1>10. Revert(s, current, content, content) /\ Free(content.code, p)
  BY <1>3, <1>5, <1>7
<1>11. VersionMatches(s) /\ k \in DOMAIN log
  BY <1>1, <1>3, AtRevert
<1>12. content = Promise!Undone(u, current)
  BY <1>4, <1>5 DEF Promise!Undone
<1>13. ASSUME NEW r \in Record, r.was = current, r.now = content, r.code = content.code
      PROVE  Reverts(log[k], current, content, r)
  BY <1>2, <1>3, <1>4, <1>12, <1>13 DEF Reverts
<1> QED BY <1>1, <1>3, <1>4, <1>7, <1>9, <1>10, <1>11, <1>13, RevertIsSound

-----------------------------------------------------------------------------
(* Every step is one of the two.                                           *)

LEMMA StepKinds ==
    ASSUME IInv, Next
    PROVE  \/ \E s \in Session, x \in SessionState : SessionStep(s, x)
           \/ \E s \in Session, p \in PropId, content \in Content, r \in Record :
                SoundWrite(s, p, content, r)
<1> TypeOK /\ SessionsOK
  BY DEF IInv
<1>1. PICK s \in Session : Create(s) \/ Edit(s) \/ Undo(s) \/ GiveUp(s)
  BY DEF Next
<1>2. CASE Create(s)
  BY <1>2, NextCodeStep, SupplyCodeStep, InsertWrite DEF Create
<1>3. CASE Edit(s)
  BY <1>3, OpenStep, ReadPriorStep, UpdateWrite, ArchiveWrite, RestoreWrite, ChangeCodeWrite
  DEF Edit
<1>4. CASE Undo(s)
  BY <1>4, UndoLoadStep, UndoResolveStep, UndoReadStep, UndoModifiedWrite,
     UndoArchivedWrite, UndoRestoredWrite, UndoCodeChangedWrite
  DEF Undo
<1>5. CASE GiveUp(s)
  BY <1>5, GiveUpStep
<1> QED BY <1>1, <1>2, <1>3, <1>4, <1>5

(* What a write leaves behind.                                             *)
LEMMA AfterWrite ==
    ASSUME TypeOK, NEW s \in Session, NEW p \in PropId, NEW content \in Content,
           NEW r \in Record, Written(p, content, r, s)
    PROVE  /\ row' \in [PropId -> Row] /\ log' \in Seq(Record)
           /\ ses' \in [Session -> SessionState] /\ seq' = seq
           /\ row'[p].live /\ row'[p].content = content
           /\ row'[p].version = row[p].version + 1
           /\ \A q \in PropId : q # p => row'[q] = row[q]
           /\ Len(log') = Len(log) + 1 /\ log'[Len(log) + 1] = r
           /\ DOMAIN log' = DOMAIN log \union {Len(log) + 1}
           /\ \A k \in DOMAIN log : k <= Len(log) /\ log'[k] = log[k]
           /\ ses'[s].pc = "idle"
           /\ \A t \in Session : t # s => ses'[t] = ses[t]
<1>1. row[p].version \in Nat /\ row \in [PropId -> Row] /\ log \in Seq(Record)
  BY DEF TypeOK, Row
<1>2. PICK w : w = [live |-> TRUE, version |-> row[p].version + 1, content |-> content]
  OBVIOUS
<1>3. w \in Row /\ w.live /\ w.content = content /\ w.version = row[p].version + 1
  BY <1>1, <1>2 DEF Row
<1>4. row' = [row EXCEPT ![p] = w] /\ log' = Append(log, r) /\ seq' = seq
  BY <1>2 DEF Written
<1>5. ses' = [ses EXCEPT ![s] = IdleSession] /\ ses \in [Session -> SessionState]
  BY DEF Written, Set, TypeOK
<1>6. row' \in [PropId -> Row] /\ row'[p] = w /\ \A q \in PropId : q # p => row'[q] = row[q]
  BY <1>1, <1>3, <1>4
<1>7. /\ log' \in Seq(Record) /\ Len(log') = Len(log) + 1 /\ log'[Len(log) + 1] = r
      /\ DOMAIN log' = DOMAIN log \union {Len(log) + 1}
      /\ \A k \in DOMAIN log : k <= Len(log) /\ log'[k] = log[k]
  BY <1>1, <1>4
<1>8. /\ ses' \in [Session -> SessionState] /\ ses'[s].pc = "idle"
      /\ \A t \in Session : t # s => ses'[t] = ses[t]
  BY <1>5, AnyTypes
<1> QED BY <1>3, <1>4, <1>6, <1>7, <1>8

LEMMA InitIInv == Init => IInv
<1> SUFFICES ASSUME Init PROVE IInv
  OBVIOUS
<1>1. TypeOK
  BY AnyTypes, BoundsAssumption DEF Init, TypeOK
<1>2. CodesUnique
  BY DEF Init, CodesUnique, NoRow
<1>3. SessionsOK
  BY AnyTypes DEF Init, SessionsOK, SessionOK
<1>4. RecordsShaped /\ LastRecordIsContent
  BY DEF Init, RecordsShaped, LastRecordIsContent, LastChangeOf
<1> QED BY <1>1, <1>2, <1>3, <1>4 DEF IInv

LEMMA SessionStepKeeps ==
    ASSUME IInv, NEW s \in Session, NEW x \in SessionState, SessionStep(s, x)
    PROVE  IInv'
<1>1. row' = row /\ log' = log /\ seq' \in 0..MaxCode /\ ses' = [ses EXCEPT ![s] = x]
  BY DEF SessionStep
<1>2. TypeOK'
  BY <1>1 DEF IInv, TypeOK
<1>3. CodesUnique' /\ RecordsShaped' /\ LastRecordIsContent'
  BY <1>1 DEF IInv, CodesUnique, RecordsShaped, LastRecordIsContent, LastChangeOf
<1>4. SessionsOK'
  <2> SUFFICES ASSUME NEW t \in Session PROVE SessionOK(ses[t])'
    BY DEF SessionsOK
  <2>1. ses'[t] = IF t = s THEN x ELSE ses[t]
    BY <1>1 DEF IInv, TypeOK
  <2>2. SessionOK(x) /\ SessionOK(ses[t])
    BY DEF SessionStep, IInv, SessionsOK
  <2> QED BY <1>1, <2>1, <2>2 DEF SessionOK
<1> QED BY <1>2, <1>3, <1>4 DEF IInv

LEMMA WriteKeeps ==
    ASSUME IInv, NEW s \in Session, NEW p \in PropId, NEW content \in Content,
           NEW r \in Record, SoundWrite(s, p, content, r)
    PROVE  IInv'
<1> TypeOK /\ Written(p, content, r, s)
  BY DEF IInv, SoundWrite
<1>1. TypeOK'
  BY AfterWrite DEF TypeOK
<1>2. CodesUnique'
  <2>1. Free(content.code, p)
    BY DEF SoundWrite
  <2>2. CodesUnique
    BY DEF IInv
  <2>3. /\ row'[p].content.code = content.code
        /\ \A q \in PropId : q # p => row'[q] = row[q]
    BY AfterWrite
  <2> QED BY <2>1, <2>2, <2>3 DEF CodesUnique, Free
<1>3. SessionsOK'
  <2> SUFFICES ASSUME NEW t \in Session PROVE SessionOK(ses[t])'
    BY DEF SessionsOK
  <2>1. CASE t = s
    BY <2>1, AfterWrite DEF SessionOK
  <2>2. CASE t # s
    <3>1. ses'[t] = ses[t] /\ SessionOK(ses[t])
      BY <2>2, AfterWrite DEF IInv, SessionsOK
    <3>2. PICK x : x = ses[t]
      OBVIOUS
    <3>3. x.id \in PropId /\ x.version \in Nat /\ row[x.id].version \in Nat
      BY <3>2, SessionTypes
    <3>4. \/ x.id # p /\ row'[x.id] = row[x.id]
          \/ x.id = p /\ row'[x.id].live /\ row'[x.id].version = row[x.id].version + 1
      BY <3>3, AfterWrite
    <3>5. \A k \in DOMAIN log : k \in DOMAIN log' /\ log'[k] = log[k]
      BY AfterWrite
    <3> QED BY <3>1, <3>2, <3>3, <3>4, <3>5 DEF SessionOK
  <2> QED BY <2>1, <2>2
<1>4. Shaped(r)
  <2>1. CASE r.action = "reverted"
    BY <2>1 DEF Shaped
  <2>2. CASE r.action # "reverted"
    BY <2>2 DEF SoundWrite
  <2> QED BY <2>1, <2>2
<1>5. RecordsShaped'
  <2> SUFFICES ASSUME NEW k \in DOMAIN log' PROVE Shaped(log'[k])
    BY DEF RecordsShaped, Shaped
  <2>1. CASE k \in DOMAIN log
    BY <2>1, AfterWrite DEF IInv, RecordsShaped
  <2>2. CASE k = Len(log) + 1
    BY <1>4, <2>2, AfterWrite
  <2> QED BY <2>1, <2>2, AfterWrite
<1>6. LastRecordIsContent'
  <2> SUFFICES ASSUME NEW q \in PropId, NEW k \in LastChangeOf(q)', log'[k].action # "reverted"
               PROVE  log'[k].now = row'[q].content
    BY DEF LastRecordIsContent
  <2>1. k \in DOMAIN log' /\ log'[k].prop = q
        /\ \A j \in DOMAIN log' : log'[j].prop = q => j <= k
    BY DEF LastChangeOf
  <2>2. r.prop = p /\ (r.action # "reverted" => r.now = content)
    BY DEF SoundWrite
  <2>3. CASE k = Len(log) + 1
    BY <2>1, <2>2, <2>3, AfterWrite
  <2>4. CASE k \in DOMAIN log
    <3>1. q # p
      BY <2>1, <2>2, <2>4, AfterWrite DEF TypeOK
    <3>2. log'[k] = log[k] /\ row'[q] = row[q]
      BY <2>4, <3>1, AfterWrite
    <3>3. k \in LastChangeOf(q)
      BY <2>1, <2>4, <3>2, AfterWrite DEF LastChangeOf
    <3> QED BY <3>2, <3>3 DEF IInv, LastRecordIsContent
  <2> QED BY <2>1, <2>3, <2>4, AfterWrite
<1> QED BY <1>1, <1>2, <1>3, <1>5, <1>6 DEF IInv

LEMMA IInvInductive == IInv /\ [Next]_vars => IInv'
<1> SUFFICES ASSUME IInv, [Next]_vars PROVE IInv'
  OBVIOUS
<1>1. CASE Next
  BY <1>1, StepKinds, SessionStepKeeps, WriteKeeps
<1>2. CASE UNCHANGED vars
  BY <1>2 DEF vars, IInv, TypeOK, CodesUnique, SessionsOK, SessionOK, RecordsShaped,
     Shaped, LastRecordIsContent, LastChangeOf
<1> QED BY <1>1, <1>2

-----------------------------------------------------------------------------
(* Theorems.                                                               *)

(* What a session has read is what is there as long as the version it read *)
(* is: the invariant the other theorems rest on.                           *)
THEOREM Invariance == Spec => []IInv
<1>1. IInv /\ [Next]_vars => IInv'
  BY IInvInductive
<1> QED BY <1>1, InitIInv, PTL DEF Spec

(* Every variable keeps its type: in particular the sequence stays in      *)
(* range and generateCode within its budget.                               *)
THEOREM TypeCorrect == Spec => []TypeOK
<1>1. IInv => TypeOK
  BY DEF IInv
<1> QED BY <1>1, Invariance, PTL

(* FR-017: whatever is created, re-coded and undone at the same time, no   *)
(* two properties hold the same code.                                      *)
THEOREM CodesStayUnique == Spec => []CodesUnique
<1>1. IInv => CodesUnique
  BY DEF IInv
<1> QED BY <1>1, Invariance, PTL

(* A session whose request commits in a write is the session that wrote.   *)
LEMMA CommitIsWrite ==
    ASSUME IInv, [Next]_vars, Len(log') > Len(log)
    PROVE  \E s \in Session, p \in PropId, content \in Content, r \in Record :
            /\ SoundWrite(s, p, content, r) /\ NewRecord = r
            /\ \A t \in Session : Commits(t) => t = s
<1>1. TypeOK
  BY DEF IInv
<1>2. Len(log) \in Nat
  BY <1>1 DEF TypeOK
<1>3. log' # log
  BY <1>2
<1>4. PICK s \in Session, p \in PropId, content \in Content, r \in Record :
        SoundWrite(s, p, content, r)
  BY <1>3, StepKinds DEF SessionStep, vars
<1>5. Written(p, content, r, s)
  BY <1>4 DEF SoundWrite
<1>6. NewRecord = r
  BY <1>1, <1>5, AfterWrite DEF NewRecord
<1>7. \A t \in Session : Commits(t) => t = s
  BY <1>1, <1>5, AfterWrite DEF Commits
<1> QED BY <1>4, <1>6, <1>7

(* FR-020: a change is applied only to the property as its author saw it.  *)
THEOREM NoUpdateIsLost == Spec => NoLostUpdate
<1>1. ASSUME IInv, [Next]_vars, NEW s \in Session, Commits(s)
      PROVE  row[ses[s].id].content = ses[s].seen
  <2>1. Len(log') > Len(log) /\ ses[s].pc \in {"open", "prior"}
    BY <1>1 DEF Commits
  <2> QED BY <1>1, <2>1, CommitIsWrite DEF SoundWrite
<1>2. IInv /\ [Next]_vars
        => [\A s \in Session : Commits(s) => row[ses[s].id].content = ses[s].seen]_vars
  BY <1>1
<1> QED BY <1>2, Invariance, PTL DEF Spec, NoLostUpdate

(* What the audit row of a change says was there before and after is what  *)
(* was there, although the prior state is read without a lock.             *)
THEOREM AuditIsTruthful == Spec => AuditTruthful
<1> DEFINE Truth == \A s \in Session : Commits(s) =>
                /\ NewRecord.was = row[NewRecord.prop].content
                /\ NewRecord.now = row'[NewRecord.prop].content
                /\ NewRecord.code = row'[NewRecord.prop].content.code
<1>1. ASSUME IInv, [Next]_vars, NEW s \in Session, Commits(s)
      PROVE  /\ NewRecord.was = row[NewRecord.prop].content
             /\ NewRecord.now = row'[NewRecord.prop].content
             /\ NewRecord.code = row'[NewRecord.prop].content.code
  <2>1. Len(log') > Len(log) /\ ses[s].pc \in {"open", "prior"}
    BY <1>1 DEF Commits
  <2>2. PICK p \in PropId, content \in Content, r \in Record :
          SoundWrite(s, p, content, r) /\ NewRecord = r
    BY <1>1, <2>1, CommitIsWrite
  <2>3. row'[p].content = content
    BY <1>1, <2>2, AfterWrite DEF IInv, SoundWrite
  <2> QED BY <2>1, <2>2, <2>3 DEF SoundWrite
<1>2. IInv /\ [Next]_vars => [Truth]_vars
  BY <1>1
<1> QED BY <1>2, Invariance, PTL DEF Spec, AuditTruthful

(* An archived property keeps its code, its name and its values: archiving *)
(* and restoring, undone or not, change nothing else.                      *)
THEOREM ArchivedStaysFrozen == Spec => ArchivedFrozen
<1> DEFINE Frozen == \A p \in PropId :
        row[p].live /\ "active" # row[p].content.status =>
            row'[p].content = [row[p].content EXCEPT !.status = row'[p].content.status]
<1>1. ASSUME IInv, Next, NEW p \in PropId, row[p].live, "active" # row[p].content.status
      PROVE  row'[p].content = [row[p].content EXCEPT !.status = row'[p].content.status]
  <2>1. TypeOK
    BY <1>1 DEF IInv
  <2>2. row[p].content = [row[p].content EXCEPT !.status = row[p].content.status]
    BY <2>1 DEF TypeOK, Row, Content
  <2>3. CASE \E s \in Session, x \in SessionState : SessionStep(s, x)
    BY <2>2, <2>3 DEF SessionStep
  <2>4. CASE \E s \in Session, q \in PropId, content \in Content, r \in Record :
                SoundWrite(s, q, content, r)
    <3>1. PICK s \in Session, q \in PropId, content \in Content, r \in Record :
                SoundWrite(s, q, content, r)
      BY <2>4
    <3>2. Written(q, content, r, s)
      BY <3>1 DEF SoundWrite
    <3>3. row'[q].content = content /\ (p # q => row'[p] = row[p])
      BY <2>1, <3>2, AfterWrite
    <3>4. p = q => content = [row[p].content EXCEPT !.status = content.status]
      BY <1>1, <3>1 DEF SoundWrite
    <3>5. CASE p = q
      BY <3>3, <3>4, <3>5
    <3>6. CASE p # q
      BY <2>2, <3>3, <3>6
    <3> QED BY <3>5, <3>6
  <2> QED BY <1>1, <2>3, <2>4, StepKinds
<1>2. IInv /\ [Next]_vars => [Frozen]_vars
  BY <1>1
<1> QED BY <1>2, Invariance, PTL DEF Spec, ArchivedFrozen

(* Undoing the last change of a property restores exactly what was there   *)
(* before it, the values an audit row may not contain included.            *)
THEOREM UndoRestores == Spec => UndoRestoresLastChange
<1> DEFINE Restores == Len(log') > Len(log) =>
        LET r == NewRecord IN
        r.reverses \in LastChangeOf(r.prop) =>
            row'[r.prop].content = log[r.reverses].was
<1>1. ASSUME IInv, [Next]_vars, Len(log') > Len(log),
             NewRecord.reverses \in LastChangeOf(NewRecord.prop)
      PROVE  row'[NewRecord.prop].content = log[NewRecord.reverses].was
  <2>1. PICK s \in Session, p \in PropId, content \in Content, r \in Record :
          SoundWrite(s, p, content, r) /\ NewRecord = r
    BY <1>1, CommitIsWrite
  <2>2. Written(p, content, r, s) /\ r.prop = p
    BY <2>1 DEF SoundWrite
  <2>3. row'[p].content = content
    BY <1>1, <2>2, AfterWrite DEF IInv
  <2> QED BY <1>1, <2>1, <2>2, <2>3 DEF SoundWrite
<1>2. IInv /\ [Next]_vars => [Restores]_vars
  BY <1>1
<1> QED BY <1>2, Invariance, PTL DEF Spec, UndoRestoresLastChange

(* The audit rows about p, and what one more row does to them.             *)
Records(p) == {i \in DOMAIN log : log[i].prop = p}

LEMMA RecordsFinite == ASSUME TypeOK, NEW p \in PropId PROVE IsFiniteSet(Records(p))
<1>1. IsFiniteSet(1..Len(log))
  BY FS_Interval DEF TypeOK
<1>2. Records(p) \subseteq 1..Len(log)
  BY DEF Records, TypeOK
<1> QED BY <1>1, <1>2, FS_Subset

LEMMA WriteCounts ==
    ASSUME IInv, VersionCountsRecords, NEW s \in Session, NEW p \in PropId,
           NEW content \in Content, NEW r \in Record, SoundWrite(s, p, content, r)
    PROVE  VersionCountsRecords'
<1> DEFINE new == Len(log) + 1
<1>1. TypeOK /\ Written(p, content, r, s) /\ r.prop = p
  BY DEF IInv, SoundWrite
<1>2. new \notin DOMAIN log
  BY <1>1 DEF TypeOK
<1>3. /\ DOMAIN log' = DOMAIN log \union {new}
      /\ log'[new] = r /\ \A k \in DOMAIN log : log'[k] = log[k]
      /\ row'[p].version = row[p].version + 1
      /\ \A q \in PropId : q # p => row'[q] = row[q]
  BY <1>1, AfterWrite
<1>4. ASSUME NEW q \in PropId PROVE row'[q].version = Cardinality(Records(q)')
  <2>1. row[q].version = Cardinality(Records(q))
    BY DEF VersionCountsRecords, Records
  <2>2. CASE q = p
    <3>1. Records(q)' = Records(q) \union {new} /\ new \notin Records(q)
      BY <1>1, <1>2, <1>3, <2>2 DEF Records
    <3>2. Cardinality(Records(q) \union {new}) = Cardinality(Records(q)) + 1
      BY <1>1, <3>1, RecordsFinite, FS_AddElement
    <3> QED BY <1>3, <2>1, <2>2, <3>1, <3>2
  <2>3. CASE q # p
    <3>1. Records(q)' = Records(q)
      BY <1>1, <1>2, <1>3, <2>3 DEF Records
    <3> QED BY <1>3, <2>1, <2>3, <3>1
  <2> QED BY <2>2, <2>3
<1> QED BY <1>4 DEF VersionCountsRecords, Records

(* Every change has its audit row and every audit row its change.          *)
THEOREM VersionIsCount == Spec => []VersionCountsRecords
<1>1. Init => VersionCountsRecords
  <2> SUFFICES ASSUME Init, NEW p \in PropId
               PROVE  row[p].version = Cardinality(Records(p))
    BY DEF VersionCountsRecords, Records
  <2>1. Records(p) = {}
    BY DEF Init, Records
  <2> QED BY <2>1, FS_EmptySet DEF Init, NoRow
<1>2. IInv /\ VersionCountsRecords /\ [Next]_vars => VersionCountsRecords'
  <2> SUFFICES ASSUME IInv, VersionCountsRecords, [Next]_vars
               PROVE  VersionCountsRecords'
    OBVIOUS
  <2>1. CASE row' = row /\ log' = log
    BY <2>1 DEF VersionCountsRecords
  <2>2. CASE Next
    BY <2>1, <2>2, StepKinds, WriteCounts DEF SessionStep
  <2> QED BY <2>1, <2>2 DEF vars
<1> QED BY <1>1, <1>2, Invariance, PTL DEF Spec

-----------------------------------------------------------------------------
(* An undo finds the property its record is about.                         *)

(* Properties are never deleted, so the property of an audit row is there. *)
RecordsOfLive == \A k \in DOMAIN log : row[log[k].prop].live

LEMMA RecordsOfLiveInductive == IInv /\ RecordsOfLive /\ [Next]_vars => RecordsOfLive'
<1> SUFFICES ASSUME IInv, RecordsOfLive, [Next]_vars PROVE RecordsOfLive'
  OBVIOUS
<1> TypeOK
  BY DEF IInv
<1>1. CASE UNCHANGED <<row, log>>
  BY <1>1 DEF RecordsOfLive
<1>2. ASSUME NEW s \in Session, NEW p \in PropId, NEW content \in Content, NEW r \in Record,
             SoundWrite(s, p, content, r)
      PROVE  RecordsOfLive'
  <2>1. Written(p, content, r, s) /\ r.prop = p
    BY <1>2 DEF SoundWrite
  <2>2. /\ row'[p].live /\ \A q \in PropId : q # p => row'[q] = row[q]
        /\ DOMAIN log' = DOMAIN log \union {Len(log) + 1} /\ log'[Len(log) + 1] = r
        /\ \A k \in DOMAIN log : log'[k] = log[k]
    BY <1>2, <2>1, AfterWrite
  <2>3. \A k \in DOMAIN log : log[k].prop \in PropId
    BY RecordTypes DEF TypeOK
  <2> QED BY <2>1, <2>2, <2>3 DEF RecordsOfLive
<1> QED BY <1>1, <1>2, StepKinds DEF SessionStep, vars

(* Only UndoResolve takes a session from "undo" to "undoResolved".         *)
LEMMA ResolveIsUndoResolve ==
    ASSUME TypeOK, Next, NEW s \in Session, At(s, "undo"), ses'[s].pc = "undoResolved"
    PROVE  \E p \in PropId : UndoResolve(s, p)
<1>1. PICK t \in Session : Create(t) \/ Edit(t) \/ Undo(t) \/ GiveUp(t)
  BY DEF Next
<1>2. \E x : ses' = [ses EXCEPT ![t] = x]
  BY <1>1
  DEF Create, Edit, Undo, GiveUp, NextCode, SupplyCode, Insert, Open, ReadPrior, Update,
      Archive, Restore, ChangeCode, UndoLoad, UndoResolve, UndoRead, UndoModified,
      UndoArchived, UndoRestored, UndoCodeChanged, Change, Revert, Written, Set
<1>3. t = s
  BY <1>2 DEF TypeOK, At
<1>4. ~Create(s)
  BY DEF Create, NextCode, SupplyCode, Insert, At
<1>5. ~Edit(s)
  BY DEF Edit, Open, ReadPrior, Update, Archive, Restore, ChangeCode, At
<1>6. ~GiveUp(s)
  BY AnyTypes DEF GiveUp, Set, TypeOK
<1>7. CASE Undo(s)
  BY <1>7 DEF Undo, UndoLoad, UndoRead, UndoModified, UndoArchived, UndoRestored,
              UndoCodeChanged, Undoing, At
<1> QED BY <1>1, <1>3, <1>4, <1>5, <1>6, <1>7

(* Resolving the code of an audit row leads an undo to the property of     *)
(* that row, as long as that property still has the code and the code does *)
(* not read as a UUID.                                                     *)
THEOREM UndoFinds == Spec => UndoFindsItsProperty
<1>1. ASSUME IInv, RecordsOfLive, Next, NEW s \in Session,
             At(s, "undo"), ses'[s].pc = "undoResolved"
      PROVE  LET r == log[ses[s].target] IN
             \/ ses'[s].id = r.prop
             \/ row[r.prop].content.code # r.code
             \/ ReadAsId(r)
  <2>1. TypeOK /\ CodesUnique /\ SessionOK(ses[s])
    BY <1>1 DEF IInv, SessionsOK
  <2>2. PICK p \in PropId : UndoResolve(s, p)
    BY <1>1, <2>1, ResolveIsUndoResolve
  <2>3. /\ ses'[s].id = p /\ row[p].live
        /\ ReadAsId(log[ses[s].target]) \/ row[p].content.code = log[ses[s].target].code
    BY <2>1, <2>2 DEF UndoResolve, Set, TypeOK, SessionState
  <2>4. ses[s].target \in DOMAIN log /\ log[ses[s].target].prop \in PropId
    BY <1>1, <2>1, RecordTypes DEF SessionOK, At, TypeOK
  <2>5. row[log[ses[s].target].prop].live
    BY <1>1, <2>4 DEF RecordsOfLive
  <2> QED BY <2>1, <2>3, <2>4, <2>5 DEF CodesUnique
<1>2. ASSUME IInv, RecordsOfLive, UNCHANGED vars, NEW s \in Session,
             At(s, "undo"), ses'[s].pc = "undoResolved"
      PROVE  FALSE
  BY <1>2 DEF vars, At
<1>3. IInv /\ RecordsOfLive /\ [Next]_vars =>
        [\A s \in Session : At(s, "undo") /\ ses'[s].pc = "undoResolved" =>
            LET r == log[ses[s].target] IN
            \/ ses'[s].id = r.prop
            \/ row[r.prop].content.code # r.code
            \/ ReadAsId(r)]_vars
  BY <1>1, <1>2
<1>4. Init => RecordsOfLive
  BY DEF Init, RecordsOfLive
<1> QED BY <1>3, <1>4, RecordsOfLiveInductive, Invariance, PTL DEF Spec, UndoFindsItsProperty

-----------------------------------------------------------------------------
(* The promise.                                                            *)

LEMMA RegisterIs ==
    /\ DOMAIN Register = {q \in PropId : row[q].live}
    /\ \A q \in PropId : row[q].live => Register[q] = row[q].content
BY DEF Register

(* A record is the entry its fields make.                                  *)
LEMMA EntryIs ==
    ASSUME NEW r \in Record, NEW c, r.code = c.code
    PROVE  r = Promise!Entry(r.action, r.prop, r.was, r.now, r.reverses, c)
BY DEF Record, Promise!Entry

(* A write gives the register one property's new content, whose code no    *)
(* other property has, and its record.                                     *)
LEMMA WriteIsCommit ==
    ASSUME TypeOK, NEW s \in Session, NEW p \in PropId, NEW content \in Content,
           NEW r \in Record, SoundWrite(s, p, content, r)
    PROVE  Promise!Commit(p, content, r) /\ Len(log') = Len(log) + 1
<1>1. Written(p, content, r, s) /\ Free(content.code, p)
  BY DEF SoundWrite
<1>2. /\ row'[p].live /\ row'[p].content = content
      /\ \A q \in PropId : q # p => row'[q] = row[q]
      /\ Len(log') = Len(log) + 1
  BY <1>1, AfterWrite
<1>3. log' = Append(log, r)
  BY <1>1 DEF Written
<1>4. \A q \in DOMAIN Register : Register[q].code = content.code => q = p
  BY <1>1, RegisterIs DEF Free
<1>5. Register' = [q \in DOMAIN Register \cup {p} |->
                        IF q = p THEN content ELSE Register[q]]
  <2>1. {q \in PropId : row'[q].live} = DOMAIN Register \cup {p}
    BY <1>2, RegisterIs
  <2>2. \A q \in DOMAIN Register \cup {p} :
            row'[q].content = IF q = p THEN content ELSE Register[q]
    BY <1>2, RegisterIs
  <2> QED BY <2>1, <2>2 DEF Register
<1> QED BY <1>2, <1>3, <1>4, <1>5 DEF Promise!Commit

(* A sound write is a decision of the promise: its record says which.      *)
LEMMA WriteIsDecision ==
    ASSUME TypeOK, NEW s \in Session, NEW p \in PropId, NEW content \in Content,
           NEW r \in Record, SoundWrite(s, p, content, r)
    PROVE  Promise!Next
<1>1. Promise!Commit(p, content, r) /\ Len(log') = Len(log) + 1
  BY WriteIsCommit
<1>2. PICK current : current = row[p].content /\ current \in Content
  BY DEF TypeOK, Row
<1>3. row[p].live => p \in DOMAIN Register /\ Register[p] = current
  BY <1>2, RegisterIs
<1>4. r.prop = p
  BY DEF SoundWrite
<1>5. CASE r.action = "created"
  <2>1. /\ p \notin DOMAIN Register /\ content.status = "active"
        /\ r.was = content /\ r.now = content /\ r.code = content.code /\ r.reverses = 0
    BY <1>5, RegisterIs DEF SoundWrite
  <2>2. PICK k, v, cv : k = content.code /\ v = content.name /\ cv = content.custom
    OBVIOUS
  <2>3. k \in Code /\ v \in Value /\ cv \in [Field -> Value]
    BY <2>2 DEF Content
  <2>4. content = [code |-> k, status |-> "active", name |-> v, custom |-> cv]
    BY <2>1, <2>2 DEF Content
  <2>5. r = Promise!Entry("created", p, content, content, 0, content)
    BY <1>4, <1>5, <2>1, EntryIs
  <2>6. Promise!Create(p)
    BY <1>1, <2>1, <2>3, <2>4, <2>5 DEF Promise!Create
  <2> QED BY <1>1, <2>6 DEF Promise!Next
<1>6. ASSUME r.action \in Undoable
      PROVE  /\ p \in DOMAIN Register /\ Register[p] = current
             /\ Promise!Decide(p, r.action, content)
             /\ r.was = current /\ r.now = content /\ Shaped(r)
  <2>1. /\ p \in DOMAIN Register /\ Register[p] = current
        /\ r.was = current /\ r.now = content /\ r.code = content.code /\ r.reverses = 0
        /\ Shaped(r)
    BY <1>2, <1>3, <1>6 DEF SoundWrite, Undoable
  <2>2. r = Promise!Entry(r.action, p, Register[p], content, 0, content)
    BY <1>4, <2>1, EntryIs
  <2> QED BY <1>1, <2>1, <2>2 DEF Promise!Decide
<1>7. CASE r.action = "modified"
  <2>1. r.action \in Undoable
    BY <1>7 DEF Undoable, Action
  <2>2. /\ current.status = "active"
        /\ content = [current EXCEPT !.name = content.name, !.custom = content.custom]
    BY <1>6, <1>7, <2>1 DEF Shaped
  <2>3. content.name \in Value /\ content.custom \in [Field -> Value]
    BY DEF Content
  <2>4. PICK v, cv : v = content.name /\ cv = content.custom
    OBVIOUS
  <2>5. /\ Register[p] = current
        /\ Promise!Decide(p, "modified", [Register[p] EXCEPT !.name = v, !.custom = cv])
    BY <1>6, <1>7, <2>1, <2>2, <2>4
  <2>6. v \in Value /\ cv \in [Field -> Value]
    BY <2>3, <2>4
  <2>7. Promise!Modify(p)
    BY <2>2, <2>5, <2>6 DEF Promise!Modify, Promise!Active
  <2> QED BY <1>1, <1>6, <2>1, <2>7 DEF Promise!Next
<1>8. CASE r.action = "archived"
  <2>1. r.action \in Undoable
    BY <1>8 DEF Undoable, Action
  <2>2. /\ current.status = "active" /\ content.status # "active"
        /\ content = [current EXCEPT !.status = content.status]
    BY <1>6, <1>8, <2>1 DEF Shaped
  <2>3. content.status \in {"archived", "noted"}
    BY <2>2 DEF Content, Status
  <2>4. Promise!Archive(p)
    BY <1>6, <1>8, <2>1, <2>2, <2>3 DEF Promise!Archive, Promise!Active
  <2> QED BY <1>1, <1>6, <2>1, <2>4 DEF Promise!Next
<1>9. CASE r.action = "restored"
  <2>1. r.action \in Undoable
    BY <1>9 DEF Undoable, Action
  <2>2. current.status # "active" /\ content = [current EXCEPT !.status = "active"]
    BY <1>6, <1>9, <2>1 DEF Shaped
  <2>3. Promise!Restore(p)
    BY <1>6, <1>9, <2>1, <2>2 DEF Promise!Restore, Promise!Active
  <2> QED BY <1>1, <1>6, <2>1, <2>3 DEF Promise!Next
<1>10. CASE r.action = "codeChanged"
  <2>1. r.action \in Undoable
    BY <1>10 DEF Undoable, Action
  <2>2. current.status = "active" /\ content = [current EXCEPT !.code = content.code]
    BY <1>6, <1>10, <2>1 DEF Shaped
  <2>3. content.code \in Code
    BY DEF Content
  <2>4. Promise!Recode(p)
    BY <1>6, <1>10, <2>1, <2>2, <2>3 DEF Promise!Recode, Promise!Active
  <2> QED BY <1>1, <1>6, <2>1, <2>4 DEF Promise!Next
<1>11. CASE r.action = "reverted"
  <2>1. PICK k : k = r.reverses
    OBVIOUS
  <2>2. /\ p \in DOMAIN Register /\ Register[p] = current
        /\ k \in DOMAIN log /\ Reverts(log[k], current, content, r)
    BY <1>2, <1>3, <1>11, <2>1 DEF SoundWrite
  <2>3. /\ log[k].action \in {"modified", "archived", "restored", "codeChanged"}
        /\ content = Promise!Undone(log[k], current) /\ r.code = content.code
        /\ Promise!Active(p) <=> log[k].action # "archived"
    BY <2>2 DEF Reverts, Undoable, Action, Promise!Active
  <2>4. r = Promise!Entry("reverted", p, r.was, r.now, k, content)
    BY <1>4, <1>11, <2>1, <2>3, EntryIs
  <2>5. IF log[k].action = "modified"
        THEN r.was = log[k].now /\ r.now = log[k].was
        ELSE r.was = Register[p] /\ r.now = content
    BY <2>2 DEF Reverts
  <2>6. Promise!Undo(p, k)
    BY <1>1, <2>2, <2>3, <2>4, <2>5 DEF Promise!Undo
  <2> QED BY <1>1, <2>2, <2>6 DEF Promise!Next
<1> QED BY <1>5, <1>7, <1>8, <1>9, <1>10, <1>11 DEF Record, Action

(* The handlers, with all they read before their one conditional UPDATE,   *)
(* implement the promise: every commit is one decision about the property  *)
(* as it is at that instant, with its true record, and nothing else is     *)
(* seen to change.                                                         *)
THEOREM RegisterImplementsPromise == Spec => RegisterPromiseKept
<1>1. Init => Promise!Init
  <2> SUFFICES ASSUME Init PROVE Promise!Init
    OBVIOUS
  <2>1. {q \in PropId : row[q].live} = {} /\ log = <<>>
    BY DEF Init, NoRow
  <2>2. Register = <<>>
    BY <2>1 DEF Register
  <2> QED BY <2>1, <2>2 DEF Promise!Init
<1>2. UNCHANGED <<row, log>> => UNCHANGED Promise!vars
  BY DEF Promise!vars, Register
<1>3. IInv /\ [Next]_vars => [Promise!Next]_(Promise!vars)
  <2> SUFFICES ASSUME IInv, [Next]_vars PROVE Promise!Next \/ UNCHANGED Promise!vars
    OBVIOUS
  <2>1. TypeOK
    BY DEF IInv
  <2>2. CASE UNCHANGED vars
    BY <1>2, <2>2 DEF vars
  <2>3. CASE \E s \in Session, x \in SessionState : SessionStep(s, x)
    BY <1>2, <2>3 DEF SessionStep
  <2>4. CASE \E s \in Session, p \in PropId, content \in Content, r \in Record :
                SoundWrite(s, p, content, r)
    BY <2>1, <2>4, WriteIsDecision
  <2> QED BY <2>2, <2>3, <2>4, StepKinds
<1> QED BY <1>1, <1>3, Invariance, PTL DEF Spec, RegisterPromiseKept, Promise!Spec
=============================================================================
