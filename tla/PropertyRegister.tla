--------------------------- MODULE PropertyRegister ---------------------------
(***************************************************************************)
(* The property register: rows of table property with their custom values, *)
(* the reference-code sequence, the audit rows that describe every change, *)
(* the handlers that create, update, re-code, archive and restore a        *)
(* property, and the undo of a recorded change.                            *)
(*                                                                         *)
(* Updates are optimistic: a person opens a property, and the request sent *)
(* later carries the version that was opened.  The handlers read without   *)
(* locks at READ COMMITTED and rely on one conditional UPDATE, so every    *)
(* read and that UPDATE are separate steps here.  The UPDATE, what the     *)
(* handler does under its row lock, the audit row and COMMIT are one step. *)
(* A refusal, a conflict, an error and a person who gives up all end in    *)
(* GiveUp.                                                                 *)
(***************************************************************************)
EXTENDS Naturals, Sequences, FiniteSets

CONSTANTS
    PropId,         \* gen_random_uuid values
    Session,        \* people at their screens, one request at a time each
    Value,          \* names and values of custom fields, one of them "no value"
    Field,          \* custom fields
    Sensitive,      \* those stored encrypted
    MaxCode,        \* reference codes P-001 .. and what the sequence may reach
    UuidCode,       \* codes of 32 hexadecimal digits, which uuid.Parse accepts
    IdOf,           \* the identifier each of them reads as
    Budget,         \* maxGenerateAttempts
    MaxLog          \* bound on audit rows

ASSUME SetsAssumption == PropId # {} /\ Value # {} /\ Sensitive \subseteq Field
ASSUME UuidAssumption == IdOf \in [UuidCode -> PropId \cup {"none"}]
ASSUME BoundsAssumption ==
    MaxCode \in Nat \ {0} /\ Budget \in Nat \ {0} /\ MaxLog \in Nat

VARIABLES
    row,            \* table property
    log,            \* committed audit rows, in the order of their id
    seq,            \* property_code_seq
    ses             \* what each session is doing

vars == <<row, log, seq, ses>>

-----------------------------------------------------------------------------
(* A person may supply any code, the sequence only those of its form.      *)
Code == 1..MaxCode \cup UuidCode

(* archived_at and archive_note: "noted" is archived with a note.          *)
Status == {"active", "archived", "noted"}

Content == [code: Code, status: Status, name: Value, custom: [Field -> Value]]
Row == [live: BOOLEAN, version: Nat, content: Content]

(* "was" and "now" are the states the handler derives before_value and     *)
(* after_value from; an audit row names its property by code only, prop is *)
(* kept for the properties.                                                *)
Action == {"created", "modified", "archived", "restored", "codeChanged", "reverted"}
Undoable == Action \ {"created", "reverted"}
Record == [action: Action, prop: PropId, code: Code, was: Content, now: Content,
           reverses: Nat]

(* diffPropertyAuditStates: the public fields an audit row mentions, and   *)
(* whether it names a sensitive field as changed.                          *)
Mentions(r) == {f \in Field \ Sensitive : r.was.custom[f] # r.now.custom[f]}
ChangedSensitive(r) == {f \in Sensitive : r.was.custom[f] # r.now.custom[f]}

PC == {"idle", "open", "prior", "generating", "creating",
       "undo", "undoResolved", "undoRead"}

(* version and seen: the row as opened on screen, or as an undo read it;   *)
(* prior: the handler's FindByID before its UPDATE.                        *)
SessionState == [pc: PC, id: PropId, version: Nat, seen: Content, prior: Content,
                 code: Code, attempts: 0..(Budget - 1), target: Nat]

AnyContent == [code |-> 1, status |-> "active", name |-> CHOOSE v \in Value : TRUE,
               custom |-> [f \in Field |-> CHOOSE v \in Value : TRUE]]
AnyId == CHOOSE p \in PropId : TRUE
NoRow == [live |-> FALSE, version |-> 0, content |-> AnyContent]
IdleSession == [pc |-> "idle", id |-> AnyId, version |-> 0, seen |-> AnyContent,
                prior |-> AnyContent, code |-> 1, attempts |-> 0, target |-> 0]

Init ==
    /\ row = [p \in PropId |-> NoRow]
    /\ log = <<>>
    /\ seq = 0
    /\ ses = [s \in Session |-> IdleSession]

At(s, pc) == ses[s].pc = pc
Set(s, state) == ses' = [ses EXCEPT ![s] = state]

(* CodeExists and the unique index span archived rows.                     *)
Taken(c) == \E p \in PropId : row[p].live /\ row[p].content.code = c
Free(c, p) == \A q \in PropId : row[q].live /\ row[q].content.code = c => q = p

(* The bound of the checks: the rows of the log, and one more for every    *)
(* property beyond the first that exists.  No handler reads the state it   *)
(* is about to change, or looks for a new code, when the log has no row    *)
(* left for its commit.                                                    *)
InBounds(p) == Len(log) + Cardinality({q \in PropId : row[q].live \/ q = p}) <= MaxLog
InBoundsToCreate == Len(log) + Cardinality(PropId) <= MaxLog

(* Mutant: a change of the code is committed without its audit row.        *)
WrittenUnlogged(p, content, r, s) ==
    /\ InBounds(p)
    /\ row' = [row EXCEPT ![p] = [live |-> TRUE, version |-> @.version + 1,
                                  content |-> content]]
    /\ log' = IF r.action = "codeChanged" THEN log ELSE Append(log, r)
    /\ Set(s, IdleSession)
    /\ UNCHANGED seq

(* One transaction: the row, its version and its audit row.                *)
Written(p, content, r, s) ==
    /\ InBounds(p)
    /\ row' = [row EXCEPT ![p] = [live |-> TRUE, version |-> @.version + 1,
                                  content |-> content]]
    /\ log' = Append(log, r)
    /\ Set(s, IdleSession)
    /\ UNCHANGED seq

-----------------------------------------------------------------------------
(* What the statements of the store make of a property.                    *)

Created(c, v, cv) == [code |-> c, status |-> "active", name |-> v, custom |-> cv]
Recoded(p, c) == [row[p].content EXCEPT !.code = c]
Archived(p, status) == [row[p].content EXCEPT !.status = status]
Restored(p) == [row[p].content EXCEPT !.status = "active"]

-----------------------------------------------------------------------------
(* Creating: handleCreateProperty.                                         *)

(* Mutant: the loop runs once more than its budget.                        *)
NextCodeOnceMore(s) ==
    /\ At(s, "idle") \/ At(s, "generating")
    /\ seq < MaxCode /\ InBoundsToCreate
    /\ seq' = seq + 1
    /\ IF ~Taken(seq + 1)
       THEN Set(s, [IdleSession EXCEPT !.pc = "creating", !.code = seq + 1])
       ELSE IF ses[s].attempts < Budget
       THEN Set(s, [IdleSession EXCEPT !.pc = "generating", !.attempts = ses[s].attempts + 1])
       ELSE Set(s, IdleSession)
    /\ UNCHANGED <<row, log>>

(* One turn of generateCode: nextval, then CodeExists.  The sequence does  *)
(* not roll back with the transaction.                                     *)
NextCode(s) ==
    /\ At(s, "idle") \/ At(s, "generating")
    /\ seq < MaxCode /\ InBoundsToCreate
    /\ seq' = seq + 1
    /\ IF ~Taken(seq + 1)
       THEN Set(s, [IdleSession EXCEPT !.pc = "creating", !.code = seq + 1])
       ELSE IF ses[s].attempts + 1 < Budget
       THEN Set(s, [IdleSession EXCEPT !.pc = "generating", !.attempts = ses[s].attempts + 1])
       ELSE Set(s, IdleSession)
    /\ UNCHANGED <<row, log>>

(* An administrator supplies the code: VerifyCodeIsAvailable.              *)
SupplyCode(s, c) ==
    /\ At(s, "idle")
    /\ InBoundsToCreate
    /\ ~Taken(c)
    /\ Set(s, [IdleSession EXCEPT !.pc = "creating", !.code = c])
    /\ UNCHANGED <<row, log, seq>>

(* Mutant: no unique index, only the earlier look-up.                      *)
InsertUnchecked(s, p) ==
    /\ At(s, "creating")
    /\ ~row[p].live
    /\ \E v \in Value, cv \in [Field -> Value] :
        LET content == Created(ses[s].code, v, cv) IN
        Written(p, content, [action |-> "created", prop |-> p, code |-> ses[s].code,
                             was |-> content, now |-> content, reverses |-> 0], s)

(* INSERT against the unique index, custom values, audit row, COMMIT.      *)
Insert(s, p) ==
    /\ At(s, "creating")
    /\ ~row[p].live
    /\ ~Taken(ses[s].code)
    /\ \E v \in Value, cv \in [Field -> Value] :
        LET content == Created(ses[s].code, v, cv) IN
        Written(p, content, [action |-> "created", prop |-> p, code |-> ses[s].code,
                             was |-> content, now |-> content, reverses |-> 0], s)

-----------------------------------------------------------------------------
(* Changing.                                                               *)

(* The person opens the property; the screen keeps its version.  The row   *)
(* and its custom values come from two statements, taken for one here.     *)
Open(s, p) ==
    /\ At(s, "idle")
    /\ row[p].live
    /\ Set(s, [IdleSession EXCEPT !.pc = "open", !.id = p, !.version = row[p].version,
                                  !.seen = row[p].content])
    /\ UNCHANGED <<row, log, seq>>

(* FindByID at the start of the update, archive and restore transactions.  *)
ReadPrior(s) ==
    /\ At(s, "open") /\ InBounds(ses[s].id)
    /\ Set(s, [ses[s] EXCEPT !.pc = "prior", !.prior = row[ses[s].id].content])
    /\ UNCHANGED <<row, log, seq>>

(* Mutant: the version is not compared.                                    *)
NoVersionCheck(s) == TRUE

(* WHERE id = $1 AND version = $n.                                         *)
VersionMatches(s) == row[ses[s].id].version = ses[s].version
IsActive(s) == row[ses[s].id].content.status = "active"

RecordOf(s, action, was, now, k) ==
    [action |-> action, prop |-> ses[s].id, code |-> now.code, was |-> was, now |-> now,
     reverses |-> k]
Change(s, action, was, now) ==
    Written(ses[s].id, now, RecordOf(s, action, was, now, 0), s)

(* Mutant: the prior state is taken from the row the UPDATE returned.      *)
UpdateReturnedPrior(s) ==
    /\ At(s, "prior") /\ VersionMatches(s) /\ IsActive(s)
    /\ LET current == row[ses[s].id].content IN
       \E v \in Value, cv \in [Field -> Value] :
        Change(s, "modified", [current EXCEPT !.name = v],
               [current EXCEPT !.name = v, !.custom = cv])

(* Mutant: an archived property can be edited.                             *)
UpdateArchived(s) ==
    /\ At(s, "prior") /\ VersionMatches(s)
    /\ LET current == row[ses[s].id].content IN
       \E v \in Value, cv \in [Field -> Value] :
        Change(s, "modified", [current EXCEPT !.name = ses[s].prior.name],
               [current EXCEPT !.name = v, !.custom = cv])

(* handleUpdateProperty: name, type and area of the audit row come from    *)
(* the prior read, custom values are read under the row lock and replaced  *)
(* as a whole.                                                             *)
Update(s) ==
    /\ At(s, "prior") /\ VersionMatches(s) /\ IsActive(s)
    /\ LET current == row[ses[s].id].content IN
       \E v \in Value, cv \in [Field -> Value] :
        Change(s, "modified", [current EXCEPT !.name = ses[s].prior.name],
               [current EXCEPT !.name = v, !.custom = cv])

Archive(s) ==
    /\ At(s, "prior") /\ VersionMatches(s) /\ IsActive(s)
    /\ LET current == row[ses[s].id].content IN
       \E status \in {"archived", "noted"} :
        Change(s, "archived", current, Archived(ses[s].id, status))

(* The note of the audit row comes from the prior read.                    *)
Restore(s) ==
    /\ At(s, "prior") /\ VersionMatches(s) /\ ~IsActive(s)
    /\ LET current == row[ses[s].id].content
           was == IF ses[s].prior.status = "noted" THEN "noted" ELSE "archived" IN
       Change(s, "restored", [current EXCEPT !.status = was], Restored(ses[s].id))

(* handleChangePropertyCode reads nothing first: the old code is returned  *)
(* by the UPDATE itself.                                                   *)
ChangeCode(s, c) ==
    /\ At(s, "open") /\ VersionMatches(s) /\ IsActive(s)
    /\ Free(c, ses[s].id)
    /\ LET current == row[ses[s].id].content IN
       Change(s, "codeChanged", current, Recoded(ses[s].id, c))

-----------------------------------------------------------------------------
(* Undo: handleUndoAuditRecord.                                            *)

IsReversed(k) == \E j \in DOMAIN log : log[j].reverses = k

(* Mutant: a change of a sensitive field does not stop the undo.           *)
UndoLoadSensitive(s, k) ==
    /\ At(s, "idle")
    /\ log[k].action \in Undoable
    /\ ~IsReversed(k)
    /\ Set(s, [IdleSession EXCEPT !.pc = "undo", !.target = k])
    /\ UNCHANGED <<row, log, seq>>

(* GetByID, CountReversalsOf and the refusals that look at the row only.   *)
UndoLoad(s, k) ==
    /\ At(s, "idle")
    /\ log[k].action \in Undoable
    /\ ~IsReversed(k)
    /\ log[k].action = "modified" => ChangedSensitive(log[k]) = {}
    /\ Set(s, [IdleSession EXCEPT !.pc = "undo", !.target = k])
    /\ UNCHANGED <<row, log, seq>>

(* Mutant: the code before the change is looked up.                        *)
UndoResolveByOldCode(s, p) ==
    /\ At(s, "undo")
    /\ row[p].live /\ row[p].content.code = log[ses[s].target].was.code
    /\ Set(s, [ses[s] EXCEPT !.pc = "undoResolved", !.id = p])
    /\ UNCHANGED <<row, log, seq>>

(* resolvePropertyIDForUndo takes a code that parses as a UUID for the     *)
(* identifier itself; the undo of a change of code never asks for that.    *)
ReadAsId(r) == r.action # "codeChanged" /\ r.code \in UuidCode

(* Otherwise resolvePropertyIDByCode: whoever holds the recorded code now. *)
UndoResolve(s, p) ==
    LET r == log[ses[s].target] IN
    /\ At(s, "undo")
    /\ row[p].live
    /\ IF ReadAsId(r) THEN p = IdOf[r.code] ELSE row[p].content.code = r.code
    /\ Set(s, [ses[s] EXCEPT !.pc = "undoResolved", !.id = p])
    /\ UNCHANGED <<row, log, seq>>

(* FindByID in the transaction of the undo.                                *)
UndoRead(s) ==
    /\ At(s, "undoResolved") /\ InBounds(ses[s].id)
    /\ log[ses[s].target].action = "archived" => ~IsActive(s)
    /\ log[ses[s].target].action = "restored" => IsActive(s)
    /\ Set(s, [ses[s] EXCEPT !.pc = "undoRead", !.version = row[ses[s].id].version,
                             !.prior = row[ses[s].id].content])
    /\ UNCHANGED <<row, log, seq>>

Undoing(s, action) ==
    At(s, "undoRead") /\ log[ses[s].target].action = action /\ VersionMatches(s)
Revert(s, was, now, content) ==
    Written(ses[s].id, content,
            [RecordOf(s, "reverted", was, now, ses[s].target) EXCEPT !.code = content.code], s)

(* Only the fields the audit row mentions are put back; its before and     *)
(* after are the recorded ones, swapped.                                   *)
UndoModified(s) ==
    /\ Undoing(s, "modified") /\ IsActive(s)
    /\ LET r == log[ses[s].target]
           current == row[ses[s].id].content IN
       Revert(s, r.now, r.was,
              [current EXCEPT
                !.name = IF r.was.name # r.now.name THEN r.was.name ELSE ses[s].prior.name,
                !.custom = [f \in Field |->
                    IF f \in Mentions(r) THEN r.was.custom[f] ELSE current.custom[f]]])

UndoArchived(s) ==
    /\ Undoing(s, "archived") /\ ~IsActive(s)
    /\ LET now == Restored(ses[s].id) IN
       Revert(s, ses[s].prior, now, now)

(* Archived again with the note the restore recorded.                      *)
UndoRestored(s) ==
    /\ Undoing(s, "restored") /\ IsActive(s)
    /\ LET current == row[ses[s].id].content
           now == Archived(ses[s].id, log[ses[s].target].was.status) IN
       Revert(s, current, now, now)

UndoCodeChanged(s) ==
    LET old == log[ses[s].target].was.code IN
    /\ Undoing(s, "codeChanged") /\ IsActive(s)
    /\ Free(old, ses[s].id)
    /\ LET now == Recoded(ses[s].id, old) IN
       Revert(s, ses[s].prior, now, now)

GiveUp(s) ==
    /\ ~At(s, "idle")
    /\ Set(s, IdleSession)
    /\ UNCHANGED <<row, log, seq>>

-----------------------------------------------------------------------------
Create(s) ==
    \/ NextCode(s)
    \/ \E c \in Code : SupplyCode(s, c)
    \/ \E p \in PropId : Insert(s, p)

Edit(s) ==
    \/ \E p \in PropId : Open(s, p)
    \/ ReadPrior(s)
    \/ Update(s) \/ Archive(s) \/ Restore(s)
    \/ \E c \in Code : ChangeCode(s, c)

Undo(s) ==
    \/ \E k \in DOMAIN log : UndoLoad(s, k)
    \/ \E p \in PropId : UndoResolve(s, p)
    \/ UndoRead(s)
    \/ UndoModified(s) \/ UndoArchived(s) \/ UndoRestored(s) \/ UndoCodeChanged(s)

Next == \E s \in Session : Create(s) \/ Edit(s) \/ Undo(s) \/ GiveUp(s)

Spec == Init /\ [][Next]_vars

-----------------------------------------------------------------------------
(* Properties that hold.                                                   *)

(* Every variable keeps its type; generateCode stays within its budget.    *)
TypeOK ==
    /\ row \in [PropId -> Row]
    /\ log \in Seq(Record)
    /\ seq \in 0..MaxCode
    /\ ses \in [Session -> SessionState]

(* FR-017: no two properties, active or archived, hold the same reference  *)
(* code, although every look-up of a code happens before its use.          *)
CodesUnique ==
    \A p, q \in PropId :
        row[p].live /\ row[q].live /\ row[p].content.code = row[q].content.code => p = q

(* Every change of a property has its audit row and every audit row its    *)
(* change: the version counts the rows about the property.                 *)
VersionCountsRecords ==
    \A p \in PropId :
        row[p].version = Cardinality({i \in DOMAIN log : log[i].prop = p})

(* The session whose request commits in this step, if any.                 *)
Commits(s) == ses[s].pc \in {"open", "prior"} /\ Len(log') > Len(log) /\ ses'[s].pc = "idle"
NewRecord == log'[Len(log')]

(* FR-020: a change is applied only to the property as its author saw it.  *)
NoLostUpdate ==
    [][\A s \in Session : Commits(s) => row[ses[s].id].content = ses[s].seen]_vars

(* FR-022c and FR-022e: an archived property keeps its code, its name and  *)
(* its values; archiving and restoring change nothing else.                *)
ArchivedFrozen ==
    [][\A p \in PropId :
        row[p].live /\ "active" # row[p].content.status =>
            row'[p].content = [row[p].content EXCEPT !.status = row'[p].content.status]]_vars

(* What the audit row says was there before and after is what was there,   *)
(* although the handlers read the prior state without a lock.              *)
AuditTruthful ==
    [][\A s \in Session : Commits(s) =>
        /\ NewRecord.was = row[NewRecord.prop].content
        /\ NewRecord.now = row'[NewRecord.prop].content
        /\ NewRecord.code = row'[NewRecord.prop].content.code]_vars

(* Undoing the last change of a property restores it exactly, values an    *)
(* audit row may not contain included: what it cannot restore it refuses.  *)
LastChangeOf(p) == {k \in DOMAIN log : log[k].prop = p /\
                        \A j \in DOMAIN log : log[j].prop = p => j <= k}
UndoRestoresLastChange ==
    [][Len(log') > Len(log) =>
        LET r == NewRecord IN
        r.reverses \in LastChangeOf(r.prop) =>
            row'[r.prop].content = log[r.reverses].was]_vars

(* An audit row names its property by the code it had then.  Resolving     *)
(* that code leads an undo to the property of the row, with two exceptions *)
(* the code has: the property has given the code up since, and whoever     *)
(* took it is found, or nobody; or the code reads as a UUID, and the       *)
(* property with that identifier is found, or nobody.                      *)
UndoFindsItsProperty ==
    [][\A s \in Session : At(s, "undo") /\ ses'[s].pc = "undoResolved" =>
        LET r == log[ses[s].target] IN
        \/ ses'[s].id = r.prop
        \/ row[r.prop].content.code # r.code
        \/ ReadAsId(r)]_vars

(* The detail implements the promise: whatever the handlers have read,     *)
(* locked or not, each commit is one decision of RegisterPromise about the *)
(* property as it is when it commits, and every other step changes nothing *)
(* that is promised.                                                       *)
Register == [p \in {q \in PropId : row[q].live} |-> row[p].content]

Promise == INSTANCE RegisterPromise WITH register <- Register

RegisterPromiseKept == Promise!Spec

-----------------------------------------------------------------------------
(* What the documents promise and the code does not keep.                  *)

(* handleUndoAuditRecord: refused when the record's version has moved on.  *)
UndoOnlyLastChange ==
    [][Len(log') > Len(log) /\ NewRecord.reverses # 0 =>
        NewRecord.reverses \in LastChangeOf(NewRecord.prop)]_vars
=============================================================================
