----------------------------- MODULE Catalogue ------------------------------
(***************************************************************************)
(* The catalogue an administrator keeps: the look-up lists, the custom     *)
(* fields with their choices, and what the properties hold of them, under  *)
(* requests that run at the same time.                                     *)
(*                                                                         *)
(* A request is one transaction at READ COMMITTED: it reads what it needs  *)
(* without locks, a statement at a time, and from its first write to its   *)
(* commit the rows it needs are locked, so that the writes are one step.   *)
(* Whatever makes a request fail rolls it back.                            *)
(*                                                                         *)
(* Property types and areas are the same code, one list stands for either. *)
(* Labels are canonical.  A custom field is a text, which may be           *)
(* sensitive, a dropdown or a multiselect; autocomplete and checkbox are   *)
(* stored as the text that is not sensitive is, one plain value.           *)
(***************************************************************************)
EXTENDS Integers, Sequences

CONSTANTS
    Lookup,         \* ids of look-up rows
    Field,          \* ids of custom fields
    Choice,         \* ids of choices
    Property,       \* properties
    Label,          \* canonical labels
    Request,        \* requests that may run at the same time
    None,           \* no label, choice or row
    Seed,           \* the look-up row that the migration inserts
    SeedLabel,      \* and its label
    MaxLog          \* bound on the audit records

ASSUME CatalogueAssumption ==
    /\ Seed \in Lookup /\ SeedLabel \in Label
    /\ Lookup \cap Field = {}
    /\ None \notin Lookup \cup Field \cup Choice \cup Label
    /\ {"unborn", "gone"} \cap (Label \cup Field) = {}
    /\ {"plain", "sealed"} \cap Choice = {}

VARIABLES
    label,          \* of every look-up row and field; "unborn" or "gone" without a row
    type,           \* field_type
    sensitive,      \* is_sensitive
    choiceOf,       \* the field of every choice; "unborn" or "gone" without a row
    lookupOf,       \* the look-up row a property refers to
    holds,          \* the values a property holds, by field
    log,            \* the audit records about the catalogue
    req             \* the requests

definitions == <<label, type, sensitive, choiceOf>>
values == <<lookupOf, holds>>
vars == <<definitions, values, log, req>>

-----------------------------------------------------------------------------
Entry == Lookup \cup Field
Type == {"text", "dropdown", "multiselect"}

(* What the rows of one property and field hold between them.              *)
Held == {{"plain"}, {"sealed"}} \cup SUBSET Choice

Action == {"created", "renamed", "removed", "reverted", "choiceAdded", "choiceRemoved"}

(* after is the label the record tells, "gone" for a removal and None for  *)
(* a record about a choice.                                                *)
Record == [action: Action, id: Entry, before: Label \cup {None},
           after: Label \cup {None, "gone"}, reverses: Nat]

(* pc names what the request has done so far: label or counts it has read. *)
PC == {"idle", "rename", "counted", "remove", "update", "updateChecked",
       "removeField", "removeFieldChecked", "undo", "save"}

RequestState == [pc: PC, id: Entry \cup {None}, seen: Label \cup {None},
                 cut: Choice \cup {None}, fields: SUBSET Field, reverses: Nat]

Idle == [pc |-> "idle", id |-> None, seen |-> None, cut |-> None, fields |-> {},
         reverses |-> 0]

Init ==
    /\ label = [e \in Entry |-> IF e = Seed THEN SeedLabel ELSE "unborn"]
    /\ type = [f \in Field |-> "text"]
    /\ sensitive = [f \in Field |-> FALSE]
    /\ choiceOf = [c \in Choice |-> "unborn"]
    /\ lookupOf = [p \in Property |-> None]
    /\ holds = [p \in Property |-> [f \in Field |-> {}]]
    /\ log = <<>>
    /\ req = [r \in Request |-> Idle]

-----------------------------------------------------------------------------
Exists(e) == label[e] \in Label
ChoiceExists(c) == choiceOf[c] \in Field

(* The list whose labels are unique together.                              *)
ListOf(e) == IF e \in Lookup THEN Lookup ELSE Field

(* Mutant: the unique index is on what renaming does not rewrite.          *)
TakenNever(e, l) == FALSE

(* The unique index on the normalised label.                               *)
Taken(e, l) == \E d \in ListOf(e) : d # e /\ label[d] = l

LookupUsed(e) == \E p \in Property : lookupOf[p] = e
FieldUsed(f) == \E p \in Property : holds[p][f] # {}
ChoiceUsed(c) == \E p \in Property, f \in Field : c \in holds[p][f]

Entered(action, e, before, after, reverses) ==
    <<[action |-> action, id |-> e, before |-> before, after |-> after,
       reverses |-> reverses]>>

Write(records) ==
    /\ Len(log) + Len(records) <= MaxLog
    /\ log' = log \o records

Begin(r, s) ==
    /\ req[r] = Idle
    /\ req' = [req EXCEPT ![r] = s]
    /\ UNCHANGED <<definitions, values, log>>

Continue(r, s) ==
    /\ req' = [req EXCEPT ![r] = s]
    /\ UNCHANGED <<definitions, values, log>>

Finish(r) == req' = [req EXCEPT ![r] = Idle]

(* A refusal that a later statement makes, an error of the database or a   *)
(* client that went away: the transaction is rolled back.                  *)
Refuse(r) ==
    /\ req[r] # Idle
    /\ Finish(r)
    /\ UNCHANGED <<definitions, values, log>>

-----------------------------------------------------------------------------
(* Look-up rows.                                                           *)

CreateLookup(e, l) ==
    /\ label[e] = "unborn"
    /\ ~Taken(e, l)
    /\ label' = [label EXCEPT ![e] = l]
    /\ Write(Entered("created", e, None, l, 0))
    /\ UNCHANGED <<type, sensitive, choiceOf, values, req>>

BeginRename(r, e) ==
    /\ Exists(e)
    /\ Begin(r, [Idle EXCEPT !.pc = "rename", !.id = e, !.seen = label[e]])

(* Mutant: a label that was read as the wanted one needs no record.        *)
RenameLookupUntold(r) ==
    LET e == req[r].id IN
    /\ req[r].pc = "rename"
    /\ Exists(e)
    /\ \E l \in Label :
        /\ ~Taken(e, l)
        /\ label' = [label EXCEPT ![e] = l]
        /\ Write(IF req[r].seen = l THEN <<>> ELSE Entered("renamed", e, req[r].seen, l, 0))
    /\ Finish(r)
    /\ UNCHANGED <<type, sensitive, choiceOf, values>>

RenameLookup(r) ==
    LET e == req[r].id IN
    /\ req[r].pc = "rename"
    /\ Exists(e)
    /\ \E l \in Label :
        /\ ~Taken(e, l)
        /\ label' = [label EXCEPT ![e] = l]
        /\ Write(Entered("renamed", e, req[r].seen, l, 0))
    /\ Finish(r)
    /\ UNCHANGED <<type, sensitive, choiceOf, values>>

(* The count of the usages, for the message of the refusal.                *)
CountLookup(r, e) ==
    /\ label[e] # "unborn"
    /\ ~LookupUsed(e)
    /\ Begin(r, [Idle EXCEPT !.pc = "counted", !.id = e])

LookupLabelByID(r) ==
    LET e == req[r].id IN
    /\ req[r].pc = "counted"
    /\ Continue(r, [req[r] EXCEPT !.pc = "remove",
                                  !.seen = IF Exists(e) THEN label[e] ELSE None])

(* Mutant: without the foreign key, the earlier count is trusted.          *)
DeleteLookupCounted(r) ==
    LET e == req[r].id IN
    /\ req[r].pc = "remove"
    /\ label' = [label EXCEPT ![e] = "gone"]
    /\ Write(Entered("removed", e, req[r].seen, "gone", 0))
    /\ Finish(r)
    /\ UNCHANGED <<type, sensitive, choiceOf, values>>

(* ON DELETE RESTRICT decides.  A row that is gone already is recorded as  *)
(* removed once more.                                                      *)
DeleteLookup(r) ==
    LET e == req[r].id IN
    /\ req[r].pc = "remove"
    /\ ~LookupUsed(e)
    /\ label' = [label EXCEPT ![e] = "gone"]
    /\ Write(Entered("removed", e, req[r].seen, "gone", 0))
    /\ Finish(r)
    /\ UNCHANGED <<type, sensitive, choiceOf, values>>

-----------------------------------------------------------------------------
(* Custom fields.                                                          *)

(* What the store refuses: only a text is sensitive, and a dropdown or     *)
(* multiselect needs a choice (at most one is given here).                 *)
Definable(t, s, c) ==
    /\ s => t = "text"
    /\ t # "text" => c # None

(* The rows of custom_field_choice after one field lost and got some.      *)
Rechosen(f, cut, add) ==
    [c \in Choice |-> CASE c \in cut -> "gone"
                        [] c = add -> f
                        [] OTHER -> choiceOf[c]]

CreateCustomField(f, l, t, s, c) ==
    /\ label[f] = "unborn"
    /\ ~Taken(f, l)
    /\ Definable(t, s, c)
    /\ c # None => choiceOf[c] = "unborn"
    /\ label' = [label EXCEPT ![f] = l]
    /\ type' = [type EXCEPT ![f] = t]
    /\ sensitive' = [sensitive EXCEPT ![f] = s]
    /\ choiceOf' = Rechosen(f, {}, c)
    /\ Write(Entered("created", f, None, l, 0))
    /\ UNCHANGED <<values, req>>

BeginUpdate(r, f) ==
    /\ Exists(f)
    /\ Begin(r, [Idle EXCEPT !.pc = "update", !.id = f, !.seen = label[f]])

(* The count of the properties that hold the choice to be removed.         *)
CheckChoice(r, c) ==
    /\ req[r].pc = "update"
    /\ c # None => ~ChoiceUsed(c)
    /\ Continue(r, [req[r] EXCEPT !.pc = "updateChecked", !.cut = c])

(* The choice is removed where it is one of this field, and audited in any *)
(* case; the label is audited when it is not the one that was read.        *)
UpdateCustomField(r) ==
    LET f == req[r].id
        cut == {c \in Choice : c = req[r].cut /\ choiceOf[c] = f}
    IN
    /\ req[r].pc = "updateChecked"
    /\ Exists(f)
    /\ \A c \in cut : ~ChoiceUsed(c)
    /\ \E l \in Label, add \in Choice \cup {None} :
        /\ ~Taken(f, l)
        /\ add # None => choiceOf[add] = "unborn"
        /\ label' = [label EXCEPT ![f] = l]
        /\ choiceOf' = Rechosen(f, cut, add)
        /\ LET renamed == IF req[r].seen = l THEN <<>>
                          ELSE Entered("renamed", f, req[r].seen, l, 0)
               added == IF add = None THEN <<>>
                        ELSE Entered("choiceAdded", f, None, None, 0)
               removed == IF req[r].cut = None THEN <<>>
                          ELSE Entered("choiceRemoved", f, None, None, 0)
           IN  Write(renamed \o added \o removed)
    /\ Finish(r)
    /\ UNCHANGED <<type, sensitive, values>>

BeginDeleteField(r, f) ==
    /\ Exists(f)
    /\ Begin(r, [Idle EXCEPT !.pc = "removeField", !.id = f, !.seen = label[f]])

CountField(r) ==
    /\ req[r].pc = "removeField"
    /\ ~FieldUsed(req[r].id)
    /\ Continue(r, [req[r] EXCEPT !.pc = "removeFieldChecked"])

(* The foreign keys of values and of choices refuse.                       *)
DeleteCustomField(r) ==
    LET f == req[r].id IN
    /\ req[r].pc = "removeFieldChecked"
    /\ ~FieldUsed(f)
    /\ \A c \in Choice : choiceOf[c] # f
    /\ label' = [label EXCEPT ![f] = "gone"]
    /\ Write(Entered("removed", f, req[r].seen, "gone", 0))
    /\ Finish(r)
    /\ UNCHANGED <<type, sensitive, choiceOf, values>>

-----------------------------------------------------------------------------
(* Undo.                                                                   *)

Reversed(i) == \E j \in DOMAIN log : log[j].reverses = i

(* The record and its reversals are read outside the transaction.          *)
BeginUndo(r, i) ==
    /\ log[i].action \in {"renamed", "choiceAdded", "choiceRemoved"}
    /\ ~Reversed(i)
    /\ Begin(r, [Idle EXCEPT !.pc = "undo", !.reverses = i])

(* The label an undo writes.  To undo an added choice it would write an    *)
(* empty one, which the length check refuses; the record of a removed      *)
(* choice lacks what its undo asks for.  Both always end in an error.      *)
UndoneLabel(i) == IF log[i].action = "renamed" THEN log[i].before ELSE None

(* The label becomes what the record had before, whatever it is now; the   *)
(* new record tells that label twice.                                      *)
UndoRename(r) ==
    LET i == req[r].reverses
        e == log[i].id
        l == UndoneLabel(i)
    IN
    /\ req[r].pc = "undo"
    /\ l # None
    /\ Exists(e)
    /\ ~Taken(e, l)
    /\ label' = [label EXCEPT ![e] = l]
    /\ Write(Entered("reverted", e, l, l, i))
    /\ Finish(r)
    /\ UNCHANGED <<type, sensitive, choiceOf, values>>

-----------------------------------------------------------------------------
(* The values of a property.                                               *)

(* A save names fields that exist when their definitions are loaded.       *)
LoadDefinitions(r, fields) ==
    /\ \A f \in fields : Exists(f)
    /\ Begin(r, [Idle EXCEPT !.pc = "save", !.fields = fields])

(* What saveOne stores for a field.  Only the foreign key looks at a       *)
(* choice, and it does not ask which field the choice is of.               *)
Storable(f) ==
    {{}} \cup
    CASE type[f] = "text" -> IF sensitive[f] THEN {{"sealed"}} ELSE {{"plain"}}
      [] type[f] = "dropdown" -> {{c} : c \in {d \in Choice : ChoiceExists(d)}}
      [] type[f] = "multiselect" -> SUBSET {c \in Choice : ChoiceExists(c)}

(* The property is created or updated: its old values are deleted and the  *)
(* given ones inserted, the foreign keys are checked.                      *)
SaveCustomValues(r, p, e) ==
    /\ req[r].pc = "save"
    /\ Exists(e)
    /\ \E v \in [Field -> Held] :
        /\ \A f \in Field :
            /\ f \in req[r].fields => v[f] \in Storable(f)
            /\ f \notin req[r].fields => v[f] = {}
            /\ v[f] # {} => Exists(f)
        /\ holds' = [holds EXCEPT ![p] = v]
    /\ lookupOf' = [lookupOf EXCEPT ![p] = e]
    /\ Finish(r)
    /\ UNCHANGED <<definitions, log>>

-----------------------------------------------------------------------------
Create ==
    \/ \E e \in Lookup, l \in Label : CreateLookup(e, l)
    \/ \E f \in Field, l \in Label, t \in Type, s \in BOOLEAN, c \in Choice \cup {None} :
           CreateCustomField(f, l, t, s, c)

Start(r) ==
    \/ \E e \in Lookup : BeginRename(r, e) \/ CountLookup(r, e)
    \/ \E f \in Field : BeginUpdate(r, f) \/ BeginDeleteField(r, f)
    \/ \E i \in DOMAIN log : BeginUndo(r, i)
    \/ \E fields \in SUBSET Field : LoadDefinitions(r, fields)

Proceed(r) ==
    \/ RenameLookup(r)
    \/ LookupLabelByID(r) \/ DeleteLookup(r)
    \/ (\E c \in Choice \cup {None} : CheckChoice(r, c)) \/ UpdateCustomField(r)
    \/ CountField(r) \/ DeleteCustomField(r)
    \/ UndoRename(r)
    \/ \E p \in Property, e \in Lookup : SaveCustomValues(r, p, e)

Next == Create \/ \E r \in Request : Start(r) \/ Proceed(r) \/ Refuse(r)

Spec == Init /\ [][Next]_vars

-----------------------------------------------------------------------------
(* Properties that hold.                                                   *)

(* Every variable keeps its type, and no two rows of a list share a label. *)
TypeOK ==
    /\ label \in [Entry -> Label \cup {"unborn", "gone"}]
    /\ type \in [Field -> Type]
    /\ sensitive \in [Field -> BOOLEAN]
    /\ choiceOf \in [Choice -> Field \cup {"unborn", "gone"}]
    /\ lookupOf \in [Property -> Lookup \cup {None}]
    /\ holds \in [Property -> [Field -> Held]]
    /\ log \in Seq(Record)
    /\ req \in [Request -> RequestState]
    /\ \A d, e \in Entry : Exists(d) /\ label[d] = label[e] /\ ListOf(d) = ListOf(e) => d = e

(* What a property holds is never left hanging by a removal that ran at    *)
(* the same time: its look-up row, the fields it has values of and the     *)
(* choices among them all exist, and so does the field of every choice.    *)
(* A value is sealed exactly when its field is sensitive.                  *)
ValuesAreSound ==
    /\ \A p \in Property : lookupOf[p] # None => Exists(lookupOf[p])
    /\ \A p \in Property, f \in Field : holds[p][f] # {} =>
        /\ Exists(f)
        /\ \A c \in holds[p][f] \cap Choice : ChoiceExists(c)
        /\ IF sensitive[f] THEN holds[p][f] = {"sealed"} ELSE "sealed" \notin holds[p][f]
    /\ \A c \in Choice : ChoiceExists(c) => Exists(choiceOf[c])

(* A record of the same commit tells every change of a label, and what a   *)
(* record tells is what the row then has.  The one change that is not told *)
(* is an update of a field that asks for the label it has read, when the   *)
(* label was changed in between.                                           *)
ChangesAreTold ==
    [][LET new == (Len(log) + 1)..Len(log') IN
       /\ \A i \in new : log'[i].after # None => label'[log'[i].id] = log'[i].after
       /\ \A e \in Entry : label'[e] # label[e] =>
            \/ \E i \in new : log'[i].id = e /\ log'[i].after = label'[e]
            \/ \E r \in Request :
                /\ req[r].pc = "updateChecked" /\ req[r].id = e
                /\ req[r].seen = label'[e]]_vars
=============================================================================
