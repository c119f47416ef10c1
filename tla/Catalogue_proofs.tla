------------------------- MODULE Catalogue_proofs ---------------------------
(* Proofs about Catalogue for any ids, labels and requests.                *)
EXTENDS Catalogue, SequenceTheorems, TLAPS

USE CatalogueAssumption

(* The components of a typed state.                                        *)
Shapes ==
    /\ label \in [Entry -> Label \cup {"unborn", "gone"}]
    /\ type \in [Field -> Type]
    /\ sensitive \in [Field -> BOOLEAN]
    /\ choiceOf \in [Choice -> Field \cup {"unborn", "gone"}]
    /\ lookupOf \in [Property -> Lookup \cup {None}]
    /\ holds \in [Property -> [Field -> Held]]
    /\ log \in Seq(Record)
    /\ req \in [Request -> RequestState]

Distinct ==
    \A d, e \in Entry : Exists(d) /\ label[d] = label[e] /\ ListOf(d) = ListOf(e) => d = e

(* A request that is past its beginning has an entry of the right list.    *)
TargetOf(s) ==
    /\ s.pc \in {"rename", "counted", "remove"} => s.id \in Lookup
    /\ s.pc \in {"update", "updateChecked", "removeField", "removeFieldChecked"} =>
           s.id \in Field
    /\ s.pc = "undo" => s.reverses \in DOMAIN log

Targets == \A r \in Request : TargetOf(req[r])

(* Only a text is sensitive, whatever its type was before it was created.  *)
TextsOnly == \A f \in Field : sensitive[f] => type[f] = "text"

IInv == Shapes /\ Distinct /\ Targets /\ TextsOnly

LEMMA TypeParts == TypeOK <=> Shapes /\ Distinct
BY DEF TypeOK, Shapes, Distinct

LEMMA IdleTyped == Idle \in RequestState /\ Idle.pc = "idle"
BY DEF Idle, RequestState, PC

(* What is written to the log is a sequence of records, and the log keeps  *)
(* what it had.                                                            *)
LEMMA EnteredTyped ==
    ASSUME NEW action \in Action, NEW e \in Entry, NEW before \in Label \cup {None},
           NEW after \in Label \cup {None, "gone"}, NEW reverses \in Nat
    PROVE  Entered(action, e, before, after, reverses) \in Seq(Record)
<1> DEFINE rec == [action |-> action, id |-> e, before |-> before, after |-> after,
                   reverses |-> reverses]
<1>1. rec \in Record
  BY DEF Record
<1>2. Entered(action, e, before, after, reverses) = <<rec>>
  BY DEF Entered
<1> HIDE DEF rec
<1> QED
  BY <1>1, <1>2

LEMMA WriteTyped ==
    ASSUME log \in Seq(Record), NEW records \in Seq(Record), Write(records)
    PROVE  /\ log' \in Seq(Record)
           /\ DOMAIN log \subseteq DOMAIN log'
           /\ \A i \in DOMAIN log : log'[i] = log[i]
<1>1. log' = log \o records
  BY DEF Write
<1>2. log' \in Seq(Record) /\ Len(log') = Len(log) + Len(records)
  BY <1>1
<1>3. Len(log) \in Nat /\ Len(records) \in Nat
  OBVIOUS
<1>4. DOMAIN log = 1..Len(log) /\ DOMAIN log' = 1..Len(log')
  BY <1>2
<1>5. \A i \in 1..Len(log) : log'[i] = log[i]
  BY <1>1
<1> QED
  BY <1>2, <1>3, <1>4, <1>5

(* A relabelling that the unique index accepts keeps labels distinct.      *)
LEMMA RelabelKeeps ==
    ASSUME Shapes, Distinct, NEW e \in Entry, NEW l \in Label, ~Taken(e, l),
           label' = [label EXCEPT ![e] = l]
    PROVE  /\ label' \in [Entry -> Label \cup {"unborn", "gone"}]
           /\ Distinct'
<1>1. /\ label' \in [Entry -> Label \cup {"unborn", "gone"}]
      /\ label'[e] = l
      /\ \A d \in Entry \ {e} : label'[d] = label[d]
  BY DEF Shapes
<1>2. ASSUME NEW c \in Entry, NEW d \in Entry,
             Exists(c)', label'[c] = label'[d], ListOf(c) = ListOf(d)
      PROVE  c = d
  <2>1. \A x \in Entry : x \in ListOf(x)
    BY DEF ListOf, Entry
  <2>2. CASE c = e
    BY <1>1, <1>2, <2>1, <2>2 DEF Taken
  <2>3. CASE d = e
    BY <1>1, <1>2, <2>1, <2>3 DEF Taken
  <2>4. CASE c # e /\ d # e
    BY <1>1, <1>2, <2>4 DEF Distinct, Exists
  <2> QED
    BY <2>2, <2>3, <2>4
<1> QED
  BY <1>1, <1>2 DEF Distinct, ListOf

(* So does a removal.                                                      *)
LEMMA RemoveKeeps ==
    ASSUME Shapes, Distinct, NEW e \in Entry, label' = [label EXCEPT ![e] = "gone"]
    PROVE  /\ label' \in [Entry -> Label \cup {"unborn", "gone"}]
           /\ Distinct'
<1>1. /\ label' \in [Entry -> Label \cup {"unborn", "gone"}]
      /\ label'[e] = "gone"
      /\ \A d \in Entry \ {e} : label'[d] = label[d]
  BY DEF Shapes
<1> QED
  BY <1>1 DEF Distinct, Exists, ListOf

(* The end of a request, and any other change of one request.              *)
LEMMA RequestKeeps ==
    ASSUME Shapes, Targets, NEW r \in Request, NEW s \in RequestState,
           req' = [req EXCEPT ![r] = s], TargetOf(s)', DOMAIN log \subseteq DOMAIN log'
    PROVE  req' \in [Request -> RequestState] /\ Targets'
<1>1. /\ req' \in [Request -> RequestState]
      /\ req'[r] = s
      /\ \A q \in Request \ {r} : req'[q] = req[q]
  BY DEF Shapes
<1>2. ASSUME NEW q \in Request
      PROVE  TargetOf(req[q])'
  <2>1. CASE q = r
    BY <1>1, <2>1 DEF TargetOf
  <2>2. CASE q # r
    BY <1>1, <2>2 DEF Targets, TargetOf
  <2> QED
    BY <2>1, <2>2
<1> QED
  BY <1>1, <1>2 DEF Targets

(* The invariant holds at the beginning.                                   *)
LEMMA InitIInv == Init => IInv
<1> SUFFICES ASSUME Init PROVE IInv
  OBVIOUS
<1>1. Shapes
  BY IdleTyped DEF Init, Shapes, Type, Held, Entry
<1>2. Distinct
  BY DEF Init, Distinct, Exists
<1>3. Targets
  BY IdleTyped DEF Init, Targets, TargetOf
<1>4. TextsOnly
  BY DEF Init, TextsOnly
<1> QED
  BY <1>1, <1>2, <1>3, <1>4 DEF IInv

(* Some parts of a state, for the steps below.                             *)
LEMMA Typed ==
    ASSUME IInv, NEW r \in Request
    PROVE  /\ req[r] \in RequestState
           /\ req[r].pc \in PC
           /\ req[r].seen \in Label \cup {None}
           /\ req[r].cut \in Choice \cup {None}
           /\ req[r].fields \in SUBSET Field
           /\ req[r].reverses \in Nat
           /\ TargetOf(req[r])
BY DEF IInv, Shapes, RequestState, Targets

(* A request that begins or goes on, touching nothing but itself.          *)
LEMMA ContinueKeeps ==
    ASSUME IInv, NEW r \in Request, NEW s \in RequestState, TargetOf(s), Continue(r, s)
    PROVE  IInv'
<1>1. /\ req' = [req EXCEPT ![r] = s]
      /\ UNCHANGED <<label, type, sensitive, choiceOf, lookupOf, holds, log>>
  BY DEF Continue, definitions, values
<1>2. TargetOf(s)'
  BY <1>1 DEF TargetOf
<1>3. req' \in [Request -> RequestState] /\ Targets'
  BY <1>1, <1>2, RequestKeeps DEF IInv
<1>4. Shapes' /\ Distinct'
  BY <1>1, <1>3 DEF IInv, Shapes, Distinct, Exists, ListOf
<1>5. TextsOnly'
  BY <1>1 DEF IInv, TextsOnly
<1> QED
  BY <1>3, <1>4, <1>5 DEF IInv

(* A request that ends; it may have written.                               *)
LEMMA FinishKeeps ==
    ASSUME Shapes, Targets, NEW r \in Request, Finish(r), DOMAIN log \subseteq DOMAIN log'
    PROVE  req' \in [Request -> RequestState] /\ Targets'
<1>1. TargetOf(Idle)'
  BY IdleTyped DEF TargetOf
<1> QED
  BY <1>1, IdleTyped, RequestKeeps DEF Finish

(* A relabelling that ends a request.                                      *)
LEMMA WrittenKeeps ==
    ASSUME IInv, NEW r \in Request, NEW records \in Seq(Record), Write(records), Finish(r),
           label' \in [Entry -> Label \cup {"unborn", "gone"}], Distinct',
           choiceOf' \in [Choice -> Field \cup {"unborn", "gone"}],
           UNCHANGED <<type, sensitive, lookupOf, holds>>
    PROVE  IInv'
<1>1. log' \in Seq(Record) /\ DOMAIN log \subseteq DOMAIN log'
  BY WriteTyped DEF IInv, Shapes
<1>2. req' \in [Request -> RequestState] /\ Targets'
  BY <1>1, FinishKeeps DEF IInv
<1>3. TextsOnly'
  BY DEF IInv, TextsOnly
<1> QED
  BY <1>1, <1>2, <1>3 DEF IInv, Shapes

(* The beginnings and the steps that only read.                            *)
LEMMA StartKeeps ==
    ASSUME IInv, NEW r \in Request, Start(r)
    PROVE  IInv'
<1> USE DEF Entry
<1>1. ASSUME NEW s \in RequestState, TargetOf(s), Begin(r, s)
      PROVE  IInv'
  BY <1>1, ContinueKeeps DEF Begin, Continue
<1>2. ASSUME NEW e \in Lookup, BeginRename(r, e)
      PROVE  IInv'
  <2>1. PICK s : s = [Idle EXCEPT !.pc = "rename", !.id = e, !.seen = label[e]]
    OBVIOUS
  <2>2. s \in RequestState /\ s.pc = "rename" /\ s.id = e
    BY <1>2, <2>1 DEF Idle, RequestState, PC, BeginRename, Exists
  <2> QED
    BY <1>1, <1>2, <2>1, <2>2 DEF BeginRename, TargetOf
<1>3. ASSUME NEW e \in Lookup, CountLookup(r, e)
      PROVE  IInv'
  <2>1. PICK s : s = [Idle EXCEPT !.pc = "counted", !.id = e]
    OBVIOUS
  <2>2. s \in RequestState /\ s.pc = "counted" /\ s.id = e
    BY <2>1 DEF Idle, RequestState, PC
  <2> QED
    BY <1>1, <1>3, <2>1, <2>2 DEF CountLookup, TargetOf
<1>4. ASSUME NEW f \in Field, BeginUpdate(r, f)
      PROVE  IInv'
  <2>1. PICK s : s = [Idle EXCEPT !.pc = "update", !.id = f, !.seen = label[f]]
    OBVIOUS
  <2>2. s \in RequestState /\ s.pc = "update" /\ s.id = f
    BY <1>4, <2>1 DEF Idle, RequestState, PC, BeginUpdate, Exists
  <2> QED
    BY <1>1, <1>4, <2>1, <2>2 DEF BeginUpdate, TargetOf
<1>5. ASSUME NEW f \in Field, BeginDeleteField(r, f)
      PROVE  IInv'
  <2>1. PICK s : s = [Idle EXCEPT !.pc = "removeField", !.id = f, !.seen = label[f]]
    OBVIOUS
  <2>2. s \in RequestState /\ s.pc = "removeField" /\ s.id = f
    BY <1>5, <2>1 DEF Idle, RequestState, PC, BeginDeleteField, Exists
  <2> QED
    BY <1>1, <1>5, <2>1, <2>2 DEF BeginDeleteField, TargetOf
<1>6. ASSUME NEW i \in DOMAIN log, BeginUndo(r, i)
      PROVE  IInv'
  <2>1. PICK s : s = [Idle EXCEPT !.pc = "undo", !.reverses = i]
    OBVIOUS
  <2>2. i \in Nat
    BY DEF IInv, Shapes
  <2>3. s \in RequestState /\ s.pc = "undo" /\ s.reverses = i
    BY <2>1, <2>2 DEF Idle, RequestState, PC
  <2> QED
    BY <1>1, <1>6, <2>1, <2>3 DEF BeginUndo, TargetOf
<1>7. ASSUME NEW fields \in SUBSET Field, LoadDefinitions(r, fields)
      PROVE  IInv'
  <2>1. PICK s : s = [Idle EXCEPT !.pc = "save", !.fields = fields]
    OBVIOUS
  <2>2. s \in RequestState /\ s.pc = "save"
    BY <2>1 DEF Idle, RequestState, PC
  <2> QED
    BY <1>1, <1>7, <2>1, <2>2 DEF LoadDefinitions, TargetOf
<1> QED
  BY <1>2, <1>3, <1>4, <1>5, <1>6, <1>7 DEF Start

LEMMA ReadKeeps ==
    ASSUME IInv, NEW r \in Request,
           LookupLabelByID(r) \/ CountField(r) \/ \E c \in Choice \cup {None} : CheckChoice(r, c)
    PROVE  IInv'
<1>0. req[r] \in RequestState /\ TargetOf(req[r])
  BY Typed
<1>1. CASE LookupLabelByID(r)
  <2>1. PICK s : s = [req[r] EXCEPT !.pc = "remove",
                          !.seen = IF Exists(req[r].id) THEN label[req[r].id] ELSE None]
    OBVIOUS
  <2>2. s \in RequestState /\ s.pc = "remove" /\ s.id = req[r].id
    BY <1>0, <2>1 DEF RequestState, PC, Exists
  <2>3. TargetOf(s)
    BY <1>0, <1>1, <2>2 DEF TargetOf, LookupLabelByID
  <2> QED
    BY <1>1, <2>1, <2>2, <2>3, ContinueKeeps DEF LookupLabelByID
<1>2. CASE CountField(r)
  <2>1. PICK s : s = [req[r] EXCEPT !.pc = "removeFieldChecked"]
    OBVIOUS
  <2>2. s \in RequestState /\ s.pc = "removeFieldChecked" /\ s.id = req[r].id
    BY <1>0, <2>1 DEF RequestState, PC
  <2>3. TargetOf(s)
    BY <1>0, <1>2, <2>2 DEF TargetOf, CountField
  <2> QED
    BY <1>2, <2>1, <2>2, <2>3, ContinueKeeps DEF CountField
<1>3. ASSUME NEW c \in Choice \cup {None}, CheckChoice(r, c)
      PROVE  IInv'
  <2>1. PICK s : s = [req[r] EXCEPT !.pc = "updateChecked", !.cut = c]
    OBVIOUS
  <2>2. s \in RequestState /\ s.pc = "updateChecked" /\ s.id = req[r].id
    BY <1>0, <2>1 DEF RequestState, PC
  <2>3. TargetOf(s)
    BY <1>0, <1>3, <2>2 DEF TargetOf, CheckChoice
  <2> QED
    BY <1>3, <2>1, <2>2, <2>3, ContinueKeeps DEF CheckChoice
<1> QED
  BY <1>1, <1>2, <1>3

(* The records an update of a field writes.                                *)
LEMMA UpdateRecords ==
    ASSUME IInv, NEW r \in Request, NEW l \in Label, NEW add \in Choice \cup {None},
           req[r].id \in Field
    PROVE  (IF req[r].seen = l THEN <<>> ELSE Entered("renamed", req[r].id, req[r].seen, l, 0))
           \o (IF add = None THEN <<>> ELSE Entered("choiceAdded", req[r].id, None, None, 0))
           \o (IF req[r].cut = None THEN <<>>
               ELSE Entered("choiceRemoved", req[r].id, None, None, 0)) \in Seq(Record)
<1>1. Entered("renamed", req[r].id, req[r].seen, l, 0) \in Seq(Record)
  BY EnteredTyped, Typed DEF Action, Entry
<1>2. Entered("choiceAdded", req[r].id, None, None, 0) \in Seq(Record)
  BY EnteredTyped DEF Action, Entry
<1>3. Entered("choiceRemoved", req[r].id, None, None, 0) \in Seq(Record)
  BY EnteredTyped DEF Action, Entry
<1>4. <<>> \in Seq(Record)
  OBVIOUS
<1>5. PICK a, b, c : /\ a = IF req[r].seen = l THEN <<>>
                             ELSE Entered("renamed", req[r].id, req[r].seen, l, 0)
                     /\ b = IF add = None THEN <<>>
                             ELSE Entered("choiceAdded", req[r].id, None, None, 0)
                     /\ c = IF req[r].cut = None THEN <<>>
                             ELSE Entered("choiceRemoved", req[r].id, None, None, 0)
  OBVIOUS
<1>6. a \in Seq(Record) /\ b \in Seq(Record) /\ c \in Seq(Record)
  BY <1>1, <1>2, <1>3, <1>4, <1>5
<1>7. a \o b \o c \in Seq(Record)
  BY <1>6
<1> QED
  BY <1>5, <1>7

(* The steps that write and commit.                                        *)
LEMMA CreateKeeps == IInv /\ Create => IInv'
<1> SUFFICES ASSUME IInv, Create PROVE IInv'
  OBVIOUS
<1>1. ASSUME NEW e \in Entry, NEW l \in Label, ~Taken(e, l),
             label' = [label EXCEPT ![e] = l], Write(Entered("created", e, None, l, 0)),
             type' \in [Field -> Type], sensitive' \in [Field -> BOOLEAN],
             choiceOf' \in [Choice -> Field \cup {"unborn", "gone"}], TextsOnly',
             UNCHANGED <<values, req>>
      PROVE  IInv'
  <2>1. Entered("created", e, None, l, 0) \in Seq(Record)
    BY EnteredTyped DEF Action
  <2>2. log' \in Seq(Record) /\ DOMAIN log \subseteq DOMAIN log'
    BY <1>1, <2>1, WriteTyped DEF IInv, Shapes
  <2>3. label' \in [Entry -> Label \cup {"unborn", "gone"}] /\ Distinct'
    BY <1>1, RelabelKeeps DEF IInv
  <2>4. Targets'
    BY <1>1, <2>2 DEF IInv, Targets, TargetOf
  <2>5. Shapes'
    BY <1>1, <2>2, <2>3 DEF IInv, Shapes, values
  <2> QED
    BY <1>1, <2>3, <2>4, <2>5 DEF IInv
<1>2. ASSUME NEW e \in Lookup, NEW l \in Label, CreateLookup(e, l)
      PROVE  IInv'
  BY <1>1, <1>2 DEF CreateLookup, Entry, IInv, Shapes, TextsOnly
<1>3. ASSUME NEW f \in Field, NEW l \in Label, NEW t \in Type, NEW s \in BOOLEAN,
             NEW c \in Choice \cup {None}, CreateCustomField(f, l, t, s, c)
      PROVE  IInv'
  <2>1. /\ type' \in [Field -> Type]
        /\ sensitive' \in [Field -> BOOLEAN]
        /\ choiceOf' \in [Choice -> Field \cup {"unborn", "gone"}]
    BY <1>3 DEF CreateCustomField, Definable, Rechosen, IInv, Shapes
  <2>2. TextsOnly'
    BY <1>3 DEF CreateCustomField, Definable, Rechosen, IInv, Shapes, TextsOnly
  <2> QED
    BY <1>1, <1>3, <2>1, <2>2 DEF CreateCustomField, Definable, Rechosen, Entry
<1> QED
  BY <1>2, <1>3 DEF Create

LEMMA RelabelEnds ==
    ASSUME IInv, NEW r \in Request, RenameLookup(r) \/ UndoRename(r)
    PROVE  IInv'
<1>1. PICK e \in Entry, l \in Label, records \in Seq(Record) :
          /\ ~Taken(e, l)
          /\ label' = [label EXCEPT ![e] = l]
          /\ Write(records)
  <2>1. CASE RenameLookup(r)
    <3>1. req[r].id \in Lookup
      BY <2>1, Typed DEF RenameLookup, TargetOf
    <3>2. PICK l \in Label :
              /\ ~Taken(req[r].id, l)
              /\ label' = [label EXCEPT ![req[r].id] = l]
              /\ Write(Entered("renamed", req[r].id, req[r].seen, l, 0))
      BY <2>1 DEF RenameLookup
    <3>3. Entered("renamed", req[r].id, req[r].seen, l, 0) \in Seq(Record)
      BY <3>1, Typed, EnteredTyped DEF Action, Entry
    <3> QED
      BY <3>1, <3>2, <3>3 DEF Entry
  <2>2. CASE UndoRename(r)
    <3>1. req[r].reverses \in DOMAIN log /\ req[r].reverses \in Nat
      BY <2>2, Typed DEF UndoRename, UndoneLabel, TargetOf
    <3>2. PICK x \in Record : x = log[req[r].reverses]
      BY <3>1 DEF IInv, Shapes
    <3>3. x.id \in Entry /\ x.before \in Label
      BY <2>2, <3>2 DEF Record, UndoRename, UndoneLabel
    <3>4. Entered("reverted", x.id, x.before, x.before, req[r].reverses) \in Seq(Record)
      BY <3>1, <3>3, EnteredTyped DEF Action
    <3>5. /\ ~Taken(x.id, x.before)
          /\ label' = [label EXCEPT ![x.id] = x.before]
          /\ Write(Entered("reverted", x.id, x.before, x.before, req[r].reverses))
      BY <2>2, <3>2 DEF UndoRename, UndoneLabel
    <3> QED
      BY <3>3, <3>4, <3>5
  <2> QED
    BY <2>1, <2>2
<1>2. Finish(r) /\ UNCHANGED <<type, sensitive, choiceOf, lookupOf, holds>>
  BY DEF RenameLookup, UndoRename, UndoneLabel, values
<1>3. label' \in [Entry -> Label \cup {"unborn", "gone"}] /\ Distinct'
  BY <1>1, RelabelKeeps DEF IInv
<1>4. choiceOf' \in [Choice -> Field \cup {"unborn", "gone"}]
  BY <1>2 DEF IInv, Shapes
<1> QED
  BY <1>1, <1>2, <1>3, <1>4, WrittenKeeps

LEMMA RemovalEnds ==
    ASSUME IInv, NEW r \in Request, DeleteLookup(r) \/ DeleteCustomField(r)
    PROVE  IInv'
<1>1. /\ req[r].id \in Entry
      /\ label' = [label EXCEPT ![req[r].id] = "gone"]
      /\ Write(Entered("removed", req[r].id, req[r].seen, "gone", 0))
      /\ Finish(r) /\ UNCHANGED <<type, sensitive, choiceOf, lookupOf, holds>>
  <2>1. CASE DeleteLookup(r)
    BY <2>1, Typed DEF DeleteLookup, TargetOf, Entry, values
  <2>2. CASE DeleteCustomField(r)
    BY <2>2, Typed DEF DeleteCustomField, TargetOf, Entry, values
  <2> QED
    BY <2>1, <2>2
<1>2. Entered("removed", req[r].id, req[r].seen, "gone", 0) \in Seq(Record)
  BY <1>1, Typed, EnteredTyped DEF Action
<1>3. label' \in [Entry -> Label \cup {"unborn", "gone"}] /\ Distinct'
  BY <1>1, RemoveKeeps DEF IInv
<1>4. choiceOf' \in [Choice -> Field \cup {"unborn", "gone"}]
  BY <1>1 DEF IInv, Shapes
<1> QED
  BY <1>1, <1>2, <1>3, <1>4, WrittenKeeps

(* An update of a field, taken apart once.                                 *)
LEMMA UpdateParts ==
    ASSUME IInv, NEW r \in Request, UpdateCustomField(r)
    PROVE  /\ req[r].id \in Field /\ Exists(req[r].id)
           /\ Finish(r) /\ UNCHANGED <<type, sensitive, lookupOf, holds>>
           /\ \E l \in Label, add \in Choice \cup {None}, records \in Seq(Record) :
                /\ ~Taken(req[r].id, l)
                /\ label' = [label EXCEPT ![req[r].id] = l]
                /\ \A c \in Choice :
                     choiceOf'[c] = IF c = req[r].cut /\ choiceOf[c] = req[r].id THEN "gone"
                                    ELSE IF c = add THEN req[r].id ELSE choiceOf[c]
                /\ choiceOf' \in [Choice -> Field \cup {"unborn", "gone"}]
                /\ \A c \in Choice :
                     c = req[r].cut /\ choiceOf[c] = req[r].id => ~ChoiceUsed(c)
                /\ Write(records)
<1> DEFINE f == req[r].id
           cut == {c \in Choice : c = req[r].cut /\ choiceOf[c] = f}
           renamed(l) == IF req[r].seen = l THEN <<>>
                         ELSE Entered("renamed", f, req[r].seen, l, 0)
           added(add) == IF add = None THEN <<>>
                         ELSE Entered("choiceAdded", f, None, None, 0)
           removed == IF req[r].cut = None THEN <<>>
                      ELSE Entered("choiceRemoved", f, None, None, 0)
<1>1. f \in Field
  BY Typed DEF UpdateCustomField, TargetOf
<1>2. PICK l \in Label, add \in Choice \cup {None} :
          /\ ~Taken(f, l)
          /\ add # None => choiceOf[add] = "unborn"
          /\ label' = [label EXCEPT ![f] = l]
          /\ choiceOf' = [c \in Choice |-> CASE c \in cut -> "gone"
                                             [] c = add -> f
                                             [] OTHER -> choiceOf[c]]
          /\ Write(renamed(l) \o added(add) \o removed)
  BY DEF UpdateCustomField, Rechosen
<1>3. renamed(l) \o added(add) \o removed \in Seq(Record)
  BY <1>1, UpdateRecords
<1>4. Exists(f) /\ Finish(r) /\ UNCHANGED <<type, sensitive, lookupOf, holds>>
  BY DEF UpdateCustomField, values
<1>5. \A c \in cut : ~ChoiceUsed(c)
  BY DEF UpdateCustomField
<1>6. ASSUME NEW c \in Choice
      PROVE  choiceOf'[c] = IF c = req[r].cut /\ choiceOf[c] = f THEN "gone"
                            ELSE IF c = add THEN f ELSE choiceOf[c]
  <2>1. c \in cut <=> c = req[r].cut /\ choiceOf[c] = f
    OBVIOUS
  <2>2. choiceOf'[c] = CASE c \in cut -> "gone" [] c = add -> f [] OTHER -> choiceOf[c]
    BY <1>2
  <2>3. c = add => c \notin cut
    BY <1>1, <1>2, <2>1
  <2> HIDE DEF cut, f
  <2> QED
    BY <2>1, <2>2, <2>3
<1>7. choiceOf' \in [Choice -> Field \cup {"unborn", "gone"}]
  <2>1. \A c \in Choice : choiceOf'[c] \in Field \cup {"unborn", "gone"}
    BY <1>1, <1>6 DEF IInv, Shapes
  <2>2. choiceOf' = [c \in Choice |-> choiceOf'[c]]
    BY <1>2
  <2> QED
    BY <2>1, <2>2
<1>8. PICK records \in Seq(Record) : records = renamed(l) \o added(add) \o removed
  BY <1>3
<1> HIDE DEF renamed, added, removed
<1>9. \A c \in Choice : c = req[r].cut /\ choiceOf[c] = f => ~ChoiceUsed(c)
  BY <1>5
<1>10. Write(records)
  BY <1>2, <1>8
<1> QED
  BY <1>1, <1>2, <1>4, <1>6, <1>7, <1>9, <1>10

LEMMA UpdateEnds ==
    ASSUME IInv, NEW r \in Request, UpdateCustomField(r)
    PROVE  IInv'
<1>1. PICK l \in Label, records \in Seq(Record) :
          /\ ~Taken(req[r].id, l)
          /\ label' = [label EXCEPT ![req[r].id] = l]
          /\ choiceOf' \in [Choice -> Field \cup {"unborn", "gone"}]
          /\ Write(records)
  BY UpdateParts
<1>2. req[r].id \in Entry /\ Finish(r) /\ UNCHANGED <<type, sensitive, lookupOf, holds>>
  BY UpdateParts DEF Entry
<1>3. label' \in [Entry -> Label \cup {"unborn", "gone"}] /\ Distinct'
  BY <1>1, <1>2, RelabelKeeps DEF IInv
<1> QED
  BY <1>1, <1>2, <1>3, WrittenKeeps

(* A save, taken apart once.                                               *)
LEMMA SaveParts ==
    ASSUME IInv, NEW r \in Request, NEW p \in Property, NEW e \in Lookup,
           SaveCustomValues(r, p, e)
    PROVE  \E v \in [Field -> Held] :
              /\ \A f \in Field :
                   v[f] # {} => Exists(f) /\ v[f] \in Storable(f)
              /\ holds' = [holds EXCEPT ![p] = v]
              /\ lookupOf' = [lookupOf EXCEPT ![p] = e]
              /\ Exists(e) /\ Finish(r)
              /\ UNCHANGED <<label, type, sensitive, choiceOf, log>>
BY DEF SaveCustomValues, definitions

LEMMA SaveEnds ==
    ASSUME IInv, NEW r \in Request, NEW p \in Property, NEW e \in Lookup,
           SaveCustomValues(r, p, e)
    PROVE  IInv'
<1>1. PICK v \in [Field -> Held] :
          /\ holds' = [holds EXCEPT ![p] = v]
          /\ lookupOf' = [lookupOf EXCEPT ![p] = e]
          /\ Finish(r)
          /\ UNCHANGED <<label, type, sensitive, choiceOf, log>>
  BY SaveParts
<1>2. req' \in [Request -> RequestState] /\ Targets'
  BY <1>1, FinishKeeps DEF IInv
<1>3. Shapes' /\ Distinct'
  BY <1>1, <1>2 DEF IInv, Shapes, Distinct, Exists, ListOf
<1>4. TextsOnly'
  BY <1>1 DEF IInv, TextsOnly
<1> QED
  BY <1>2, <1>3, <1>4 DEF IInv

(* Every step keeps the invariant.                                         *)
LEMMA NextIInv == IInv /\ [Next]_vars => IInv'
<1> SUFFICES ASSUME IInv, [Next]_vars PROVE IInv'
  OBVIOUS
<1>1. CASE UNCHANGED vars
  BY <1>1 DEF vars, definitions, values, IInv, Shapes, Distinct, Exists, ListOf, Targets,
              TargetOf, TextsOnly
<1>2. CASE Create
  BY <1>2, CreateKeeps
<1>3. ASSUME NEW r \in Request, Start(r) PROVE IInv'
  BY <1>3, StartKeeps
<1>4. ASSUME NEW r \in Request, Refuse(r) PROVE IInv'
  <2>1. Continue(r, Idle)
    BY <1>4 DEF Refuse, Finish, Continue
  <2> QED
    BY <2>1, IdleTyped, ContinueKeeps DEF TargetOf
<1>5. ASSUME NEW r \in Request, Proceed(r) PROVE IInv'
  <2>1. CASE LookupLabelByID(r) \/ CountField(r) \/ \E c \in Choice \cup {None} : CheckChoice(r, c)
    BY <2>1, ReadKeeps
  <2>2. CASE RenameLookup(r) \/ UndoRename(r)
    BY <2>2, RelabelEnds
  <2>3. CASE DeleteLookup(r) \/ DeleteCustomField(r)
    BY <2>3, RemovalEnds
  <2>4. CASE UpdateCustomField(r)
    BY <2>4, UpdateEnds
  <2>5. CASE \E p \in Property, e \in Lookup : SaveCustomValues(r, p, e)
    BY <2>5, SaveEnds
  <2> QED
    BY <1>5, <2>1, <2>2, <2>3, <2>4, <2>5 DEF Proceed
<1> QED
  BY <1>1, <1>2, <1>3, <1>4, <1>5 DEF Next

(* The invariant holds in every behaviour.                                 *)
THEOREM Invariance == Spec => []IInv
BY InitIInv, NextIInv, PTL DEF Spec

(* Every variable keeps its type, and labels are unique within a list,     *)
(* renames and undone renames included.                                    *)
THEOREM TypeCorrect == Spec => []TypeOK
<1>1. IInv => TypeOK
  BY TypeParts DEF IInv
<1> QED
  BY <1>1, Invariance, PTL

-----------------------------------------------------------------------------
(* What properties hold.                                                   *)

LEMMA InitSound == Init => ValuesAreSound
<1> SUFFICES ASSUME Init PROVE ValuesAreSound
  OBVIOUS
<1>1. \A c \in Choice : choiceOf[c] = "unborn"
  BY DEF Init
<1>2. \A c \in Choice : ~ChoiceExists(c)
  BY <1>1 DEF ChoiceExists
<1> QED
  BY <1>2 DEF Init, ValuesAreSound

(* A step that keeps the values, whose removals hit nothing in use.        *)
LEMMA KeptSound ==
    ASSUME IInv, ValuesAreSound, UNCHANGED values,
           \A e \in Entry : Exists(e) =>
               Exists(e)' \/ (~LookupUsed(e) /\ e \in Lookup)
                          \/ (e \in Field /\ ~FieldUsed(e) /\ \A c \in Choice : choiceOf'[c] # e),
           \A f \in Field : Exists(f) => sensitive'[f] = sensitive[f],
           \A c \in Choice : ChoiceExists(c) => ChoiceExists(c)' \/ ~ChoiceUsed(c),
           \A c \in Choice : choiceOf'[c] # choiceOf[c] /\ ChoiceExists(c)' =>
               label'[choiceOf'[c]] \in Label
    PROVE  ValuesAreSound'
<1>1. lookupOf' = lookupOf /\ holds' = holds
  BY DEF values
<1>2. ASSUME NEW p \in Property, lookupOf'[p] # None
      PROVE  Exists(lookupOf[p])'
  <2>1. lookupOf[p] \in Lookup /\ lookupOf[p] \notin Field
    BY <1>1, <1>2 DEF IInv, Shapes
  <2>2. Exists(lookupOf[p])
    BY <1>1, <1>2 DEF ValuesAreSound
  <2>3. LookupUsed(lookupOf[p])
    BY DEF LookupUsed
  <2> QED
    BY <1>1, <2>1, <2>2, <2>3 DEF Entry, Exists
<1>3. ASSUME NEW p \in Property, NEW f \in Field, holds'[p][f] # {}
      PROVE  /\ Exists(f)'
             /\ \A c \in holds'[p][f] \cap Choice : ChoiceExists(c)'
             /\ IF sensitive'[f] THEN holds'[p][f] = {"sealed"}
                ELSE "sealed" \notin holds'[p][f]
  <2>1. FieldUsed(f) /\ f \notin Lookup
    BY <1>1, <1>3 DEF FieldUsed
  <2>2. Exists(f)
    BY <1>1, <1>3 DEF ValuesAreSound
  <2>3. Exists(f)'
    BY <2>1, <2>2 DEF Entry
  <2>4. ASSUME NEW c \in holds'[p][f] \cap Choice
        PROVE  ChoiceExists(c)'
    <3>1. ChoiceExists(c)
      BY <1>1, <1>3, <2>4 DEF ValuesAreSound
    <3>2. ChoiceUsed(c)
      BY <1>1, <2>4 DEF ChoiceUsed
    <3> QED
      BY <3>1, <3>2
  <2>5. IF sensitive[f] THEN holds[p][f] = {"sealed"} ELSE "sealed" \notin holds[p][f]
    BY <1>1, <1>3 DEF ValuesAreSound
  <2> QED
    BY <1>1, <2>2, <2>3, <2>4, <2>5
<1>4. ASSUME NEW c \in Choice, ChoiceExists(c)'
      PROVE  Exists(choiceOf[c])'
  <2>1. CASE choiceOf'[c] # choiceOf[c]
    BY <1>4, <2>1 DEF Exists
  <2>2. CASE choiceOf'[c] = choiceOf[c]
    <3>1. choiceOf[c] \in Field /\ choiceOf[c] \notin Lookup
      BY <1>4, <2>2 DEF ChoiceExists
    <3>2. Exists(choiceOf[c])
      BY <3>1 DEF ValuesAreSound, ChoiceExists
    <3>3. label'[choiceOf[c]] \in Label
      BY <2>2, <3>1, <3>2 DEF Entry, Exists
    <3> QED
      BY <2>2, <3>3 DEF Exists
  <2> QED
    BY <2>1, <2>2
<1> QED
  BY <1>2, <1>3, <1>4 DEF ValuesAreSound

(* Which rows are there stays as it is, but for the ones that come.        *)
LEMMA RelabelSound ==
    ASSUME IInv, ValuesAreSound, NEW r \in Request, RenameLookup(r) \/ UndoRename(r)
    PROVE  ValuesAreSound'
<1>1. \A e \in Entry : Exists(e) => Exists(e)'
  <2>1. CASE RenameLookup(r)
    BY <2>1 DEF RenameLookup, Exists, IInv, Shapes
  <2>2. CASE UndoRename(r)
    <3>1. req[r].reverses \in DOMAIN log
      BY <2>2, Typed DEF UndoRename, UndoneLabel, TargetOf
    <3>2. PICK x \in Record : x = log[req[r].reverses]
      BY <3>1 DEF IInv, Shapes
    <3>3. x.before \in Label /\ label' = [label EXCEPT ![x.id] = x.before]
      BY <2>2, <3>2 DEF UndoRename, UndoneLabel, Record
    <3> QED
      BY <3>3 DEF Exists, IInv, Shapes
  <2> QED
    BY <2>1, <2>2
<1>2. UNCHANGED <<sensitive, choiceOf, values>>
  BY DEF RenameLookup, UndoRename, UndoneLabel
<1>3. \A c \in Choice : ChoiceExists(c) => ChoiceExists(c)'
  BY <1>2 DEF ChoiceExists
<1> QED
  BY <1>1, <1>2, <1>3, KeptSound

LEMMA CreateSound == IInv /\ ValuesAreSound /\ Create => ValuesAreSound'
<1> SUFFICES ASSUME IInv, ValuesAreSound, Create PROVE ValuesAreSound'
  OBVIOUS
<1>1. CASE \E e \in Lookup, l \in Label : CreateLookup(e, l)
  <2>1. PICK e \in Lookup, l \in Label : CreateLookup(e, l)
    BY <1>1
  <2>2. \A d \in Entry : Exists(d) => Exists(d)'
    BY <2>1 DEF CreateLookup, Exists, IInv, Shapes
  <2>3. UNCHANGED <<sensitive, choiceOf, values>>
    BY <2>1 DEF CreateLookup
  <2>4. \A c \in Choice : ChoiceExists(c) => ChoiceExists(c)'
    BY <2>3 DEF ChoiceExists
  <2> QED
    BY <2>2, <2>3, <2>4, KeptSound
<1>2. CASE \E f \in Field, l \in Label, t \in Type, s \in BOOLEAN, c \in Choice \cup {None} :
               CreateCustomField(f, l, t, s, c)
  <2>1. PICK f \in Field, l \in Label, t \in Type, s \in BOOLEAN, c \in Choice \cup {None} :
            CreateCustomField(f, l, t, s, c)
    BY <1>2
  <2>2. /\ label' = [label EXCEPT ![f] = l] /\ f \in Entry
        /\ sensitive' = [sensitive EXCEPT ![f] = s]
        /\ \A d \in Choice : choiceOf'[d] = IF d = c THEN f ELSE choiceOf[d]
        /\ c # None => choiceOf[c] = "unborn"
        /\ ~Exists(f)
        /\ UNCHANGED values
    BY <2>1 DEF CreateCustomField, Definable, Rechosen, Entry, Exists
  <2>3. \A d \in Entry : Exists(d) => Exists(d)'
    BY <2>2 DEF Exists, IInv, Shapes
  <2>4. \A g \in Field : Exists(g) => sensitive'[g] = sensitive[g]
    BY <2>2 DEF IInv, Shapes
  <2>5. \A d \in Choice : ChoiceExists(d) => ChoiceExists(d)'
    BY <2>2 DEF ChoiceExists
  <2>6. label'[f] \in Label
    BY <2>2 DEF IInv, Shapes
  <2>7. \A d \in Choice : choiceOf'[d] # choiceOf[d] => label'[choiceOf'[d]] \in Label
    BY <2>2, <2>6
  <2> QED
    BY <2>2, <2>3, <2>4, <2>5, <2>7, KeptSound
<1> QED
  BY <1>1, <1>2 DEF Create

LEMMA RemovalSound ==
    ASSUME IInv, ValuesAreSound, NEW r \in Request, DeleteLookup(r) \/ DeleteCustomField(r)
    PROVE  ValuesAreSound'
<1>1. UNCHANGED <<sensitive, choiceOf, values>>
  BY DEF DeleteLookup, DeleteCustomField
<1>2. \A c \in Choice : ChoiceExists(c) => ChoiceExists(c)'
  BY <1>1 DEF ChoiceExists
<1>3. PICK e \in Entry :
          /\ label' = [label EXCEPT ![e] = "gone"]
          /\ \/ e \in Lookup /\ ~LookupUsed(e)
             \/ e \in Field /\ ~FieldUsed(e) /\ \A c \in Choice : choiceOf[c] # e
  <2>1. CASE DeleteLookup(r)
    BY <2>1, Typed DEF DeleteLookup, TargetOf, Entry
  <2>2. CASE DeleteCustomField(r)
    BY <2>2, Typed DEF DeleteCustomField, TargetOf, Entry
  <2> QED
    BY <2>1, <2>2
<1>4. \A d \in Entry : Exists(d) => Exists(d)' \/ d = e
  BY <1>3 DEF Exists, IInv, Shapes
<1> QED
  BY <1>1, <1>2, <1>3, <1>4, KeptSound

LEMMA UpdateSound ==
    ASSUME IInv, ValuesAreSound, NEW r \in Request, UpdateCustomField(r)
    PROVE  ValuesAreSound'
<1>1. PICK l \in Label, add \in Choice \cup {None} :
          /\ label' = [label EXCEPT ![req[r].id] = l]
          /\ \A c \in Choice :
                choiceOf'[c] = IF c = req[r].cut /\ choiceOf[c] = req[r].id THEN "gone"
                               ELSE IF c = add THEN req[r].id ELSE choiceOf[c]
          /\ \A c \in Choice :
                c = req[r].cut /\ choiceOf[c] = req[r].id => ~ChoiceUsed(c)
  BY UpdateParts
<1>2. /\ req[r].id \in Field /\ req[r].id \in Entry
      /\ UNCHANGED <<sensitive, lookupOf, holds>>
  BY UpdateParts DEF Entry
<1>3. /\ label'[req[r].id] \in Label
      /\ \A d \in Entry : Exists(d) => Exists(d)'
  BY <1>1, <1>2 DEF Exists, IInv, Shapes
<1>4. \A c \in Choice : ChoiceExists(c) => ChoiceExists(c)' \/ ~ChoiceUsed(c)
  BY <1>1, <1>2 DEF ChoiceExists
<1>5. \A c \in Choice : choiceOf'[c] # choiceOf[c] /\ ChoiceExists(c)' =>
          label'[choiceOf'[c]] \in Label
  BY <1>1, <1>3 DEF ChoiceExists
<1> QED
  BY <1>2, <1>3, <1>4, <1>5, KeptSound DEF values

LEMMA SaveSound ==
    ASSUME IInv, ValuesAreSound, NEW r \in Request, NEW p \in Property, NEW e \in Lookup,
           SaveCustomValues(r, p, e)
    PROVE  ValuesAreSound'
<1>1. PICK v \in [Field -> Held] :
          /\ \A f \in Field : v[f] # {} => Exists(f) /\ v[f] \in Storable(f)
          /\ holds' = [holds EXCEPT ![p] = v]
          /\ lookupOf' = [lookupOf EXCEPT ![p] = e]
          /\ Exists(e)
          /\ UNCHANGED <<label, type, sensitive, choiceOf, log>>
  BY SaveParts
<1>2. \A q \in Property : holds'[q] = IF q = p THEN v ELSE holds[q]
  BY <1>1 DEF IInv, Shapes
<1>3. ASSUME NEW q \in Property, lookupOf'[q] # None
      PROVE  Exists(lookupOf[q])'
  BY <1>1, <1>3 DEF ValuesAreSound, Exists, IInv, Shapes
<1>4. ASSUME NEW f \in Field, v[f] # {}
      PROVE  /\ \A c \in v[f] \cap Choice : ChoiceExists(c)
             /\ IF sensitive[f] THEN v[f] = {"sealed"} ELSE "sealed" \notin v[f]
  <2>1. sensitive[f] \in BOOLEAN /\ type[f] \in Type /\ v[f] \in Storable(f)
    BY <1>1, <1>4 DEF IInv, Shapes
  <2>2. CASE type[f] = "text"
    <3>1. v[f] = IF sensitive[f] THEN {"sealed"} ELSE {"plain"}
      BY <1>4, <2>1, <2>2 DEF Storable
    <3> QED
      BY <2>1, <3>1
  <2>3. CASE type[f] # "text"
    <3>1. v[f] \subseteq {c \in Choice : ChoiceExists(c)}
      BY <1>4, <2>1, <2>3 DEF Storable, Type
    <3>2. ~sensitive[f]
      BY <2>3 DEF IInv, TextsOnly
    <3> QED
      BY <3>1, <3>2
  <2> QED
    BY <2>2, <2>3
<1>5. ASSUME NEW q \in Property, NEW f \in Field, holds'[q][f] # {}
      PROVE  /\ Exists(f)'
             /\ \A c \in holds'[q][f] \cap Choice : ChoiceExists(c)'
             /\ IF sensitive'[f] THEN holds'[q][f] = {"sealed"}
                ELSE "sealed" \notin holds'[q][f]
  <2>1. (Exists(f)' <=> Exists(f)) /\ sensitive' = sensitive
    BY <1>1 DEF Exists
  <2>2. \A c \in Choice : ChoiceExists(c)' <=> ChoiceExists(c)
    BY <1>1 DEF ChoiceExists
  <2>3. CASE q = p
    BY <1>1, <1>2, <1>4, <1>5, <2>1, <2>2, <2>3
  <2>4. CASE q # p
    BY <1>2, <1>5, <2>1, <2>2, <2>4 DEF ValuesAreSound
  <2> QED
    BY <2>3, <2>4
<1>6. \A c \in Choice : ChoiceExists(c)' => Exists(choiceOf[c])'
  BY <1>1 DEF ValuesAreSound, ChoiceExists, Exists
<1> QED
  BY <1>3, <1>5, <1>6 DEF ValuesAreSound

LEMMA NextSound == IInv /\ ValuesAreSound /\ [Next]_vars => ValuesAreSound'
<1> SUFFICES ASSUME IInv, ValuesAreSound, [Next]_vars PROVE ValuesAreSound'
  OBVIOUS
<1>1. ASSUME UNCHANGED <<definitions, values>>
      PROVE  ValuesAreSound'
  BY <1>1 DEF definitions, values, ValuesAreSound, Exists, ChoiceExists
<1>2. CASE UNCHANGED vars
  BY <1>1, <1>2 DEF vars
<1>3. CASE Create
  BY <1>3, CreateSound
<1>4. ASSUME NEW r \in Request, Start(r) \/ Refuse(r) PROVE ValuesAreSound'
  BY <1>1, <1>4 DEF Start, Refuse, Begin, BeginRename, CountLookup, BeginUpdate,
                    BeginDeleteField, BeginUndo, LoadDefinitions
<1>5. ASSUME NEW r \in Request, Proceed(r) PROVE ValuesAreSound'
  <2>1. CASE LookupLabelByID(r) \/ CountField(r) \/ \E c \in Choice \cup {None} : CheckChoice(r, c)
    BY <1>1, <2>1 DEF LookupLabelByID, CountField, CheckChoice, Continue
  <2>2. CASE RenameLookup(r) \/ UndoRename(r)
    BY <2>2, RelabelSound
  <2>3. CASE DeleteLookup(r) \/ DeleteCustomField(r)
    BY <2>3, RemovalSound
  <2>4. CASE UpdateCustomField(r)
    BY <2>4, UpdateSound
  <2>5. CASE \E p \in Property, e \in Lookup : SaveCustomValues(r, p, e)
    BY <2>5, SaveSound
  <2> QED
    BY <1>5, <2>1, <2>2, <2>3, <2>4, <2>5 DEF Proceed
<1> QED
  BY <1>2, <1>3, <1>4, <1>5 DEF Next

(* No removal of a look-up row, a field or a choice leaves a property with *)
(* a value that refers to nothing, whatever was counted before and however *)
(* saves and removals interleave; and no value of a sensitive field is     *)
(* stored as it was given.                                                 *)
THEOREM ValuesStaySound == Spec => []ValuesAreSound
<1>1. Init => IInv /\ ValuesAreSound
  BY InitIInv, InitSound
<1>2. (IInv /\ ValuesAreSound) /\ [Next]_vars => (IInv /\ ValuesAreSound)'
  BY NextIInv, NextSound
<1> QED
  BY <1>1, <1>2, PTL DEF Spec

-----------------------------------------------------------------------------
(* What the records tell.                                                  *)

(* One record that tells the one label that changes.                       *)
LEMMA OneTold ==
    ASSUME IInv, NEW e \in Entry, NEW l \in Label \cup {"gone"},
           NEW action \in Action, NEW before \in Label \cup {None}, NEW reverses \in Nat,
           label' = [label EXCEPT ![e] = l],
           Write(Entered(action, e, before, l, reverses))
    PROVE  LET new == (Len(log) + 1)..Len(log') IN
           /\ \A i \in new : log'[i].after # None => label'[log'[i].id] = log'[i].after
           /\ \A d \in Entry : label'[d] # label[d] =>
                \E i \in new : log'[i].id = d /\ log'[i].after = label'[d]
<1>1. PICK x \in Record : x = [action |-> action, id |-> e, before |-> before, after |-> l,
                               reverses |-> reverses]
  BY DEF Record
<1>2. log \in Seq(Record) /\ log' = Append(log, x)
  <2>1. log \in Seq(Record)
    BY DEF IInv, Shapes
  <2>2. log' = log \o <<x>>
    BY <1>1 DEF Write, Entered
  <2>3. <<x>> \in Seq(Record)
    OBVIOUS
  <2> QED
    BY <2>1, <2>2, <2>3
<1>3. Len(log) \in Nat /\ Len(log') = Len(log) + 1 /\ log'[Len(log) + 1] = x
  BY <1>2
<1>4. (Len(log) + 1)..Len(log') = {Len(log) + 1}
  BY <1>3
<1>5. label'[e] = l /\ \A d \in Entry \ {e} : label'[d] = label[d]
  BY DEF IInv, Shapes
<1>6. x.id = e /\ x.after = l
  BY <1>1
<1> QED
  BY <1>3, <1>4, <1>5, <1>6

(* A sequence of nothing or one record, and what a concatenation holds.    *)
LEMMA AtMostOne ==
    ASSUME NEW x \in Record, NEW a, a = <<>> \/ a = <<x>>
    PROVE  a \in Seq(Record) /\ \A i \in 1..Len(a) : a[i] = x
<1>1. CASE a = <<>>
  BY <1>1
<1>2. CASE a = <<x>>
  <2>1. Len(a) = 1 /\ a[1] = x /\ a \in Seq(Record)
    BY <1>2
  <2> QED
    BY <2>1
<1> QED
  BY <1>1, <1>2

LEMMA Concatenation ==
    ASSUME NEW a \in Seq(Record), NEW b \in Seq(Record)
    PROVE  /\ a \o b \in Seq(Record)
           /\ Len(a \o b) = Len(a) + Len(b)
           /\ \A i \in 1..Len(a \o b) :
                \/ i \in 1..Len(a) /\ (a \o b)[i] = a[i]
                \/ i - Len(a) \in 1..Len(b) /\ (a \o b)[i] = b[i - Len(a)]
           /\ \A i \in 1..Len(a) : i \in 1..Len(a \o b) /\ (a \o b)[i] = a[i]
<1>1. Len(a) \in Nat /\ Len(b) \in Nat
  OBVIOUS
<1>2. a \o b \in Seq(Record) /\ Len(a \o b) = Len(a) + Len(b)
  BY ConcatProperties
<1>3. \A i \in 1..(Len(a) + Len(b)) : (a \o b)[i] = IF i <= Len(a) THEN a[i] ELSE b[i - Len(a)]
  BY ConcatProperties
<1> QED
  BY <1>1, <1>2, <1>3

(* The records of an update: about the label at most one, the first.       *)
LEMMA UpdateTold ==
    ASSUME IInv, NEW r \in Request, UpdateCustomField(r)
    PROVE  \E l \in Label, records \in Seq(Record) :
              /\ label' = [label EXCEPT ![req[r].id] = l]
              /\ Write(records)
              /\ \A i \in 1..Len(records) :
                   records[i].after # None => records[i].id = req[r].id /\ records[i].after = l
              /\ req[r].seen # l =>
                   \E i \in 1..Len(records) :
                       records[i].id = req[r].id /\ records[i].after = l
<1>1. PICK f \in Field : f = req[r].id
  BY Typed DEF UpdateCustomField, TargetOf
<1>2. PICK l \in Label, add \in Choice \cup {None} :
          /\ label' = [label EXCEPT ![f] = l]
          /\ Write((IF req[r].seen = l THEN <<>> ELSE Entered("renamed", f, req[r].seen, l, 0))
                   \o (IF add = None THEN <<>> ELSE Entered("choiceAdded", f, None, None, 0))
                   \o (IF req[r].cut = None THEN <<>>
                       ELSE Entered("choiceRemoved", f, None, None, 0)))
  BY <1>1 DEF UpdateCustomField
<1>3. PICK x \in Record, y \in Record, z \in Record :
          /\ x = [action |-> "renamed", id |-> f, before |-> req[r].seen, after |-> l,
                  reverses |-> 0]
          /\ y = [action |-> "choiceAdded", id |-> f, before |-> None, after |-> None,
                  reverses |-> 0]
          /\ z = [action |-> "choiceRemoved", id |-> f, before |-> None, after |-> None,
                  reverses |-> 0]
  BY <1>1, Typed DEF Record, Action, Entry
<1>4. x.id = f /\ x.after = l /\ y.after = None /\ z.after = None
  BY <1>3
<1>5. PICK a, b, c : /\ a = IF req[r].seen = l THEN <<>> ELSE <<x>>
                     /\ b = IF add = None THEN <<>> ELSE <<y>>
                     /\ c = IF req[r].cut = None THEN <<>> ELSE <<z>>
  OBVIOUS
<1>6. Write((a \o b) \o c)
  BY <1>2, <1>3, <1>5 DEF Entered
<1>7. /\ a \in Seq(Record) /\ b \in Seq(Record) /\ c \in Seq(Record)
      /\ \A i \in 1..Len(a) : a[i] = x
      /\ \A i \in 1..Len(b) : b[i] = y
      /\ \A i \in 1..Len(c) : c[i] = z
  <2>1. (a = <<>> \/ a = <<x>>) /\ (b = <<>> \/ b = <<y>>) /\ (c = <<>> \/ c = <<z>>)
    BY <1>5
  <2> QED
    BY <2>1, AtMostOne
<1>8. req[r].seen # l => a = <<x>>
  BY <1>5
<1>9. PICK ab \in Seq(Record) : ab = a \o b
  BY <1>7, Concatenation
<1>10. \A i \in 1..Len(ab) : ab[i] = x \/ ab[i] = y
  BY <1>7, <1>9, Concatenation
<1>11. PICK records \in Seq(Record) : records = ab \o c
  BY <1>7, <1>9, Concatenation
<1>12. \A i \in 1..Len(records) : records[i] = x \/ records[i] = y \/ records[i] = z
  BY <1>7, <1>10, <1>11, Concatenation
<1>13. ASSUME req[r].seen # l
       PROVE  1 \in 1..Len(records) /\ records[1] = x
  <2>1. 1 \in 1..Len(a) /\ a[1] = x
    BY <1>8, <1>13
  <2>2. 1 \in 1..Len(ab) /\ ab[1] = x
    BY <2>1, <1>7, <1>9, Concatenation
  <2> QED
    BY <2>2, <1>7, <1>11, Concatenation
<1>14. Write(records)
  BY <1>6, <1>9, <1>11
<1>15. \A i \in 1..Len(records) :
          records[i].after # None => records[i].id = f /\ records[i].after = l
  BY <1>4, <1>12
<1>16. req[r].seen # l =>
          \E i \in 1..Len(records) : records[i].id = f /\ records[i].after = l
  BY <1>4, <1>13
<1> QED
  BY <1>1, <1>2, <1>14, <1>15, <1>16

LEMMA NextTold ==
    ASSUME IInv, [Next]_vars
    PROVE  [LET new == (Len(log) + 1)..Len(log') IN
            /\ \A i \in new : log'[i].after # None => label'[log'[i].id] = log'[i].after
            /\ \A e \in Entry : label'[e] # label[e] =>
                 \/ \E i \in new : log'[i].id = e /\ log'[i].after = label'[e]
                 \/ \E r \in Request :
                     /\ req[r].pc = "updateChecked" /\ req[r].id = e
                     /\ req[r].seen = label'[e]]_vars
<1> DEFINE new == (Len(log) + 1)..Len(log')
           Told == /\ \A i \in new : log'[i].after # None => label'[log'[i].id] = log'[i].after
                   /\ \A e \in Entry : label'[e] # label[e] =>
                        \/ \E i \in new : log'[i].id = e /\ log'[i].after = label'[e]
                        \/ \E r \in Request :
                            /\ req[r].pc = "updateChecked" /\ req[r].id = e
                            /\ req[r].seen = label'[e]
<1> SUFFICES ASSUME Next PROVE Told
  BY DEF vars
<1>0. Len(log) \in Nat
  BY DEF IInv, Shapes
<1>1. ASSUME label' = label, log' = log
      PROVE  Told
  <2>1. new = {}
    BY <1>0, <1>1
  <2> QED
    BY <1>1, <2>1
<1>2. ASSUME NEW e \in Entry, NEW l \in Label \cup {"gone"},
             NEW action \in Action, NEW before \in Label \cup {None}, NEW reverses \in Nat,
             label' = [label EXCEPT ![e] = l], Write(Entered(action, e, before, l, reverses))
      PROVE  Told
  BY <1>2, OneTold
<1> HIDE DEF Told
<1>3. ASSUME NEW e \in Lookup, NEW l \in Label, CreateLookup(e, l)
      PROVE  Told
  BY <1>2, <1>3 DEF CreateLookup, Entry, Action
<1>4. ASSUME NEW f \in Field, NEW l \in Label, NEW t \in Type, NEW s \in BOOLEAN,
             NEW c \in Choice \cup {None}, CreateCustomField(f, l, t, s, c)
      PROVE  Told
  BY <1>2, <1>4 DEF CreateCustomField, Definable, Rechosen, Entry, Action
<1>5. ASSUME NEW r \in Request, Start(r) \/ Refuse(r)
      PROVE  Told
  <2>1. UNCHANGED <<definitions, log>>
    BY <1>5 DEF Start, Refuse, Begin, BeginRename, CountLookup, BeginUpdate,
                BeginDeleteField, BeginUndo, LoadDefinitions
  <2> QED
    BY <1>1, <2>1 DEF definitions
<1>6. ASSUME NEW r \in Request, RenameLookup(r)
      PROVE  Told
  <2>1. req[r].id \in Entry /\ req[r].seen \in Label \cup {None}
    BY <1>6, Typed DEF RenameLookup, TargetOf, Entry
  <2>2. PICK l \in Label : /\ label' = [label EXCEPT ![req[r].id] = l]
                           /\ Write(Entered("renamed", req[r].id, req[r].seen, l, 0))
    BY <1>6 DEF RenameLookup
  <2> QED
    BY <1>2, <2>1, <2>2 DEF Action
<1>7. ASSUME NEW r \in Request, DeleteLookup(r) \/ DeleteCustomField(r)
      PROVE  Told
  <2>1. req[r].id \in Entry /\ req[r].seen \in Label \cup {None}
    BY <1>7, Typed DEF DeleteLookup, DeleteCustomField, TargetOf, Entry
  <2>2. /\ label' = [label EXCEPT ![req[r].id] = "gone"]
        /\ Write(Entered("removed", req[r].id, req[r].seen, "gone", 0))
    BY <1>7 DEF DeleteLookup, DeleteCustomField
  <2> QED
    BY <1>2, <2>1, <2>2 DEF Action
<1>8. ASSUME NEW r \in Request, UndoRename(r)
      PROVE  Told
  <2>1. req[r].reverses \in DOMAIN log /\ req[r].reverses \in Nat
    BY <1>8, Typed DEF UndoRename, UndoneLabel, TargetOf
  <2>2. PICK x \in Record : x = log[req[r].reverses]
    BY <2>1 DEF IInv, Shapes
  <2>3. x.id \in Entry /\ x.before \in Label
    BY <1>8, <2>2 DEF Record, UndoRename, UndoneLabel
  <2>4. /\ label' = [label EXCEPT ![x.id] = x.before]
        /\ Write(Entered("reverted", x.id, x.before, x.before, req[r].reverses))
    BY <1>8, <2>2 DEF UndoRename, UndoneLabel
  <2> QED
    BY <1>2, <2>1, <2>3, <2>4 DEF Action
<1>9. ASSUME NEW r \in Request, UpdateCustomField(r)
      PROVE  Told
  <2>1. PICK f \in Entry : f = req[r].id
    BY <1>9, UpdateParts DEF Entry
  <2>2. PICK l \in Label, records \in Seq(Record) :
            /\ label' = [label EXCEPT ![f] = l]
            /\ Write(records)
            /\ \A i \in 1..Len(records) :
                 records[i].after # None => records[i].id = f /\ records[i].after = l
            /\ req[r].seen # l =>
                 \E i \in 1..Len(records) : records[i].id = f /\ records[i].after = l
    BY <1>9, <2>1, UpdateTold
  <2>3. log \in Seq(Record) /\ log' = log \o records
    BY <2>2 DEF IInv, Shapes, Write
  <2>4. /\ Len(log') = Len(log) + Len(records) /\ Len(records) \in Nat
        /\ \A i \in 1..Len(records) : log'[Len(log) + i] = records[i]
    BY <1>0, <2>3
  <2>5. \A i \in new : i - Len(log) \in 1..Len(records) /\ log'[i] = records[i - Len(log)]
    BY <1>0, <2>4
  <2>6. \A i \in 1..Len(records) : Len(log) + i \in new
    BY <1>0, <2>4
  <2>7. label'[f] = l /\ \A d \in Entry \ {f} : label'[d] = label[d]
    BY <2>2 DEF IInv, Shapes
  <2>8. \A i \in new : log'[i].after # None => label'[log'[i].id] = log'[i].after
    BY <2>2, <2>5, <2>7
  <2>9. ASSUME NEW d \in Entry, label'[d] # label[d]
        PROVE  \/ \E i \in new : log'[i].id = d /\ log'[i].after = label'[d]
               \/ \E q \in Request :
                   /\ req[q].pc = "updateChecked" /\ req[q].id = d
                   /\ req[q].seen = label'[d]
    <3>1. d = f
      BY <2>7, <2>9
    <3>2. CASE req[r].seen = l
      BY <1>9, <2>1, <2>7, <3>1, <3>2 DEF UpdateCustomField
    <3>3. CASE req[r].seen # l
      <4>1. PICK i \in 1..Len(records) : records[i].id = f /\ records[i].after = l
        BY <2>2, <3>3
      <4> QED
        BY <2>4, <2>6, <2>7, <3>1, <4>1
    <3> QED
      BY <3>2, <3>3
  <2> QED
    BY <2>8, <2>9 DEF Told
<1>10. ASSUME NEW r \in Request, Proceed(r)
      PROVE  Told
  <2>1. CASE \/ LookupLabelByID(r) \/ CountField(r)
             \/ \E c \in Choice \cup {None} : CheckChoice(r, c)
             \/ \E p \in Property, e \in Lookup : SaveCustomValues(r, p, e)
    <3>1. UNCHANGED <<definitions, log>>
      BY <2>1 DEF LookupLabelByID, CountField, CheckChoice, Continue, SaveCustomValues
    <3> QED
      BY <1>1, <3>1 DEF definitions
  <2> QED
    BY <1>6, <1>7, <1>8, <1>9, <1>10, <2>1 DEF Proceed
<1> QED
  BY <1>3, <1>4, <1>5, <1>10 DEF Next, Create

(* The log and the labels agree: a commit that changes a label holds the   *)
(* record that tells it, except the update that took its own label for the *)
(* present one.                                                            *)
THEOREM ChangesStayTold == Spec => ChangesAreTold
<1>1. IInv /\ [Next]_vars =>
        [LET new == (Len(log) + 1)..Len(log') IN
         /\ \A i \in new : log'[i].after # None => label'[log'[i].id] = log'[i].after
         /\ \A e \in Entry : label'[e] # label[e] =>
              \/ \E i \in new : log'[i].id = e /\ log'[i].after = label'[e]
              \/ \E r \in Request :
                  /\ req[r].pc = "updateChecked" /\ req[r].id = e
                  /\ req[r].seen = label'[e]]_vars
  BY NextTold
<1> QED
  BY <1>1, Invariance, PTL DEF Spec, ChangesAreTold
=============================================================================
