--------------------------- MODULE RegisterPromise ---------------------------
(***************************************************************************)
(* What the property register promises, with the people, their screens,    *)
(* the versions and the reads before a write left out: every change is one *)
(* decision about a property as it is at that instant, it leaves alone     *)
(* what the decision is not about, it keeps reference codes unique, and it *)
(* is in the audit log, with the property before and after, from the same  *)
(* instant.                                                                *)
(***************************************************************************)
EXTENDS Naturals, Sequences

CONSTANTS PropId, Code, Value, Field

VARIABLES
    register,       \* the properties there are, by identifier
    log             \* the decisions on record

vars == <<register, log>>

Init == register = <<>> /\ log = <<>>

Active(p) == register[p].status = "active"

(* The property becomes c, and r tells it.                                 *)
Commit(p, c, r) ==
    /\ log' = Append(log, r)
    /\ \A q \in DOMAIN register : register[q].code = c.code => q = p
    /\ register' = [q \in DOMAIN register \cup {p} |-> IF q = p THEN c ELSE register[q]]

Entry(action, p, was, now, k, c) ==
    [action |-> action, prop |-> p, code |-> c.code, was |-> was, now |-> now,
     reverses |-> k]

Create(p) ==
    /\ p \notin DOMAIN register
    /\ \E k \in Code, v \in Value, cv \in [Field -> Value] :
        LET c == [code |-> k, status |-> "active", name |-> v, custom |-> cv] IN
        Commit(p, c, Entry("created", p, c, c, 0, c))

Decide(p, action, c) == Commit(p, c, Entry(action, p, register[p], c, 0, c))

Modify(p) ==
    /\ Active(p)
    /\ \E v \in Value, cv \in [Field -> Value] :
        Decide(p, "modified", [register[p] EXCEPT !.name = v, !.custom = cv])

Archive(p) ==
    /\ Active(p)
    /\ \E s \in {"archived", "noted"} :
        Decide(p, "archived", [register[p] EXCEPT !.status = s])

Restore(p) ==
    /\ ~Active(p)
    /\ Decide(p, "restored", [register[p] EXCEPT !.status = "active"])

Recode(p) ==
    /\ Active(p)
    /\ \E k \in Code : Decide(p, "codeChanged", [register[p] EXCEPT !.code = k])

(* The content c with the change of record r taken back, and nothing else: *)
(* of a modification, the name and the values that it had changed.         *)
Undone(r, c) ==
    CASE r.action = "modified" ->
            [c EXCEPT !.name = IF r.was.name # r.now.name THEN r.was.name ELSE @,
                      !.custom = [f \in Field |->
                            IF r.was.custom[f] # r.now.custom[f] THEN r.was.custom[f]
                            ELSE c.custom[f]]]
      [] r.action = "archived" -> [c EXCEPT !.status = "active"]
      [] r.action = "restored" -> [c EXCEPT !.status = r.was.status]
      [] r.action = "codeChanged" -> [c EXCEPT !.code = r.was.code]

(* The undo of a modification tells the record's change the other way      *)
(* round, the others tell what they did themselves.  The property may have *)
(* changed since the record, and its code may lead to another property.    *)
Undo(p, k) ==
    LET r == log[k]
        c == Undone(r, register[p])
    IN
    /\ r.action \in {"modified", "archived", "restored", "codeChanged"}
    /\ Active(p) <=> r.action # "archived"
    /\ IF r.action = "modified"
       THEN Commit(p, c, Entry("reverted", p, r.now, r.was, k, c))
       ELSE Commit(p, c, Entry("reverted", p, register[p], c, k, c))

(* A decision adds one record.                                             *)
Next ==
    /\ Len(log') = Len(log) + 1
    /\ \/ \E p \in PropId : Create(p)
       \/ \E p \in DOMAIN register : Modify(p) \/ Archive(p) \/ Restore(p) \/ Recode(p)
       \/ \E p \in DOMAIN register, k \in DOMAIN log : Undo(p, k)

Spec == Init /\ [][Next]_vars
=============================================================================
