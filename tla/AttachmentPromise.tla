-------------------------- MODULE AttachmentPromise --------------------------
(***************************************************************************)
(* What the register promises about one attachment, with the store, the    *)
(* transactions and the workers left out: it is added once, its text is    *)
(* settled after a while, a person may ask for the text again, sensitivity *)
(* is only raised, a removed attachment never returns - and every one of   *)
(* these decisions of a person is in the audit log from the same instant.  *)
(***************************************************************************)
CONSTANT AttId

VARIABLES
    phase,          \* of each attachment
    sensitive,      \* meaningful while the attachment is there
    log             \* the decisions on record

vars == <<phase, sensitive, log>>

Phase == {"absent", "pending", "settled", "removed"}
Present == {"pending", "settled"}

TypeOK ==
    /\ phase \in [AttId -> Phase]
    /\ sensitive \in [AttId -> BOOLEAN]
    /\ log \subseteq {"added", "raised", "removed", "reextract"} \X AttId

Init ==
    /\ phase = [a \in AttId |-> "absent"]
    /\ sensitive = [a \in AttId |-> FALSE]
    /\ log = {}

Record(decision, a) == log' = log \cup {<<decision, a>>}

Add(a) ==
    /\ phase[a] = "absent"
    /\ phase' = [phase EXCEPT ![a] = "pending"]
    /\ \E s \in BOOLEAN : sensitive' = [sensitive EXCEPT ![a] = s]
    /\ Record("added", a)

Settle(a) ==
    /\ phase[a] = "pending"
    /\ phase' = [phase EXCEPT ![a] = "settled"]
    /\ UNCHANGED <<sensitive, log>>

AskAgain(a) ==
    /\ phase[a] = "settled"
    /\ phase' = [phase EXCEPT ![a] = "pending"]
    /\ Record("reextract", a)
    /\ UNCHANGED sensitive

Raise(a) ==
    /\ phase[a] \in Present
    /\ sensitive' = [sensitive EXCEPT ![a] = TRUE]
    /\ Record("raised", a)
    /\ UNCHANGED phase

Remove(a) ==
    /\ phase[a] \in Present
    /\ phase' = [phase EXCEPT ![a] = "removed"]
    /\ sensitive' = [sensitive EXCEPT ![a] = FALSE]
    /\ Record("removed", a)

Next == \E a \in AttId : Add(a) \/ Settle(a) \/ AskAgain(a) \/ Raise(a) \/ Remove(a)

Spec == Init /\ [][Next]_vars

(* A text that is waited for is settled, unless its attachment goes away.  *)
FairSpec == Spec /\ \A a \in AttId : WF_vars(Settle(a))
=============================================================================
