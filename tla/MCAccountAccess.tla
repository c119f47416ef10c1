--------------------------- MODULE MCAccountAccess ---------------------------
(* AccountAccess on small sets, for TLC.                                   *)
EXTENDS AccountAccess, TLC

(* Requests and sessions are interchangeable; accounts are not: one of     *)
(* them is the seed.                                                       *)
Symmetry == Permutations(Request) \cup Permutations(Token)

(* One field each, and both at once for a demotion with a deactivation.    *)
SomePatches ==
    {body \in Body \ {NoBody} : body.role = "absent" \/ body.active = "absent"}
    \cup {[role |-> "manager", active |-> "false"]}

(* A deactivation, which is counted and revokes sessions, and what undoes  *)
(* it, which is neither counted nor revokes any.                           *)
FewPatches == {[role |-> "absent", active |-> "false"],
               [role |-> "admin", active |-> "true"]}
=============================================================================
