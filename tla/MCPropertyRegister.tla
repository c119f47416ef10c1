-------------------------- MODULE MCPropertyRegister --------------------------
(* PropertyRegister on small sets, for TLC.                                *)
EXTENDS PropertyRegister, TLC

(* Sessions are interchangeable; properties and values are not, because    *)
(* an idle session names one of them.                                      *)
SameSessions == Permutations(Session)

(* Codes that read as the identifier of one of the properties.             *)
IdOfSomeProperty == [u \in UuidCode |-> AnyId]
=============================================================================
