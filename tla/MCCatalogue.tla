---------------------------- MODULE MCCatalogue -----------------------------
(* Catalogue on small sets, for TLC.                                       *)
EXTENDS Catalogue, TLC

(* Requests, fields and choices are interchangeable; the seed is a look-up *)
(* row of its own and its label is one of the labels.                      *)
Symmetry == Permutations(Request) \cup Permutations(Field) \cup Permutations(Choice)
=============================================================================
