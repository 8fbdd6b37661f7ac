------------------------------ MODULE MCSearch ------------------------------
(***************************************************************************)
(* The global scope 0, the bodies 1, 2 and 3 of three imports, and the     *)
(* body 4 of a function of the first.                                      *)
(***************************************************************************)
EXTENDS ScopeSearch

MCScope  == 0 .. 4
MCParent == [s \in MCScope |-> IF s = 4 THEN 1 ELSE 0]
MCImport == 1 .. 3
=============================================================================
