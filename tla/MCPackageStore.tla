--------------------------- MODULE MCPackageStore ---------------------------
(***************************************************************************)
(* TLC instances of PackageStore.  Packages a and a2 have the same content *)
(* and differ in their signature file, which a2 lacks; b is another        *)
(* version.  Directories are interchangeable: nothing chooses among them.  *)
(***************************************************************************)
EXTENDS PackageStore, TLC

CONSTANTS a, a2, b, x, A, B, cap, d1, d2, d3

MCDigest == [p \in Package |-> IF p \in {a, a2} THEN A ELSE B]
MCSigner == [p \in Package |-> IF p = a2 THEN None ELSE x]
MCDeclares == [p \in Package |-> IF p \in {a, a2} THEN {cap} ELSE {}]
MCUsesData == {b}

Interchangeable == Permutations(Dir)
=============================================================================
