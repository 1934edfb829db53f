------------------------------- MODULE MCCache -------------------------------
(***************************************************************************)
(* Small instances of HTCache for TLC.                                     *)
(***************************************************************************)
EXTENDS HTCache, TLC

CONSTANTS r1, r2, u1, u2

\* Two documents in two lists of the table, the first one of two blocks.
Hash    == [u \in Urls |-> IF u = u2 THEN 2 ELSE 1]
Table   == <<1, 2>>
Symmetry == Permutations({r1, r2})
Blocks  == [u \in Urls |-> IF u = u1 THEN 2 ELSE 1]
==============================================================================
