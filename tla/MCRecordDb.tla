------------------------------ MODULE MCRecordDb ------------------------------
(***************************************************************************)
(* Instances of RecordDb small enough to enumerate.                        *)
(***************************************************************************)
EXTENDS RecordDb, TLC

CONSTANTS short, long

\* A record takes three cells with the short value and four with the long one.
TwoSizes == (short :> 1) @@ (long :> 2)

\* A value without data: its record is a header and a key.
WithEmpty == (short :> 0) @@ (long :> 2)

Symmetry == Permutations(Key)
===============================================================================
