------------------------------ MODULE MCQArena ------------------------------
(* An arena of 26 words behind its own header, and headers of three: only how *)
(* sizes compare matters.                                                     *)
EXTENDS QArena
=============================================================================
