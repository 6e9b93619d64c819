----------------------------- MODULE MCDrawing -----------------------------
(* Queues that are soon full: the manager's has two places, the others one.  *)
EXTENDS Drawing
=============================================================================
