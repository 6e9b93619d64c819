----------------------------- MODULE MCPpogatt -----------------------------
(* A queue to the phone that holds no more than the two packets of a new     *)
(* session, one place for what comes from it, and two events of the radio.   *)
(* A behaviour is long in one respect: two messages of two pieces to the     *)
(* phone, whose numbers begin again after the third, or packets from it and  *)
(* events of the radio.                                                      *)
EXTENDS Ppogatt

MostBudgets ==
  {[asks |-> 1, datas |-> 2, reports |-> 4],
   [asks |-> 1, datas |-> 1, reports |-> 5],
   [asks |-> 2, datas |-> 0, reports |-> 5]}
=============================================================================
