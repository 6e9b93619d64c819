------------------------------ MODULE Channel ------------------------------
(***************************************************************************)
(* What one direction of a link promises: things arrive in the order in    *)
(* which they were sent, none of them twice.  A channel that is Lossy may  *)
(* pass some over; a new session begins with nothing sent.                 *)
(***************************************************************************)
EXTENDS Naturals, Sequences

CONSTANT Lossy

VARIABLES
  sent,   \* what was put in, in order
  got     \* positions in sent of what came out

Init == sent = <<>> /\ got = <<>>

Send == \E x \in {Len(sent) + 1} :
  /\ Len(sent') = x /\ SubSeq(sent', 1, x - 1) = sent /\ UNCHANGED got

Last == IF got = <<>> THEN 0 ELSE got[Len(got)]

Receive == \E i \in Last + 1 .. Len(sent) :
  /\ ~Lossy => i = Last + 1
  /\ got' = Append(got, i) /\ UNCHANGED sent

Restart == sent' = <<>> /\ got' = <<>>

Next == Send \/ Receive \/ Restart

Spec == Init /\ [][Next]_<<sent, got>>
=============================================================================
