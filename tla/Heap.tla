-------------------------------- MODULE Heap --------------------------------
(***************************************************************************)
(* What the allocator of rcore/rebble_memory.c promises to those who call  *)
(* it: each of them has words of the heap to himself, from the call that   *)
(* hands them out to the one that takes them back.                         *)
(***************************************************************************)
EXTENDS Integers

CONSTANT End     \* the heap has the words 0 .. End - 1

VARIABLE live    \* how many words each pointer that is handed out stands for

Words(l, p) == p .. p + l[p] - 1

(* The words of every pointer are in the heap, and no other pointer's. *)
Apart(l) == \A p \in DOMAIN l :
  /\ Words(l, p) \subseteq 0 .. End - 1
  /\ \A q \in DOMAIN l \ {p} : Words(l, p) \cap Words(l, q) = {}

Without(l, p) == [q \in DOMAIN l \ {p} |-> l[q]]

Init == live = [p \in {} |-> 0]

Malloc == \E p \in DOMAIN live' :
  /\ p \notin DOMAIN live /\ Without(live', p) = live /\ Apart(live')

(* The block may stay where it is, or move. *)
Realloc == \E p \in DOMAIN live, q \in DOMAIN live' :
  /\ q \notin DOMAIN live \ {p} /\ Without(live', q) = Without(live, p) /\ Apart(live')

Free == \E p \in DOMAIN live : live' = Without(live, p)

(* The heap of an application is laid out anew for the next. *)
Restart == live' = [p \in {} |-> 0]

Next == Malloc \/ Realloc \/ Free \/ Restart

Spec == Init /\ [][Next]_live
=============================================================================
