------------------------------ MODULE MCPebbleFS ------------------------------
(***************************************************************************)
(* Instances of PebbleFS small enough to enumerate.                        *)
(***************************************************************************)
EXTENDS PebbleFS

\* Flash as fs_format leaves it.
FreshWear == {[p \in Page |-> 1]}

\* Flash that was formatted completely.
AllPages == {NPages}
===============================================================================
