----------------------------- MODULE RecordStore ------------------------------
(***************************************************************************)
(* What a record database of rcore/rdb.c promises: a set of records, no    *)
(* two with the same key.  Calls run one at a time.  Within a call, adding *)
(* or erasing a record happens at once or not at all, whenever the power   *)
(* fails; an update is an erasure followed by an addition, not one change. *)
(* Only while the database moves to a new file can a power loss take       *)
(* records nobody erased, and then it takes all of them (fs.c:669).        *)
(***************************************************************************)
CONSTANTS Key, Val

VARIABLES
    records,    \* the records in the database: pairs of a key and a value
    phase       \* "idle", "busy" in a call, or "moving" to a new file

Init == records = {} /\ phase = "idle"

Start == phase = "idle" /\ phase' = "busy" /\ UNCHANGED records

\* A call ends, or the power fails during it.
End == phase = "busy" /\ phase' = "idle" /\ UNCHANGED records

Insert(k, v) ==
    /\ phase = "busy"
    /\ \A r \in records : r[1] # k
    /\ records' = records \cup {<<k, v>>}
    /\ phase' \in {"busy", "idle"}

Erase(r) ==
    /\ phase = "busy"
    /\ records' = records \ {r}
    /\ phase' \in {"busy", "idle"}

StartMove == phase = "busy" /\ phase' = "moving" /\ UNCHANGED records
EndMove   == phase = "moving" /\ phase' = "busy" /\ UNCHANGED records
LoseAll   == phase = "moving" /\ phase' = "idle" /\ records' = {}

Next == \/ Start \/ End \/ StartMove \/ EndMove \/ LoseAll
        \/ \E k \in Key, v \in Val : Insert(k, v)
        \/ \E r \in records : Erase(r)

Spec == Init /\ [][Next]_<<records, phase>>
===============================================================================
