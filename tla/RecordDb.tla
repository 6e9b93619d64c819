------------------------------- MODULE RecordDb -------------------------------
(***************************************************************************)
(* A record database of rcore/rdb.c: a log of records in a file of the     *)
(* file system of PebbleFS.  A record is inserted by writing its header,   *)
(* its key and data, and then a flag; it is erased by setting a flag; and  *)
(* when the log is full the records still valid are copied to a new file   *)
(* that replaces the old one.                                              *)
(*                                                                         *)
(* One step reads one header or writes the flash once, and the power may   *)
(* fail between any two steps.  The mutex of the database (rdb_open) lets  *)
(* one call run at a time.  The file is an array of cells: a header takes  *)
(* one, the key one, each unit of data one.  Of the file system this       *)
(* module uses what PebbleFS establishes: a file not committed is gone     *)
(* after a power loss, and replacing a file is safe except between the two *)
(* flash writes of fs_mark_written.  That a file begun on a page with a    *)
(* stale dead flag is lost too (forfeit there) is left out here.            *)
(***************************************************************************)
EXTENDS Integers, FiniteSets

CONSTANTS
    Cap,    \* def_db_size: cells in the file of the database
    Key,    \* keys; keys of another length never match and are left out
    Val,    \* values
    Size,   \* units of data in each value
    NoKey, NoVal

ASSUME CapAssumption  == Cap \in Nat \ {0}
ASSUME SizeAssumption == Size \in [Val -> Nat]
ASSUME NoneAssumption == NoKey \notin Key /\ NoVal \notin Val
\* A record without data does not show which value it holds.
ASSUME EmptyAssumption == \A v, w \in Val : Size[v] = 0 /\ Size[w] = 0 => v = w

Offset == 0 .. Cap - 1
Pos    == 0 .. Cap      \* Cap is the end of the file

-------------------------------------------------------------------------------
(***************************************************************************)
(* Cells.  A flag of a header is true when its bit is cleared, so flags    *)
(* are only ever added.  Programming a cell that is not blank ruins it.    *)
(***************************************************************************)
HdrFlag == {"header", "written", "erased"}

Blank         == [is |-> "blank"]
Ruined        == [is |-> "ruined"]
Hdr(n, fl)    == [is |-> "header", len |-> n, flags |-> fl]
KeyCell(k)    == [is |-> "key", key |-> k]
DataCell(v, i) == [is |-> "data", val |-> v, unit |-> i]

Len  == {1 + Size[v] : v \in Val}       \* key_len + data_len
Cell == {Blank, Ruined}
        \cup {Hdr(n, fl) : n \in Len, fl \in SUBSET HdrFlag}
        \cup {KeyCell(k) : k \in Key}
        \cup UNION {{DataCell(v, i) : i \in 1 .. Size[v]} : v \in Val}

BlankFile == [o \in Offset |-> Blank]
IsHdr(f, o) == f[o].is = "header"

\* The cells of a record after its header.
Payload(k, v, i) == IF i = 1 THEN KeyCell(k) ELSE DataCell(v, i - 1)

-------------------------------------------------------------------------------
PC == {"idle", "scan", "erase", "dismiss", "gc", "gcCopy", "gcOld", "gcNew",
       "header", "headerFlag", "payload", "writtenFlag"}
Kind   == {"none", "insert", "update", "delete", "select", "selectAll", "dismiss"}
Result == {"none", "Success", "GeneralFailure", "InvalidDatabaseID", "InvalidData",
           "KeyDoesNotExist", "DatabaseFull"}

VARIABLES
    present,    \* flash: the database has a file
    file,       \* flash: its cells
    temp,       \* flash: the file a garbage collection writes
    pc,         \* what the call in progress does next
    op,         \* its arguments and local variables, and how it was answered
    held,       \* iterators a notification list keeps after the mutex is given
    heldHere,   \* they point into the present file
    heads,      \* history: where headers were written in file
    tempHeads,  \* history: and in temp
    shown       \* history: the records the notification list was made from

vars == <<present, file, temp, pc, op, held, heldHere, heads, tempHeads, shown>>

\* kind, key, val: the call; a select puts the value it read in val
\* inserting: rdb_insert runs, called alone or by rdb_update
\* pos: where the iterator is    to: where the copy goes
\* hit: the record selected      seen: rdb_iter_start found a valid record
\* used: cells that would stay   unit: next cell of the payload
\* result: how it was answered   was: history, the records when it began
Op == [kind : Kind, key : Key \cup {NoKey}, val : Val \cup {NoVal},
       inserting : BOOLEAN, pos : Pos, to : Pos, hit : Offset \cup {Cap},
       seen : BOOLEAN, used : Nat, unit : Nat, result : Result,
       was : SUBSET (Key \X Val)]

NoOp == [kind |-> "none", key |-> NoKey, val |-> NoVal, inserting |-> FALSE,
         pos |-> 0, to |-> 0, hit |-> Cap, seen |-> FALSE, used |-> 0,
         unit |-> 1, result |-> "none", was |-> {}]

TypeOK ==
    /\ present \in BOOLEAN
    /\ file \in [Offset -> Cell] /\ temp \in [Offset -> Cell]
    /\ pc \in PC
    /\ op \in Op
    /\ held \in SUBSET Offset /\ heldHere \in BOOLEAN
    /\ heads \in SUBSET Offset /\ tempHeads \in SUBSET Offset
    /\ shown \in SUBSET (Key \X Val)

-------------------------------------------------------------------------------
(***************************************************************************)
(* Reading the log (_rdb_seek_valid).                                      *)
(***************************************************************************)
Valid(f, o) == IsHdr(f, o) /\ "written" \in f[o].flags /\ "erased" \notin f[o].flags
AtEnd(f, p) == p < Cap => f[p] = Blank

\* fs_seek stops at the end of the file.
Within(p) == IF p > Cap THEN Cap ELSE p

\* Where the next header is: a header that was not finished has no data.
After(f, o) ==
    IF {"header", "written"} \cap f[o].flags = {} THEN o + 1
    ELSE Within(o + 1 + f[o].len)

HasKey(o, k) == o + 1 < Cap /\ file[o + 1] = KeyCell(k)

\* The record at o holds the value v under the key k.
Holds(f, o, k, v) ==
    /\ Valid(f, o)
    /\ f[o].len = 1 + Size[v]
    /\ o + 1 + Size[v] < Cap
    /\ \A i \in 1 .. 1 + Size[v] : f[o + i] = Payload(k, v, i)

Records == {r \in Key \X Val : \E o \in heads : Holds(file, o, r[1], r[2])}

-------------------------------------------------------------------------------
(***************************************************************************)
(* Writing, and ending a call.                                             *)
(***************************************************************************)
Put(o, c) == file' = [file EXCEPT ![o] = IF @ = Blank THEN c ELSE Ruined]

SetFlag(o, fl) ==
    file' = [file EXCEPT ![o] = IF IsHdr(file, o) THEN Hdr(@.len, @.flags \cup {fl})
                                ELSE Ruined]

Goto(where, locals) == pc' = where /\ op' = locals
Answer(r)           == Goto("idle", [op EXCEPT !.result = r])

\* rdb_update tests what rdb_insert returns for zero, and no result is zero.
InsertDone(r) == Answer(IF op.kind = "update" THEN "Success" ELSE r)

\* rdb_delete clears the bit and writes the header back.
EraseAt(o) == SetFlag(o, "erased")

flash == <<present, file, heads>>
copy  == <<temp, tempHeads>>
list  == <<held, heldHere, shown>>

-------------------------------------------------------------------------------
(***************************************************************************)
(* The calls.  An insert creates the file when there is none (rdb_create); *)
(* every other call then has nothing to look at.                           *)
(***************************************************************************)
Begin(kd, k, v) ==
    [NoOp EXCEPT !.kind = kd, !.key = k, !.val = v,
                 !.inserting = (kd = "insert"), !.was = Records]

\* A list of iterators that was used up shows nothing any more.
StillShown == IF held = {} THEN {} ELSE shown

CreateFile ==
    /\ present' = TRUE
    /\ file' = BlankFile
    /\ heads' = {}

Insert(k, v) ==
    /\ pc = "idle"
    /\ \/ /\ present
          /\ Goto("scan", Begin("insert", k, v))
          /\ UNCHANGED flash
       \/ /\ ~present
          /\ CreateFile
          /\ Goto("scan", Begin("insert", k, v))
       \/ /\ ~present   \* fs_creat finds no free pages
          /\ Goto("idle", [Begin("insert", k, v) EXCEPT !.result = "DatabaseFull"])
          /\ UNCHANGED flash
    /\ shown' = StillShown
    /\ UNCHANGED <<copy, held, heldHere>>

\* rdb_update, a deletion by key, and a selection by key (rdb_select).
Lookup(kd, k, v) ==
    /\ pc = "idle"
    /\ IF present
       THEN Goto("scan", Begin(kd, k, v))
       ELSE Goto("idle", [Begin(kd, k, v) EXCEPT !.result = "InvalidDatabaseID"])
    /\ shown' = StillShown
    /\ UNCHANGED <<flash, copy, held, heldHere>>

\* notifications_get_all
SelectAll ==
    /\ pc = "idle"
    /\ IF present
       THEN Goto("scan", Begin("selectAll", NoKey, NoVal))
       ELSE Goto("idle", [Begin("selectAll", NoKey, NoVal) EXCEPT !.result = "Success"])
    /\ held' = {} /\ heldHere' = TRUE
    /\ shown' = Records
    /\ UNCHANGED <<flash, copy>>

\* notifications_dismiss_all
DismissAll ==
    /\ pc = "idle" /\ held # {}
    /\ Goto("dismiss", Begin("dismiss", NoKey, NoVal))
    /\ UNCHANGED <<flash, copy, list>>

-------------------------------------------------------------------------------
(***************************************************************************)
(* One turn of the loop that looks at the headers.                         *)
(***************************************************************************)
ScanSkip ==
    /\ pc = "scan"
    /\ ~AtEnd(file, op.pos) /\ IsHdr(file, op.pos)
    /\ \/ ~Valid(file, op.pos)
       \/ op.kind # "selectAll" /\ ~HasKey(op.pos, op.key)
    /\ Goto("scan", [op EXCEPT !.pos = After(file, op.pos),
                               !.seen = @ \/ Valid(file, op.pos)])
    /\ UNCHANGED <<flash, copy, list>>

ScanDuplicate ==
    /\ pc = "scan" /\ op.inserting
    /\ ~AtEnd(file, op.pos) /\ Valid(file, op.pos) /\ HasKey(op.pos, op.key)
    /\ InsertDone("InvalidData")
    /\ UNCHANGED <<flash, copy, list>>

\* rdb_select gathers every match; there is never a second one (AnswersAreTrue).
ScanHit ==
    /\ pc = "scan" /\ ~op.inserting /\ op.kind # "selectAll"
    /\ ~AtEnd(file, op.pos) /\ Valid(file, op.pos) /\ HasKey(op.pos, op.key)
    /\ Goto("scan", [op EXCEPT !.pos = After(file, op.pos), !.seen = TRUE,
                               !.hit = IF @ = Cap THEN op.pos ELSE @])
    /\ UNCHANGED <<flash, copy, list>>

ScanGather ==
    /\ pc = "scan" /\ op.kind = "selectAll"
    /\ ~AtEnd(file, op.pos) /\ Valid(file, op.pos)
    /\ Goto("scan", [op EXCEPT !.pos = After(file, op.pos)])
    /\ held' = held \cup {op.pos}
    /\ UNCHANGED <<flash, copy, heldHere, shown>>

\* Mutant: the header is not counted.
Need_NoHeader == 1 + Size[op.val]

\* Cells the new record takes.
Need == 2 + Size[op.val]

ScanEnd ==
    /\ pc = "scan" /\ AtEnd(file, op.pos)
    /\ IF op.inserting
       THEN IF op.pos + Need > Cap
            THEN Goto("gc", [op EXCEPT !.pos = 0, !.used = 0])
            ELSE Goto("header", op)
       ELSE IF op.kind = "selectAll" THEN Answer("Success")
       ELSE IF ~op.seen THEN Answer("InvalidDatabaseID")
       ELSE IF op.hit = Cap THEN Answer("KeyDoesNotExist")
       ELSE IF op.kind # "select" THEN Goto("erase", op)
       ELSE \E v \in Val : /\ Holds(file, op.hit, op.key, v)
                           /\ Goto("idle", [op EXCEPT !.val = v, !.result = "Success"])
    /\ UNCHANGED <<flash, copy, list>>

\* The record selected is erased, and an update goes on to insert.
Erase ==
    /\ pc = "erase" /\ op.hit # Cap
    /\ EraseAt(op.hit)
    /\ IF op.kind = "update"
       THEN Goto("scan", [op EXCEPT !.inserting = TRUE, !.pos = 0])
       ELSE Answer("Success")
    /\ shown' = {r \in shown : r[1] # op.key}
    /\ UNCHANGED <<present, heads, copy, held, heldHere>>

\* Mutant: an iterator is only an offset, whatever file it was made for.
Dismiss_AnyFile ==
    /\ pc = "dismiss"
    /\ \E o \in held :
          /\ \A p \in held : o <= p
          /\ EraseAt(o)
          /\ held' = held \ {o}
    /\ IF held' = {} THEN Answer("Success") ELSE UNCHANGED <<pc, op>>
    /\ UNCHANGED <<present, heads, copy, heldHere, shown>>

\* An iterator into a file that was replaced erases nothing in the new one.
Dismiss ==
    /\ pc = "dismiss"
    /\ \E o \in held :
          /\ \A p \in held : o <= p
          /\ IF heldHere THEN EraseAt(o) ELSE UNCHANGED file
          /\ held' = held \ {o}
    /\ IF held' = {} THEN Answer("Success") ELSE UNCHANGED <<pc, op>>
    /\ UNCHANGED <<present, heads, copy, heldHere, shown>>

-------------------------------------------------------------------------------
(***************************************************************************)
(* Writing a record: a header, its flag, the key and the data, and the     *)
(* flag that makes the record valid.                                       *)
(***************************************************************************)
\* Mutant: the length of the key is left out of the header.
WriteHeader_DataOnly ==
    /\ pc = "header" /\ op.pos < Cap
    /\ Put(op.pos, Hdr(Size[op.val], {}))
    /\ heads' = heads \cup {op.pos}
    /\ Goto("headerFlag", op)
    /\ UNCHANGED <<present, copy, list>>

WriteHeader ==
    /\ pc = "header"
    /\ IF op.pos < Cap
       THEN /\ Put(op.pos, Hdr(1 + Size[op.val], {}))
            /\ heads' = heads \cup {op.pos}
            /\ Goto("headerFlag", op)
       ELSE InsertDone("GeneralFailure") /\ UNCHANGED <<file, heads>>
    /\ UNCHANGED <<present, copy, list>>

WriteHeaderFlag ==
    /\ pc = "headerFlag"
    /\ SetFlag(op.pos, "header")
    /\ Goto("payload", [op EXCEPT !.unit = 1])
    /\ UNCHANGED <<present, heads, copy, list>>

WritePayload ==
    /\ pc = "payload"
    /\ IF op.pos + op.unit < Cap
       THEN /\ Put(op.pos + op.unit, Payload(op.key, op.val, op.unit))
            /\ IF op.unit <= Size[op.val]
               THEN Goto("payload", [op EXCEPT !.unit = @ + 1])
               ELSE Goto("writtenFlag", op)
       ELSE InsertDone("GeneralFailure") /\ UNCHANGED file
    /\ UNCHANGED <<present, heads, copy, list>>

WriteFlag ==
    /\ pc = "writtenFlag"
    /\ SetFlag(op.pos, "written")
    /\ InsertDone("Success")
    /\ UNCHANGED <<present, heads, copy, list>>

-------------------------------------------------------------------------------
(***************************************************************************)
(* Garbage collection (_rdb_gc_for_bytes): count what would stay, copy the *)
(* valid records to a new file, and let it replace the old one.            *)
(***************************************************************************)
GcCount ==
    /\ pc = "gc" /\ ~AtEnd(file, op.pos) /\ IsHdr(file, op.pos)
    /\ Goto("gc", [op EXCEPT !.pos = After(file, op.pos),
                             !.used = @ + IF Valid(file, op.pos)
                                          THEN 1 + file[op.pos].len ELSE 0])
    /\ UNCHANGED <<flash, copy, list>>

GcRefuse ==
    /\ pc = "gc" /\ AtEnd(file, op.pos)
    /\ Need >= Cap - op.used
    /\ InsertDone("DatabaseFull")
    /\ UNCHANGED <<flash, copy, list>>

GcCreate ==
    /\ pc = "gc" /\ AtEnd(file, op.pos)
    /\ Need < Cap - op.used
    /\ \/ /\ temp' = BlankFile /\ tempHeads' = {}
          /\ Goto("gcCopy", [op EXCEPT !.pos = 0, !.to = 0])
       \/ /\ InsertDone("DatabaseFull")     \* fs_creat_replacing fails
          /\ UNCHANGED copy
    /\ UNCHANGED <<flash, list>>

GcSkip ==
    /\ pc = "gcCopy"
    /\ ~AtEnd(file, op.pos) /\ IsHdr(file, op.pos) /\ ~Valid(file, op.pos)
    /\ Goto("gcCopy", [op EXCEPT !.pos = After(file, op.pos)])
    /\ UNCHANGED <<flash, copy, list>>

GcCopy ==
    /\ pc = "gcCopy" /\ ~AtEnd(file, op.pos) /\ Valid(file, op.pos)
    /\ LET n == 1 + file[op.pos].len
       IN  IF op.to + n > Cap \/ op.pos + n > Cap
           THEN InsertDone("DatabaseFull") /\ UNCHANGED copy
           ELSE /\ temp' = [o \in Offset |-> IF op.to <= o /\ o < op.to + n
                                             THEN file[op.pos + (o - op.to)] ELSE temp[o]]
                /\ tempHeads' = tempHeads \cup {op.to}
                /\ Goto("gcCopy", [op EXCEPT !.pos = After(file, op.pos), !.to = @ + n])
    /\ UNCHANGED <<flash, list>>

\* Mutant: the new file is committed before every record is copied.
GcCopied_Early ==
    /\ pc = "gcCopy"
    /\ Goto("gcOld", op)
    /\ UNCHANGED <<flash, copy, list>>

GcCopied ==
    /\ pc = "gcCopy" /\ AtEnd(file, op.pos)
    /\ Goto("gcOld", op)
    /\ UNCHANGED <<flash, copy, list>>

\* fs_mark_written: the old file is dead and the new one still temporary ...
GcOld ==
    /\ pc = "gcOld"
    /\ Goto("gcNew", op)
    /\ UNCHANGED <<flash, copy, list>>

\* ... and now the new one counts.
GcNew ==
    /\ pc = "gcNew"
    /\ file' = temp /\ heads' = tempHeads
    /\ temp' = BlankFile /\ tempHeads' = {}
    /\ heldHere' = (held = {})
    /\ Goto("header", [op EXCEPT !.pos = op.to])
    /\ UNCHANGED <<present, held, shown>>

-------------------------------------------------------------------------------
\* The power fails: the RAM and the temporary file are gone, and between the
\* two writes of fs_mark_written the old file as well.
Crash ==
    /\ IF pc = "gcNew"
       THEN present' = FALSE /\ file' = BlankFile /\ heads' = {}
       ELSE UNCHANGED flash
    /\ temp' = BlankFile /\ tempHeads' = {}
    /\ held' = {} /\ heldHere' = TRUE /\ shown' = {}
    /\ Goto("idle", NoOp)

Init ==
    /\ present = FALSE /\ file = BlankFile /\ heads = {}
    /\ temp = BlankFile /\ tempHeads = {}
    /\ held = {} /\ heldHere = TRUE /\ shown = {}
    /\ pc = "idle" /\ op = NoOp

Call ==
    \/ \E k \in Key, v \in Val : Insert(k, v) \/ Lookup("update", k, v)
    \/ \E k \in Key : Lookup("delete", k, NoVal) \/ Lookup("select", k, NoVal)
    \/ SelectAll \/ DismissAll

Run == \/ ScanSkip \/ ScanDuplicate \/ ScanHit \/ ScanGather \/ ScanEnd
       \/ Erase \/ Dismiss
       \/ WriteHeader \/ WriteHeaderFlag \/ WritePayload \/ WriteFlag
       \/ GcCount \/ GcRefuse \/ GcCreate \/ GcSkip \/ GcCopy \/ GcCopied
       \/ GcOld \/ GcNew

Next == Call \/ Run \/ Crash

Spec == Init /\ [][Next]_vars
-------------------------------------------------------------------------------
(***************************************************************************)
(* Properties.                                                             *)
(***************************************************************************)

\* The database implements RecordStore: whatever is interrupted, dug out of
\* the log, copied or refused, the records anyone can read change one at a
\* time, and only a power loss in the middle of a move takes others.
Phase == IF pc = "idle" THEN "idle" ELSE IF pc = "gcNew" THEN "moving" ELSE "busy"
Store == INSTANCE RecordStore WITH records <- Records, phase <- Phase
ImplementsStore == Store!Spec

\* The walk over the log never takes a key or data for a header, although the
\* log holds headers, records and erasures left unfinished at any write.
LogInSync ==
    pc \in {"scan", "gc", "gcCopy"} =>
        op.pos = Cap \/ file[op.pos] = Blank \/ op.pos \in heads

\* rdb.c:22 says of an empty header: "it's safe to write a header and an entry
\* here".  Where an insert begins to write, the whole record fits (fs_write
\* would cut it short) and every cell up to the end of the file is blank.
SafeToWrite ==
    pc = "header" => /\ op.pos + 2 + Size[op.val] <= Cap
                     /\ \A o \in op.pos .. Cap - 1 : file[o] = Blank

\* So the log can always be read: nothing in it is taken for what it is not, and
\* nothing is written over it.
LogIsReadable == LogInSync /\ SafeToWrite

\* The answer of a call tells what became of the records since it began: an
\* insert adds its record or leaves all as it was, also when it had to collect
\* garbage first; a selection reads the value stored last; and Clear All takes
\* no record that was not in the list it clears, although the database may have
\* moved to another file since the list was made.
InsertAnswer ==
    LET present_ == \E r \in op.was : r[1] = op.key
    IN  CASE op.result = "Success"      -> ~present_ /\ Records = op.was \cup {<<op.key, op.val>>}
          [] op.result = "InvalidData"  -> present_ /\ Records = op.was
          [] op.result = "DatabaseFull" -> ~present_ /\ Records = op.was
          [] OTHER -> FALSE
DeleteAnswer ==
    /\ Records = {r \in op.was : r[1] # op.key}
    /\ op.result = "Success" <=> Records # op.was
SelectAnswer ==
    /\ Records = op.was
    /\ IF op.result = "Success" THEN <<op.key, op.val>> \in Records
       ELSE \A r \in Records : r[1] # op.key
DismissAnswer == op.was \ shown \subseteq Records
AnswersAreTrue ==
    pc = "idle" => /\ op.kind = "insert" => InsertAnswer
                   /\ op.kind = "delete" => DeleteAnswer
                   /\ op.kind = "select" => SelectAnswer
                   /\ op.kind = "dismiss" => DismissAnswer

\* rdb_test.c:94 retrieves the new value after an update and returns whether
\* the update succeeded: a successful update leaves the new value.
UpdateStores ==
    pc = "idle" /\ op.kind = "update" /\ op.result = "Success" =>
        <<op.key, op.val>> \in Records
===============================================================================
