------------------------------- MODULE PebbleFS -------------------------------
(***************************************************************************)
(* The page-level file system of rcore/fs.c on NOR flash: mounting         *)
(* (fs_init), creating and replacing files (fs_creat_replacing),           *)
(* committing them (fs_mark_written), looking them up (fs_find_file) and   *)
(* formatting (fs_format), with a power loss possible between any two      *)
(* flash writes.                                                           *)
(*                                                                         *)
(* Programming NOR flash can only clear bits, and every flag of a page     *)
(* header means "true" when its bit is cleared (fs.c:17), so the header of *)
(* a page is the growing set of flags programmed so far.  One step makes   *)
(* one flash write; the table that fs.c keeps in RAM changes with the step *)
(* whose code touches it.  The header of a page is far smaller than the    *)
(* write buffer of the part and is programmed as one unit.                 *)
(***************************************************************************)
EXTENDS Integers, FiniteSets

CONSTANTS
    NPages,         \* REGION_FS_N_PAGES
    PagesPerSector, \* PAGES_PER_SECTOR, the pages erased together
    FileName,       \* the names files may have
    NoName,         \* what the name field of an unnamed page reads as
    MaxFilePages,   \* bound: pages of the longest file
    MaxFds,         \* bound: files open for writing at one time
    MaxWear,        \* bound: largest wear_level_counter a mounted page has
    InitWear,       \* wear counters the flash may come with
    InitHeaders,    \* how many pages the format that made it gave a header
    MayFormat       \* bound: whether the user may wipe the file system

NoPage   == -1              \* the value 0xFFFF of next_page, or "no page" (-1)
NoErase  == MaxWear + 2     \* 0xFFFFFFFF: the counter of an erased header
Page     == 0 .. NPages - 1
PageOrNo == Page \cup {NoPage}
Wear     == (0 .. MaxWear) \cup {NoErase}

\* The slot after the last page is the flash that follows the region.
Slot      == 0 .. NPages
Sector    == {s \in Page : s % PagesPerSector = 0}
PagesOf(s) == {p \in Page : s <= p /\ p < s + PagesPerSector}

ASSUME SizeAssumption ==
    /\ NPages \in Nat \ {0}
    /\ PagesPerSector \in Nat \ {0}
    /\ NPages % PagesPerSector = 0

ASSUME BoundAssumption ==
    /\ MaxFilePages \in Nat \ {0}
    /\ MaxFds \in Nat
    /\ MaxWear \in Nat \ {0}
    /\ InitWear \subseteq [Page -> 0 .. MaxWear]
    /\ InitHeaders \subseteq 0 .. NPages
    /\ MayFormat \in BOOLEAN
    /\ NoName \notin FileName

-------------------------------------------------------------------------------
(***************************************************************************)
(* Flags of a page header and of the file header in the first page.  The   *)
(* st_ fields of the file header are true when non-zero, so programming    *)
(* one makes it false: "written" stands for st_tmp_file = 0, "created" for *)
(* st_create_complete = 0 and "deleted" for st_delete_complete = 0.        *)
(***************************************************************************)
Flag == {"magic", "allocated", "moreblocks", "dead", "start", "cont",
         "written", "created", "deleted"}

\* What a mount looks for: a header in every page, and the last written page.
Landmark == {"header", "lastpg"}

PageState == {"Clean", "FileStart", "FileCont", "Dirty"}

PC == {"off", "nofs", "recover", "erase", "erased", "gcSentinel", "gcHeader",
       "ready", "creatSentinel", "creatHeader", "creatDone", "markNew",
       "wipeErase", "wipeHeader", "wiped", "panicAlloc", "panicSector",
       "panicDeleted"}

VARIABLES
    flags,      \* flash: flags programmed in each page header
    wear,       \* flash: wear_level_counter
    next,       \* flash: next_page
    fname,      \* flash: the name after the file header
    pstate,     \* RAM: _fs_page_flags
    lastpg,     \* RAM: _fs_lastpg
    bestErase,  \* RAM: _fs_best_erase_count
    lastAlloc,  \* RAM: _fs_last_allocated_page
    freePages,  \* RAM: _fs_free_pages
    gcSector,   \* RAM: _gc_sector
    fds,        \* files created and not yet marked written
    pc,         \* what the file system is doing
    op,         \* the local variables of the call in progress
    saved,      \* history: first page of the version last committed per name
    forfeit,    \* history: why that version may be gone from intact flash
    lost        \* history: what a mount so far failed to find

flash == <<flags, wear, next, fname>>
table == <<pstate, lastpg, bestErase, lastAlloc, freePages>>
vars  == <<flags, wear, next, fname, pstate, lastpg, bestErase, lastAlloc,
           freePages, gcSector, fds, pc, op, saved, forfeit, lost>>

\* name: file being created or committed   head: its first page
\* cur: page the next write goes to        nxt: page that follows it
\* left: pages still to write              old: first page of the file replaced
\* booting: the call runs inside fs_init
Op == [name : FileName \cup {NoName}, head : PageOrNo, cur : PageOrNo,
       nxt : PageOrNo, left : 0 .. MaxFilePages, old : PageOrNo,
       booting : BOOLEAN]
Fd == [name : FileName, start : Page, old : PageOrNo]

NoOp == [name |-> NoName, head |-> NoPage, cur |-> NoPage, nxt |-> NoPage,
         left |-> 0, old |-> NoPage, booting |-> FALSE]

\* stale: it was begun on a page that counts as clean (fs.c:117) and carries the
\* dead flag of an earlier use.   window: the power failed where fs.c:669 admits
\* a race, the old version dead and the new one still temporary.
Reason == {"none", "stale", "window"}

FlashType ==
    /\ flags \in [Slot -> SUBSET Flag]
    /\ wear \in [Page -> Wear]
    /\ next \in [Page -> PageOrNo]
    /\ fname \in [Page -> FileName \cup {NoName}]

TableType ==
    /\ pstate \in [Page -> PageState]
    /\ lastpg \in PageOrNo
    /\ bestErase \in Wear
    /\ lastAlloc \in PageOrNo
    /\ freePages \in Int

CallType ==
    /\ gcSector \in PageOrNo
    /\ fds \subseteq Fd
    /\ pc \in PC
    /\ op \in Op
    /\ saved \in [FileName -> PageOrNo]
    /\ forfeit \in [FileName -> Reason]
    /\ lost \subseteq Landmark

\* Every variable keeps its type.  It includes the case analysis of the mount:
\* a header always falls into one of the states of the table (fs.c:149).
TypeOK == FlashType /\ TableType /\ CallType

-------------------------------------------------------------------------------
(***************************************************************************)
(* Reading the flash.                                                      *)
(***************************************************************************)

\* Mutant: an allocated page without a type flag falls through to assert(0).
StateOf_NoTypeCase(f) ==
    CASE "magic" \notin f \/ "allocated" \notin f -> "Clean"
      [] OTHER -> IF "dead" \in f THEN "Dirty"
                  ELSE IF "start" \in f THEN "FileStart"
                  ELSE IF "cont" \in f THEN "FileCont" ELSE "Unknown"

\* The state _fs_page_table_init derives for a page from the flags in its header.
StateOf(f) ==
    CASE \/ "magic" \notin f \/ "allocated" \notin f
         \/ {"start", "cont"} \cap f = {} -> "Clean"
      [] OTHER -> IF "dead" \in f THEN "Dirty"
                  ELSE IF "start" \in f THEN "FileStart" ELSE "FileCont"
HeaderState(p) == StateOf(flags[p])

Allocated(p) == {"magic", "allocated"} \subseteq flags[p]
Sentinel(p)  == Allocated(p) /\ "moreblocks" \notin flags[p]

\* The first page without the "more blocks" flag opens the search, and any
\* allocated page found after it moves the mark forward.
IsLastPage(l) ==
    IF \A p \in Page : ~Sentinel(p)
    THEN l = NoPage
    ELSE /\ l \in Page /\ Allocated(l)
         /\ \E p \in Page : p <= l /\ Sentinel(p)
         /\ \A p \in Page : Allocated(p) => p <= l

\* A clean page with a header: only these count for the best erase count.
Counted(p) == "magic" \in flags[p] /\ HeaderState(p) = "Clean"

IsBestPage(p) ==
    IF \A q \in Page : ~Counted(q) THEN p = NoPage
    ELSE /\ p \in Page /\ Counted(p)
         /\ \A q \in Page :
               Counted(q) => \/ wear[p] < wear[q]
                             \/ (wear[p] = wear[q] /\ p <= q)

\* Mutant: temporary files are found too.
Match_Temporary(n) == {p \in Page : /\ p <= lastpg /\ pstate[p] = "FileStart"
                                    /\ fname[p] = n}

\* The pages fs_find_file accepts for a name, and the one it returns: the
\* first of them (a set of at most one page).
Match(n) == {p \in Page : /\ p <= lastpg /\ pstate[p] = "FileStart"
                          /\ fname[p] = n /\ "written" \in flags[p]}
Found(n) == {p \in Match(n) : \A q \in Match(n) : p <= q}

\* The cases fs_init cleans up: half created, half deleted, or temporary.
Unsettled(p) ==
    /\ pstate[p] \in {"FileStart", "Dirty"}
    /\ "start" \in flags[p]
    /\ \/ "dead" \notin flags[p] /\ "created" \notin flags[p]
       \/ "dead" \in flags[p] /\ "deleted" \notin flags[p]
       \/ "written" \notin flags[p] /\ "deleted" \notin flags[p]

-------------------------------------------------------------------------------
(***************************************************************************)
(* Writing the flash, and the page table.                                  *)
(***************************************************************************)
Program(p, fl) == flags' = [flags EXCEPT ![p] = @ \cup fl]

\* Mutant: the allocator also takes dirty pages.
CleanPages_AndDirty == {p \in Page : pstate[p] \in {"Clean", "Dirty"}}

CleanPages == {p \in Page : pstate[p] = "Clean"}

\* _fs_page_alloc asserts that it has an erase count and a page to start from.
CanAlloc == bestErase # NoErase /\ lastAlloc # NoPage /\ CleanPages # {}

\* Distance from the page allocated last, in the order of the search.
Ahead(p) == (p - lastAlloc) % NPages

\* The page _fs_page_alloc returns: of the best erase count, or else of the
\* smallest one left, and the first such page after the one allocated last.
IsAllocPage(p) ==
    /\ p \in CleanPages
    /\ IF \E q \in CleanPages : wear[q] = bestErase
       THEN wear[p] = bestErase
       ELSE \A q \in CleanPages : wear[p] <= wear[q]
    /\ \A q \in CleanPages : wear[q] = wear[p] => Ahead(p) <= Ahead(q)

\* Mutant: the page stays clean in the table.
AllocPage_StaysClean(p, st) ==
    /\ IsAllocPage(p)
    /\ UNCHANGED pstate
    /\ bestErase' = wear[p]
    /\ lastAlloc' = p
    /\ lastpg' = IF p > lastpg THEN p ELSE lastpg

\* _fs_verily_alloc_page
AllocPage(p, st) ==
    /\ IsAllocPage(p)
    /\ pstate' = [pstate EXCEPT ![p] = st]
    /\ bestErase' = wear[p]
    /\ lastAlloc' = p
    /\ lastpg' = IF p > lastpg THEN p ELSE lastpg

\* Programming a field twice leaves the bits that were set both times.
BitsOf(n)  == {i \in 0 .. 15 : (n \div 2^i) % 2 = 1}
IsBothBits(c, a, b) ==
    IF a = NoPage THEN c = b ELSE IF b = NoPage THEN c = a
    ELSE BitsOf(c) = BitsOf(a) \cap BitsOf(b)

Goto(where, locals) == pc' = where /\ op' = locals
Return              == Goto("ready", NoOp)
Panic(why)          == pc' = why /\ op' = NoOp

Blank(pages) ==
    /\ flags' = [p \in Slot |-> IF p \in pages THEN {} ELSE flags[p]]
    /\ wear'  = [p \in Page |-> IF p \in pages THEN NoErase ELSE wear[p]]
    /\ next'  = [p \in Page |-> IF p \in pages THEN NoPage ELSE next[p]]
    /\ fname' = [p \in Page |-> IF p \in pages THEN NoName ELSE fname[p]]

-------------------------------------------------------------------------------
(***************************************************************************)
(* Power.  The flash keeps its contents; the RAM does not.                 *)
(***************************************************************************)
RamReset ==
    /\ pstate' = [p \in Page |-> "Clean"]
    /\ lastpg' = NoPage
    /\ bestErase' = NoErase
    /\ lastAlloc' = NoPage
    /\ freePages' = 0
    /\ gcSector' = NoPage
    /\ fds' = {}

Crash ==
    /\ pc # "off"
    /\ RamReset
    /\ Goto("off", NoOp)
    /\ forfeit' = IF pc = "markNew" THEN [forfeit EXCEPT ![op.name] = "window"]
                                    ELSE forfeit
    /\ UNCHANGED <<flags, wear, next, fname, saved, lost>>

\* fs_init up to the end of _fs_page_table_init.
Boot ==
    /\ pc = "off"
    /\ IF "magic" \notin flags[0]
       THEN Goto("nofs", NoOp) /\ UNCHANGED <<table, lost>>
       ELSE /\ Goto("recover", [NoOp EXCEPT !.booting = TRUE])
            /\ \E l \in PageOrNo : IsLastPage(l) /\ lastpg' = l
            /\ \E b \in PageOrNo :
                  /\ IsBestPage(b) /\ lastAlloc' = b
                  /\ bestErase' = IF b = NoPage THEN NoErase ELSE wear[b]
            /\ pstate' = [p \in Page |-> HeaderState(p)]
            /\ freePages' = Cardinality({p \in Page : HeaderState(p) \in {"Clean", "Dirty"}})
            /\ lost' = lost
                  \cup {l \in {"header"} : \E p \in Page : "magic" \notin flags[p]}
                  \cup {l \in {"lastpg"} : lastpg' = NoPage /\ \E p \in Page : Allocated(p)}
    /\ UNCHANGED <<flags, wear, next, fname, gcSector, fds, saved, forfeit>>

-------------------------------------------------------------------------------
(***************************************************************************)
(* Deleting a file: every page of the chain is marked dead, then the first *)
(* one is marked completely deleted (_delete_file_by_pg).                  *)
(***************************************************************************)
StartErase(p, locals) ==
    IF {"dead", "deleted"} \subseteq flags[p]
    THEN Panic("panicDeleted")
    ELSE Goto("erase", [locals EXCEPT !.head = p, !.cur = p])

Erase ==
    /\ pc = "erase"
    /\ op.cur # NoPage
    /\ Program(op.cur, {"dead"})
    /\ pstate' = [pstate EXCEPT ![op.cur] = "Dirty"]
    /\ IF next[op.cur] = NoPage
       THEN Goto("erased", [op EXCEPT !.cur = NoPage])
       ELSE Goto("erase", [op EXCEPT !.cur = next[op.cur]])
    /\ UNCHANGED <<wear, next, fname, lastpg, bestErase, lastAlloc, freePages,
                   gcSector, fds, saved, forfeit, lost>>

Erased ==
    /\ pc = "erased"
    /\ op.head # NoPage
    /\ Program(op.head, {"deleted"})
    /\ IF op.booting THEN Goto("recover", op) ELSE Return
    /\ UNCHANGED <<wear, next, fname, table, gcSector, fds, saved, forfeit, lost>>

-------------------------------------------------------------------------------
(***************************************************************************)
(* The rest of fs_init: file-level cleanup in page order, then the choice  *)
(* and the marking of the sector kept for garbage collection.              *)
(***************************************************************************)
\* Mutant: the cleanup looks at live files only, not at half deleted ones.
ToRecover_LiveOnly ==
    {p \in Page : /\ op.head < p /\ p <= lastpg
                  /\ Unsettled(p) /\ pstate[p] = "FileStart"}

ToRecover == {p \in Page : op.head < p /\ p <= lastpg /\ Unsettled(p)}

Recover ==
    /\ pc = "recover"
    /\ \E p \in ToRecover :
          /\ \A q \in ToRecover : p <= q
          /\ StartErase(p, op)
    /\ UNCHANGED <<flags, wear, next, fname, table, gcSector, fds, saved, forfeit, lost>>

Vacant(p)    == pstate[p] \in {"Clean", "Dirty"}
DirtyIn(s)   == \E p \in PagesOf(s) : pstate[p] = "Dirty"

\* The 32-bit counter the sector would have once erased: past 0xFFFFFFFF it is 0.
GcCount(s) ==
    IF DirtyIn(s) THEN (IF wear[s] = NoErase THEN 0 ELSE wear[s] + 1) ELSE wear[s]

\* The search for the lowest count starts from 0xFFFFFFFF and takes only less.
GcSectors == {s \in Sector : /\ \A p \in PagesOf(s) : Vacant(p)
                             /\ GcCount(s) < NoErase}
IsGcSector(s) ==
    \A t \in GcSectors :
        GcCount(s) < GcCount(t) \/ (GcCount(s) = GcCount(t) /\ s <= t)

FindGcSector ==
    /\ pc = "recover"
    /\ ToRecover = {}
    /\ IF GcSectors = {}
       THEN Panic("panicSector") /\ UNCHANGED gcSector
       ELSE \E s \in GcSectors :
               /\ IsGcSector(s)
               /\ gcSector' = s
               /\ Goto("gcSentinel", [NoOp EXCEPT !.cur = s])
    /\ UNCHANGED <<flags, wear, next, fname, table, fds, saved, forfeit, lost>>

\* _update_moreblocks: the page after the one being written reads as the last.
GcSentinel ==
    /\ pc = "gcSentinel"
    /\ op.cur # NoPage
    /\ pstate' = [pstate EXCEPT ![op.cur] = "Dirty"]
    /\ Program(op.cur + 1, {"allocated"})
    /\ Goto("gcHeader", op)
    /\ UNCHANGED <<wear, next, fname, lastpg, bestErase, lastAlloc, freePages,
                   gcSector, fds, saved, forfeit, lost>>

GcHeader ==
    /\ pc = "gcHeader"
    /\ op.cur # NoPage
    /\ Program(op.cur, {"moreblocks", "allocated"})
    /\ IF op.cur + 1 \in PagesOf(gcSector)
       THEN Goto("gcSentinel", [op EXCEPT !.cur = @ + 1])
       ELSE Return
    /\ UNCHANGED <<wear, next, fname, table, gcSector, fds, saved, forfeit, lost>>

-------------------------------------------------------------------------------
(***************************************************************************)
(* Creating a file (fs_creat_replacing): the pages are written in order,   *)
(* each after the page behind it was marked, and then the first one says   *)
(* that the creation is complete.  A file begins as a temporary one.       *)
(***************************************************************************)
\* The callers look a name up before they create it (rdb.c:452,
\* protocol_transfer.c:177) and keep it from being written twice at a time: a
\* database holds its mutex, and there is one PutBytes transaction.
IsOpen(n) == \E fd \in fds : fd.name = n

StartCreat(n, k, previous) ==
    /\ pc = "ready"
    /\ ~IsOpen(n) /\ Cardinality(fds) < MaxFds
    /\ freePages >= k
    /\ IF ~CanAlloc
       THEN Panic("panicAlloc") /\ UNCHANGED table
       ELSE \E p \in Page :
               /\ AllocPage(p, "FileStart")
               /\ freePages' = freePages - k
               /\ Goto("creatSentinel", [NoOp EXCEPT !.name = n, !.head = p,
                           !.cur = p, !.left = k, !.old = previous])
    /\ UNCHANGED <<flags, wear, next, fname, gcSector, fds, saved, forfeit, lost>>

Create(n, k)  == Found(n) = {} /\ StartCreat(n, k, NoPage)
Replace(n, k) == \E p \in Found(n) : StartCreat(n, k, p)

CreatSentinel ==
    /\ pc = "creatSentinel"
    /\ op.cur # NoPage
    /\ \/ /\ op.left > 1 /\ ~CanAlloc
          /\ Panic("panicAlloc") /\ UNCHANGED <<flags, table>>
       \/ /\ op.left > 1 /\ CanAlloc
          /\ \E p \in Page : /\ AllocPage(p, "FileCont")
                             /\ Goto("creatHeader", [op EXCEPT !.nxt = p])
          /\ Program(op.cur + 1, {"allocated"})
          /\ UNCHANGED freePages
       \/ /\ op.left = 1
          /\ Goto("creatHeader", [op EXCEPT !.nxt = NoPage])
          /\ Program(op.cur + 1, {"allocated"})
          /\ UNCHANGED table
    /\ UNCHANGED <<wear, next, fname, gcSector, fds, saved, forfeit, lost>>

\* A continuation page rewrites the header it read, and so never gets a magic
\* number it did not have.  The name of the first page goes out in a second
\* write: a power loss in between leaves a file that Recover deletes either way.
CreatHeader ==
    /\ pc = "creatHeader"
    /\ op.cur # NoPage
    /\ IF op.cur = op.head
       THEN /\ Program(op.cur, {"magic", "moreblocks", "allocated", "start"})
            /\ fname' = [fname EXCEPT ![op.cur] = op.name]
       ELSE /\ Program(op.cur, {"moreblocks", "allocated", "cont"})
            /\ UNCHANGED fname
    /\ \E v \in PageOrNo : /\ IsBothBits(v, next[op.cur], op.nxt)
                            /\ next' = [next EXCEPT ![op.cur] = v]
    /\ IF op.left > 1
       THEN Goto("creatSentinel", [op EXCEPT !.cur = op.nxt, !.left = @ - 1])
       ELSE Goto("creatDone", op)
    /\ UNCHANGED <<wear, table, gcSector, fds, saved, forfeit, lost>>

CreatDone ==
    /\ pc = "creatDone"
    /\ op.head # NoPage /\ op.name # NoName
    /\ Program(op.head, {"created"})
    /\ fds' = fds \cup {[name |-> op.name, start |-> op.head, old |-> op.old]}
    /\ Return
    /\ UNCHANGED <<wear, next, fname, table, gcSector, saved, forfeit, lost>>

\* A caller gives up before fs_mark_written: the file stays temporary.
Abandon(fd) ==
    /\ pc = "ready"
    /\ fds' = fds \ {fd}
    /\ UNCHANGED <<flags, wear, next, fname, table, gcSector, pc, op, saved, forfeit, lost>>

-------------------------------------------------------------------------------
(***************************************************************************)
(* Committing a file (fs_mark_written), whatever page it was begun on.      *)
(***************************************************************************)
Commit(n, p) ==
    /\ Program(p, {"written"})
    /\ saved' = [saved EXCEPT ![n] = p]
    /\ forfeit' = [forfeit EXCEPT ![n] = IF "dead" \in flags[p] THEN "stale" ELSE "none"]

MarkWritten(fd) ==
    /\ pc = "ready"
    /\ fds' = fds \ {fd}
    /\ IF fd.old = NoPage
       THEN /\ Commit(fd.name, fd.start)
            /\ UNCHANGED <<pc, op>>
       ELSE /\ Program(fd.old, {"dead"})
            /\ Goto("markNew", [NoOp EXCEPT !.name = fd.name,
                                   !.head = fd.start, !.old = fd.old])
            /\ UNCHANGED <<saved, forfeit>>
    /\ UNCHANGED <<wear, next, fname, table, gcSector, lost>>

MarkNew ==
    /\ pc = "markNew"
    /\ op.head # NoPage /\ op.old # NoPage /\ op.name # NoName
    /\ Commit(op.name, op.head)
    /\ StartErase(op.old, op)
    /\ UNCHANGED <<wear, next, fname, table, gcSector, fds, lost>>

-------------------------------------------------------------------------------
(***************************************************************************)
(* Formatting (fs_format, called by the settings application, which panics *)
(* after it): the region is erased sector by sector, then every page gets  *)
(* a header.                                                               *)
(***************************************************************************)
Format ==
    /\ MayFormat
    /\ pc \in {"ready", "nofs"}
    /\ lastpg' = 0
    /\ saved' = [n \in FileName |-> NoPage]
    /\ forfeit' = [n \in FileName |-> "none"]
    /\ Goto("wipeErase", [NoOp EXCEPT !.cur = 0])
    /\ UNCHANGED <<flags, wear, next, fname, pstate, bestErase, lastAlloc,
                   freePages, gcSector, fds, lost>>

WipeErase ==
    /\ pc = "wipeErase"
    /\ Blank(PagesOf(op.cur))
    /\ IF op.cur + PagesPerSector \in Page
       THEN Goto("wipeErase", [op EXCEPT !.cur = @ + PagesPerSector])
       ELSE Goto("wipeHeader", [op EXCEPT !.cur = 0])
    /\ UNCHANGED <<table, gcSector, fds, saved, forfeit, lost>>

WipeHeader ==
    /\ pc = "wipeHeader"
    /\ op.cur # NoPage
    /\ Program(op.cur, {"magic"})
    /\ wear' = [wear EXCEPT ![op.cur] = 1]
    /\ IF op.cur + 1 \in Page
       THEN Goto("wipeHeader", [op EXCEPT !.cur = @ + 1])
       ELSE Goto("wiped", NoOp)
    /\ UNCHANGED <<next, fname, table, gcSector, fds, saved, forfeit, lost>>

-------------------------------------------------------------------------------
Init ==
    /\ \E m \in InitHeaders, w \in InitWear :
          /\ flags = [p \in Slot |-> IF p < m THEN {"magic"} ELSE {}]
          /\ wear = [p \in Page |-> IF p < m THEN w[p] ELSE NoErase]
    /\ next = [p \in Page |-> NoPage]
    /\ fname = [p \in Page |-> NoName]
    /\ pstate = [p \in Page |-> "Clean"]
    /\ lastpg = NoPage /\ bestErase = NoErase /\ lastAlloc = NoPage
    /\ freePages = 0
    /\ gcSector = NoPage
    /\ fds = {}
    /\ pc = "off" /\ op = NoOp
    /\ saved = [n \in FileName |-> NoPage]
    /\ forfeit = [n \in FileName |-> "none"]
    /\ lost = {}

\* The steps the file system takes on its own once a call has begun.
Run == \/ Boot \/ Recover \/ FindGcSector \/ GcSentinel \/ GcHeader
       \/ Erase \/ Erased \/ CreatSentinel \/ CreatHeader \/ CreatDone
       \/ MarkNew \/ WipeErase \/ WipeHeader

Call == \/ \E n \in FileName, k \in 1 .. MaxFilePages : Create(n, k) \/ Replace(n, k)
        \/ \E fd \in fds : MarkWritten(fd) \/ Abandon(fd)
        \/ Format

Next == Run \/ Call \/ Crash

Spec     == Init /\ [][Next]_vars
FairSpec == Spec /\ WF_vars(Run)

-------------------------------------------------------------------------------
(***************************************************************************)
(* Properties.                                                             *)
(***************************************************************************)

\* The assertions of fs_init and of _delete_file_by_pg (fs.c:277, 311): no file
\* is deleted twice, whatever was interrupted before, and a mount finds a sector
\* to keep for garbage collection unless some mount met a page without a header.
NoAssertFails ==
    /\ pc # "panicDeleted"
    /\ pc = "panicSector" => "header" \in lost

\* Every mount so far found what it looked for.
Intact == lost = {}

\* The pages reached from p in at most i steps along next_page.
Chain(p) ==
    LET reach[i \in 0 .. NPages] ==
            IF i = 0 THEN {p}
            ELSE reach[i - 1] \cup ({next[q] : q \in reach[i - 1]} \ {NoPage})
    IN  reach[NPages]

\* A file that can be looked up is whole: its creation and its commit were
\* written, its first page is the only start in its chain, the rest are
\* continuations, and no page belongs to two such files, although several
\* files are created, abandoned, replaced and recovered on the same pages.
Visible == {p \in Page : \E n \in FileName : p \in Match(n)}
FoundFilesAreWhole ==
    (pc = "ready" /\ Intact) =>
      /\ \A p \in Visible :
            /\ {"start", "created", "written"} \subseteq flags[p]
            /\ \A q \in Chain(p) \ {p} : "cont" \in flags[q] /\ "start" \notin flags[q]
      /\ \A p, q \in Visible : p # q => Chain(p) \cap Chain(q) = {}

\* What was committed survives: as long as every mount found the last written
\* page, looking a name up returns the version committed last, but for the two
\* losses that need no lost landmark: a file begun on a page that already
\* carries the dead flag (fs.c:117), and a power loss in the window of
\* fs.c:669.  A replacement under way leaves the old version in place, and a
\* power loss at any other write before the commit takes only the temporary file.
CommittedIsFound ==
    (pc = "ready" /\ Intact) =>
        \A n \in FileName :
            (forfeit[n] = "none" /\ saved[n] # NoPage) => Found(n) = {saved[n]}

\* A name never has two live versions, even when the power fails between
\* committing the new one and deleting the old one.
OneVersion ==
    (pc = "ready" /\ Intact) =>
        \A n \in FileName : Cardinality(Match(n)) <= 1

\* A mount leaves nothing half done behind (fs.c:365, "file-level cleanup"):
\* every file start among the scanned pages has been deleted completely or is
\* a file wholly created, and no half deletion is left for a later mount to
\* repeat on pages that were given away since.
NothingHalfDone ==
    (pc = "ready" /\ Intact) =>
        \A p \in Page :
            (p <= lastpg /\ Unsettled(p)) =>
               pstate[p] = "FileStart" /\ "created" \in flags[p]

\* A commit happens once, wholly or not at all, whatever interrupts it, with
\* the two exceptions CommittedIsFound names.
CommitsAreAtomic == CommittedIsFound /\ OneVersion /\ NothingHalfDone

\* A mount ends, in a mounted file system or in a panic, unless the power
\* fails again and again: no chain of pages loops.
Settled   == pc \in {"ready", "nofs", "panicAlloc", "panicSector", "panicDeleted", "wiped"}
CallsEnd  == []<>Settled \/ []<><<Crash>>_vars
-------------------------------------------------------------------------------
(***************************************************************************)
(* Why no assertion fails: the parts of an inductive invariant.            *)
(***************************************************************************)
Creating == pc \in {"creatSentinel", "creatHeader", "creatDone"}
Erasing  == pc \in {"erase", "erased"}
Booting  == pc = "recover" \/ (Erasing /\ op.booting)
Marking  == pc \in {"gcSentinel", "gcHeader"}
Mounted  == pc \in {"ready", "markNew"} \/ Creating \/ (Erasing /\ ~op.booting)

IsFile(p)       == {"start", "cont"} \cap flags[p] # {}
HeaderVacant(p) == HeaderState(p) \in {"Clean", "Dirty"}

\* The order in which the flags of a header are programmed.
HeaderOrder ==
    \A p \in Slot : /\ IsFile(p) => "allocated" \in flags[p]
                    /\ "start" \in flags[p] => "magic" \in flags[p]
                    /\ "written" \in flags[p] => "start" \in flags[p]
                    /\ "deleted" \in flags[p] => {"start", "dead"} \subseteq flags[p]

\* The flash always holds a sector without a live page.
SpareSector == \E s \in Sector : \A p \in PagesOf(s) : HeaderVacant(p)

\* A page with a header has an erase count, until a mount meets one with none.
CountsAreWritten ==
    "header" \notin lost =>
      /\ \A p \in Page : "magic" \in flags[p] => wear[p] # NoErase
      /\ (Booting \/ Marking \/ Mounted) => \A p \in Page : "magic" \in flags[p]

\* Once chosen, the sector kept for garbage collection is never given away.
SectorIsKept ==
    (Marking \/ Mounted) =>
      /\ gcSector \in Sector
      /\ Marking => op.cur \in PagesOf(gcSector)
      /\ \A p \in PagesOf(gcSector) :
            /\ HeaderVacant(p)
            /\ (Mounted \/ p < op.cur \/ (pc = "gcHeader" /\ p = op.cur))
                  => pstate[p] = "Dirty"

\* While a mount cleans up, the table agrees with the headers.
TableIsFresh == Booting => \A p \in Page : Vacant(p) <=> HeaderVacant(p)

\* The pages being written were taken from the clean ones.
CreatPages ==
    Creating => \A p \in {op.head, op.cur, op.nxt} \ {NoPage} :
                    pstate[p] \in {"FileStart", "FileCont"}

\* Formatting blanks every page before it writes the first header.
BlankFirst ==
    /\ pc = "wipeErase" =>
          op.cur \in Page /\ \A p \in Page : p < op.cur => flags[p] = {}
    /\ pc = "wipeHeader" => \A p \in Page : ~IsFile(p)

\* A deleted file is off the table, and its first page was marked dead first.
DeletedIsDirty ==
    /\ (Booting \/ Marking \/ Mounted) =>
          \A p \in Page : "deleted" \in flags[p] => pstate[p] = "Dirty"
    /\ Erasing => /\ op.head # NoPage => "start" \in flags[op.head]
                  /\ pc = "erase" => op.head # NoPage
                  /\ \/ pc = "erase" /\ op.cur = op.head
                     \/ "dead" \in flags[op.head] /\ pstate[op.head] = "Dirty"

\* o may be replaced by the file being written under the name n.
IsPrevious(o, n) == /\ "start" \in flags[o] /\ "deleted" \notin flags[o]
                    /\ fname[o] = n /\ pstate[o] # "Clean"

\* Files open for writing have different names, and so replace different files.
OpenFiles ==
    /\ (Booting \/ Marking \/ pc \in {"off", "nofs"}) => fds = {}
    /\ Mounted =>
          /\ \A fd \in fds : /\ "start" \in flags[fd.start]
                             /\ fd.old # NoPage => IsPrevious(fd.old, fd.name)
          /\ \A fd1, fd2 \in fds : fd1.name = fd2.name => fd1 = fd2
          /\ pc # "ready" => \A fd \in fds : fd.name # op.name

CallInProgress ==
    /\ pc = "recover" => op.booting
    /\ Creating =>
          /\ op.head # NoPage
          /\ pc = "creatDone" \/ op.cur # op.head => "start" \in flags[op.head]
          /\ \A fd \in fds : fd.old # op.head
          /\ op.old # NoPage => IsPrevious(op.old, op.name) /\ op.old # op.head
    /\ pc = "markNew" => /\ ~op.booting
                         /\ op.old # NoPage /\ IsPrevious(op.old, op.name)
                         /\ op.head # NoPage /\ "start" \in flags[op.head]
    /\ Erasing /\ ~op.booting => op.head # NoPage /\ fname[op.head] = op.name

\* Why the assertions of fs.c:277 and fs.c:311 hold as NoAssertFails states them,
\* for every sequence of calls and power losses: an inductive invariant.
AssertInv ==
    /\ TypeOK /\ HeaderOrder /\ SpareSector /\ CountsAreWritten /\ SectorIsKept
    /\ TableIsFresh /\ CreatPages /\ BlankFirst /\ DeletedIsDirty /\ OpenFiles /\ CallInProgress
    /\ NoAssertFails
===============================================================================
