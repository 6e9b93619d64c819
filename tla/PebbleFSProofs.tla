---------------------------- MODULE PebbleFSProofs ----------------------------
(***************************************************************************)
(* Theorems about PebbleFS, for every region size, sector size, set of     *)
(* names and bound: the type invariant; the inductive invariant AssertInv  *)
(* and, from it, that the assertions of the file system hold; and, on top  *)
(* of it, the inductive invariant CommitInv, from which commits are atomic *)
(* and every file found is whole.                                          *)
(***************************************************************************)
EXTENDS PebbleFS, FiniteSetTheorems, TLAPS

USE DEF NoPage, NoErase

LEMMA NoOpType == NoOp \in Op
  BY BoundAssumption DEF NoOp, Op, PageOrNo

LEMMA PageZero == 0 \in Page
  BY SizeAssumption DEF Page

\* The locals of a call stay in their types when one field changes.
LEMMA OpUpdate ==
  ASSUME NEW o \in Op, NEW p \in PageOrNo
  PROVE  /\ [o EXCEPT !.head = p] \in Op
         /\ [o EXCEPT !.cur = p] \in Op
         /\ [o EXCEPT !.nxt = p] \in Op
         /\ [o EXCEPT !.head = p, !.cur = p] \in Op
  BY DEF Op

LEMMA ProgramType ==
  ASSUME FlashType, NEW p \in Slot, NEW fl \in SUBSET Flag, Program(p, fl)
  PROVE  flags' \in [Slot -> SUBSET Flag]
  BY DEF FlashType, Program

LEMMA AllocPageType ==
  ASSUME TableType, FlashType, NEW p \in Page, NEW st \in PageState,
         AllocPage(p, st), freePages' \in Int
  PROVE  TableType'
  BY DEF TableType, FlashType, AllocPage, PageOrNo

LEMMA SameTable ==
  ASSUME TableType, UNCHANGED table
  PROVE  TableType'
  BY DEF TableType, table

LEMMA SetStateType ==
  ASSUME TableType, NEW p, NEW st \in PageState,
         pstate' = [pstate EXCEPT ![p] = st],
         UNCHANGED <<lastpg, bestErase, lastAlloc, freePages>>
  PROVE  TableType'
  BY DEF TableType

LEMMA SameFlash ==
  ASSUME FlashType, UNCHANGED <<flags, wear, next, fname>>
  PROVE  FlashType'
  BY DEF FlashType

\* A write of flags only.
LEMMA FlagWriteType ==
  ASSUME FlashType, NEW p \in Slot, NEW fl \in SUBSET Flag, Program(p, fl),
         UNCHANGED <<wear, next, fname>>
  PROVE  FlashType'
  BY DEF FlashType, Program

LEMMA PageSlots ==
  ASSUME NEW p \in PageOrNo, p # NoPage
  PROVE  p \in Page /\ p \in Slot /\ p + 1 \in Slot
  BY SizeAssumption DEF PageOrNo, Page, Slot

LEMMA InitType == Init => TypeOK
<1> SUFFICES ASSUME Init PROVE TypeOK
  OBVIOUS
<1>1. wear \in [Page -> Wear]
  BY BoundAssumption DEF Init, Wear
<1>2. FlashType
  BY <1>1 DEF Init, FlashType, Flag, PageOrNo
<1>3. TableType
  BY BoundAssumption DEF Init, TableType, PageOrNo, PageState, Wear
<1>4. CallType
  BY NoOpType DEF Init, CallType, PageOrNo, PC, Reason
<1> QED
  BY <1>2, <1>3, <1>4 DEF TypeOK

LEMMA CardinalityInt ==
  ASSUME NEW S \in SUBSET Page
  PROVE  Cardinality(S) \in Int
<1>1. IsFiniteSet(Page)
  BY FS_Interval, SizeAssumption DEF Page
<1>2. IsFiniteSet(S)
  BY <1>1, FS_Subset
<1> QED
  BY <1>2, FS_CardinalityType

LEMMA BootType == TypeOK /\ Boot => TypeOK'
<1> SUFFICES ASSUME TypeOK, Boot PROVE TypeOK'
  OBVIOUS
<1> USE DEF TypeOK
<1>1. FlashType'
  BY SameFlash DEF Boot
<1>2. CallType'
  <2>1. [NoOp EXCEPT !.booting = TRUE] \in Op
    BY NoOpType DEF Op
  <2>2. op' \in Op /\ pc' \in PC
    BY <2>1, NoOpType DEF Boot, Goto, PC
  <2>3. lost' \subseteq Landmark
    BY DEF Boot, CallType, Landmark
  <2> QED
    BY <2>2, <2>3 DEF Boot, CallType
<1>3. TableType'
  <2>1. CASE "magic" \notin flags[0]
    BY <2>1, SameTable DEF Boot
  <2>2. CASE "magic" \in flags[0]
    <3>1. lastpg' \in PageOrNo
      BY <2>2 DEF Boot
    <3>2. lastAlloc' \in PageOrNo /\ bestErase' \in Wear
      <4>1. PICK b \in PageOrNo : lastAlloc' = b /\ bestErase' = IF b = NoPage THEN NoErase ELSE wear[b]
        BY <2>2 DEF Boot
      <4>2. NoErase \in Wear
        BY BoundAssumption DEF Wear
      <4>3. b # NoPage => wear[b] \in Wear
        BY DEF FlashType, PageOrNo
      <4> QED
        BY <4>1, <4>2, <4>3
    <3>3. pstate' \in [Page -> PageState]
      BY <2>2 DEF Boot, HeaderState, StateOf, PageState
    <3>4. freePages' \in Int
      BY <2>2, CardinalityInt DEF Boot
    <3> QED
      BY <3>1, <3>2, <3>3, <3>4 DEF TableType
  <2> QED
    BY <2>1, <2>2
<1> QED
  BY <1>1, <1>2, <1>3

LEMMA CrashType == TypeOK /\ Crash => TypeOK'
<1> SUFFICES ASSUME TypeOK, Crash PROVE TypeOK'
  OBVIOUS
<1> USE DEF TypeOK
<1>1. FlashType'
  BY SameFlash DEF Crash
<1>2. TableType'
  BY BoundAssumption DEF Crash, RamReset, TableType, PageState, PageOrNo, Wear
<1>3. CallType'
  <2>1. forfeit' \in [FileName -> Reason]
    BY DEF Crash, CallType, Reason
  <2> QED
    BY <2>1, NoOpType DEF Crash, RamReset, Goto, CallType, PC, PageOrNo
<1> QED
  BY <1>1, <1>2, <1>3

LEMMA StartEraseType ==
  ASSUME NEW p \in PageOrNo, NEW o \in Op, StartErase(p, o)
  PROVE  pc' \in PC /\ op' \in Op
  BY OpUpdate, NoOpType DEF StartErase, Goto, Panic, PC

LEMMA RecoverType == TypeOK /\ Recover => TypeOK'
<1> SUFFICES ASSUME TypeOK, Recover PROVE TypeOK'
  OBVIOUS
<1> USE DEF TypeOK
<1>1. PICK p \in ToRecover : StartErase(p, op)
  BY DEF Recover
<1>2. p \in PageOrNo
  BY DEF ToRecover, PageOrNo
<1>3. pc' \in PC /\ op' \in Op
  BY <1>1, <1>2, StartEraseType DEF CallType
<1> QED
  BY <1>3, SameFlash, SameTable DEF Recover, CallType

LEMMA FindGcSectorType == TypeOK /\ FindGcSector => TypeOK'
<1> SUFFICES ASSUME TypeOK, FindGcSector PROVE TypeOK'
  OBVIOUS
<1> USE DEF TypeOK
<1>1. gcSector' \in PageOrNo /\ pc' \in PC /\ op' \in Op
  <2>1. CASE GcSectors = {}
    BY <2>1, NoOpType DEF FindGcSector, Panic, PC, CallType
  <2>2. CASE GcSectors # {}
    <3>1. PICK s \in GcSectors : gcSector' = s /\ Goto("gcSentinel", [NoOp EXCEPT !.cur = s])
      BY <2>2 DEF FindGcSector
    <3>2. s \in PageOrNo
      BY DEF GcSectors, Sector, PageOrNo
    <3> QED
      BY <3>1, <3>2, OpUpdate, NoOpType DEF Goto, PC
  <2> QED
    BY <2>1, <2>2
<1> QED
  BY <1>1, SameFlash, SameTable DEF FindGcSector, CallType

LEMMA GcSentinelType == TypeOK /\ GcSentinel => TypeOK'
<1> SUFFICES ASSUME TypeOK, GcSentinel PROVE TypeOK'
  OBVIOUS
<1> USE DEF TypeOK
<1>1. op.cur \in Page /\ op.cur + 1 \in Slot
  BY PageSlots DEF GcSentinel, CallType, Op
<1>2. FlashType'
  <2>1. {"allocated"} \in SUBSET Flag
    BY DEF Flag
  <2> QED
    BY <1>1, <2>1, FlagWriteType DEF GcSentinel
<1>3. TableType'
  BY SetStateType DEF GcSentinel, PageState
<1> QED
  BY <1>2, <1>3 DEF GcSentinel, Goto, CallType, PC

LEMMA GcHeaderType == TypeOK /\ GcHeader => TypeOK'
<1> SUFFICES ASSUME TypeOK, GcHeader PROVE TypeOK'
  OBVIOUS
<1> USE DEF TypeOK
<1>1. op.cur \in Page /\ op.cur \in Slot
  BY PageSlots DEF GcHeader, CallType, Op
<1>2. FlashType'
  <2>1. {"moreblocks", "allocated"} \in SUBSET Flag
    BY DEF Flag
  <2> QED
    BY <1>1, <2>1, FlagWriteType DEF GcHeader
<1>3. pc' \in PC /\ op' \in Op
  <2>1. CASE op.cur + 1 \in PagesOf(gcSector)
    <3>1. op.cur + 1 \in PageOrNo
      BY <2>1 DEF PagesOf, PageOrNo
    <3>2. [op EXCEPT !.cur = @ + 1] \in Op
      BY <3>1 DEF Op, CallType
    <3> QED
      BY <2>1, <3>2 DEF GcHeader, Goto, PC
  <2>2. CASE op.cur + 1 \notin PagesOf(gcSector)
    BY <2>2, NoOpType DEF GcHeader, Return, Goto, PC
  <2> QED
    BY <2>1, <2>2
<1> QED
  BY <1>2, <1>3, SameTable DEF GcHeader, CallType

LEMMA EraseType == TypeOK /\ Erase => TypeOK'
<1> SUFFICES ASSUME TypeOK, Erase PROVE TypeOK'
  OBVIOUS
<1> USE DEF TypeOK
<1>1. op.cur \in Page /\ op.cur \in Slot
  BY PageSlots DEF Erase, CallType, Op
<1>2. FlashType'
  <2>1. {"dead"} \in SUBSET Flag
    BY DEF Flag
  <2> QED
    BY <1>1, <2>1, FlagWriteType DEF Erase
<1>3. TableType'
  BY SetStateType DEF Erase, PageState
<1>4. pc' \in PC /\ op' \in Op
  <2>1. next[op.cur] \in PageOrNo
    BY <1>1 DEF FlashType
  <2>2. [op EXCEPT !.cur = NoPage] \in Op /\ [op EXCEPT !.cur = next[op.cur]] \in Op
    BY <2>1, OpUpdate DEF CallType, PageOrNo
  <2> QED
    BY <2>2 DEF Erase, Goto, PC
<1> QED
  BY <1>2, <1>3, <1>4 DEF Erase, CallType

LEMMA ErasedType == TypeOK /\ Erased => TypeOK'
<1> SUFFICES ASSUME TypeOK, Erased PROVE TypeOK'
  OBVIOUS
<1> USE DEF TypeOK
<1>1. op.head \in Slot
  BY PageSlots DEF Erased, CallType, Op
<1>2. FlashType'
  <2>1. {"deleted"} \in SUBSET Flag
    BY DEF Flag
  <2> QED
    BY <1>1, <2>1, FlagWriteType DEF Erased
<1>3. pc' \in PC /\ op' \in Op
  BY NoOpType DEF Erased, Goto, Return, PC, CallType
<1> QED
  BY <1>2, <1>3, SameTable DEF Erased, CallType

LEMMA StartCreatType ==
  ASSUME TypeOK, NEW n \in FileName, NEW k \in 1 .. MaxFilePages,
         NEW v \in PageOrNo, StartCreat(n, k, v)
  PROVE  TypeOK'
<1> USE DEF TypeOK
<1>1. FlashType'
  BY SameFlash DEF StartCreat
<1>2. CASE ~CanAlloc
  <2>1. TableType' /\ pc' \in PC /\ op' \in Op
    BY <1>2, SameTable, NoOpType DEF StartCreat, Panic, PC
  <2> QED
    BY <1>1, <2>1 DEF StartCreat, CallType
<1>3. CASE CanAlloc
  <2>1. PICK p \in Page :
          /\ AllocPage(p, "FileStart")
          /\ freePages' = freePages - k
          /\ Goto("creatSentinel", [NoOp EXCEPT !.name = n, !.head = p,
                      !.cur = p, !.left = k, !.old = v])
    BY <1>3 DEF StartCreat
  <2>2. TableType'
    <3>1. freePages' \in Int
      BY <2>1 DEF TableType
    <3> QED
      BY <2>1, <3>1, AllocPageType DEF PageState
  <2>3. op' \in Op
    <3>1. k \in 0 .. MaxFilePages /\ p \in PageOrNo
      BY BoundAssumption DEF PageOrNo
    <3>2. op' = [name |-> n, head |-> p, cur |-> p, nxt |-> NoPage,
                 left |-> k, old |-> v, booting |-> FALSE]
      BY <2>1 DEF Goto, NoOp
    <3> QED
      BY <3>1, <3>2 DEF Op, PageOrNo
  <2> QED
    BY <1>1, <2>1, <2>2, <2>3 DEF StartCreat, CallType, Goto, PC
<1> QED
  BY <1>2, <1>3

LEMMA CreatSentinelType == TypeOK /\ CreatSentinel => TypeOK'
<1> SUFFICES ASSUME TypeOK, CreatSentinel PROVE TypeOK'
  OBVIOUS
<1> USE DEF TypeOK
<1>1. op.cur \in Page /\ op.cur + 1 \in Slot
  BY PageSlots DEF CreatSentinel, CallType, Op
<1>2. {"allocated"} \in SUBSET Flag
  BY DEF Flag
<1>3. FlashType'
  <2>1. UNCHANGED flags \/ Program(op.cur + 1, {"allocated"})
    BY DEF CreatSentinel
  <2>2. UNCHANGED <<wear, next, fname>>
    BY DEF CreatSentinel
  <2> QED
    BY <1>1, <1>2, <2>1, <2>2, FlagWriteType, SameFlash
<1>4. TableType' /\ pc' \in PC /\ op' \in Op
  <2>1. CASE op.left > 1 /\ ~CanAlloc
    BY <2>1, SameTable, NoOpType DEF CreatSentinel, Panic, PC, CallType, Op
  <2>2. CASE op.left > 1 /\ CanAlloc
    <3>0. op.left # 1
      BY <2>2
    <3>1. PICK p \in Page : AllocPage(p, "FileCont") /\ Goto("creatHeader", [op EXCEPT !.nxt = p])
      BY <2>2, <3>0, Zenon DEF CreatSentinel
    <3>2. freePages' \in Int
      BY <2>2, <3>0 DEF CreatSentinel, TableType
    <3>3. TableType'
      BY <3>1, <3>2, AllocPageType DEF PageState
    <3> QED
      BY <3>1, <3>3, OpUpdate DEF Goto, PC, CallType, PageOrNo
  <2>3. CASE op.left = 1
    <3>1. UNCHANGED table /\ Goto("creatHeader", [op EXCEPT !.nxt = NoPage])
      BY <2>3 DEF CreatSentinel
    <3> QED
      BY <3>1, SameTable, OpUpdate DEF Goto, PC, CallType, PageOrNo
  <2> QED
    BY <2>1, <2>2, <2>3 DEF CreatSentinel
<1> QED
  BY <1>3, <1>4 DEF CreatSentinel, CallType

LEMMA CreatHeaderType == TypeOK /\ CreatHeader => TypeOK'
<1> SUFFICES ASSUME TypeOK, CreatHeader PROVE TypeOK'
  OBVIOUS
<1> USE DEF TypeOK
<1>1. op.cur \in Page /\ op.cur \in Slot
  BY PageSlots DEF CreatHeader, CallType, Op
<1>2. flags' \in [Slot -> SUBSET Flag]
  <2>1. \E fl \in SUBSET Flag : Program(op.cur, fl)
    <3>1. {"magic", "moreblocks", "allocated", "start"} \in SUBSET Flag
      BY DEF Flag
    <3>2. {"moreblocks", "allocated", "cont"} \in SUBSET Flag
      BY DEF Flag
    <3> QED
      BY <3>1, <3>2 DEF CreatHeader
  <2> QED
    BY <1>1, <2>1, ProgramType
<1>3. fname' \in [Page -> FileName \cup {NoName}]
  BY <1>1 DEF CreatHeader, FlashType, CallType, Op
<1>4. next' \in [Page -> PageOrNo]
  BY <1>1 DEF CreatHeader, FlashType
<1>5. FlashType'
  BY <1>2, <1>3, <1>4 DEF CreatHeader, FlashType
<1>6. pc' \in PC /\ op' \in Op
  <2>1. op \in Op
    BY DEF CallType
  <2>2. op.left > 1 => op.left - 1 \in 0 .. MaxFilePages
    BY <2>1, BoundAssumption DEF Op
  <2>3. op.left > 1 => [op EXCEPT !.cur = op.nxt, !.left = @ - 1] \in Op
    BY <2>1, <2>2 DEF Op
  <2> QED
    BY <2>1, <2>3 DEF CreatHeader, Goto, PC
<1> QED
  BY <1>5, <1>6, SameTable DEF CreatHeader, CallType

LEMMA CreatDoneType == TypeOK /\ CreatDone => TypeOK'
<1> SUFFICES ASSUME TypeOK, CreatDone PROVE TypeOK'
  OBVIOUS
<1> USE DEF TypeOK
<1>1. op.head \in Page /\ op.head \in Slot
  BY PageSlots DEF CreatDone, CallType, Op
<1>2. FlashType'
  <2>1. {"created"} \in SUBSET Flag
    BY DEF Flag
  <2> QED
    BY <1>1, <2>1, FlagWriteType DEF CreatDone
<1>3. fds' \subseteq Fd
  <2>1. [name |-> op.name, start |-> op.head, old |-> op.old] \in Fd
    BY <1>1 DEF CreatDone, CallType, Op, Fd
  <2> QED
    BY <2>1 DEF CreatDone, CallType
<1> QED
  BY <1>2, <1>3, SameTable, NoOpType DEF CreatDone, CallType, Return, Goto, PC

LEMMA CommitType ==
  ASSUME FlashType, CallType, NEW n \in FileName, NEW p \in Page, Commit(n, p),
         UNCHANGED <<wear, next, fname>>
  PROVE  FlashType' /\ saved' \in [FileName -> PageOrNo] /\ forfeit' \in [FileName -> Reason]
<1>1. {"written"} \in SUBSET Flag /\ p \in Slot
  BY PageSlots DEF Flag, PageOrNo, Page, NoPage
<1>2. FlashType'
  BY <1>1, FlagWriteType DEF Commit
<1>3. saved' \in [FileName -> PageOrNo]
  BY DEF Commit, CallType, PageOrNo
<1>4. forfeit' \in [FileName -> Reason]
  BY DEF Commit, CallType, Reason
<1> QED
  BY <1>2, <1>3, <1>4

LEMMA MarkWrittenType ==
  ASSUME TypeOK, NEW fd \in fds, MarkWritten(fd)
  PROVE  TypeOK'
<1> USE DEF TypeOK
<1>1. fd \in Fd /\ fds' \subseteq Fd
  BY DEF CallType, MarkWritten
<1>2. UNCHANGED <<wear, next, fname, gcSector, lost>> /\ UNCHANGED table
  BY DEF MarkWritten
<1>3. CASE fd.old = NoPage
  <2>1. Commit(fd.name, fd.start) /\ UNCHANGED <<pc, op>>
    BY <1>3 DEF MarkWritten
  <2>2. FlashType' /\ saved' \in [FileName -> PageOrNo] /\ forfeit' \in [FileName -> Reason]
    BY <1>1, <1>2, <2>1, CommitType DEF Fd
  <2> QED
    BY <1>1, <1>2, <2>1, <2>2, SameTable DEF CallType
<1>4. CASE fd.old # NoPage
  <2>1. FlashType'
    <3>1. {"dead"} \in SUBSET Flag /\ fd.old \in Slot
      BY <1>1, <1>4, PageSlots DEF Flag, Fd
    <3> QED
      BY <1>2, <1>4, <3>1, FlagWriteType DEF MarkWritten
  <2>2. pc' \in PC /\ op' \in Op
    <3>1. op' = [NoOp EXCEPT !.name = fd.name, !.head = fd.start, !.old = fd.old]
      BY <1>4 DEF MarkWritten, Goto
    <3>2. op' = [name |-> fd.name, head |-> fd.start, cur |-> NoPage, nxt |-> NoPage,
                 left |-> 0, old |-> fd.old, booting |-> FALSE]
      BY <3>1 DEF NoOp
    <3>3. fd.name \in FileName /\ fd.start \in PageOrNo /\ fd.old \in PageOrNo
      BY <1>1 DEF Fd, PageOrNo
    <3>4. op' \in Op
      BY <3>2, <3>3, BoundAssumption DEF Op, PageOrNo
    <3> QED
      BY <1>4, <3>4 DEF MarkWritten, Goto, PC
  <2> QED
    BY <1>1, <1>2, <1>4, <2>1, <2>2, SameTable DEF MarkWritten, CallType
<1> QED
  BY <1>3, <1>4

LEMMA MarkNewType == TypeOK /\ MarkNew => TypeOK'
<1> SUFFICES ASSUME TypeOK, MarkNew PROVE TypeOK'
  OBVIOUS
<1> USE DEF TypeOK
<1>1. op.head \in Page /\ op.name \in FileName /\ op.old \in PageOrNo /\ op \in Op
  BY PageSlots DEF MarkNew, CallType, Op
<1>2. FlashType' /\ saved' \in [FileName -> PageOrNo] /\ forfeit' \in [FileName -> Reason]
  BY <1>1, CommitType DEF MarkNew
<1>3. pc' \in PC /\ op' \in Op
  BY <1>1, StartEraseType DEF MarkNew
<1> QED
  BY <1>2, <1>3, SameTable DEF MarkNew, CallType

LEMMA FormatType == TypeOK /\ Format => TypeOK'
<1> SUFFICES ASSUME TypeOK, Format PROVE TypeOK'
  OBVIOUS
<1> USE DEF TypeOK
<1>1. TableType'
  BY PageZero DEF Format, TableType, PageOrNo
<1>2. op' \in Op
  BY PageZero, NoOpType, OpUpdate DEF Format, Goto, PageOrNo
<1>3. saved' \in [FileName -> PageOrNo] /\ forfeit' \in [FileName -> Reason]
  BY DEF Format, PageOrNo, Reason
<1> QED
  BY <1>1, <1>2, <1>3, SameFlash DEF Format, Goto, CallType, PC

LEMMA WipeEraseType == TypeOK /\ WipeErase => TypeOK'
<1> SUFFICES ASSUME TypeOK, WipeErase PROVE TypeOK'
  OBVIOUS
<1> USE DEF TypeOK
<1>1. FlashType'
  <2>1. NoErase \in Wear
    BY BoundAssumption DEF Wear
  <2> QED
    BY <2>1 DEF WipeErase, Blank, FlashType, PageOrNo
<1>2. pc' \in PC /\ op' \in Op
  <2>1. CASE op.cur + PagesPerSector \in Page
    <3>1. [op EXCEPT !.cur = @ + PagesPerSector] \in Op
      BY <2>1, OpUpdate DEF CallType, PageOrNo
    <3> QED
      BY <2>1, <3>1 DEF WipeErase, Goto, PC
  <2>2. CASE op.cur + PagesPerSector \notin Page
    BY <2>2, OpUpdate, PageZero DEF WipeErase, Goto, PC, CallType, PageOrNo
  <2> QED
    BY <2>1, <2>2
<1> QED
  BY <1>1, <1>2, SameTable DEF WipeErase, CallType

LEMMA WipeHeaderType == TypeOK /\ WipeHeader => TypeOK'
<1> SUFFICES ASSUME TypeOK, WipeHeader PROVE TypeOK'
  OBVIOUS
<1> USE DEF TypeOK
<1>1. op.cur \in Page /\ op.cur \in Slot
  BY PageSlots DEF WipeHeader, CallType, Op
<1>2. FlashType'
  <2>1. {"magic"} \in SUBSET Flag /\ 1 \in Wear
    BY BoundAssumption DEF Flag, Wear
  <2>2. flags' \in [Slot -> SUBSET Flag]
    BY <1>1, <2>1, ProgramType DEF WipeHeader
  <2> QED
    BY <2>1, <2>2 DEF WipeHeader, FlashType
<1>3. pc' \in PC /\ op' \in Op
  <2>1. CASE op.cur + 1 \in Page
    <3>1. [op EXCEPT !.cur = @ + 1] \in Op
      BY <2>1, OpUpdate DEF CallType, PageOrNo
    <3> QED
      BY <2>1, <3>1 DEF WipeHeader, Goto, PC
  <2>2. CASE op.cur + 1 \notin Page
    BY <2>2, NoOpType DEF WipeHeader, Goto, PC
  <2> QED
    BY <2>1, <2>2
<1> QED
  BY <1>2, <1>3, SameTable DEF WipeHeader, CallType

LEMMA StepType == TypeOK /\ [Next]_vars => TypeOK'
<1> SUFFICES ASSUME TypeOK, [Next]_vars PROVE TypeOK'
  OBVIOUS
<1>1. CASE Run
  BY <1>1, BootType, RecoverType, FindGcSectorType, GcSentinelType, GcHeaderType,
     EraseType, ErasedType, CreatSentinelType, CreatHeaderType, CreatDoneType,
     MarkNewType, WipeEraseType, WipeHeaderType DEF Run
<1>2. CASE Call
  <2>1. ASSUME NEW n \in FileName, NEW k \in 1 .. MaxFilePages, Create(n, k)
        PROVE  TypeOK'
    BY <2>1, StartCreatType DEF Create, PageOrNo
  <2>2. ASSUME NEW n \in FileName, NEW k \in 1 .. MaxFilePages, Replace(n, k)
        PROVE  TypeOK'
    <3>1. PICK p \in Found(n) : StartCreat(n, k, p)
      BY <2>2 DEF Replace
    <3>2. p \in PageOrNo
      BY DEF Found, Match, PageOrNo
    <3> QED
      BY <3>1, <3>2, StartCreatType
  <2>3. ASSUME NEW fd \in fds, Abandon(fd)
        PROVE  TypeOK'
    BY <2>3, SameFlash, SameTable DEF Abandon, TypeOK, CallType
  <2> QED
    BY <1>2, <2>1, <2>2, <2>3, MarkWrittenType, FormatType DEF Call
<1>3. CASE Crash
  BY <1>3, CrashType
<1>4. CASE UNCHANGED vars
  BY <1>4, SameFlash, SameTable DEF vars, table, TypeOK, CallType
<1> QED
  BY <1>1, <1>2, <1>3, <1>4 DEF Next

\* Every variable keeps its type in every reachable state; in particular a
\* mount never reaches the assert(0) that ends _fs_page_table_init (fs.c:149).
THEOREM TypeCorrect == Spec => []TypeOK
  BY InitType, StepType, PTL DEF Spec

-------------------------------------------------------------------------------
(***************************************************************************)
(* No assertion fails.  Facts about one flash write.                       *)
(***************************************************************************)
LEMMA VacantFlags ==
  ASSUME NEW f
  PROVE  StateOf(f) \in {"Clean", "Dirty"} <=>
            \/ "magic" \notin f \/ "allocated" \notin f
            \/ {"start", "cont"} \cap f = {} \/ "dead" \in f
  BY DEF StateOf

LEMMA FlagsAfter ==
  ASSUME FlashType, NEW p \in Slot, NEW fl, Program(p, fl)
  PROVE  \A q \in Slot : flags'[q] = IF q = p THEN flags[q] \cup fl ELSE flags[q]
  BY DEF Program, FlashType

LEMMA SetsFlag ==
  ASSUME FlashType, NEW p \in Slot, NEW fl, NEW g \in fl, Program(p, fl)
  PROVE  /\ g \in flags'[p]
         /\ \A q \in Slot : flags[q] \subseteq flags'[q]
<1>1. flags'[p] = flags[p] \cup fl
  BY FlagsAfter
<1>2. \A q \in Slot : flags'[q] = flags[q] \cup fl \/ flags'[q] = flags[q]
  BY FlagsAfter
<1> QED
  BY <1>1, <1>2

LEMMA NoNewFlag ==
  ASSUME FlashType, NEW p \in Slot, NEW fl, NEW g, g \notin fl, Program(p, fl)
  PROVE  \A q \in Slot : g \in flags'[q] <=> g \in flags[q]
  BY FlagsAfter

LEMMA PageInSlot == \A p \in Page : p \in Slot
  BY SizeAssumption DEF Page, Slot

LEMMA SectorZero == 0 \in Sector
<1>1. 0 % PagesPerSector = 0
  BY SizeAssumption
<1> QED
  BY <1>1, PageZero DEF Sector

LEMMA WriteKeepsVacant ==
  ASSUME FlashType, HeaderOrder, NEW p \in Slot,
         NEW fl \in SUBSET (Flag \ {"magic", "start", "cont"}), Program(p, fl)
  PROVE  \A q \in Slot : HeaderVacant(q) => HeaderVacant(q)'
<1> SUFFICES ASSUME NEW q \in Slot, HeaderVacant(q) PROVE HeaderVacant(q)'
  OBVIOUS
<1>1. flags'[q] = flags[q] \/ flags'[q] = flags[q] \cup fl
  BY FlagsAfter
<1>2. "magic" \notin fl /\ "start" \notin fl /\ "cont" \notin fl
  OBVIOUS
<1>3. IsFile(q) => "allocated" \in flags[q]
  BY DEF HeaderOrder
<1> QED
  BY <1>1, <1>2, <1>3, VacantFlags DEF HeaderVacant, HeaderState, IsFile

LEMMA WriteKeepsSpare ==
  ASSUME FlashType, HeaderOrder, SpareSector, NEW p \in Slot,
         NEW fl \in SUBSET (Flag \ {"magic", "start", "cont"}), Program(p, fl)
  PROVE  SpareSector'
<1>1. PICK s \in Sector : \A q \in PagesOf(s) : HeaderVacant(q)
  BY DEF SpareSector
<1>2. \A q \in PagesOf(s) : q \in Slot
  BY PageInSlot DEF PagesOf
<1> QED
  BY <1>1, <1>2, WriteKeepsVacant DEF SpareSector

LEMMA WriteKeepsOrder ==
  ASSUME FlashType, HeaderOrder, NEW p \in Slot, NEW fl \in SUBSET Flag,
         Program(p, fl),
         {"start", "cont"} \cap fl # {} => "allocated" \in fl,
         "start" \in fl => "magic" \in fl,
         "written" \in fl => "start" \in flags[p],
         "deleted" \in fl => {"start", "dead"} \subseteq flags[p]
  PROVE  HeaderOrder'
<1> SUFFICES ASSUME NEW q \in Slot
    PROVE  /\ IsFile(q)' => "allocated" \in flags'[q]
           /\ "start" \in flags'[q] => "magic" \in flags'[q]
           /\ "written" \in flags'[q] => "start" \in flags'[q]
           /\ "deleted" \in flags'[q] => {"start", "dead"} \subseteq flags'[q]
  BY DEF HeaderOrder
<1>1. /\ IsFile(q) => "allocated" \in flags[q]
      /\ "start" \in flags[q] => "magic" \in flags[q]
      /\ "written" \in flags[q] => "start" \in flags[q]
      /\ "deleted" \in flags[q] => {"start", "dead"} \subseteq flags[q]
  BY DEF HeaderOrder
<1>2. CASE q # p
  BY <1>1, <1>2, FlagsAfter DEF IsFile
<1>3. CASE q = p
  <2>1. flags'[q] = flags[p] \cup fl
    BY <1>3, FlagsAfter
  <2> QED
    BY <1>1, <1>3, <2>1 DEF IsFile
<1> QED
  BY <1>2, <1>3

-------------------------------------------------------------------------------
(***************************************************************************)
(* Every step keeps the parts of AssertInv.                                *)
(***************************************************************************)
Parts == /\ HeaderOrder /\ SpareSector /\ SectorIsKept /\ TableIsFresh
         /\ CreatPages /\ BlankFirst /\ DeletedIsDirty /\ OpenFiles
         /\ CallInProgress /\ NoAssertFails

LEMMA InitParts == Init => Parts
<1> SUFFICES ASSUME Init PROVE Parts
  OBVIOUS
<1> USE DEF Init
<1>1. \A p \in Slot : flags[p] \in {{}, {"magic"}}
  OBVIOUS
<1>2. HeaderOrder
  BY <1>1 DEF HeaderOrder, IsFile
<1>3. SpareSector
  <2>1. \A q \in PagesOf(0) : HeaderVacant(q)
    BY <1>1, PageInSlot, VacantFlags DEF PagesOf, HeaderVacant, HeaderState
  <2> QED
    BY <2>1, SectorZero DEF SpareSector
<1>4. ~Booting /\ ~Marking /\ ~Mounted /\ ~Creating /\ ~Erasing
  BY DEF Booting, Marking, Mounted, Creating, Erasing
<1>5. SectorIsKept /\ TableIsFresh /\ CreatPages
  BY <1>4 DEF SectorIsKept, TableIsFresh, CreatPages
<1>6. BlankFirst /\ DeletedIsDirty
  BY <1>4 DEF BlankFirst, DeletedIsDirty
<1>7. OpenFiles /\ CallInProgress /\ NoAssertFails
  BY <1>4 DEF OpenFiles, CallInProgress, NoAssertFails
<1> QED
  BY <1>2, <1>3, <1>5, <1>6, <1>7 DEF Parts

LEMMA InitCounts == Init => CountsAreWritten
<1> SUFFICES ASSUME Init PROVE CountsAreWritten
  OBVIOUS
<1>1. PICK m \in InitHeaders, w \in InitWear :
        /\ flags = [p \in Slot |-> IF p < m THEN {"magic"} ELSE {}]
        /\ wear = [p \in Page |-> IF p < m THEN w[p] ELSE NoErase]
  BY DEF Init
<1>2. \A p \in Page : "magic" \in flags[p] => wear[p] = w[p]
  BY <1>1, PageInSlot
<1>3. \A p \in Page : w[p] \in 0 .. MaxWear
  BY BoundAssumption
<1>4. ~Booting /\ ~Marking /\ ~Mounted
  BY DEF Init, Booting, Marking, Mounted, Creating, Erasing
<1> QED
  BY <1>2, <1>3, <1>4, BoundAssumption DEF CountsAreWritten, NoErase

LEMMA CrashParts == TypeOK /\ Parts /\ Crash => Parts'
<1> SUFFICES ASSUME TypeOK, Parts, Crash PROVE Parts'
  OBVIOUS
<1> USE DEF Parts
<1>1. pc' = "off" /\ fds' = {} /\ UNCHANGED flags
  BY DEF Crash, RamReset, Goto
<1>2. HeaderOrder' /\ SpareSector'
  BY <1>1 DEF HeaderOrder, IsFile, SpareSector, HeaderVacant, HeaderState
<1>3. ~Booting' /\ ~Marking' /\ ~Mounted' /\ ~Creating' /\ ~Erasing'
  BY <1>1 DEF Booting, Marking, Mounted, Creating, Erasing
<1>4. SectorIsKept' /\ TableIsFresh' /\ CreatPages'
  BY <1>3 DEF SectorIsKept, TableIsFresh, CreatPages
<1>5. BlankFirst' /\ DeletedIsDirty'
  BY <1>1, <1>3 DEF BlankFirst, DeletedIsDirty
<1>6. OpenFiles' /\ CallInProgress' /\ NoAssertFails'
  BY <1>1, <1>3 DEF OpenFiles, CallInProgress, NoAssertFails
<1> QED
  BY <1>2, <1>4, <1>5, <1>6

LEMMA BootParts == TypeOK /\ Parts /\ Boot => Parts'
<1> SUFFICES ASSUME TypeOK, Parts, Boot PROVE Parts'
  OBVIOUS
<1> USE DEF Parts
<1>1. pc = "off" /\ pc' \in {"nofs", "recover"} /\ UNCHANGED <<flags, fds>>
  BY DEF Boot, Goto
<1>2. HeaderOrder' /\ SpareSector'
  BY <1>1 DEF HeaderOrder, IsFile, SpareSector, HeaderVacant, HeaderState
<1>3. ~Marking' /\ ~Mounted' /\ ~Creating' /\ ~Erasing'
  BY <1>1 DEF Booting, Marking, Mounted, Creating, Erasing
<1>4. Booting' => pstate' = [p \in Page |-> HeaderState(p)]
  BY <1>3 DEF Boot, Booting, Goto
<1>5. TableIsFresh'
  BY <1>1, <1>4 DEF TableIsFresh, Vacant, HeaderVacant, HeaderState
<1>6. SectorIsKept' /\ CreatPages' /\ BlankFirst'
  BY <1>1, <1>3 DEF SectorIsKept, CreatPages, BlankFirst
<1>7. DeletedIsDirty'
  <2>1. ASSUME NEW p \in Page, "deleted" \in flags[p] PROVE HeaderState(p) = "Dirty"
    <3>1. {"start", "dead", "magic", "allocated"} \subseteq flags[p]
      BY <2>1, PageInSlot DEF HeaderOrder, IsFile
    <3> QED
      BY <3>1 DEF HeaderState, StateOf
  <2> QED
    BY <1>1, <1>3, <1>4, <2>1 DEF DeletedIsDirty
<1>8. OpenFiles' /\ CallInProgress' /\ NoAssertFails'
  <2>1. pc' = "recover" => op'.booting
    BY DEF Boot, Goto, NoOp
  <2> QED
    BY <1>1, <1>3, <2>1 DEF OpenFiles, CallInProgress, NoAssertFails
<1> QED
  BY <1>2, <1>5, <1>6, <1>7, <1>8

\* A page that needs cleaning up is never one that is already deleted.
LEMMA UnsettledIsLive ==
  ASSUME NEW p, Unsettled(p)
  PROVE  ~({"dead", "deleted"} \subseteq flags[p]) /\ "start" \in flags[p]
  BY DEF Unsettled

LEMMA RecoverParts == TypeOK /\ Parts /\ Recover => Parts'
<1> SUFFICES ASSUME TypeOK, Parts, Recover PROVE Parts'
  OBVIOUS
<1> USE DEF Parts
<1>1. PICK p \in Page : Unsettled(p) /\ StartErase(p, op)
  BY DEF Recover, ToRecover
<1>2. /\ pc = "recover" /\ pc' = "erase"
      /\ op' = [op EXCEPT !.head = p, !.cur = p]
      /\ UNCHANGED <<flags, fname, pstate, fds>>
  BY <1>1, UnsettledIsLive DEF Recover, StartErase, Goto, table
<1>3. op'.head = p /\ op'.cur = p /\ op'.booting = op.booting
  BY <1>2 DEF TypeOK, CallType, Op
<1>4. HeaderOrder' /\ SpareSector'
  BY <1>2 DEF HeaderOrder, IsFile, SpareSector, HeaderVacant, HeaderState
<1>5. Booting /\ Booting' /\ ~Mounted' /\ ~Marking' /\ ~Creating' /\ Erasing'
  BY <1>2, <1>3 DEF Booting, Marking, Mounted, Creating, Erasing, CallInProgress
<1>6. SectorIsKept' /\ CreatPages' /\ BlankFirst'
  BY <1>2, <1>5 DEF SectorIsKept, CreatPages, BlankFirst
<1>7. TableIsFresh'
  BY <1>2, <1>5 DEF TableIsFresh, Vacant, HeaderVacant, HeaderState
<1>8. DeletedIsDirty'
  BY <1>1, <1>2, <1>3, <1>5, UnsettledIsLive DEF DeletedIsDirty, Page
<1>9. OpenFiles' /\ CallInProgress' /\ NoAssertFails'
  BY <1>2, <1>3, <1>5 DEF OpenFiles, CallInProgress, NoAssertFails, Booting
<1> QED
  BY <1>4, <1>6, <1>7, <1>8, <1>9

\* A mount that found a header in every page finds a sector to keep.
LEMMA SectorExists ==
  ASSUME TypeOK, Parts, CountsAreWritten, Booting, "header" \notin lost
  PROVE  GcSectors # {}
<1> USE DEF Parts, TypeOK
<1>1. PICK s \in Sector : \A p \in PagesOf(s) : HeaderVacant(p)
  BY DEF SpareSector
<1>2. \A p \in PagesOf(s) : Vacant(p)
  BY <1>1 DEF TableIsFresh, PagesOf
<1>3. s \in Page /\ wear[s] \in 0 .. MaxWear
  <2>1. s \in Page /\ wear[s] # NoErase
    BY DEF CountsAreWritten, Sector
  <2> QED
    BY <2>1 DEF FlashType, Wear
<1>4. GcCount(s) < NoErase
  BY <1>3, BoundAssumption DEF GcCount, NoErase
<1> QED
  BY <1>2, <1>4 DEF GcSectors

LEMMA FindGcSectorParts ==
  TypeOK /\ Parts /\ CountsAreWritten /\ FindGcSector => Parts'
<1> SUFFICES ASSUME TypeOK, Parts, CountsAreWritten, FindGcSector PROVE Parts'
  OBVIOUS
<1> USE DEF Parts
<1>1. Booting /\ pc = "recover" /\ UNCHANGED <<flags, fname, pstate, fds, lost>>
  BY DEF FindGcSector, Booting, table
<1>2. HeaderOrder' /\ SpareSector'
  BY <1>1 DEF HeaderOrder, IsFile, SpareSector, HeaderVacant, HeaderState
<1>3. CASE GcSectors = {}
  <2>1. pc' = "panicSector" /\ "header" \in lost
    BY <1>1, <1>3, SectorExists DEF FindGcSector, Panic
  <2>2. ~Booting' /\ ~Marking' /\ ~Mounted' /\ ~Creating' /\ ~Erasing'
    BY <2>1 DEF Booting, Marking, Mounted, Creating, Erasing
  <2> QED
    BY <1>1, <1>2, <2>1, <2>2
    DEF SectorIsKept, TableIsFresh, CreatPages, BlankFirst, DeletedIsDirty,
        OpenFiles, CallInProgress, NoAssertFails
<1>4. CASE GcSectors # {}
  <2>1. PICK s \in GcSectors : gcSector' = s /\ pc' = "gcSentinel" /\ op' = [NoOp EXCEPT !.cur = s]
    BY <1>4 DEF FindGcSector, Goto
  <2>2. op'.cur = s /\ s \in Sector /\ s \in PagesOf(s)
    BY <2>1, SizeAssumption DEF NoOp, GcSectors, Sector, PagesOf, Page
  <2>3. ~Booting' /\ Marking' /\ ~Mounted' /\ ~Creating' /\ ~Erasing'
    BY <2>1 DEF Booting, Marking, Mounted, Creating, Erasing
  <2>4. SectorIsKept'
    <3>1. \A p \in PagesOf(s) : p \in Page /\ ~(p < s)
      BY <2>2 DEF PagesOf, Sector, Page
    <3>2. \A p \in PagesOf(s) : HeaderVacant(p)'
      BY <1>1, <2>1, <3>1 DEF GcSectors, TableIsFresh, HeaderVacant, HeaderState
    <3> QED
      BY <2>1, <2>2, <2>3, <3>1, <3>2 DEF SectorIsKept
  <2>5. TableIsFresh' /\ CreatPages' /\ BlankFirst'
    BY <2>1, <2>3 DEF TableIsFresh, CreatPages, BlankFirst
  <2>6. DeletedIsDirty'
    BY <1>1, <2>3 DEF DeletedIsDirty
  <2>7. OpenFiles' /\ CallInProgress' /\ NoAssertFails'
    BY <1>1, <2>1, <2>3 DEF OpenFiles, CallInProgress, NoAssertFails
  <2> QED
    BY <1>2, <2>4, <2>5, <2>6, <2>7
<1> QED
  BY <1>3, <1>4

LEMMA GcSentinelParts == TypeOK /\ Parts /\ GcSentinel => Parts'
<1> SUFFICES ASSUME TypeOK, Parts, GcSentinel PROVE Parts'
  OBVIOUS
<1> USE DEF Parts, TypeOK
<1>1. /\ pc = "gcSentinel" /\ pc' = "gcHeader" /\ op' = op
      /\ UNCHANGED <<fname, fds, gcSector>>
  BY DEF GcSentinel, Goto
<1>2. op.cur \in Page /\ op.cur + 1 \in Slot
  BY PageSlots DEF GcSentinel, CallType, Op
<1>3. Program(op.cur + 1, {"allocated"})
      /\ {"allocated"} \in SUBSET (Flag \ {"magic", "start", "cont"})
  BY DEF GcSentinel, Flag
<1>4. HeaderOrder' /\ SpareSector'
  BY <1>2, <1>3, WriteKeepsOrder, WriteKeepsSpare
<1>5. Marking /\ ~Booting' /\ Marking' /\ ~Mounted' /\ ~Creating' /\ ~Erasing'
  BY <1>1 DEF Booting, Marking, Mounted, Creating, Erasing
<1>6. pstate' = [pstate EXCEPT ![op.cur] = "Dirty"]
  BY DEF GcSentinel
<1>7. SectorIsKept'
  <2>1. \A p \in PagesOf(gcSector) : p \in Slot /\ p \in Page
    BY PageInSlot DEF PagesOf
  <2>2. \A p \in PagesOf(gcSector) : HeaderVacant(p)'
    BY <1>2, <1>3, <1>5, <2>1, WriteKeepsVacant DEF SectorIsKept
  <2>3. \A p \in PagesOf(gcSector) : (p < op.cur \/ p = op.cur) => pstate'[p] = "Dirty"
    BY <1>5, <1>6, <2>1 DEF SectorIsKept, TableType
  <2> QED
    BY <1>1, <1>5, <2>2, <2>3 DEF SectorIsKept
<1>8. TableIsFresh' /\ CreatPages' /\ BlankFirst'
  BY <1>1, <1>5 DEF TableIsFresh, CreatPages, BlankFirst
<1>9. DeletedIsDirty'
  <2>1. \A p \in Page : "deleted" \in flags'[p] => "deleted" \in flags[p]
    BY <1>2, <1>3, PageInSlot, NoNewFlag
  <2> QED
    BY <1>5, <1>6, <2>1 DEF DeletedIsDirty, TableType
<1>10. OpenFiles' /\ CallInProgress' /\ NoAssertFails'
  BY <1>1, <1>5 DEF OpenFiles, CallInProgress, NoAssertFails
<1> QED
  BY <1>4, <1>7, <1>8, <1>9, <1>10

LEMMA GcHeaderParts == TypeOK /\ Parts /\ GcHeader => Parts'
<1> SUFFICES ASSUME TypeOK, Parts, GcHeader PROVE Parts'
  OBVIOUS
<1> USE DEF Parts, TypeOK
<1>1. /\ pc = "gcHeader" /\ pc' \in {"gcSentinel", "ready"}
      /\ UNCHANGED <<fname, fds, gcSector, pstate>>
  BY DEF GcHeader, Goto, Return, table
<1>2. op.cur \in Page /\ op.cur \in Slot
  BY PageSlots DEF GcHeader, CallType, Op
<1>3. Program(op.cur, {"moreblocks", "allocated"})
      /\ {"moreblocks", "allocated"} \in SUBSET (Flag \ {"magic", "start", "cont"})
  BY DEF GcHeader, Flag
<1>4. HeaderOrder' /\ SpareSector'
  BY <1>2, <1>3, WriteKeepsOrder, WriteKeepsSpare
<1>5. Marking /\ ~Booting' /\ ~Creating' /\ ~Erasing'
      /\ (Marking' \/ Mounted') /\ (Mounted' => pc' = "ready")
  BY <1>1 DEF Booting, Marking, Mounted, Creating, Erasing
<1>6. SectorIsKept'
  <2>1. gcSector \in Sector /\ op.cur \in PagesOf(gcSector)
    BY <1>5 DEF SectorIsKept, PagesOf, Sector, Page
  <2>2. \A p \in PagesOf(gcSector) : p \in Slot /\ p \in Page
    BY PageInSlot DEF PagesOf
  <2>3. \A p \in PagesOf(gcSector) : HeaderVacant(p)'
    BY <1>2, <1>3, <1>5, <2>2, WriteKeepsVacant DEF SectorIsKept
  <2>4. \A p \in PagesOf(gcSector) : p < op.cur + 1 => pstate'[p] = "Dirty"
    BY <1>1, <1>2, <1>5, <2>2 DEF SectorIsKept, Page
  <2>5. CASE op.cur + 1 \in PagesOf(gcSector)
    <3>1. pc' = "gcSentinel" /\ op' = [op EXCEPT !.cur = @ + 1]
      BY <2>5 DEF GcHeader, Goto
    <3>2. op'.cur = op.cur + 1
      BY <3>1 DEF CallType, Op
    <3> QED
      BY <1>1, <2>1, <2>3, <2>4, <2>5, <3>1, <3>2 DEF SectorIsKept, Marking, Mounted, Creating, Erasing
  <2>6. CASE op.cur + 1 \notin PagesOf(gcSector)
    <3>1. pc' = "ready"
      BY <2>6 DEF GcHeader, Goto, Return
    <3>2. \A p \in PagesOf(gcSector) : p < op.cur + 1
      BY <1>2, <2>1, <2>6, SizeAssumption DEF PagesOf, Page, Sector
    <3> QED
      BY <1>1, <2>1, <2>3, <2>4, <3>1, <3>2 DEF SectorIsKept, Marking, Mounted, Creating, Erasing
  <2> QED
    BY <2>5, <2>6
<1>7. TableIsFresh' /\ CreatPages' /\ BlankFirst'
  BY <1>1, <1>5 DEF TableIsFresh, CreatPages, BlankFirst
<1>8. DeletedIsDirty'
  <2>1. \A p \in Page : "deleted" \in flags'[p] => "deleted" \in flags[p]
    BY <1>2, <1>3, PageInSlot, NoNewFlag
  <2> QED
    BY <1>1, <1>5, <2>1 DEF DeletedIsDirty
<1>9. OpenFiles' /\ CallInProgress' /\ NoAssertFails'
  <2>1. fds' = {}
    BY <1>1, <1>5 DEF OpenFiles
  <2> QED
    BY <1>1, <1>5, <2>1 DEF OpenFiles, CallInProgress, NoAssertFails
<1> QED
  BY <1>4, <1>6, <1>7, <1>8, <1>9

LEMMA EraseParts == TypeOK /\ Parts /\ Erase => Parts'
<1> SUFFICES ASSUME TypeOK, Parts, Erase PROVE Parts'
  OBVIOUS
<1> USE DEF Parts, TypeOK
<1>1. /\ pc = "erase" /\ pc' \in {"erase", "erased"}
      /\ UNCHANGED <<fname, fds, gcSector>>
      /\ pstate' = [pstate EXCEPT ![op.cur] = "Dirty"]
  BY DEF Erase, Goto
<1>2. op.cur \in Page /\ op.cur \in Slot
  BY PageSlots DEF Erase, CallType, Op
<1>3. Program(op.cur, {"dead"})
      /\ {"dead"} \in SUBSET (Flag \ {"magic", "start", "cont"})
  BY DEF Erase, Flag
<1>4. op'.head = op.head /\ op'.booting = op.booting /\ op'.name = op.name
  BY DEF Erase, Goto, CallType, Op
<1>5. HeaderOrder' /\ SpareSector'
  BY <1>2, <1>3, WriteKeepsOrder, WriteKeepsSpare
<1>6. /\ Booting \/ Mounted
      /\ Booting' <=> Booting
      /\ Mounted' <=> Mounted
      /\ ~Marking' /\ ~Creating' /\ Erasing /\ Erasing'
      /\ Booting => op.booting
      /\ Mounted => ~op.booting
  BY <1>1, <1>4 DEF Booting, Marking, Mounted, Creating, Erasing
<1>7. \A p \in Page : HeaderVacant(p) => HeaderVacant(p)'
  BY <1>2, <1>3, PageInSlot, WriteKeepsVacant
<1>8. SectorIsKept'
  <2>1. \A p \in PagesOf(gcSector) : p \in Page
    BY DEF PagesOf
  <2> QED
    BY <1>1, <1>2, <1>6, <1>7, <2>1 DEF SectorIsKept, TableType
<1>9. TableIsFresh'
  <2>1. SUFFICES ASSUME Booting, NEW p \in Page
        PROVE Vacant(p)' <=> HeaderVacant(p)'
    BY <1>6 DEF TableIsFresh
  <2>2. CASE p = op.cur
    <3>1. Vacant(p)'
      BY <1>1, <1>2, <2>2 DEF Vacant, TableType
    <3>2. "dead" \in flags'[p]
      BY <1>2, <1>3, <2>2, SetsFlag
    <3> QED
      BY <3>1, <3>2, VacantFlags DEF HeaderVacant, HeaderState
  <2>3. CASE p # op.cur
    <3>1. flags'[p] = flags[p] /\ pstate'[p] = pstate[p]
      BY <1>1, <1>2, <1>3, <2>3, PageInSlot, FlagsAfter DEF TableType
    <3> QED
      BY <2>1, <3>1 DEF TableIsFresh, Vacant, HeaderVacant, HeaderState
  <2> QED
    BY <2>2, <2>3
<1>10. CreatPages' /\ BlankFirst'
  BY <1>1, <1>6 DEF CreatPages, BlankFirst
<1>11. \A p \in Page : "deleted" \in flags'[p] <=> "deleted" \in flags[p]
  BY <1>2, <1>3, PageInSlot, NoNewFlag
<1>12. \A p \in Page : "start" \in flags'[p] <=> "start" \in flags[p]
  BY <1>2, <1>3, PageInSlot, NoNewFlag
<1>13. op.head \in Page
  BY <1>1, <1>6 DEF DeletedIsDirty, CallType, Op, PageOrNo
<1>14. DeletedIsDirty'
  <2>1. \A p \in Page : "deleted" \in flags'[p] => pstate'[p] = "Dirty"
    BY <1>1, <1>2, <1>6, <1>11 DEF DeletedIsDirty, TableType
  <2>2. "start" \in flags'[op.head]
    BY <1>6, <1>12, <1>13 DEF DeletedIsDirty, Page
  <2>3. "dead" \in flags'[op.head] /\ pstate'[op.head] = "Dirty"
    <3>1. CASE op.cur = op.head
      BY <1>1, <1>2, <1>3, <3>1, SetsFlag DEF TableType
    <3>2. CASE op.cur # op.head
      <4>1. "dead" \in flags[op.head] /\ pstate[op.head] = "Dirty"
        BY <1>6, <3>2 DEF DeletedIsDirty
      <4> QED
        BY <1>1, <1>2, <1>3, <1>13, <3>2, <4>1, PageInSlot, SetsFlag DEF TableType
    <3> QED
      BY <3>1, <3>2
  <2> QED
    BY <1>4, <1>13, <2>1, <2>2, <2>3 DEF DeletedIsDirty, Page
<1>15. \A o \in Page : \A n : IsPrevious(o, n) => IsPrevious(o, n)'
  BY <1>1, <1>2, <1>11, <1>12 DEF IsPrevious, TableType
<1>16. OpenFiles'
  <2>1. Booting => fds' = {}
    BY <1>1 DEF OpenFiles
  <2>2. ASSUME Mounted, NEW fd \in fds
        PROVE  /\ "start" \in flags'[fd.start]
               /\ fd.old # NoPage => IsPrevious(fd.old, fd.name)'
               /\ fd.name # op'.name
    <3>1. fd.start \in Page /\ fd.old \in PageOrNo
      BY DEF CallType, Fd
    <3>2. fd.name # op'.name
      BY <1>1, <1>4, <2>2 DEF OpenFiles
    <3> QED
      BY <1>12, <1>15, <2>2, <3>1, <3>2 DEF OpenFiles, PageOrNo
  <2> QED
    BY <1>1, <1>6, <2>1, <2>2 DEF OpenFiles
<1>17. CallInProgress' /\ NoAssertFails'
  BY <1>1, <1>4, <1>6 DEF CallInProgress, NoAssertFails
<1> QED
  BY <1>5, <1>8, <1>9, <1>10, <1>14, <1>16, <1>17

LEMMA ErasedParts == TypeOK /\ Parts /\ Erased => Parts'
<1> SUFFICES ASSUME TypeOK, Parts, Erased PROVE Parts'
  OBVIOUS
<1> USE DEF Parts, TypeOK
<1>1. /\ pc = "erased" /\ pc' \in {"recover", "ready"}
      /\ UNCHANGED <<fname, fds, gcSector, pstate>>
      /\ pc' = "recover" => op.booting /\ op' = op
      /\ pc' = "ready" => ~op.booting
  BY DEF Erased, Goto, Return, table
<1>2. op.head \in Page /\ op.head \in Slot
  BY PageSlots DEF Erased, CallType, Op
<1>3. Program(op.head, {"deleted"})
      /\ {"deleted"} \in SUBSET (Flag \ {"magic", "start", "cont"})
  BY DEF Erased, Flag
<1>4. Erasing
  BY <1>1 DEF Erasing
<1>5. {"start", "dead"} \subseteq flags[op.head] /\ pstate[op.head] = "Dirty"
  BY <1>1, <1>2, <1>4 DEF DeletedIsDirty, Page
<1>6. HeaderOrder' /\ SpareSector'
  BY <1>2, <1>3, <1>5, WriteKeepsOrder, WriteKeepsSpare
<1>7. /\ Booting \/ Mounted
      /\ Booting' <=> Booting
      /\ Mounted' <=> Mounted
      /\ ~Marking' /\ ~Creating' /\ ~Erasing'
      /\ Mounted => pc' = "ready"
      /\ Mounted => ~op.booting
  BY <1>1 DEF Booting, Marking, Mounted, Creating, Erasing
<1>8. \A p \in Page : HeaderVacant(p) => HeaderVacant(p)'
  BY <1>2, <1>3, PageInSlot, WriteKeepsVacant
<1>9. SectorIsKept'
  <2>1. \A p \in PagesOf(gcSector) : p \in Page
    BY DEF PagesOf
  <2> QED
    BY <1>1, <1>7, <1>8, <2>1 DEF SectorIsKept
<1>10. TableIsFresh'
  <2>1. \A p \in Page : HeaderVacant(p)' => HeaderVacant(p)
    <3>1. SUFFICES ASSUME NEW p \in Page, HeaderVacant(p)' PROVE HeaderVacant(p)
      OBVIOUS
    <3>2. \A g \in {"magic", "allocated", "start", "cont", "dead"} : g \in flags'[p] <=> g \in flags[p]
      BY <1>2, <1>3, PageInSlot, NoNewFlag
    <3> QED
      BY <3>1, <3>2, VacantFlags DEF HeaderVacant, HeaderState
  <2> QED
    BY <1>1, <1>7, <1>8, <2>1 DEF TableIsFresh, Vacant
<1>11. CreatPages' /\ BlankFirst'
  BY <1>1, <1>7 DEF CreatPages, BlankFirst
<1>12. \A p \in Page : "deleted" \in flags'[p] => "deleted" \in flags[p] \/ p = op.head
  BY <1>2, <1>3, PageInSlot, FlagsAfter
<1>13. \A p \in Page : "start" \in flags'[p] <=> "start" \in flags[p]
  BY <1>2, <1>3, PageInSlot, NoNewFlag
<1>14. DeletedIsDirty'
  BY <1>1, <1>5, <1>7, <1>12 DEF DeletedIsDirty
<1>15. OpenFiles'
  <2>1. Booting => fds' = {}
    BY <1>1 DEF OpenFiles
  <2>2. ASSUME Mounted, NEW fd \in fds
        PROVE  /\ "start" \in flags'[fd.start]
               /\ fd.old # NoPage => IsPrevious(fd.old, fd.name)'
    <3>1. fd.start \in Page /\ fd.old \in PageOrNo
      BY DEF CallType, Fd
    <3>2. fd.name # op.name /\ fname[op.head] = op.name
      BY <1>1, <1>4, <1>7, <2>2 DEF OpenFiles, CallInProgress
    <3>3. "start" \in flags[fd.start] /\ (fd.old # NoPage => IsPrevious(fd.old, fd.name))
      BY <2>2 DEF OpenFiles
    <3>4. fd.old # NoPage => fd.old # op.head
      BY <3>2, <3>3 DEF IsPrevious
    <3> QED
      BY <1>1, <1>12, <1>13, <3>1, <3>3, <3>4 DEF IsPrevious, PageOrNo
  <2> QED
    BY <1>1, <1>7, <2>1, <2>2 DEF OpenFiles
<1>16. CallInProgress' /\ NoAssertFails'
  BY <1>1, <1>7 DEF CallInProgress, NoAssertFails
<1> QED
  BY <1>6, <1>9, <1>10, <1>11, <1>14, <1>15, <1>16

\* A page taken from the clean ones was not in the sector kept, is not a
\* deleted file and is no file that is being replaced.
LEMMA AllocFresh ==
  ASSUME TypeOK, Parts, Mounted, NEW p \in Page, NEW st \in {"FileStart", "FileCont"},
         AllocPage(p, st)
  PROVE  /\ pstate[p] = "Clean" /\ pstate'[p] = st
         /\ \A q \in Page : pstate'[q] = pstate[q] \/ q = p
         /\ \A q \in PagesOf(gcSector) : pstate'[q] = "Dirty"
         /\ \A q \in Page : "deleted" \in flags[q] => pstate'[q] = "Dirty"
         /\ \A o \in Page : \A n : IsPrevious(o, n) => o # p
<1> USE DEF Parts, TypeOK
<1>1. pstate[p] = "Clean" /\ pstate' = [pstate EXCEPT ![p] = st]
  BY DEF AllocPage, IsAllocPage, CleanPages
<1>2. \A q \in Page : pstate'[q] = IF q = p THEN st ELSE pstate[q]
  BY <1>1 DEF TableType
<1>3. \A q \in PagesOf(gcSector) : q \in Page /\ pstate[q] = "Dirty"
  BY DEF SectorIsKept, PagesOf
<1>4. \A q \in Page : "deleted" \in flags[q] => pstate[q] = "Dirty"
  BY DEF DeletedIsDirty
<1>5. \A o \in Page : \A n : IsPrevious(o, n) => o # p
  BY <1>1 DEF IsPrevious
<1> QED
  BY <1>1, <1>2, <1>3, <1>4, <1>5

LEMMA StartCreatParts ==
  ASSUME TypeOK, Parts, NEW n \in FileName, NEW k \in 1 .. MaxFilePages,
         NEW v \in PageOrNo, StartCreat(n, k, v),
         v # NoPage => IsPrevious(v, n)
  PROVE  Parts'
<1> USE DEF Parts, TypeOK
<1>1. pc = "ready" /\ UNCHANGED <<flags, fname, gcSector, fds>>
  BY DEF StartCreat
<1>2. HeaderOrder' /\ SpareSector'
  BY <1>1 DEF HeaderOrder, IsFile, SpareSector, HeaderVacant, HeaderState
<1>3. CASE ~CanAlloc
  <2>1. pc' = "panicAlloc"
    BY <1>3 DEF StartCreat, Panic
  <2>2. ~Booting' /\ ~Marking' /\ ~Mounted' /\ ~Creating' /\ ~Erasing'
    BY <2>1 DEF Booting, Marking, Mounted, Creating, Erasing
  <2> QED
    BY <1>2, <2>1, <2>2
    DEF SectorIsKept, TableIsFresh, CreatPages, BlankFirst, DeletedIsDirty,
        OpenFiles, CallInProgress, NoAssertFails
<1>4. CASE CanAlloc
  <2>1. PICK p \in Page :
          /\ AllocPage(p, "FileStart")
          /\ Goto("creatSentinel", [NoOp EXCEPT !.name = n, !.head = p,
                      !.cur = p, !.left = k, !.old = v])
    BY <1>4 DEF StartCreat
  <2>2. /\ pc' = "creatSentinel" /\ op'.name = n /\ op'.head = p /\ op'.cur = p
        /\ op'.nxt = NoPage /\ op'.old = v
    BY <2>1 DEF Goto, NoOp
  <2>3. Mounted /\ ~Booting' /\ ~Marking' /\ Mounted' /\ Creating' /\ ~Erasing'
    BY <1>1, <2>2 DEF Booting, Marking, Mounted, Creating, Erasing
  <2>4. /\ pstate[p] = "Clean" /\ pstate'[p] = "FileStart"
        /\ \A q \in Page : pstate'[q] = pstate[q] \/ q = p
        /\ \A q \in PagesOf(gcSector) : pstate'[q] = "Dirty"
        /\ \A q \in Page : "deleted" \in flags[q] => pstate'[q] = "Dirty"
        /\ \A o \in Page : \A m : IsPrevious(o, m) => o # p
    BY <2>1, <2>3, AllocFresh
  <2>5. SectorIsKept'
    BY <1>1, <2>3, <2>4 DEF SectorIsKept, HeaderVacant, HeaderState
  <2>6. TableIsFresh' /\ CreatPages' /\ BlankFirst'
    BY <2>2, <2>3, <2>4 DEF TableIsFresh, CreatPages, BlankFirst
  <2>7. DeletedIsDirty'
    BY <1>1, <2>3, <2>4 DEF DeletedIsDirty
  <2>8. \A o \in Page : \A m : IsPrevious(o, m) => IsPrevious(o, m)' /\ o # p
    BY <1>1, <2>4 DEF IsPrevious
  <2>9. \A fd \in fds : fd.name # n /\ fd.old \in PageOrNo
    BY DEF StartCreat, IsOpen, CallType, Fd
  <2>10. OpenFiles'
    <3>1. \A fd \in fds : fd.old # NoPage => IsPrevious(fd.old, fd.name)'
      BY <2>3, <2>8, <2>9 DEF OpenFiles, PageOrNo
    <3> QED
      BY <1>1, <2>2, <2>3, <2>9, <3>1 DEF OpenFiles
  <2>11. CallInProgress'
    <3>1. \A fd \in fds' : fd.old # op'.head
      <4>1. SUFFICES ASSUME NEW fd \in fds PROVE fd.old # p
        BY <1>1, <2>2
      <4>2. CASE fd.old = NoPage
        BY <4>2 DEF Page
      <4>3. CASE fd.old # NoPage
        BY <2>3, <2>8, <2>9, <4>3 DEF OpenFiles, PageOrNo
      <4> QED
        BY <4>2, <4>3
    <3>2. v # NoPage => IsPrevious(v, n)' /\ v # p
      BY <2>8 DEF PageOrNo
    <3>3. p # NoPage
      BY DEF Page
    <3> QED
      BY <2>2, <2>3, <3>1, <3>2, <3>3 DEF CallInProgress
  <2> QED
    BY <1>2, <2>2, <2>5, <2>6, <2>7, <2>10, <2>11 DEF NoAssertFails
<1> QED
  BY <1>3, <1>4

LEMMA CreatSentinelParts == TypeOK /\ Parts /\ CreatSentinel => Parts'
<1> SUFFICES ASSUME TypeOK, Parts, CreatSentinel PROVE Parts'
  OBVIOUS
<1> USE DEF Parts, TypeOK
<1>1. pc = "creatSentinel" /\ UNCHANGED <<fname, gcSector, fds>>
  BY DEF CreatSentinel
<1>2. op.cur \in Page /\ op.cur + 1 \in Slot
  BY PageSlots DEF CreatSentinel, CallType, Op
<1>3. CASE pc' = "panicAlloc" /\ UNCHANGED flags
  <2>1. ~Booting' /\ ~Marking' /\ ~Mounted' /\ ~Creating' /\ ~Erasing'
    BY <1>3 DEF Booting, Marking, Mounted, Creating, Erasing
  <2>2. HeaderOrder' /\ SpareSector'
    BY <1>3 DEF HeaderOrder, IsFile, SpareSector, HeaderVacant, HeaderState
  <2> QED
    BY <1>3, <2>1, <2>2
    DEF SectorIsKept, TableIsFresh, CreatPages, BlankFirst, DeletedIsDirty,
        OpenFiles, CallInProgress, NoAssertFails
<1>4. ASSUME NEW p \in PageOrNo, Program(op.cur + 1, {"allocated"}),
             Goto("creatHeader", [op EXCEPT !.nxt = p]),
             \/ p = NoPage /\ UNCHANGED table
             \/ p # NoPage /\ AllocPage(p, "FileCont")
      PROVE  Parts'
  <2>1. /\ pc' = "creatHeader" /\ op'.name = op.name /\ op'.head = op.head
        /\ op'.cur = op.cur /\ op'.nxt = p /\ op'.old = op.old
    BY <1>4 DEF Goto, CallType, Op
  <2>2. {"allocated"} \in SUBSET (Flag \ {"magic", "start", "cont"})
    BY DEF Flag
  <2>3. HeaderOrder' /\ SpareSector'
    BY <1>2, <1>4, <2>2, WriteKeepsOrder, WriteKeepsSpare
  <2>4. /\ Mounted /\ Creating /\ ~Booting' /\ ~Marking' /\ Mounted' /\ Creating'
        /\ ~Erasing'
    BY <1>1, <2>1 DEF Booting, Marking, Mounted, Creating, Erasing
  <2>5. /\ \A q \in Page : pstate'[q] = pstate[q] \/ (pstate[q] = "Clean" /\ pstate'[q] = "FileCont")
        /\ p # NoPage => pstate'[p] = "FileCont"
        /\ \A q \in PagesOf(gcSector) : pstate'[q] = "Dirty"
        /\ \A q \in Page : "deleted" \in flags[q] => pstate'[q] = "Dirty"
    <3>1. CASE p = NoPage /\ UNCHANGED table
      BY <2>4, <3>1 DEF table, SectorIsKept, DeletedIsDirty
    <3>2. CASE p # NoPage /\ AllocPage(p, "FileCont")
      <4>1. p \in Page
        BY <3>2 DEF PageOrNo
      <4> QED
        BY <2>4, <3>2, <4>1, AllocFresh
    <3> QED
      BY <1>4, <3>1, <3>2
  <2>6. \A q \in Page : /\ HeaderVacant(q) => HeaderVacant(q)'
                        /\ "deleted" \in flags'[q] <=> "deleted" \in flags[q]
                        /\ "start" \in flags'[q] <=> "start" \in flags[q]
    BY <1>2, <1>4, <2>2, PageInSlot, WriteKeepsVacant, NoNewFlag
  <2>7. SectorIsKept'
    <3>1. \A q \in PagesOf(gcSector) : q \in Page
      BY DEF PagesOf
    <3> QED
      BY <1>1, <2>4, <2>5, <2>6, <3>1 DEF SectorIsKept
  <2>8. TableIsFresh' /\ BlankFirst'
    BY <2>1, <2>4 DEF TableIsFresh, BlankFirst
  <2>9. CreatPages'
    <3>1. \A q \in {op.head, op.cur} \ {NoPage} : q \in Page /\ pstate[q] \in {"FileStart", "FileCont"}
      BY <2>4 DEF CreatPages, CallType, Op, PageOrNo
    <3> QED
      BY <2>1, <2>5, <3>1 DEF CreatPages
  <2>10. DeletedIsDirty'
    BY <2>4, <2>5, <2>6 DEF DeletedIsDirty
  <2>11. \A o \in Page : \A m : IsPrevious(o, m) => IsPrevious(o, m)'
    BY <1>1, <2>5, <2>6 DEF IsPrevious
  <2>12. \A fd \in fds : fd.start \in Page /\ fd.old \in PageOrNo
    BY DEF CallType, Fd
  <2>13. OpenFiles'
    BY <1>1, <2>1, <2>4, <2>6, <2>11, <2>12 DEF OpenFiles, PageOrNo
  <2>14. CallInProgress'
    <3>1. op.head \in PageOrNo /\ op.old \in PageOrNo
      BY DEF CallType, Op
    <3> QED
      BY <1>1, <2>1, <2>4, <2>6, <2>11, <3>1 DEF CallInProgress, PageOrNo
  <2> QED
    BY <2>1, <2>3, <2>7, <2>8, <2>9, <2>10, <2>13, <2>14 DEF NoAssertFails
<1> QED
  <2>1. \/ pc' = "panicAlloc" /\ UNCHANGED flags
        \/ \E p \in PageOrNo :
              /\ Program(op.cur + 1, {"allocated"})
              /\ Goto("creatHeader", [op EXCEPT !.nxt = p])
              /\ \/ p = NoPage /\ UNCHANGED table
                 \/ p # NoPage /\ AllocPage(p, "FileCont")
    <3>1. CASE op.left > 1 /\ ~CanAlloc /\ Panic("panicAlloc") /\ UNCHANGED flags
      BY <3>1 DEF Panic
    <3>2. ASSUME NEW p \in Page, AllocPage(p, "FileCont"),
                 Goto("creatHeader", [op EXCEPT !.nxt = p]),
                 Program(op.cur + 1, {"allocated"})
          PROVE  p \in PageOrNo /\ p # NoPage
      BY DEF PageOrNo, Page
    <3>3. NoPage \in PageOrNo
      BY DEF PageOrNo
    <3> QED
      BY <3>1, <3>2, <3>3, Zenon DEF CreatSentinel
  <2> QED
    BY <1>3, <1>4, <2>1

LEMMA CreatHeaderParts == TypeOK /\ Parts /\ CreatHeader => Parts'
<1> SUFFICES ASSUME TypeOK, Parts, CreatHeader PROVE Parts'
  OBVIOUS
<1> USE DEF Parts, TypeOK
<1>1. /\ pc = "creatHeader" /\ pc' \in {"creatSentinel", "creatDone"}
      /\ UNCHANGED <<gcSector, fds, pstate>>
  BY DEF CreatHeader, Goto, table
<1>2. op.cur \in Page /\ op.cur \in Slot
  BY PageSlots DEF CreatHeader, CallType, Op
<1>3. /\ op'.head = op.head /\ op'.old = op.old /\ op'.name = op.name
      /\ op'.nxt = op.nxt /\ op'.cur \in {op.cur, op.nxt}
  BY DEF CreatHeader, Goto, CallType, Op
<1>4. PICK fl \in SUBSET Flag :
        /\ Program(op.cur, fl) /\ "allocated" \in fl
        /\ "deleted" \notin fl /\ "written" \notin fl
        /\ "start" \in fl => "magic" \in fl
        /\ op.cur = op.head => "start" \in fl
  <2>1. CASE op.cur = op.head
    <3>1. {"magic", "moreblocks", "allocated", "start"} \in SUBSET Flag
      BY DEF Flag
    <3> QED
      BY <2>1, <3>1 DEF CreatHeader
  <2>2. CASE op.cur # op.head
    <3>1. {"moreblocks", "allocated", "cont"} \in SUBSET Flag
      BY DEF Flag
    <3> QED
      BY <2>2, <3>1 DEF CreatHeader
  <2> QED
    BY <2>1, <2>2
<1>5. /\ Mounted /\ Creating /\ ~Booting' /\ ~Marking' /\ Mounted' /\ Creating'
      /\ ~Erasing'
  BY <1>1 DEF Booting, Marking, Mounted, Creating, Erasing
<1>6. HeaderOrder'
  BY <1>2, <1>4, WriteKeepsOrder
<1>7. \A q \in PagesOf(gcSector) : q \in Page /\ flags'[q] = flags[q]
  <2>1. pstate[op.cur] # "Dirty"
    BY <1>2, <1>5 DEF CreatPages, Page
  <2>2. \A q \in PagesOf(gcSector) : q \in Page /\ q # op.cur
    BY <1>5, <2>1 DEF SectorIsKept, PagesOf
  <2> QED
    BY <1>2, <1>4, <2>2, PageInSlot, FlagsAfter
<1>8. SectorIsKept' /\ SpareSector'
  BY <1>1, <1>5, <1>7 DEF SectorIsKept, SpareSector, HeaderVacant, HeaderState
<1>9. TableIsFresh' /\ BlankFirst'
  BY <1>1, <1>5 DEF TableIsFresh, BlankFirst
<1>10. CreatPages'
  BY <1>1, <1>3, <1>5 DEF CreatPages
<1>11. \A q \in Page : /\ "deleted" \in flags'[q] <=> "deleted" \in flags[q]
                       /\ "start" \in flags[q] => "start" \in flags'[q]
  <2>1. \A q \in Page : flags[q] \subseteq flags'[q]
    BY <1>2, <1>4, PageInSlot, SetsFlag
  <2> QED
    BY <1>2, <1>4, <2>1, PageInSlot, NoNewFlag
<1>12. DeletedIsDirty'
  BY <1>1, <1>5, <1>11 DEF DeletedIsDirty
<1>13. \A o \in Page : \A n : o # op.head /\ IsPrevious(o, n) => IsPrevious(o, n)'
  <2>1. \A o \in Page : o # op.head => fname'[o] = fname[o]
    BY <1>2 DEF CreatHeader, FlashType
  <2> QED
    BY <1>1, <1>11, <2>1 DEF IsPrevious
<1>14. \A fd \in fds : fd.start \in Page /\ fd.old \in PageOrNo /\ fd.old # op.head
  BY <1>5 DEF CallType, Fd, CallInProgress
<1>15. OpenFiles'
  BY <1>1, <1>3, <1>5, <1>11, <1>13, <1>14 DEF OpenFiles, PageOrNo
<1>16. CallInProgress'
  <2>1. op.head \in Page /\ op.old \in PageOrNo
    BY <1>5 DEF CallType, Op, CallInProgress, PageOrNo
  <2>2. "start" \in flags'[op.head]
    <3>1. CASE op.cur = op.head
      BY <1>2, <1>4, <3>1, SetsFlag
    <3>2. CASE op.cur # op.head
      BY <1>5, <1>11, <2>1, <3>2 DEF CallInProgress
    <3> QED
      BY <3>1, <3>2
  <2>3. op.old # NoPage => IsPrevious(op.old, op.name)' /\ op.old # op.head
    BY <1>3, <1>5, <1>13, <2>1 DEF CallInProgress, PageOrNo
  <2> QED
    BY <1>1, <1>3, <1>5, <1>14, <2>1, <2>2, <2>3 DEF CallInProgress, Page
<1> QED
  BY <1>1, <1>6, <1>8, <1>9, <1>10, <1>12, <1>15, <1>16 DEF NoAssertFails

LEMMA CreatDoneParts == TypeOK /\ Parts /\ CreatDone => Parts'
<1> SUFFICES ASSUME TypeOK, Parts, CreatDone PROVE Parts'
  OBVIOUS
<1> USE DEF Parts, TypeOK
<1>1. /\ pc = "creatDone" /\ pc' = "ready"
      /\ UNCHANGED <<gcSector, pstate, fname>>
      /\ fds' = fds \cup {[name |-> op.name, start |-> op.head, old |-> op.old]}
  BY DEF CreatDone, Goto, Return, table
<1>2. op.head \in Page /\ op.head \in Slot
  BY PageSlots DEF CreatDone, CallType, Op
<1>3. Program(op.head, {"created"})
      /\ {"created"} \in SUBSET (Flag \ {"magic", "start", "cont"})
  BY DEF CreatDone, Flag
<1>4. HeaderOrder' /\ SpareSector'
  BY <1>2, <1>3, WriteKeepsOrder, WriteKeepsSpare
<1>5. /\ Mounted /\ Creating /\ ~Booting' /\ ~Marking' /\ Mounted' /\ ~Creating'
      /\ ~Erasing'
  BY <1>1 DEF Booting, Marking, Mounted, Creating, Erasing
<1>6. \A q \in Page : /\ HeaderVacant(q) => HeaderVacant(q)'
                      /\ "deleted" \in flags'[q] <=> "deleted" \in flags[q]
                      /\ "start" \in flags'[q] <=> "start" \in flags[q]
  BY <1>2, <1>3, PageInSlot, WriteKeepsVacant, NoNewFlag
<1>7. SectorIsKept'
  <2>1. \A q \in PagesOf(gcSector) : q \in Page
    BY DEF PagesOf
  <2> QED
    BY <1>1, <1>5, <1>6, <2>1 DEF SectorIsKept
<1>8. TableIsFresh' /\ CreatPages' /\ BlankFirst' /\ DeletedIsDirty'
  BY <1>1, <1>5, <1>6 DEF TableIsFresh, CreatPages, BlankFirst, DeletedIsDirty
<1>9. \A o \in Page : \A n : IsPrevious(o, n) => IsPrevious(o, n)'
  BY <1>1, <1>6 DEF IsPrevious
<1>10. OpenFiles'
  <2>1. \A fd \in fds : fd.start \in Page /\ fd.old \in PageOrNo /\ fd.name # op.name
    BY <1>1, <1>5 DEF CallType, Fd, OpenFiles
  <2>2. "start" \in flags[op.head] /\ op.old \in PageOrNo
        /\ (op.old # NoPage => IsPrevious(op.old, op.name))
    BY <1>1, <1>5 DEF CallInProgress, CallType, Op
  <2>3. \A fd \in fds' : /\ "start" \in flags'[fd.start]
                         /\ fd.old # NoPage => IsPrevious(fd.old, fd.name)'
    <3>1. SUFFICES ASSUME NEW fd \in fds'
          PROVE /\ "start" \in flags'[fd.start]
                /\ fd.old # NoPage => IsPrevious(fd.old, fd.name)'
      OBVIOUS
    <3>2. CASE fd \in fds
      BY <1>5, <1>6, <1>9, <2>1, <3>2 DEF OpenFiles, PageOrNo
    <3>3. CASE fd = [name |-> op.name, start |-> op.head, old |-> op.old]
      BY <1>2, <1>6, <1>9, <2>2, <3>3 DEF PageOrNo
    <3> QED
      BY <1>1, <3>2, <3>3
  <2>4. \A fd1, fd2 \in fds' : fd1.name = fd2.name => fd1 = fd2
    <3>1. \A fd1, fd2 \in fds : fd1.name = fd2.name => fd1 = fd2
      BY <1>5 DEF OpenFiles
    <3> QED
      BY <1>1, <2>1, <3>1
  <2> QED
    BY <1>1, <1>5, <2>3, <2>4 DEF OpenFiles
<1>11. CallInProgress' /\ NoAssertFails'
  BY <1>1, <1>5 DEF CallInProgress, NoAssertFails
<1> QED
  BY <1>4, <1>7, <1>8, <1>10, <1>11

\* Committing changes neither what is vacant nor what is deleted or a start.
LEMMA CommitKeeps ==
  ASSUME TypeOK, Parts, NEW n, NEW p \in Page, "start" \in flags[p], Commit(n, p)
  PROVE  /\ HeaderOrder' /\ SpareSector'
         /\ \A q \in Page : /\ HeaderVacant(q) => HeaderVacant(q)'
                            /\ "deleted" \in flags'[q] <=> "deleted" \in flags[q]
                            /\ "start" \in flags'[q] <=> "start" \in flags[q]
<1> USE DEF Parts, TypeOK
<1>1. Program(p, {"written"}) /\ p \in Slot
      /\ {"written"} \in SUBSET (Flag \ {"magic", "start", "cont"})
  BY PageInSlot DEF Commit, Flag
<1>2. HeaderOrder' /\ SpareSector'
  BY <1>1, WriteKeepsOrder, WriteKeepsSpare
<1> QED
  BY <1>1, <1>2, PageInSlot, WriteKeepsVacant, NoNewFlag

LEMMA MarkWrittenParts ==
  ASSUME TypeOK, Parts, NEW fd \in fds, MarkWritten(fd)
  PROVE  Parts'
<1> USE DEF Parts, TypeOK
<1>1. /\ pc = "ready" /\ UNCHANGED <<gcSector, pstate, fname>> /\ fds' = fds \ {fd}
  BY DEF MarkWritten, table
<1>2. Mounted /\ ~Booting /\ ~Marking /\ ~Creating /\ ~Erasing
  BY <1>1 DEF Booting, Marking, Mounted, Creating, Erasing
<1>3. fd.start \in Page /\ fd.old \in PageOrNo /\ "start" \in flags[fd.start]
  BY <1>2 DEF OpenFiles, CallType, Fd
<1>4. /\ HeaderOrder' /\ SpareSector'
      /\ \A q \in Page : /\ HeaderVacant(q) => HeaderVacant(q)'
                         /\ "deleted" \in flags'[q] <=> "deleted" \in flags[q]
                         /\ "start" \in flags'[q] <=> "start" \in flags[q]
  <2>1. CASE fd.old = NoPage
    BY <1>3, <2>1, CommitKeeps DEF MarkWritten
  <2>2. CASE fd.old # NoPage
    <3>1. Program(fd.old, {"dead"}) /\ fd.old \in Slot
          /\ {"dead"} \in SUBSET (Flag \ {"magic", "start", "cont"})
      BY <1>3, <2>2, PageInSlot DEF MarkWritten, Flag, PageOrNo
    <3> QED
      BY ZenonT(120), <3>1, PageInSlot, WriteKeepsOrder, WriteKeepsSpare, WriteKeepsVacant, NoNewFlag
  <2> QED
    BY <2>1, <2>2
<1>5. /\ pc' \in {"ready", "markNew"}
      /\ pc' = "markNew" => /\ fd.old # NoPage /\ op'.old = fd.old
                            /\ op'.head = fd.start /\ op'.name = fd.name
                            /\ op'.booting = FALSE
  BY <1>1 DEF MarkWritten, Goto, NoOp
<1>6. ~Booting' /\ ~Marking' /\ Mounted' /\ ~Creating' /\ ~Erasing'
  BY <1>5 DEF Booting, Marking, Mounted, Creating, Erasing
<1>7. SectorIsKept'
  <2>1. \A q \in PagesOf(gcSector) : q \in Page
    BY DEF PagesOf
  <2> QED
    BY <1>1, <1>2, <1>4, <1>6, <2>1 DEF SectorIsKept
<1>8. TableIsFresh' /\ CreatPages' /\ BlankFirst' /\ DeletedIsDirty'
  BY <1>1, <1>2, <1>4, <1>5, <1>6 DEF TableIsFresh, CreatPages, BlankFirst, DeletedIsDirty
<1>9. \A o \in Page : \A n : IsPrevious(o, n) => IsPrevious(o, n)'
  BY <1>1, <1>4 DEF IsPrevious
<1>10. OpenFiles'
  <2>1. \A f \in fds' : /\ f \in fds /\ f # fd /\ f.start \in Page /\ f.old \in PageOrNo
    BY <1>1 DEF CallType, Fd
  <2>2. \A f \in fds' : /\ "start" \in flags'[f.start]
                        /\ f.old # NoPage => IsPrevious(f.old, f.name)'
                        /\ f.name # fd.name
    BY <1>2, <1>4, <1>9, <2>1 DEF OpenFiles, PageOrNo
  <2>3. \A fd1, fd2 \in fds' : fd1.name = fd2.name => fd1 = fd2
    BY <1>2, <2>1 DEF OpenFiles
  <2> QED
    BY <1>5, <1>6, <2>2, <2>3 DEF OpenFiles
<1>11. CallInProgress'
  <2>1. fd.old # NoPage => IsPrevious(fd.old, fd.name)'
    BY <1>2, <1>3, <1>9 DEF OpenFiles, PageOrNo
  <2>2. pc' = "markNew" => IsPrevious(op.old, op.name)'
    BY <1>5, <2>1
  <2>3. fd.start # NoPage /\ "start" \in flags'[fd.start]
    BY <1>3, <1>4 DEF Page
  <2> QED
    BY <1>5, <1>6, <2>2, <2>3 DEF CallInProgress
<1> QED
  BY <1>4, <1>5, <1>7, <1>8, <1>10, <1>11 DEF NoAssertFails

LEMMA MarkNewParts == TypeOK /\ Parts /\ MarkNew => Parts'
<1> SUFFICES ASSUME TypeOK, Parts, MarkNew PROVE Parts'
  OBVIOUS
<1> USE DEF Parts, TypeOK
<1>1. /\ pc = "markNew" /\ UNCHANGED <<gcSector, pstate, fname, fds>>
  BY DEF MarkNew, table
<1>2. Mounted /\ ~Booting /\ ~Marking /\ ~Creating /\ ~Erasing
  BY <1>1 DEF Booting, Marking, Mounted, Creating, Erasing
<1>3. /\ op.head \in Page /\ op.old \in Page /\ op \in Op
      /\ "start" \in flags[op.head] /\ IsPrevious(op.old, op.name)
  BY <1>1 DEF MarkNew, CallInProgress, CallType, Op, PageOrNo
<1>4. /\ HeaderOrder' /\ SpareSector'
      /\ \A q \in Page : /\ HeaderVacant(q) => HeaderVacant(q)'
                         /\ "deleted" \in flags'[q] <=> "deleted" \in flags[q]
                         /\ "start" \in flags'[q] <=> "start" \in flags[q]
  BY <1>3, CommitKeeps DEF MarkNew
<1>5. pc' = "erase" /\ op' = [op EXCEPT !.head = op.old, !.cur = op.old]
  BY <1>3 DEF MarkNew, StartErase, IsPrevious, Goto
<1>6. /\ op'.head = op.old /\ op'.cur = op.old /\ op'.name = op.name
      /\ op'.booting = op.booting
  BY <1>3, <1>5 DEF Op
<1>7. /\ ~Booting' /\ ~Marking' /\ Mounted' /\ ~Creating' /\ Erasing'
      /\ ~op.booting
  BY <1>1, <1>5, <1>6 DEF Booting, Marking, Mounted, Creating, Erasing, CallInProgress
<1>8. SectorIsKept'
  <2>1. \A q \in PagesOf(gcSector) : q \in Page
    BY DEF PagesOf
  <2> QED
    BY <1>1, <1>2, <1>4, <1>7, <2>1 DEF SectorIsKept
<1>9. TableIsFresh' /\ CreatPages' /\ BlankFirst'
  BY <1>5, <1>7 DEF TableIsFresh, CreatPages, BlankFirst
<1>10. DeletedIsDirty'
  <2>1. op.old # NoPage /\ "start" \in flags'[op.old]
    BY <1>3, <1>4 DEF IsPrevious, Page
  <2> QED
    BY <1>1, <1>2, <1>4, <1>5, <1>6, <2>1 DEF DeletedIsDirty
<1>11. \A o \in Page : \A n : IsPrevious(o, n) => IsPrevious(o, n)'
  BY <1>1, <1>4 DEF IsPrevious
<1>12. OpenFiles'
  <2>1. \A fd \in fds : /\ fd.start \in Page /\ fd.old \in PageOrNo
                       /\ fd.name # op.name
    BY <1>1, <1>2 DEF CallType, Fd, OpenFiles
  <2> QED
    BY <1>1, <1>2, <1>4, <1>5, <1>6, <1>7, <1>11, <2>1 DEF OpenFiles, PageOrNo
<1>13. CallInProgress' /\ NoAssertFails'
  <2>1. op.old # NoPage /\ fname'[op.old] = op.name
    BY <1>1, <1>3 DEF IsPrevious, Page
  <2> QED
    BY <1>5, <1>6, <1>7, <2>1 DEF CallInProgress, NoAssertFails
<1> QED
  BY <1>4, <1>8, <1>9, <1>10, <1>12, <1>13

LEMMA FormatParts == TypeOK /\ Parts /\ Format => Parts'
<1> SUFFICES ASSUME TypeOK, Parts, Format PROVE Parts'
  OBVIOUS
<1> USE DEF Parts, TypeOK
<1>1. pc' = "wipeErase" /\ op'.cur = 0 /\ UNCHANGED flags
  BY DEF Format, Goto, NoOp
<1>2. HeaderOrder' /\ SpareSector'
  BY <1>1 DEF HeaderOrder, IsFile, SpareSector, HeaderVacant, HeaderState
<1>3. ~Booting' /\ ~Marking' /\ ~Mounted' /\ ~Creating' /\ ~Erasing'
  BY <1>1 DEF Booting, Marking, Mounted, Creating, Erasing
<1>4. BlankFirst'
  BY <1>1, PageZero DEF BlankFirst, Page
<1> QED
  BY <1>1, <1>2, <1>3, <1>4
  DEF SectorIsKept, TableIsFresh, CreatPages, DeletedIsDirty, OpenFiles,
      CallInProgress, NoAssertFails

LEMMA WipeEraseParts == TypeOK /\ Parts /\ WipeErase => Parts'
<1> SUFFICES ASSUME TypeOK, Parts, WipeErase PROVE Parts'
  OBVIOUS
<1> USE DEF Parts, TypeOK
<1>1. pc = "wipeErase" /\ pc' \in {"wipeErase", "wipeHeader"}
  BY DEF WipeErase, Goto
<1>2. ~Booting' /\ ~Marking' /\ ~Mounted' /\ ~Creating' /\ ~Erasing'
  BY <1>1 DEF Booting, Marking, Mounted, Creating, Erasing
<1>3. \A q \in Slot : flags'[q] = IF q \in PagesOf(op.cur) THEN {} ELSE flags[q]
  BY DEF WipeErase, Blank
<1>4. HeaderOrder'
  BY <1>3 DEF HeaderOrder, IsFile
<1>5. SpareSector'
  <2>1. \A q \in Page : HeaderVacant(q) => HeaderVacant(q)'
    <3>1. \A q \in Page : flags'[q] = {} \/ flags'[q] = flags[q]
      BY <1>3, PageInSlot
    <3> QED
      BY <3>1, VacantFlags DEF HeaderVacant, HeaderState
  <2> QED
    BY <2>1 DEF SpareSector, PagesOf
<1>6. BlankFirst'
  <2>1. op.cur \in Page
    BY <1>1 DEF BlankFirst
  <2>2. \A p \in Page : p < op.cur + PagesPerSector => flags'[p] = {}
    <3>1. SUFFICES ASSUME NEW p \in Page, p < op.cur + PagesPerSector
          PROVE  flags'[p] = {}
      OBVIOUS
    <3>2. CASE p < op.cur
      BY <1>1, <1>3, <3>2, PageInSlot DEF BlankFirst
    <3>3. CASE ~(p < op.cur)
      <4>1. p \in PagesOf(op.cur)
        BY <2>1, <3>1, <3>3, SizeAssumption DEF PagesOf, Page
      <4> QED
        BY <1>3, <4>1, PageInSlot
    <3> QED
      BY <3>2, <3>3
  <2>3. CASE op.cur + PagesPerSector \in Page
    <3>1. pc' = "wipeErase" /\ op'.cur = op.cur + PagesPerSector
      BY <2>3 DEF WipeErase, Goto, CallType, Op
    <3> QED
      BY <2>2, <2>3, <3>1 DEF BlankFirst
  <2>4. CASE op.cur + PagesPerSector \notin Page
    <3>1. pc' = "wipeHeader"
      BY <2>4 DEF WipeErase, Goto
    <3>2. \A p \in Page : p < op.cur + PagesPerSector
      BY <2>1, <2>4, SizeAssumption DEF Page
    <3> QED
      BY <2>2, <3>1, <3>2 DEF BlankFirst, IsFile
  <2> QED
    BY <2>3, <2>4
<1> QED
  BY <1>1, <1>2, <1>4, <1>5, <1>6
  DEF SectorIsKept, TableIsFresh, CreatPages, DeletedIsDirty, OpenFiles,
      CallInProgress, NoAssertFails

LEMMA WipeHeaderParts == TypeOK /\ Parts /\ WipeHeader => Parts'
<1> SUFFICES ASSUME TypeOK, Parts, WipeHeader PROVE Parts'
  OBVIOUS
<1> USE DEF Parts, TypeOK
<1>1. pc = "wipeHeader" /\ pc' \in {"wipeHeader", "wiped"}
  BY DEF WipeHeader, Goto
<1>2. op.cur \in Page /\ op.cur \in Slot
  BY PageSlots DEF WipeHeader, CallType, Op
<1>3. ~Booting' /\ ~Marking' /\ ~Mounted' /\ ~Creating' /\ ~Erasing'
  BY <1>1 DEF Booting, Marking, Mounted, Creating, Erasing
<1>4. Program(op.cur, {"magic"}) /\ {"magic"} \in SUBSET Flag
  BY DEF WipeHeader, Flag
<1>5. HeaderOrder'
  BY <1>2, <1>4, WriteKeepsOrder
<1>6. \A p \in Page : ~IsFile(p)'
  BY <1>1, <1>2, <1>4, PageInSlot, NoNewFlag DEF BlankFirst, IsFile
<1>7. SpareSector'
  <2>1. \A p \in Page : HeaderVacant(p)'
    BY <1>6, VacantFlags DEF HeaderVacant, HeaderState, IsFile
  <2> QED
    BY <2>1, SectorZero DEF SpareSector, PagesOf
<1> QED
  BY <1>1, <1>3, <1>5, <1>6, <1>7
  DEF SectorIsKept, TableIsFresh, CreatPages, BlankFirst, DeletedIsDirty, OpenFiles,
      CallInProgress, NoAssertFails

\* What a look-up finds is a committed file that is not being deleted.
LEMMA FoundIsPrevious ==
  ASSUME TypeOK, Parts, Mounted, NEW n, NEW p \in Found(n)
  PROVE  IsPrevious(p, n) /\ p \in Page
<1>1. p \in Page /\ pstate[p] = "FileStart" /\ fname[p] = n /\ "written" \in flags[p]
  BY DEF Found, Match
<1>2. "start" \in flags[p] /\ "deleted" \notin flags[p]
  BY <1>1, PageInSlot DEF Parts, HeaderOrder, DeletedIsDirty
<1> QED
  BY <1>1, <1>2 DEF IsPrevious

\* Only formatting and the first page of a file write a header, and the latter
\* copies the counter it read.
LEMMA StepCounts ==
  TypeOK /\ Parts /\ CountsAreWritten /\ [Next]_vars => CountsAreWritten'
<1> DEFINE Counts == /\ \A p \in Page : "magic" \in flags[p] => wear[p] # NoErase
                     /\ (Booting \/ Marking \/ Mounted) => \A p \in Page : "magic" \in flags[p]
<1> SUFFICES ASSUME TypeOK, Parts, CountsAreWritten, [Next]_vars, "header" \notin lost'
             PROVE  Counts'
  BY DEF CountsAreWritten
<1> USE DEF TypeOK
<1>1. Counts
  <2>1. lost \subseteq lost'
    BY DEF Next, Run, Call, vars, Boot, Recover, FindGcSector, GcSentinel, GcHeader,
       Erase, Erased, CreatSentinel, CreatHeader, CreatDone, MarkNew, WipeErase,
       WipeHeader, Create, Replace, StartCreat, MarkWritten, Abandon, Format, Crash
  <2> QED
    BY <2>1 DEF CountsAreWritten
<1>2. CASE WipeErase
  <2>1. /\ \A p \in Page : flags'[p] = {} \/ (flags'[p] = flags[p] /\ wear'[p] = wear[p])
        /\ pc' \in {"wipeErase", "wipeHeader"}
    BY <1>2, PageInSlot DEF WipeErase, Blank, Goto
  <2> QED
    BY <1>1, <2>1 DEF Booting, Marking, Mounted, Creating, Erasing
<1>3. CASE WipeHeader
  <2>1. /\ op.cur \in Page
        /\ wear' = [wear EXCEPT ![op.cur] = 1]
        /\ Program(op.cur, {"magic"})
        /\ pc' \in {"wipeHeader", "wiped"}
    BY <1>3 DEF WipeHeader, Goto, CallType, Op, PageOrNo
  <2>2. \A p \in Page : p # op.cur => flags'[p] = flags[p] /\ wear'[p] = wear[p]
    BY <2>1, PageInSlot, FlagsAfter DEF FlashType
  <2>3. wear'[op.cur] # NoErase
    BY <2>1, BoundAssumption DEF FlashType, NoErase
  <2> QED
    BY <1>1, <2>1, <2>2, <2>3 DEF Booting, Marking, Mounted, Creating, Erasing
<1>4. CASE CreatHeader
  <2>1. op.cur \in Page /\ Mounted /\ UNCHANGED wear
    BY <1>4 DEF CreatHeader, CallType, Op, PageOrNo, Mounted, Creating
  <2>2. PICK fl \in SUBSET Flag : Program(op.cur, fl)
    BY <1>4 DEF CreatHeader, Flag
  <2>3. \A p \in Page : flags[p] \subseteq flags'[p]
    BY <2>1, <2>2, PageInSlot, FlagsAfter
  <2> QED
    BY <1>1, <2>1, <2>3
<1>5. ASSUME UNCHANGED <<flags, wear>>,
             \/ ~(Booting \/ Marking \/ Mounted)'
             \/ Booting \/ Marking \/ Mounted
             \/ \A p \in Page : "magic" \in flags[p]
      PROVE  Counts'
  BY <1>1, <1>5
<1>6. ASSUME UNCHANGED wear, NEW p \in Slot, NEW fl \in SUBSET (Flag \ {"magic"}),
             Program(p, fl), Booting \/ Marking \/ Mounted
      PROVE  Counts'
  <2>1. \A q \in Page : "magic" \in flags'[q] <=> "magic" \in flags[q]
    BY <1>6, PageInSlot, NoNewFlag
  <2> QED
    BY <1>1, <1>6, <2>1
<1>7. CASE Boot
  BY <1>5, <1>7 DEF Boot, Goto, Booting, Marking, Mounted, Creating, Erasing
<1>8. CASE Crash \/ Format
  <2>1. UNCHANGED <<flags, wear>> /\ pc' \in {"off", "wipeErase"}
    BY <1>8 DEF Crash, Format, Goto
  <2> QED
    BY <1>5, <2>1 DEF Booting, Marking, Mounted, Creating, Erasing
<1>9. CASE Recover \/ FindGcSector
  <2>1. UNCHANGED <<flags, wear>> /\ Booting
    BY <1>9 DEF Recover, FindGcSector, Booting
  <2> QED
    BY <1>5, <2>1
<1>10. ASSUME pc = "ready", UNCHANGED <<flags, wear>> PROVE Counts'
  BY <1>5, <1>10 DEF Mounted
<1>11. ASSUME NEW n \in FileName, NEW k \in 1 .. MaxFilePages, NEW v, StartCreat(n, k, v)
       PROVE  Counts'
  BY <1>10, <1>11 DEF StartCreat
<1>12. CASE GcSentinel \/ GcHeader
  <2>1. /\ Marking /\ UNCHANGED wear /\ op.cur \in Slot /\ op.cur + 1 \in Slot
        /\ \/ Program(op.cur + 1, {"allocated"})
           \/ Program(op.cur, {"moreblocks", "allocated"})
    BY <1>12, PageSlots DEF GcSentinel, GcHeader, Marking, CallType, Op
  <2> QED
    BY <1>6, <2>1 DEF Flag
<1>13. CASE Erase \/ Erased
  <2>1. /\ Booting \/ Mounted
        /\ UNCHANGED wear
        /\ \/ op.cur \in Slot /\ Program(op.cur, {"dead"})
           \/ op.head \in Slot /\ Program(op.head, {"deleted"})
    BY <1>13, PageSlots DEF Erase, Erased, CallType, Op, Booting, Mounted, Erasing
  <2> QED
    BY <1>6, <2>1 DEF Flag
<1>14. CASE CreatSentinel
  <2>1. Mounted /\ UNCHANGED wear /\ op.cur + 1 \in Slot
    BY <1>14, PageSlots DEF CreatSentinel, CallType, Op, Mounted, Creating
  <2>2. UNCHANGED flags \/ Program(op.cur + 1, {"allocated"})
    BY <1>14 DEF CreatSentinel
  <2> QED
    BY <1>5, <1>6, <2>1, <2>2 DEF Flag
<1>15. CASE CreatDone \/ MarkNew
  <2>1. /\ Mounted /\ UNCHANGED wear /\ op.head \in Slot
        /\ Program(op.head, {"created"}) \/ Program(op.head, {"written"})
    BY <1>15, PageSlots DEF CreatDone, MarkNew, Commit, CallType, Op, Mounted, Creating
  <2> QED
    BY <1>6, <2>1 DEF Flag
<1>16. ASSUME NEW fd \in fds, MarkWritten(fd) PROVE Counts'
  <2>1. /\ Mounted /\ UNCHANGED wear /\ fd.start \in Slot
        /\ \/ Program(fd.start, {"written"})
           \/ fd.old \in Slot /\ Program(fd.old, {"dead"})
    BY <1>16, PageInSlot DEF MarkWritten, Commit, CallType, Fd, PageOrNo, Mounted
  <2> QED
    BY <1>6, <2>1 DEF Flag
<1>17. ASSUME NEW fd \in fds, Abandon(fd) PROVE Counts'
  BY <1>10, <1>17 DEF Abandon
<1>18. CASE UNCHANGED vars
  BY <1>5, <1>18 DEF vars, Booting, Marking, Mounted, Creating, Erasing
<1>19. CASE Run
  BY <1>2, <1>3, <1>4, <1>7, <1>9, <1>12, <1>13, <1>14, <1>15, <1>19 DEF Run
<1>20. CASE Call
  BY <1>8, <1>11, <1>16, <1>17, <1>20 DEF Call, Create, Replace
<1> QED
  BY <1>8, <1>18, <1>19, <1>20 DEF Next

LEMMA StepParts == TypeOK /\ Parts /\ CountsAreWritten /\ [Next]_vars => Parts'
<1> SUFFICES ASSUME TypeOK, Parts, CountsAreWritten, [Next]_vars PROVE Parts'
  OBVIOUS
<1>1. CASE Run
  BY <1>1, BootParts, RecoverParts, FindGcSectorParts, GcSentinelParts, GcHeaderParts,
     EraseParts, ErasedParts, CreatSentinelParts, CreatHeaderParts, CreatDoneParts,
     MarkNewParts, WipeEraseParts, WipeHeaderParts DEF Run
<1>2. CASE Call
  <2>1. ASSUME NEW n \in FileName, NEW k \in 1 .. MaxFilePages, Create(n, k)
        PROVE  Parts'
    BY <2>1, StartCreatParts DEF Create, PageOrNo
  <2>2. ASSUME NEW n \in FileName, NEW k \in 1 .. MaxFilePages, Replace(n, k)
        PROVE  Parts'
    <3>1. PICK p \in Found(n) : StartCreat(n, k, p)
      BY <2>2 DEF Replace
    <3>2. Mounted
      BY <3>1 DEF StartCreat, Mounted
    <3>3. IsPrevious(p, n) /\ p \in PageOrNo
      BY <3>2, FoundIsPrevious DEF PageOrNo
    <3> QED
      BY <3>1, <3>3, StartCreatParts
  <2>3. ASSUME NEW fd \in fds, Abandon(fd)
        PROVE  Parts'
    <3>1. /\ pc' = pc /\ op' = op /\ fds' \subseteq fds
          /\ UNCHANGED <<flags, fname, pstate, gcSector, lost>>
      BY <2>3 DEF Abandon, table
    <3>2. HeaderOrder' /\ SpareSector' /\ SectorIsKept' /\ TableIsFresh'
      BY <3>1 DEF Parts, HeaderOrder, IsFile, SpareSector, SectorIsKept, TableIsFresh,
         Vacant, HeaderVacant, HeaderState, Booting, Marking, Mounted, Creating, Erasing
    <3>3. CreatPages' /\ BlankFirst' /\ DeletedIsDirty'
      BY <3>1 DEF Parts, CreatPages, BlankFirst, DeletedIsDirty, IsFile,
         Booting, Marking, Mounted, Creating, Erasing
    <3>4. OpenFiles' /\ CallInProgress' /\ NoAssertFails'
      BY <3>1 DEF Parts, OpenFiles, CallInProgress, NoAssertFails, IsPrevious,
         Booting, Marking, Mounted, Creating, Erasing
    <3> QED
      BY <3>2, <3>3, <3>4 DEF Parts
  <2> QED
    BY <1>2, <2>1, <2>2, <2>3, MarkWrittenParts, FormatParts DEF Call
<1>3. CASE Crash
  BY <1>3, CrashParts
<1>4. CASE UNCHANGED vars
  BY <1>4 DEF vars, Parts, HeaderOrder, IsFile, SpareSector, SectorIsKept, TableIsFresh,
     CreatPages, BlankFirst, DeletedIsDirty, OpenFiles, CallInProgress, NoAssertFails,
     IsPrevious, Vacant, HeaderVacant, HeaderState, Booting, Marking, Mounted, Creating, Erasing
<1> QED
  BY <1>1, <1>2, <1>3, <1>4 DEF Next

\* The strengthened invariant, from which the assertions follow, is inductive
\* and holds in every reachable state of fs.c.
THEOREM AssertInvHolds == Spec => []AssertInv
<1>1. Init => TypeOK /\ Parts /\ CountsAreWritten
  BY InitType, InitParts, InitCounts
<1>2. TypeOK /\ Parts /\ CountsAreWritten /\ [Next]_vars => (TypeOK /\ Parts /\ CountsAreWritten)'
  BY StepType, StepParts, StepCounts
<1>3. TypeOK /\ Parts /\ CountsAreWritten => AssertInv
  BY DEF AssertInv, Parts
<1> QED
  BY <1>1, <1>2, <1>3, PTL DEF Spec

\* No file is deleted twice (fs.c:311), after any sequence of creations,
\* replacements, abandoned files, formats and power losses, and a mount finds a
\* sector to keep (fs.c:277) unless some mount met a page without a header.
THEOREM AssertionsHold == Spec => []NoAssertFails
<1>1. AssertInv => NoAssertFails
  BY DEF AssertInv
<1> QED
  BY <1>1, AssertInvHolds, PTL

-------------------------------------------------------------------------------
(***************************************************************************)
(* Commits are atomic and files are whole: the parts of CommitInv, the     *)
(* inductive invariant behind CommitsAreAtomic and FoundFilesAreWhole.     *)
(* It speaks of flash that can be trusted: no mount so far has lost what   *)
(* it looked for, and every page has the header that formatting gave it.   *)
(***************************************************************************)
\* The version a look-up must return: none where the commit is not kept.
Promised == [n \in FileName |-> IF forfeit[n] = "none" THEN saved[n] ELSE NoPage]

Running == Booting \/ Marking \/ Mounted
Filling == pc \in {"creatSentinel", "creatHeader"}
Trusted == lost = {} /\ \A p \in Page : "magic" \in flags[p]

\* A file start that has not been deleted completely, and one that the next
\* mount deletes.
IsLive(h)     == "start" \in flags[h] /\ "deleted" \notin flags[h]
IsHalfDone(h) == /\ IsLive(h)
                 /\ \/ "created" \notin flags[h] \/ "written" \notin flags[h]
                    \/ "dead" \in flags[h]

\* A file created and still temporary.
IsTemporary(h, n) == /\ IsLive(h) /\ "created" \in flags[h] /\ "written" \notin flags[h]
                     /\ fname[h] = n

\* Only a page of a file is followed by another, or says a creation is complete.
LinkedIsFile ==
    \A p \in Page : next[p] # NoPage \/ "created" \in flags[p] => IsFile(p)

\* own gives each page the first page of the file it was given to last.  The
\* chain of a live file stays among its own pages; a file created completely
\* owns only pages that were written.
IsOwner(own) ==
    /\ \A p \in Page : IsLive(p) => own[p] = p
    /\ \A p \in Page : own[p] # NoPage =>
          /\ "start" \in flags[own[p]]
          /\ own[p] # p => "start" \notin flags[p]
    /\ \A p \in Page : (own[p] # NoPage /\ IsLive(own[p])) =>
          /\ next[p] # NoPage => own[next[p]] = own[p]
          /\ "created" \in flags[own[p]] => IsFile(p)

\* The call in progress works on pages of its own file.
CallOwns(own) ==
    /\ Creating => \A p \in Page :
          own[p] = op.head => IsFile(p) \/ (Filling /\ p = op.cur)
    /\ (Filling /\ op.cur # op.head) => own[op.cur] = op.head
    /\ pc = "erase" => own[op.cur] = op.head

PagesAreOwned ==
    \E own \in [Page -> PageOrNo] : IsOwner(own) /\ CallOwns(own)

\* The table knows every page in use, and never more of a page than its header.
PageAgrees(p) ==
    /\ pstate[p] = "Clean" => ~IsFile(p)
    /\ pstate[p] = "FileStart" => p <= lastpg
    /\ "start" \in flags[p] => p <= lastpg
    /\ ("start" \in flags[p] /\ "dead" \notin flags[p]) => pstate[p] = "FileStart"
TableAgrees == Running => \A p \in Page : PageAgrees(p)

\* The cleanup of a mount goes up the pages and leaves nothing behind it.
CleanedUpTo(p) ==
    "start" \in flags[p] =>
      /\ pstate[p] \in {"FileStart", "Dirty"}
      /\ IsHalfDone(p) => /\ op.head <= p
                          /\ op.head = p => Erasing
CleanupInOrder == Booting => \A p \in Page : CleanedUpTo(p)

\* After it, a live file is complete or the one the call in progress works on.
IsComplete(p) ==
    IsLive(p) => /\ pstate[p] = "FileStart" \/ (Erasing /\ p = op.head)
                 /\ "created" \in flags[p] \/ (Creating /\ p = op.head)
                 /\ Marking => ~IsHalfDone(p)
NothingLeft == (Marking \/ Mounted) => \A p \in Page : IsComplete(p)

\* The versions of a file that can be looked up.
Versions(n) == {p \in Page : /\ pstate[p] = "FileStart" /\ fname[p] = n
                             /\ "written" \in flags[p]}

\* A file being written is new, and nothing but the file it replaces has its name.
CreatesNew ==
    Creating =>
      /\ pstate[op.head] = "FileStart"
      /\ "written" \notin flags[op.head] /\ "created" \notin flags[op.head]
      /\ (~Filling \/ op.cur # op.head) => fname[op.head] = op.name
      /\ op.old # NoPage => "written" \in flags[op.old]
      /\ \A fd \in fds : fd.start # op.head
      /\ op.name \in FileName => Versions(op.name) \subseteq {op.old}
FillsBlank ==
    /\ Filling => op.cur # NoPage /\ ~IsFile(op.cur)
    /\ pc = "creatHeader" =>
          /\ op.left > 1 <=> op.nxt # NoPage
          /\ op.nxt # NoPage => ~IsFile(op.nxt) /\ op.nxt # op.cur

\* Only a file that is not the committed version of its name is deleted.
ErasesOld ==
    Erasing =>
      /\ op.head # NoPage /\ IsLive(op.head)
      /\ pc = "erase" => IsHalfDone(op.head)
      /\ ~op.booting => "written" \in flags[op.head]

CommitsNew ==
    pc = "markNew" =>
      /\ IsTemporary(op.head, op.name)
      /\ {"written", "dead"} \subseteq flags[op.old]
      /\ \A fd \in fds : fd.start # op.head
      /\ op.name \in FileName => Versions(op.name) \subseteq {op.old}

OpenIsNew ==
    Mounted =>
      /\ \A fd \in fds :
            /\ IsTemporary(fd.start, fd.name)
            /\ fd.old # NoPage => "written" \in flags[fd.old]
            /\ fd.name \in FileName => Versions(fd.name) \subseteq {fd.old}
      /\ \A fd1, fd2 \in fds : fd1.start = fd2.start => fd1 = fd2

\* One version of a name is left by a power loss, and one can be looked up,
\* from the moment the deletion of the old one has begun.
IsVersion(p, n) == /\ fname[p] = n /\ "written" \in flags[p] /\ "dead" \notin flags[p]
OneOnFlash ==
    \A n \in FileName, p, q \in Page : IsVersion(p, n) /\ IsVersion(q, n) => p = q
OneInTable ==
    Running => \A n \in FileName : \A p, q \in Versions(n) :
        p = q \/ (pc = "erase" /\ op.cur = op.head /\ op.head \in {p, q})

\* The flash holds what was committed, except between the two writes of a commit.
SavedOnFlash ==
    \A n \in FileName :
        (Promised[n] # NoPage /\ ~(pc = "markNew" /\ op.name = n)) =>
            IsVersion(Promised[n], n) /\ {"start", "created"} \subseteq flags[Promised[n]]
NothingSaved ==
    pc \in {"wipeErase", "wipeHeader"} => \A n \in FileName : Promised[n] = NoPage

CommitParts ==
    /\ PagesAreOwned /\ TableAgrees /\ CleanupInOrder /\ NothingLeft
    /\ CreatesNew /\ FillsBlank /\ ErasesOld /\ CommitsNew /\ OpenIsNew
    /\ OneOnFlash /\ OneInTable /\ SavedOnFlash

\* Nothing is claimed once a mount has lost anything, nor of a flash of which
\* some page is without the header that formatting gives it.
CommitInv == LinkedIsFile /\ NothingSaved /\ (Trusted => CommitParts)

LEMMA PromisedAt ==
  \A n \in FileName : Promised[n] = IF forfeit[n] = "none" THEN saved[n] ELSE NoPage
  BY DEF Promised

LEMMA PromisedIsPage ==
  ASSUME TypeOK
  PROVE  \A n \in FileName : Promised[n] # NoPage => Promised[n] \in Page
  BY PromisedAt DEF TypeOK, CallType, PageOrNo

LEMMA PromisedKept == UNCHANGED <<saved, forfeit>> => UNCHANGED Promised
  BY DEF Promised

\* What a step does to the promises is what it does to the two history variables.
LEMMA CommitPromise ==
  ASSUME TypeOK, NEW n \in FileName, NEW p, Commit(n, p)
  PROVE  \A m \in FileName : Promised'[m] = IF m # n THEN Promised[m]
                              ELSE IF "dead" \in flags[p] THEN NoPage ELSE p
<1> SUFFICES ASSUME NEW m \in FileName
    PROVE  Promised'[m] = IF m # n THEN Promised[m]
                          ELSE IF "dead" \in flags[p] THEN NoPage ELSE p
  OBVIOUS
<1>1. Promised'[m] = IF forfeit'[m] = "none" THEN saved'[m] ELSE NoPage
  BY DEF Promised
<1>2. CASE m # n
  <2>1. saved'[m] = saved[m] /\ forfeit'[m] = forfeit[m]
    BY <1>2 DEF Commit, TypeOK, CallType
  <2> QED
    BY <1>1, <1>2, <2>1, PromisedAt
<1>3. CASE m = n /\ "dead" \in flags[p]
  <2>1. forfeit'[m] = "stale"
    BY <1>3 DEF Commit, TypeOK, CallType
  <2> QED
    BY <1>1, <1>3, <2>1
<1>4. CASE m = n /\ "dead" \notin flags[p]
  <2>1. saved'[m] = p /\ forfeit'[m] = "none"
    BY <1>4 DEF Commit, TypeOK, CallType
  <2> QED
    BY <1>1, <1>4, <2>1
<1> QED
  BY <1>2, <1>3, <1>4

LEMMA CrashPromise ==
  ASSUME TypeOK, Crash
  PROVE  \A n \in FileName : \/ Promised'[n] = NoPage
                             \/ Promised'[n] = Promised[n] /\ ~(pc = "markNew" /\ op.name = n)
<1>1. /\ saved' = saved
      /\ \A m \in FileName : forfeit'[m] = IF pc = "markNew" /\ op.name = m
                                            THEN "window" ELSE forfeit[m]
  BY DEF Crash, TypeOK, CallType
<1> QED
  BY <1>1 DEF Promised

LEMMA FormatPromise == Format => \A n \in FileName : Promised'[n] = NoPage
  BY DEF Format, Promised

-------------------------------------------------------------------------------
(***************************************************************************)
(* What CommitInv says of a mounted file system.                           *)
(***************************************************************************)
ReadyState == /\ AssertInv /\ CommitInv /\ pc = "ready" /\ Intact

LEMMA ReadyIsTrusted ==
  ASSUME ReadyState
  PROVE  Trusted /\ Mounted /\ Running /\ ~Erasing /\ ~Creating
  BY DEF ReadyState, AssertInv, CountsAreWritten, Intact, Trusted, Running, Mounted,
     Erasing, Creating

LEMMA MatchIsVersions ==
  ASSUME ReadyState, NEW n
  PROVE  Match(n) = Versions(n)
<1>1. \A p \in Page : pstate[p] = "FileStart" => p <= lastpg
  BY ReadyIsTrusted DEF ReadyState, CommitInv, CommitParts, TableAgrees, PageAgrees
<1> QED
  BY <1>1 DEF Match, Versions

LEMMA ReadyVersionIsOne ==
  ASSUME ReadyState, NEW n \in FileName, NEW p \in Match(n), NEW q \in Match(n)
  PROVE  p = q
  BY MatchIsVersions, ReadyIsTrusted DEF ReadyState, CommitInv, CommitParts, OneInTable

LEMMA ReadyOneVersion == ReadyState => OneVersion
<1> SUFFICES ASSUME ReadyState, NEW n \in FileName PROVE Cardinality(Match(n)) <= 1
  BY DEF OneVersion
<1>1. CASE Match(n) = {}
  BY <1>1, FS_EmptySet
<1>2. CASE Match(n) # {}
  <2>1. PICK p : p \in Match(n)
    BY <1>2
  <2>2. Match(n) = {p}
    BY <2>1, ReadyVersionIsOne
  <2>3. Cardinality(Match(n)) = 1
    BY <2>2, FS_Singleton, Zenon
  <2> QED
    BY <2>3
<1> QED
  BY <1>1, <1>2

LEMMA ReadySavedIsFound == ReadyState => CommittedIsFound
<1> SUFFICES ASSUME ReadyState, NEW n \in FileName, Promised[n] # NoPage
    PROVE  Found(n) = {Promised[n]}
  BY PromisedAt DEF CommittedIsFound
<1>1. Promised[n] \in Page
  BY PromisedIsPage DEF ReadyState, AssertInv
<1>2. IsVersion(Promised[n], n) /\ "start" \in flags[Promised[n]]
  BY ReadyIsTrusted DEF ReadyState, CommitInv, CommitParts, SavedOnFlash
<1>3. pstate[Promised[n]] = "FileStart"
  BY <1>1, <1>2, ReadyIsTrusted DEF ReadyState, CommitInv, CommitParts, TableAgrees, PageAgrees, IsVersion
<1>4. Promised[n] \in Match(n)
  BY <1>1, <1>2, <1>3, MatchIsVersions DEF Versions, IsVersion
<1>5. Match(n) = {Promised[n]}
  BY <1>4, ReadyVersionIsOne
<1> QED
  BY <1>1, <1>5 DEF Found, Page

LEMMA ReadyNothingHalfDone == ReadyState => NothingHalfDone
<1> SUFFICES ASSUME ReadyState, NEW p \in Page, Unsettled(p)
    PROVE  pstate[p] = "FileStart" /\ "created" \in flags[p]
  BY DEF NothingHalfDone
<1>1. IsLive(p)
  BY PageInSlot DEF Unsettled, IsLive, ReadyState, AssertInv, HeaderOrder
<1> QED
  BY <1>1, ReadyIsTrusted DEF ReadyState, CommitInv, CommitParts, NothingLeft, IsComplete

-------------------------------------------------------------------------------
(***************************************************************************)
(* Chains.  Induction on a number is the choice of the least number that   *)
(* is a counterexample, in the well-founded order of the library.          *)
(***************************************************************************)
LEMMA LeastNat ==
  ASSUME NEW T \in SUBSET Nat, T # {}
  PROVE  \E m \in T : \A k \in T : m <= k
<1> DEFINE less == OpToRel(<, Nat)
<1>1. IsWellFoundedOn(less, Nat)
  BY NatLessThanWellFounded, Zenon
<1>2. \A k, m \in Nat : k < m => <<k, m>> \in less
  BY DEF OpToRel
<1> HIDE DEF less
<1>3. PICK m \in T : \A k \in T : <<k, m>> \notin less
  BY <1>1, WFMin
<1>4. ASSUME NEW k \in T
      PROVE  m <= k
  <2>1. k \in Nat /\ m \in Nat /\ ~(k < m)
    BY <1>2, <1>3
  <2> QED
    BY <2>1
<1> QED
  BY <1>4

\* The pages reached in at most i steps, as the recursion of Chain has them.
IsReach(r, p, k) ==
    \A i \in 0 .. k :
       r[i] = IF i = 0 THEN {p}
              ELSE r[i - 1] \cup ({next[q] : q \in r[i - 1]} \ {NoPage})

LEMMA ReachExists ==
  ASSUME NEW p, NEW k \in Nat
  PROVE  \E r : IsReach(r, p, k)
<1> DEFINE bad == {i \in Nat : ~\E r : IsReach(r, p, i)}
<1> SUFFICES ASSUME bad # {} PROVE FALSE
  OBVIOUS
<1>0. bad \in SUBSET Nat
  OBVIOUS
<1>1. PICK m \in bad : \A i \in bad : m <= i
  <2> HIDE DEF bad
  <2> QED
    BY <1>0, LeastNat
<1>2. CASE m = 0
  <2>1. IsReach([i \in 0 .. 0 |-> {p}], p, 0)
    BY DEF IsReach
  <2> QED
    BY <1>1, <1>2, <2>1
<1>3. CASE m # 0
  <2>1. m - 1 \in Nat /\ m - 1 \notin bad
    BY <1>1, <1>3
  <2>2. PICK r : IsReach(r, p, m - 1)
    BY <2>1
  <2> DEFINE s == [i \in 0 .. m |-> IF i = m
                      THEN r[m - 1] \cup ({next[q] : q \in r[m - 1]} \ {NoPage})
                      ELSE r[i]]
  <2>3. ASSUME NEW i \in 0 .. m
        PROVE  s[i] = IF i = 0 THEN {p}
                      ELSE s[i - 1] \cup ({next[q] : q \in s[i - 1]} \ {NoPage})
    <3>1. CASE i = m
      <4>1. s[i - 1] = r[m - 1]
        BY <1>1, <1>3, <3>1
      <4>2. s[i] = r[m - 1] \cup ({next[q] : q \in r[m - 1]} \ {NoPage})
        BY <3>1
      <4> HIDE DEF s
      <4> QED
        BY <1>3, <3>1, <4>1, <4>2
    <3>2. CASE i # m
      <4>1. i \in 0 .. m - 1 /\ s[i] = r[i]
        BY <1>1, <3>2
      <4>2. i # 0 => s[i - 1] = r[i - 1]
        BY <1>1, <3>2
      <4> HIDE DEF s
      <4> QED
        BY <2>2, <4>1, <4>2 DEF IsReach
    <3> QED
      BY <3>1, <3>2
  <2> HIDE DEF s
  <2>4. IsReach(s, p, m)
    BY <2>3 DEF IsReach
  <2> QED
    BY <1>1, <2>4
<1> QED
  BY <1>2, <1>3

LEMMA ChainIsReach ==
  ASSUME NEW p
  PROVE  \E r : IsReach(r, p, NPages) /\ Chain(p) = r[NPages]
<1> DEFINE f == CHOOSE f : f = [i \in 0 .. NPages |->
                   IF i = 0 THEN {p}
                   ELSE f[i - 1] \cup ({next[q] : q \in f[i - 1]} \ {NoPage})]
<1>1. PICK r : IsReach(r, p, NPages)
  BY ReachExists, SizeAssumption
<1> DEFINE g == [i \in 0 .. NPages |-> r[i]]
<1>2. g = [i \in 0 .. NPages |->
                   IF i = 0 THEN {p}
                   ELSE g[i - 1] \cup ({next[q] : q \in g[i - 1]} \ {NoPage})]
  <2>1. ASSUME NEW i \in 0 .. NPages
        PROVE  r[i] = IF i = 0 THEN {p}
                   ELSE g[i - 1] \cup ({next[q] : q \in g[i - 1]} \ {NoPage})
    <3>1. i # 0 => g[i - 1] = r[i - 1]
      BY SizeAssumption
    <3> HIDE DEF g
    <3> QED
      BY <1>1, <3>1 DEF IsReach
  <2> QED
    BY <2>1
<1>3. f = [i \in 0 .. NPages |->
                   IF i = 0 THEN {p}
                   ELSE f[i - 1] \cup ({next[q] : q \in f[i - 1]} \ {NoPage})]
  <2> HIDE DEF g
  <2> QED
    BY <1>2
<1>4. Chain(p) = f[NPages]
  BY DEF Chain
<1> HIDE DEF f
<1>5. IsReach(f, p, NPages)
  BY <1>3 DEF IsReach
<1> QED
  BY <1>4, <1>5

\* A set of pages that next_page does not leave holds every chain begun in it.
LEMMA ChainStays ==
  ASSUME NEW S, NEW p \in S, \A q \in S : next[q] # NoPage => next[q] \in S
  PROVE  Chain(p) \subseteq S
<1>1. PICK r : IsReach(r, p, NPages) /\ Chain(p) = r[NPages]
  BY ChainIsReach
<1> DEFINE bad == {i \in 0 .. NPages : ~(r[i] \subseteq S)}
<1>2. CASE bad = {}
  BY <1>1, <1>2, SizeAssumption
<1>3. CASE bad # {}
  <2>0. bad \in SUBSET Nat
    OBVIOUS
  <2>1. PICK m \in bad : \A i \in bad : m <= i
    <3> HIDE DEF bad
    <3> QED
      BY <1>3, <2>0, LeastNat
  <2>2. m # 0
    <3>1. 0 \in 0 .. NPages
      BY SizeAssumption
    <3>2. r[0] = {p}
      BY <1>1, <3>1 DEF IsReach
    <3> QED
      BY <2>1, <3>2
  <2>3. m - 1 \in 0 .. NPages /\ m - 1 \notin bad
    BY <2>1, <2>2, SizeAssumption
  <2>4. r[m] = r[m - 1] \cup ({next[q] : q \in r[m - 1]} \ {NoPage})
    BY <1>1, <2>1, <2>2 DEF IsReach
  <2> QED
    BY <2>1, <2>3, <2>4
<1> QED
  BY <1>2, <1>3

LEMMA PageIsSome == \A p \in Page : p # NoPage
  BY DEF Page

LEMMA ReadyFilesAreWhole == AssertInv /\ CommitInv => FoundFilesAreWhole
<1> SUFFICES ASSUME AssertInv, CommitInv, pc = "ready", Intact
    PROVE  /\ \A p \in Visible :
                 /\ {"start", "created", "written"} \subseteq flags[p]
                 /\ \A q \in Chain(p) \ {p} : "cont" \in flags[q] /\ "start" \notin flags[q]
           /\ \A p, q \in Visible : p # q => Chain(p) \cap Chain(q) = {}
  BY DEF FoundFilesAreWhole
<1>1. ReadyState
  BY DEF ReadyState
<1>2. PICK own \in [Page -> PageOrNo] : IsOwner(own)
  BY <1>1, ReadyIsTrusted DEF CommitInv, CommitParts, PagesAreOwned
<1>3. ASSUME NEW p \in Visible
      PROVE  /\ p \in Page /\ IsLive(p) /\ {"start", "created", "written"} \subseteq flags[p]
             /\ Chain(p) \subseteq {q \in Page : own[q] = p}
  <2>1. p \in Page /\ pstate[p] = "FileStart" /\ "written" \in flags[p]
    BY DEF Visible, Match
  <2>2. IsLive(p)
    BY <1>1, <2>1, ReadyIsTrusted, PageInSlot
    DEF AssertInv, HeaderOrder, DeletedIsDirty, IsLive
  <2>3. "created" \in flags[p]
    BY <1>1, <2>1, <2>2, ReadyIsTrusted DEF CommitInv, CommitParts, NothingLeft, IsComplete
  <2> DEFINE S == {q \in Page : own[q] = p}
  <2>4. p \in S
    BY <1>2, <2>1, <2>2 DEF IsOwner
  <2>5. ASSUME NEW q \in S, next[q] # NoPage
        PROVE  next[q] \in S
    <3>1. next[q] \in Page
      BY <2>5 DEF AssertInv, TypeOK, FlashType, PageOrNo
    <3>2. p # NoPage
      BY <2>1, PageIsSome
    <3> QED
      BY <1>2, <2>2, <2>5, <3>1, <3>2 DEF IsOwner, S
  <2> HIDE DEF S
  <2>6. Chain(p) \subseteq S
    BY <2>4, <2>5, ChainStays
  <2> QED
    BY <2>1, <2>2, <2>3, <2>6 DEF IsLive, S
<1>4. ASSUME NEW p \in Visible, NEW q \in Chain(p) \ {p}
      PROVE  "cont" \in flags[q] /\ "start" \notin flags[q]
  <2>1. p \in Page /\ IsLive(p) /\ "created" \in flags[p]
    BY <1>3
  <2>2. q \in Page /\ own[q] = p
    BY <1>3, <1>4
  <2>3. p # NoPage
    BY <2>1, PageIsSome
  <2> QED
    BY <1>2, <1>4, <2>1, <2>2, <2>3 DEF IsOwner, IsFile
<1> QED
  BY <1>3, <1>4

-------------------------------------------------------------------------------
(***************************************************************************)
(* Steps that leave no call running: only what the flash holds matters.    *)
(***************************************************************************)
LEMMA LinkedIsOwned ==
  ASSUME NEW own \in [Page -> PageOrNo], NEW p \in Page, own[p] # NoPage
  PROVE  own[p] \in Page
  BY DEF PageOrNo

\* With no call running the other parts of CommitInv say nothing.
AtRest ==
    /\ ~Running /\ LinkedIsFile /\ NothingSaved
    /\ Trusted => OneOnFlash
    /\ Trusted => \E own \in [Page -> PageOrNo] : IsOwner(own)
    /\ Trusted => \A n \in FileName : Promised[n] # NoPage =>
          IsVersion(Promised[n], n) /\ {"start", "created"} \subseteq flags[Promised[n]]

LEMMA AtRestIsFine == AtRest => CommitInv
<1> SUFFICES ASSUME AtRest, Trusted PROVE CommitParts
  BY DEF AtRest, CommitInv
<1>1. ~Booting /\ ~Marking /\ ~Mounted /\ ~Creating /\ ~Filling /\ ~Erasing
      /\ pc \notin {"erase", "creatHeader", "markNew"}
  BY DEF AtRest, Running, Booting, Marking, Mounted, Creating, Filling, Erasing
<1>2. PagesAreOwned
  BY <1>1 DEF AtRest, PagesAreOwned, CallOwns
<1>3. TableAgrees /\ CleanupInOrder /\ NothingLeft /\ CreatesNew /\ FillsBlank
  BY <1>1 DEF TableAgrees, CleanupInOrder, NothingLeft, CreatesNew, FillsBlank, Running
<1>4. ErasesOld /\ CommitsNew /\ OpenIsNew /\ OneInTable
  BY <1>1 DEF ErasesOld, CommitsNew, OpenIsNew, OneInTable, Running
<1>5. SavedOnFlash
  BY DEF AtRest, SavedOnFlash
<1> QED
  BY <1>2, <1>3, <1>4, <1>5 DEF AtRest, CommitParts

\* The flash is as formatting leaves it, or blank in part.
NoFiles ==
    /\ ~Running
    /\ \A p \in Page : ~IsFile(p) /\ next[p] = NoPage /\ "created" \notin flags[p]
    /\ HeaderOrder /\ \A n \in FileName : Promised[n] = NoPage

LEMMA NoFilesIsFine == NoFiles => CommitInv
<1> SUFFICES ASSUME NoFiles PROVE AtRest
  BY AtRestIsFine
<1>1. \A p \in Page : "start" \notin flags[p] /\ "written" \notin flags[p]
  BY PageInSlot DEF NoFiles, IsFile, HeaderOrder
<1> DEFINE own == [p \in Page |-> NoPage]
<1>2. own \in [Page -> PageOrNo]
  BY DEF PageOrNo
<1>3. IsOwner(own)
  BY <1>1 DEF IsOwner, IsLive
<1> QED
  BY <1>1, <1>2, <1>3
  DEF AtRest, NoFiles, LinkedIsFile, OneOnFlash, IsVersion, NothingSaved

LEMMA InitCommit == Init => CommitInv
<1> SUFFICES ASSUME Init PROVE NoFiles
  BY NoFilesIsFine
<1>1. \A p \in Page : ~IsFile(p) /\ "created" \notin flags[p]
  BY PageInSlot DEF Init, IsFile
<1>2. ~Running /\ HeaderOrder
  BY InitParts DEF Init, Parts, Running, Booting, Marking, Mounted, Creating, Erasing
<1> QED
  BY <1>1, <1>2, PromisedAt DEF Init, NoFiles

LEMMA RestStep ==
  ASSUME CommitInv, UNCHANGED <<flags, next, fname>>, lost \subseteq lost', ~Running',
         \A n \in FileName : \/ Promised'[n] = NoPage
                             \/ Promised'[n] = Promised[n] /\ ~(pc = "markNew" /\ op.name = n),
         pc' \in {"wipeErase", "wipeHeader"} => \A n \in FileName : Promised'[n] = NoPage
  PROVE  CommitInv'
<1>1. Trusted' => Trusted
  BY DEF Trusted
<1>2. LinkedIsFile' /\ (Trusted' => OneOnFlash') /\ NothingSaved'
  BY <1>1 DEF CommitInv, CommitParts, LinkedIsFile, OneOnFlash, NothingSaved, IsFile, IsVersion
<1>3. Trusted' => \E own \in [Page -> PageOrNo] : IsOwner(own)'
  <2> SUFFICES ASSUME Trusted' PROVE \E own \in [Page -> PageOrNo] : IsOwner(own)'
    OBVIOUS
  <2>1. PICK own \in [Page -> PageOrNo] : IsOwner(own)
    BY <1>1 DEF CommitInv, CommitParts, PagesAreOwned
  <2>2. IsOwner(own)'
    BY <2>1 DEF IsOwner, IsLive, IsFile
  <2> QED
    BY <2>2
<1>4. ASSUME Trusted', NEW n \in FileName, Promised'[n] # NoPage
      PROVE  (IsVersion(Promised[n], n) /\ {"start", "created"} \subseteq flags[Promised[n]])'
  <2>1. Promised'[n] = Promised[n] /\ ~(pc = "markNew" /\ op.name = n)
    BY <1>4
  <2> QED
    BY <1>1, <1>4, <2>1 DEF CommitInv, CommitParts, SavedOnFlash, IsVersion
<1>5. AtRest'
  BY <1>2, <1>3, <1>4 DEF AtRest
<1> QED
  BY <1>5, AtRestIsFine, PTL

LEMMA CrashCommit == AssertInv /\ CommitInv /\ Crash => CommitInv'
<1> SUFFICES ASSUME AssertInv, CommitInv, Crash PROVE CommitInv'
  OBVIOUS
<1>1. pc' = "off" /\ UNCHANGED <<flags, next, fname, lost>>
  BY DEF Crash, Goto
<1>2. ~Running'
  BY <1>1 DEF Running, Booting, Marking, Mounted, Creating, Erasing
<1>3. \A n \in FileName : \/ Promised'[n] = NoPage
                          \/ Promised'[n] = Promised[n] /\ ~(pc = "markNew" /\ op.name = n)
  BY CrashPromise DEF AssertInv
<1> QED
  BY <1>1, <1>2, <1>3, RestStep

LEMMA FormatCommit == CommitInv /\ Format => CommitInv'
<1> SUFFICES ASSUME CommitInv, Format PROVE CommitInv'
  OBVIOUS
<1>1. /\ pc' = "wipeErase" /\ UNCHANGED <<flags, next, fname, lost>>
      /\ \A n \in FileName : Promised'[n] = NoPage
  BY FormatPromise DEF Format, Goto
<1>2. ~Running'
  BY <1>1 DEF Running, Booting, Marking, Mounted, Creating, Erasing
<1> QED
  BY <1>1, <1>2, RestStep

\* The first sector erased takes the header of page 0 with it.
LEMMA WipeEraseCommit == AssertInv /\ CommitInv /\ WipeErase => CommitInv'
<1> SUFFICES ASSUME AssertInv, CommitInv, WipeErase PROVE CommitInv'
  OBVIOUS
<1>1. /\ pc = "wipeErase" /\ pc' \in {"wipeErase", "wipeHeader"} /\ UNCHANGED Promised
      /\ Blank(PagesOf(op.cur))
  BY PromisedKept DEF WipeErase, Goto
<1>2. ~Running'
  BY <1>1 DEF Running, Booting, Marking, Mounted, Creating, Erasing
<1>3. \A p \in Page : IF p \in PagesOf(op.cur) THEN flags'[p] = {} /\ next'[p] = NoPage
                      ELSE flags'[p] = flags[p] /\ next'[p] = next[p]
  BY <1>1, PageInSlot DEF Blank
<1>4. LinkedIsFile' /\ NothingSaved'
  BY <1>1, <1>3 DEF CommitInv, CommitParts, LinkedIsFile, IsFile, NothingSaved
<1>5. flags'[0] = {}
  <2>1. CASE 0 \in PagesOf(op.cur)
    BY <1>3, <2>1, PageZero
  <2>2. CASE 0 \notin PagesOf(op.cur)
    <3>1. op.cur \in Page /\ (0 < op.cur => flags[0] = {})
      BY <1>1, PageZero DEF AssertInv, BlankFirst
    <3>2. 0 < op.cur
      BY <2>2, <3>1, PageZero, SizeAssumption DEF PagesOf, Page
    <3> QED
      BY <1>3, <2>2, <3>1, <3>2, PageZero
  <2> QED
    BY <2>1, <2>2
<1>6. ~Trusted'
  BY <1>5, PageZero DEF Trusted
<1>7. AtRest'
  BY <1>2, <1>4, <1>6 DEF AtRest, OneOnFlash
<1> QED
  BY <1>7, AtRestIsFine, PTL

LEMMA WipeHeaderCommit == AssertInv /\ CommitInv /\ WipeHeader => CommitInv'
<1> SUFFICES ASSUME AssertInv, CommitInv, WipeHeader PROVE CommitInv'
  OBVIOUS
<1>1. /\ pc = "wipeHeader" /\ pc' \in {"wipeHeader", "wiped"}
      /\ Program(op.cur, {"magic"}) /\ UNCHANGED <<Promised, next>>
  BY PromisedKept DEF WipeHeader, Goto
<1>2. op.cur \in Slot
  BY PageSlots DEF WipeHeader, AssertInv, TypeOK, CallType, Op
<1>3. \A p \in Page : ~IsFile(p)
  BY <1>1 DEF AssertInv, BlankFirst
<1>4. \A p \in Page : ~IsFile(p)'
  BY <1>1, <1>2, <1>3, PageInSlot, NoNewFlag DEF AssertInv, TypeOK, IsFile
<1>5. \A p \in Page : next'[p] = NoPage /\ "created" \notin flags'[p]
  BY <1>1, <1>2, <1>3, PageInSlot, NoNewFlag DEF CommitInv, LinkedIsFile, AssertInv, TypeOK
<1>6. HeaderOrder'
  BY WipeHeaderParts DEF AssertInv, Parts
<1>7. ~Running' /\ \A n \in FileName : Promised'[n] = NoPage
  BY <1>1 DEF Running, Booting, Marking, Mounted, Creating, Erasing, CommitInv, CommitParts, NothingSaved
<1>8. NoFiles'
  BY <1>4, <1>5, <1>6, <1>7 DEF NoFiles
<1> QED
  BY <1>8, NoFilesIsFine, PTL

-------------------------------------------------------------------------------
(***************************************************************************)
(* Steps of a running call.                                                *)
(***************************************************************************)
\* Which parts a step of a mounted or mounting file system must preserve.
LEMMA RunStep ==
  ASSUME AssertInv, CommitInv, Running, lost' = lost,
         pc' \notin {"wipeErase", "wipeHeader"}, LinkedIsFile',
         Trusted /\ Trusted' /\ CommitParts => CommitParts'
  PROVE  CommitInv'
<1>1. Trusted' => Trusted
  BY DEF Trusted, AssertInv, CountsAreWritten, Running
<1> QED
  BY <1>1 DEF CommitInv, NothingSaved

LEMMA SameLinks ==
  ASSUME LinkedIsFile, UNCHANGED next, \A p \in Page : IsFile(p) => IsFile(p)',
         \A p \in Page : "created" \in flags'[p] => "created" \in flags[p] \/ IsFile(p)
  PROVE  LinkedIsFile'
  BY DEF LinkedIsFile

\* Flags of one header are programmed, and the others keep theirs.
LEMMA KeepsOthers ==
  ASSUME TypeOK, NEW p \in Slot, NEW fl, Program(p, fl)
  PROVE  \A q \in Page, g \in Flag \ fl : g \in flags'[q] <=> g \in flags[q]
  BY PageInSlot, NoNewFlag DEF TypeOK

LEMMA AddsFlag ==
  ASSUME TypeOK, NEW p \in Slot, NEW g, Program(p, {g})
  PROVE  \A q \in Page : g \in flags'[q] <=> (g \in flags[q] \/ q = p)
<1> SUFFICES ASSUME NEW q \in Page
    PROVE  g \in flags'[q] <=> (g \in flags[q] \/ q = p)
  OBVIOUS
<1>1. flags'[q] = IF q = p THEN flags[q] \cup {g} ELSE flags[q]
  BY PageInSlot, FlagsAfter DEF TypeOK
<1> QED
  BY <1>1

\* Whose a page is does not change when a file is marked dead, deleted or written.
LEMMA SameOwner ==
  ASSUME NEW own \in [Page -> PageOrNo], IsOwner(own), UNCHANGED next,
         \A q \in Page, g \in {"start", "cont", "created"} : g \in flags'[q] <=> g \in flags[q],
         \A q \in Page : "deleted" \in flags[q] => "deleted" \in flags'[q]
  PROVE  IsOwner(own)'
<1>1. \A p \in Page : IsLive(p)' => IsLive(p)
  BY DEF IsLive
<1>2. \A p \in Page : IsFile(p)' <=> IsFile(p)
  BY DEF IsFile
<1>3. \A p \in Page : own[p] # NoPage => own[p] \in Page
  BY LinkedIsOwned
<1> QED
  BY <1>1, <1>2, <1>3 DEF IsOwner

LEMMA BootCommit == AssertInv /\ CommitInv /\ Boot => CommitInv'
<1> SUFFICES ASSUME AssertInv, CommitInv, Boot PROVE CommitInv'
  OBVIOUS
<1>1. pc = "off" /\ UNCHANGED <<flags, next, fname, Promised>> /\ lost \subseteq lost'
  BY PromisedKept DEF Boot
<1>2. CASE pc' = "nofs"
  <2>1. ~Running'
    BY <1>2 DEF Running, Booting, Marking, Mounted, Creating, Erasing
  <2> QED
    BY <1>1, <1>2, <2>1, RestStep
<1>3. CASE pc' # "nofs"
  <2>1. /\ pc' = "recover" /\ op' = [NoOp EXCEPT !.booting = TRUE]
        /\ IsLastPage(lastpg')
        /\ pstate' = [p \in Page |-> HeaderState(p)]
        /\ lost' = lost
              \cup {l \in {"header"} : \E p \in Page : "magic" \notin flags[p]}
              \cup {l \in {"lastpg"} : lastpg' = NoPage /\ \E p \in Page : Allocated(p)}
    BY <1>3 DEF Boot, Goto
  <2>2. LinkedIsFile' /\ NothingSaved'
    BY <1>1, <2>1 DEF CommitInv, LinkedIsFile, IsFile, NothingSaved
  <2>3. SUFFICES ASSUME Trusted' PROVE CommitParts'
    BY <2>2 DEF CommitInv
  <2>4. Trusted /\ CommitParts
    BY <1>1, <2>3 DEF Trusted, CommitInv
  <2>5. op'.head = NoPage /\ op'.booting
    BY <2>1 DEF NoOp
  <2>6. /\ Booting' /\ Running' /\ ~Marking' /\ ~Mounted' /\ ~Creating' /\ ~Erasing'
        /\ ~Filling' /\ pc' # "erase"
    BY <2>1 DEF Booting, Running, Marking, Mounted, Creating, Erasing, Filling
  <2>7. ASSUME NEW p \in Page, Allocated(p)
        PROVE  p <= lastpg'
    <3>1. lastpg' # NoPage
      BY <2>1, <2>3, <2>7 DEF Trusted
    <3> QED
      BY <2>1, <2>7, <3>1 DEF IsLastPage
  <2>8. ASSUME NEW p \in Page
        PROVE  /\ "magic" \in flags[p]
               /\ IsFile(p) => Allocated(p)
               /\ pstate'[p] = StateOf(flags[p])
    BY <2>1, <2>4, PageInSlot DEF Trusted, AssertInv, HeaderOrder, HeaderState, Allocated
  <2>9. ASSUME NEW p \in Page
        PROVE  /\ pstate'[p] = "Clean" => ~IsFile(p)
               /\ pstate'[p] = "FileStart" => Allocated(p) /\ "start" \in flags[p] /\ "dead" \notin flags[p]
               /\ "start" \in flags[p] => Allocated(p) /\ pstate'[p] \in {"FileStart", "Dirty"}
               /\ "start" \in flags[p] /\ "dead" \notin flags[p] => pstate'[p] = "FileStart"
    BY <2>8 DEF StateOf, IsFile, Allocated
  <2>10. TableAgrees'
    BY <1>1, <2>7, <2>9 DEF TableAgrees, PageAgrees, IsFile
  <2>11. CleanupInOrder'
    BY <1>1, <2>5, <2>9 DEF CleanupInOrder, CleanedUpTo, Page
  <2>12. PagesAreOwned'
    <3>1. PICK own \in [Page -> PageOrNo] : IsOwner(own)
      BY <2>4 DEF CommitParts, PagesAreOwned
    <3>2. IsOwner(own)'
      BY <1>1, <3>1, SameOwner
    <3>3. CallOwns(own)'
      BY <2>6 DEF CallOwns
    <3> QED
      BY <3>2, <3>3 DEF PagesAreOwned
  <2>13. NothingLeft' /\ CreatesNew' /\ FillsBlank' /\ ErasesOld'
    BY <2>1, <2>6 DEF NothingLeft, CreatesNew, FillsBlank, ErasesOld
  <2>14. CommitsNew' /\ OpenIsNew'
    BY <2>1, <2>6 DEF CommitsNew, OpenIsNew
  <2>15. OneOnFlash' /\ SavedOnFlash'
    BY <1>1, <2>4 DEF CommitParts, OneOnFlash, SavedOnFlash, IsVersion
  <2>16. OneInTable'
    <3>1. ASSUME NEW n \in FileName, NEW p \in Versions(n)' PROVE p \in Page /\ IsVersion(p, n)
      BY <1>1, <2>9, <3>1 DEF Versions, IsVersion
    <3> QED
      BY <2>4, <3>1 DEF CommitParts, OneInTable, OneOnFlash
  <2> QED
    BY <2>10, <2>11, <2>12, <2>13, <2>14, <2>15, <2>16 DEF CommitParts
<1> QED
  BY <1>2, <1>3

LEMMA RecoverCommit == AssertInv /\ CommitInv /\ Recover => CommitInv'
<1> SUFFICES ASSUME AssertInv, CommitInv, Recover PROVE CommitInv'
  OBVIOUS
<1>1. PICK p \in ToRecover : (\A q \in ToRecover : p <= q) /\ StartErase(p, op)
  BY DEF Recover
<1>2. p \in Page /\ op.head < p /\ Unsettled(p)
  BY DEF ToRecover
<1>3. /\ pc = "recover" /\ pc' = "erase" /\ op' = [op EXCEPT !.head = p, !.cur = p]
      /\ UNCHANGED <<flags, next, fname, pstate, lastpg, fds, Promised, lost>>
  BY <1>1, <1>2, UnsettledIsLive, PromisedKept DEF Recover, StartErase, Goto, table
<1>4. op'.head = p /\ op'.cur = p /\ op'.booting = op.booting
  BY <1>3 DEF AssertInv, TypeOK, CallType, Op
<1>5. /\ Booting /\ Running /\ ~Erasing /\ Booting' /\ Running' /\ Erasing' /\ op'.booting
      /\ ~Marking' /\ ~Mounted' /\ ~Creating' /\ ~Filling'
  BY <1>3, <1>4 DEF Booting, Running, Erasing, Marking, Mounted, Creating, Filling,
     AssertInv, CallInProgress
<1>6. LinkedIsFile'
  BY <1>3 DEF CommitInv, LinkedIsFile, IsFile
<1>7. SUFFICES ASSUME Trusted, Trusted', CommitParts PROVE CommitParts'
  BY <1>3, <1>5, <1>6, RunStep
<1>8. IsLive(p) /\ IsHalfDone(p)
  BY <1>2, PageInSlot DEF Unsettled, IsLive, IsHalfDone, AssertInv, HeaderOrder
<1>9. PagesAreOwned'
  <2>1. PICK own \in [Page -> PageOrNo] : IsOwner(own)
    BY <1>7 DEF CommitParts, PagesAreOwned
  <2>2. IsOwner(own)'
    BY <1>3, <2>1, SameOwner
  <2>3. own[p] = p
    BY <1>2, <1>8, <2>1 DEF IsOwner
  <2>4. CallOwns(own)'
    BY <1>4, <1>5, <2>3 DEF CallOwns
  <2> QED
    BY <2>2, <2>4 DEF PagesAreOwned
<1>10. TableAgrees'
  BY <1>3, <1>5, <1>7 DEF CommitParts, TableAgrees, PageAgrees, IsFile
<1>11. CleanupInOrder'
  <2>1. SUFFICES ASSUME NEW q \in Page, "start" \in flags[q]
        PROVE  pstate[q] \in {"FileStart", "Dirty"} /\ (IsHalfDone(q) => p <= q)
    BY <1>3, <1>4, <1>5 DEF CleanupInOrder, CleanedUpTo, IsHalfDone, IsLive
  <2>2. /\ pstate[q] \in {"FileStart", "Dirty"} /\ q <= lastpg
        /\ IsHalfDone(q) => op.head <= q /\ op.head # q
    BY <1>5, <1>7, <2>1
    DEF CommitParts, CleanupInOrder, CleanedUpTo, TableAgrees, PageAgrees
  <2>3. ASSUME IsHalfDone(q) PROVE p <= q
    <3>1. Unsettled(q)
      BY <2>1, <2>2, <2>3, PageInSlot DEF Unsettled, IsHalfDone, IsLive, AssertInv, HeaderOrder
    <3>2. op.head \in Int /\ q \in Int
      BY SizeAssumption DEF AssertInv, TypeOK, CallType, Op, PageOrNo, Page
    <3>3. q \in ToRecover
      BY <2>2, <2>3, <3>1, <3>2 DEF ToRecover
    <3> QED
      BY <1>1, <3>3
  <2> QED
    BY <2>2, <2>3
<1>12. NothingLeft' /\ CreatesNew' /\ FillsBlank' /\ CommitsNew' /\ OpenIsNew'
  BY <1>3, <1>5 DEF NothingLeft, CreatesNew, FillsBlank, CommitsNew, OpenIsNew
<1>13. ErasesOld'
  <2>1. p # NoPage
    BY <1>2, PageIsSome
  <2> QED
    BY <1>3, <1>4, <1>5, <1>8, <2>1 DEF ErasesOld, IsHalfDone, IsLive
<1>14. OneOnFlash' /\ SavedOnFlash'
  BY <1>3, <1>7 DEF CommitParts, OneOnFlash, SavedOnFlash, IsVersion
<1>15. OneInTable'
  BY <1>3, <1>5, <1>7 DEF CommitParts, OneInTable, Versions
<1> QED
  BY <1>9, <1>10, <1>11, <1>12, <1>13, <1>14, <1>15 DEF CommitParts

LEMMA FindGcSectorCommit == AssertInv /\ CommitInv /\ FindGcSector => CommitInv'
<1> SUFFICES ASSUME AssertInv, CommitInv, FindGcSector PROVE CommitInv'
  OBVIOUS
<1>1. /\ pc = "recover" /\ ToRecover = {} /\ pc' \in {"panicSector", "gcSentinel"}
      /\ UNCHANGED <<flags, next, fname, pstate, lastpg, fds, Promised, lost>>
  BY PromisedKept DEF FindGcSector, Panic, Goto, table
<1>2. CASE pc' = "panicSector"
  <2>1. ~Running'
    BY <1>2 DEF Running, Booting, Marking, Mounted, Creating, Erasing
  <2> QED
    BY <1>1, <1>2, <2>1, RestStep
<1>3. CASE pc' = "gcSentinel"
  <2>1. /\ Booting /\ Running /\ ~Erasing /\ Marking' /\ Running' /\ ~Erasing' /\ ~Booting'
        /\ ~Mounted' /\ ~Creating' /\ ~Filling'
    BY <1>1, <1>3 DEF Booting, Running, Erasing, Marking, Mounted, Creating, Filling
  <2>2. LinkedIsFile'
    BY <1>1 DEF CommitInv, LinkedIsFile, IsFile
  <2>3. SUFFICES ASSUME Trusted, Trusted', CommitParts PROVE CommitParts'
    BY <1>1, <1>3, <2>1, <2>2, RunStep
  <2>4. PagesAreOwned'
    <3>1. PICK own \in [Page -> PageOrNo] : IsOwner(own)
      BY <2>3 DEF CommitParts, PagesAreOwned
    <3>2. IsOwner(own)' /\ CallOwns(own)'
      BY <1>1, <1>3, <2>1, <3>1, SameOwner DEF CallOwns
    <3> QED
      BY <3>2 DEF PagesAreOwned
  <2>5. TableAgrees'
    BY <1>1, <2>1, <2>3 DEF CommitParts, TableAgrees, PageAgrees, IsFile
  <2>6. NothingLeft'
    <3>1. SUFFICES ASSUME NEW p \in Page, IsLive(p)
          PROVE  ~IsHalfDone(p) /\ pstate[p] = "FileStart"
      BY <1>1, <2>1 DEF NothingLeft, IsComplete, IsHalfDone, IsLive
    <3>2. /\ pstate[p] \in {"FileStart", "Dirty"} /\ p <= lastpg
          /\ IsHalfDone(p) => op.head <= p /\ op.head # p
          /\ "dead" \notin flags[p] => pstate[p] = "FileStart"
      BY <2>1, <2>3, <3>1
      DEF CommitParts, CleanupInOrder, CleanedUpTo, TableAgrees, PageAgrees, IsLive
    <3>3. ~IsHalfDone(p)
      <4>1. SUFFICES ASSUME IsHalfDone(p) PROVE FALSE
        OBVIOUS
      <4>2. Unsettled(p)
        BY <3>1, <3>2, <4>1, PageInSlot DEF Unsettled, IsHalfDone, IsLive, AssertInv, HeaderOrder
      <4>3. op.head \in Int /\ p \in Int
        BY SizeAssumption DEF AssertInv, TypeOK, CallType, Op, PageOrNo, Page
      <4> QED
        BY <1>1, <3>2, <4>1, <4>2, <4>3 DEF ToRecover
    <3> QED
      BY <3>1, <3>2, <3>3 DEF IsHalfDone
  <2>7. CleanupInOrder' /\ CreatesNew' /\ FillsBlank' /\ ErasesOld' /\ CommitsNew' /\ OpenIsNew'
    BY <1>3, <2>1 DEF CleanupInOrder, CreatesNew, FillsBlank, ErasesOld, CommitsNew, OpenIsNew
  <2>8. OneOnFlash' /\ SavedOnFlash'
    BY <1>1, <2>3 DEF CommitParts, OneOnFlash, SavedOnFlash, IsVersion
  <2>9. OneInTable'
    BY <1>1, <2>1, <2>3 DEF CommitParts, OneInTable, Versions
  <2> QED
    BY <2>4, <2>5, <2>6, <2>7, <2>8, <2>9 DEF CommitParts
<1> QED
  BY <1>1, <1>2, <1>3

LEMMA GcSentinelCommit == AssertInv /\ CommitInv /\ GcSentinel => CommitInv'
<1> SUFFICES ASSUME AssertInv, CommitInv, GcSentinel PROVE CommitInv'
  OBVIOUS
<1>1. /\ pc = "gcSentinel" /\ pc' = "gcHeader" /\ op' = op /\ op.cur # NoPage
      /\ pstate' = [pstate EXCEPT ![op.cur] = "Dirty"]
      /\ Program(op.cur + 1, {"allocated"})
      /\ UNCHANGED <<next, fname, lastpg, fds, Promised, lost>>
  BY PromisedKept DEF GcSentinel, Goto
<1>2. op.cur \in Page /\ op.cur + 1 \in Slot
  BY <1>1, PageSlots DEF AssertInv, TypeOK, CallType, Op
<1>3. \A q \in Page, g \in Flag \ {"allocated"} : g \in flags'[q] <=> g \in flags[q]
  BY <1>1, <1>2, KeepsOthers DEF AssertInv
<1>4. /\ Marking /\ Running /\ Marking' /\ Running' /\ ~Erasing' /\ ~Booting' /\ ~Mounted'
      /\ ~Creating' /\ ~Filling'
  BY <1>1 DEF Booting, Running, Erasing, Marking, Mounted, Creating, Filling
<1>5. \A p \in Page : /\ IsFile(p)' <=> IsFile(p)
                      /\ IsLive(p)' <=> IsLive(p)
                      /\ IsHalfDone(p)' <=> IsHalfDone(p)
  BY <1>3 DEF IsFile, IsLive, IsHalfDone, Flag
<1>6. LinkedIsFile'
  BY <1>1, <1>3, <1>5, SameLinks DEF CommitInv, Flag
<1>7. SUFFICES ASSUME Trusted, Trusted', CommitParts PROVE CommitParts'
  BY <1>1, <1>4, <1>6, RunStep
<1>8. \A p \in Page : pstate'[p] = IF p = op.cur THEN "Dirty" ELSE pstate[p]
  BY <1>1, <1>2 DEF AssertInv, TypeOK, TableType
<1>9. "start" \in flags[op.cur] => "dead" \in flags[op.cur]
  <2>1. HeaderVacant(op.cur) /\ "magic" \in flags[op.cur]
    BY <1>2, <1>4, <1>7 DEF AssertInv, SectorIsKept, Trusted
  <2>2. "start" \in flags[op.cur] => "allocated" \in flags[op.cur]
    BY <1>2, PageInSlot DEF AssertInv, HeaderOrder, IsFile
  <2> QED
    BY <2>1, <2>2, VacantFlags DEF HeaderVacant, HeaderState
<1>10. PagesAreOwned'
  <2>1. PICK own \in [Page -> PageOrNo] : IsOwner(own)
    BY <1>7 DEF CommitParts, PagesAreOwned
  <2>2. IsOwner(own)'
    BY <1>1, <1>3, <2>1, SameOwner DEF Flag
  <2>3. CallOwns(own)'
    BY <1>1, <1>4 DEF CallOwns
  <2> QED
    BY <2>2, <2>3 DEF PagesAreOwned
<1>11. TableAgrees'
  BY <1>1, <1>3, <1>4, <1>5, <1>7, <1>8, <1>9 DEF CommitParts, TableAgrees, PageAgrees, Flag
<1>12. NothingLeft'
  <2>1. SUFFICES ASSUME NEW p \in Page, IsLive(p)
        PROVE  pstate'[p] = "FileStart" /\ "created" \in flags'[p] /\ ~IsHalfDone(p)'
    BY <1>4, <1>5 DEF NothingLeft, IsComplete
  <2>2. ~IsHalfDone(p)
    BY <1>4, <1>7, <2>1 DEF CommitParts, NothingLeft, IsComplete
  <2>3. p # op.cur /\ "dead" \notin flags[p] /\ "created" \in flags[p] /\ "start" \in flags[p]
    BY <1>9, <2>1, <2>2 DEF IsHalfDone, IsLive
  <2>4. pstate[p] = "FileStart"
    BY <1>4, <1>7, <2>3 DEF CommitParts, TableAgrees, PageAgrees
  <2> QED
    BY <1>3, <1>5, <1>8, <2>2, <2>3, <2>4 DEF Flag
<1>13. CleanupInOrder' /\ CreatesNew' /\ FillsBlank' /\ ErasesOld' /\ CommitsNew' /\ OpenIsNew'
  BY <1>1, <1>4 DEF CleanupInOrder, CreatesNew, FillsBlank, ErasesOld, CommitsNew, OpenIsNew
<1>14. \A p \in Page : \A n : IsVersion(p, n)' <=> IsVersion(p, n)
  BY <1>1, <1>3 DEF IsVersion, Flag
<1>15. OneOnFlash'
  BY <1>7, <1>14 DEF CommitParts, OneOnFlash
<1>16. SavedOnFlash'
  <2>1. \A n \in FileName : Promised[n] # NoPage => Promised[n] \in Page
    BY PromisedIsPage DEF AssertInv
  <2> QED
    BY <1>1, <1>3, <1>7, <1>14, <2>1 DEF CommitParts, SavedOnFlash, Flag
<1>17. OneInTable'
  <2>1. \A n : Versions(n)' \subseteq Versions(n)
    BY <1>1, <1>3, <1>8 DEF Versions, Flag
  <2> QED
    BY <1>1, <1>4, <1>7, <2>1 DEF CommitParts, OneInTable
<1> QED
  BY <1>10, <1>11, <1>12, <1>13, <1>15, <1>16, <1>17 DEF CommitParts

LEMMA GcHeaderCommit == AssertInv /\ CommitInv /\ GcHeader => CommitInv'
<1> SUFFICES ASSUME AssertInv, CommitInv, GcHeader PROVE CommitInv'
  OBVIOUS
<1>1. /\ pc = "gcHeader" /\ pc' \in {"gcSentinel", "ready"} /\ op.cur # NoPage
      /\ Program(op.cur, {"moreblocks", "allocated"})
      /\ UNCHANGED <<next, fname, pstate, lastpg, fds, Promised, lost>>
  BY PromisedKept DEF GcHeader, Goto, Return, table
<1>2. op.cur \in Page /\ op.cur \in Slot
  BY <1>1, PageSlots DEF AssertInv, TypeOK, CallType, Op
<1>3. \A q \in Page, g \in Flag \ {"moreblocks", "allocated"} : g \in flags'[q] <=> g \in flags[q]
  BY <1>1, <1>2, KeepsOthers DEF AssertInv
<1>4. /\ Marking /\ Running /\ (Marking' \/ Mounted') /\ Running' /\ ~Erasing' /\ ~Booting'
      /\ ~Creating' /\ ~Filling' /\ pc' \notin {"markNew", "erase", "creatHeader"}
  BY <1>1 DEF Booting, Running, Erasing, Marking, Mounted, Creating, Filling
<1>5. \A p \in Page : /\ IsFile(p)' <=> IsFile(p)
                      /\ IsLive(p)' <=> IsLive(p)
                      /\ IsHalfDone(p)' <=> IsHalfDone(p)
  BY <1>3 DEF IsFile, IsLive, IsHalfDone, Flag
<1>6. LinkedIsFile'
  BY <1>1, <1>3, <1>5, SameLinks DEF CommitInv, Flag
<1>7. SUFFICES ASSUME Trusted, Trusted', CommitParts PROVE CommitParts'
  BY <1>1, <1>4, <1>6, RunStep
<1>8. PagesAreOwned'
  <2>1. PICK own \in [Page -> PageOrNo] : IsOwner(own)
    BY <1>7 DEF CommitParts, PagesAreOwned
  <2>2. IsOwner(own)'
    BY <1>1, <1>3, <2>1, SameOwner DEF Flag
  <2>3. CallOwns(own)'
    BY <1>4 DEF CallOwns
  <2> QED
    BY <2>2, <2>3 DEF PagesAreOwned
<1>9. TableAgrees'
  BY <1>1, <1>3, <1>4, <1>5, <1>7 DEF CommitParts, TableAgrees, PageAgrees, Flag
<1>10. NothingLeft'
  <2>1. SUFFICES ASSUME NEW p \in Page, IsLive(p)
        PROVE  pstate'[p] = "FileStart" /\ "created" \in flags'[p] /\ ~IsHalfDone(p)'
    BY <1>4, <1>5 DEF NothingLeft, IsComplete
  <2>2. ~IsHalfDone(p)
    BY <1>4, <1>7, <2>1 DEF CommitParts, NothingLeft, IsComplete
  <2>3. "dead" \notin flags[p] /\ "created" \in flags[p] /\ "start" \in flags[p]
    BY <2>1, <2>2 DEF IsHalfDone, IsLive
  <2>4. pstate[p] = "FileStart"
    BY <1>4, <1>7, <2>3 DEF CommitParts, TableAgrees, PageAgrees
  <2> QED
    BY <1>1, <1>3, <1>5, <2>2, <2>3, <2>4 DEF Flag
<1>11. CleanupInOrder' /\ CreatesNew' /\ FillsBlank' /\ ErasesOld' /\ CommitsNew'
  BY <1>1, <1>4 DEF CleanupInOrder, CreatesNew, FillsBlank, ErasesOld, CommitsNew
<1>12. OpenIsNew'
  <2>1. fds' = {}
    BY <1>1, <1>4 DEF AssertInv, OpenFiles
  <2> QED
    BY <2>1 DEF OpenIsNew
<1>13. \A p \in Page : \A n : IsVersion(p, n)' <=> IsVersion(p, n)
  BY <1>1, <1>3 DEF IsVersion, Flag
<1>14. OneOnFlash'
  BY <1>7, <1>13 DEF CommitParts, OneOnFlash
<1>15. SavedOnFlash'
  <2>1. \A n \in FileName : Promised[n] # NoPage => Promised[n] \in Page
    BY PromisedIsPage DEF AssertInv
  <2> QED
    BY <1>1, <1>3, <1>7, <1>13, <2>1 DEF CommitParts, SavedOnFlash, Flag
<1>16. OneInTable'
  <2>1. \A n : Versions(n)' \subseteq Versions(n)
    BY <1>1, <1>3 DEF Versions, Flag
  <2> QED
    BY <1>1, <1>4, <1>7, <2>1 DEF CommitParts, OneInTable
<1> QED
  BY <1>8, <1>9, <1>10, <1>11, <1>12, <1>14, <1>15, <1>16 DEF CommitParts

LEMMA EraseCommit == AssertInv /\ CommitInv /\ Erase => CommitInv'
<1> SUFFICES ASSUME AssertInv, CommitInv, Erase PROVE CommitInv'
  OBVIOUS
<1>1. /\ pc = "erase" /\ pc' \in {"erase", "erased"} /\ op.cur # NoPage
      /\ pstate' = [pstate EXCEPT ![op.cur] = "Dirty"]
      /\ Program(op.cur, {"dead"})
      /\ UNCHANGED <<next, fname, lastpg, fds, Promised, lost>>
  BY PromisedKept DEF Erase, Goto
<1>2. op.cur \in Page /\ op.cur \in Slot
  BY <1>1, PageSlots DEF AssertInv, TypeOK, CallType, Op
<1>3. /\ op'.head = op.head /\ op'.booting = op.booting /\ op'.name = op.name
      /\ pc' = "erase" => next[op.cur] # NoPage /\ op'.cur = next[op.cur]
  BY PromisedKept DEF Erase, Goto, AssertInv, TypeOK, CallType, Op
<1>4. \A q \in Page, g \in Flag \ {"dead"} : g \in flags'[q] <=> g \in flags[q]
  BY <1>1, <1>2, KeepsOthers DEF AssertInv
<1>5. \A q \in Page : "dead" \in flags'[q] <=> ("dead" \in flags[q] \/ q = op.cur)
  BY <1>1, <1>2, AddsFlag DEF AssertInv
<1>6. /\ Erasing /\ Running /\ Erasing' /\ Running' /\ ~Marking' /\ ~Creating' /\ ~Filling'
      /\ (Booting' <=> Booting) /\ (Mounted' <=> Mounted)
      /\ pc' \notin {"markNew", "creatHeader"}
      /\ Mounted' => ~op.booting
  BY <1>1, <1>3 DEF Booting, Running, Erasing, Marking, Mounted, Creating, Filling
<1>7. \A p \in Page : /\ IsFile(p)' <=> IsFile(p)
                      /\ IsLive(p)' <=> IsLive(p)
                      /\ IsHalfDone(p) => IsHalfDone(p)'
                      /\ IsHalfDone(p)' => IsHalfDone(p) \/ p = op.cur
  BY <1>4, <1>5 DEF IsFile, IsLive, IsHalfDone, Flag
<1>8. LinkedIsFile'
  BY <1>1, <1>4, <1>7, SameLinks DEF CommitInv, Flag
<1>9. SUFFICES ASSUME Trusted, Trusted', CommitParts PROVE CommitParts'
  BY <1>1, <1>6, <1>8, RunStep
<1>10. /\ op.head \in Page /\ op.head # NoPage /\ IsHalfDone(op.head) /\ IsLive(op.head)
       /\ ~op.booting => "written" \in flags[op.head]
  BY <1>1, <1>6, <1>9 DEF CommitParts, ErasesOld, AssertInv, TypeOK, CallType, Op, PageOrNo
<1>11. PICK own \in [Page -> PageOrNo] : IsOwner(own) /\ CallOwns(own)
  BY <1>9 DEF CommitParts, PagesAreOwned
<1>12. own[op.cur] = op.head
  BY <1>1, <1>11 DEF CallOwns
<1>13. "start" \in flags[op.cur] => op.cur = op.head
  BY <1>2, <1>10, <1>11, <1>12 DEF IsOwner
<1>14. \A p \in Page : pstate'[p] = IF p = op.cur THEN "Dirty" ELSE pstate[p]
  BY <1>1, <1>2 DEF AssertInv, TypeOK, TableType
<1>15. PagesAreOwned'
  <2>1. IsOwner(own)'
    BY <1>1, <1>4, <1>11, SameOwner DEF Flag
  <2>2. pc' = "erase" => own[op'.cur] = op.head
    BY <1>2, <1>3, <1>10, <1>11, <1>12 DEF IsOwner
  <2>3. CallOwns(own)'
    BY <1>3, <1>6, <2>2 DEF CallOwns
  <2> QED
    BY <2>1, <2>3 DEF PagesAreOwned
<1>16. TableAgrees'
  BY <1>1, <1>4, <1>5, <1>6, <1>7, <1>9, <1>14 DEF CommitParts, TableAgrees, PageAgrees, Flag
<1>17. CleanupInOrder'
  <2>1. SUFFICES ASSUME Booting, NEW p \in Page, "start" \in flags[p]
        PROVE  pstate'[p] \in {"FileStart", "Dirty"} /\ (IsHalfDone(p)' => op.head <= p)
    BY <1>3, <1>4, <1>6 DEF CleanupInOrder, CleanedUpTo, Flag
  <2>2. pstate[p] \in {"FileStart", "Dirty"} /\ (IsHalfDone(p) => op.head <= p)
    BY <1>9, <2>1 DEF CommitParts, CleanupInOrder, CleanedUpTo
  <2>3. p = op.cur => p = op.head /\ IsHalfDone(p)
    BY <1>10, <1>13, <2>1
  <2> QED
    BY <1>7, <1>14, <2>2, <2>3
<1>18. NothingLeft'
  <2>1. SUFFICES ASSUME Mounted, NEW p \in Page, IsLive(p)
        PROVE  /\ pstate'[p] = "FileStart" \/ p = op.head
               /\ "created" \in flags'[p]
    BY <1>3, <1>6, <1>7 DEF NothingLeft, IsComplete
  <2>2. (pstate[p] = "FileStart" \/ p = op.head) /\ "created" \in flags[p]
    BY <1>1, <1>9, <2>1 DEF CommitParts, NothingLeft, IsComplete, Creating
  <2>3. p = op.cur => p = op.head
    BY <1>13, <2>1 DEF IsLive
  <2> QED
    BY <1>4, <1>14, <2>2, <2>3 DEF Flag
<1>19. CreatesNew' /\ FillsBlank' /\ CommitsNew'
  BY <1>6 DEF CreatesNew, FillsBlank, CommitsNew
<1>20. ErasesOld'
  BY <1>3, <1>4, <1>6, <1>7, <1>10 DEF ErasesOld, Flag
<1>21. \A n : Versions(n)' \subseteq Versions(n) /\ op.cur \notin Versions(n)'
  BY <1>1, <1>4, <1>14 DEF Versions, Flag
<1>22. OpenIsNew'
  <2>1. \A fd \in fds : fd.start \in Page /\ fd.old \in PageOrNo
    BY DEF AssertInv, TypeOK, CallType, Fd
  <2>2. Mounted => \A fd \in fds : IsTemporary(fd.start, fd.name)'
    BY <1>1, <1>4, <1>7, <1>9, <2>1 DEF CommitParts, OpenIsNew, IsTemporary, Flag
  <2>3. Mounted => \A fd \in fds : fd.old # NoPage => "written" \in flags'[fd.old]
    BY <1>4, <1>9, <2>1 DEF CommitParts, OpenIsNew, Flag, PageOrNo
  <2>4. Mounted => \A fd \in fds : fd.name \in FileName => Versions(fd.name)' \subseteq {fd.old}
    BY <1>9, <1>21 DEF CommitParts, OpenIsNew
  <2> QED
    BY <1>1, <1>6, <1>9, <2>2, <2>3, <2>4 DEF CommitParts, OpenIsNew
<1>23. \A p \in Page : \A n :
         /\ IsVersion(p, n)' => IsVersion(p, n)
         /\ IsVersion(p, n) /\ p # op.cur => IsVersion(p, n)'
  BY <1>1, <1>4, <1>5 DEF IsVersion, Flag
<1>24. OneOnFlash'
  BY <1>9, <1>23 DEF CommitParts, OneOnFlash
<1>25. SavedOnFlash'
  <2>1. SUFFICES ASSUME NEW n \in FileName, Promised[n] # NoPage
        PROVE  IsVersion(Promised[n], n)' /\ {"start", "created"} \subseteq flags'[Promised[n]]
    BY <1>1 DEF SavedOnFlash, IsVersion
  <2>2. Promised[n] \in Page
    BY <2>1, PromisedIsPage DEF AssertInv
  <2>3. IsVersion(Promised[n], n) /\ {"start", "created"} \subseteq flags[Promised[n]]
    BY <1>1, <1>9, <2>1 DEF CommitParts, SavedOnFlash
  <2>4. Promised[n] # op.cur
    BY <1>10, <1>13, <2>3 DEF IsHalfDone, IsVersion
  <2> QED
    BY <1>1, <1>4, <1>5, <2>2, <2>3, <2>4 DEF IsVersion, Flag
<1>26. OneInTable'
  BY <1>6, <1>9, <1>21 DEF CommitParts, OneInTable
<1> QED
  BY <1>15, <1>16, <1>17, <1>18, <1>19, <1>20, <1>22, <1>24, <1>25, <1>26 DEF CommitParts

LEMMA ErasedCommit == AssertInv /\ CommitInv /\ Erased => CommitInv'
<1> SUFFICES ASSUME AssertInv, CommitInv, Erased PROVE CommitInv'
  OBVIOUS
<1>1. /\ pc = "erased" /\ pc' \in {"recover", "ready"} /\ op.head # NoPage
      /\ pc' = "recover" => op.booting /\ op' = op
      /\ pc' = "ready" => ~op.booting
      /\ Program(op.head, {"deleted"})
      /\ UNCHANGED <<next, fname, pstate, lastpg, fds, Promised, lost>>
  BY PromisedKept DEF Erased, Goto, Return, table
<1>2. op.head \in Page /\ op.head \in Slot
  BY <1>1, PageSlots DEF AssertInv, TypeOK, CallType, Op
<1>3. \A q \in Page, g \in Flag \ {"deleted"} : g \in flags'[q] <=> g \in flags[q]
  BY <1>1, <1>2, KeepsOthers DEF AssertInv
<1>4. \A q \in Page : "deleted" \in flags'[q] <=> ("deleted" \in flags[q] \/ q = op.head)
  BY <1>1, <1>2, AddsFlag DEF AssertInv
<1>5. /\ Erasing /\ Running /\ Running' /\ ~Erasing' /\ ~Marking' /\ ~Creating /\ ~Creating'
      /\ ~Filling' /\ (Booting' <=> Booting) /\ (Mounted' <=> Mounted)
      /\ pc' \notin {"markNew", "creatHeader", "erase"}
      /\ (Booting' => op' = op) /\ (Mounted => ~op.booting)
  BY <1>1 DEF Booting, Running, Erasing, Marking, Mounted, Creating, Filling
<1>6. \A p \in Page : /\ IsFile(p)' <=> IsFile(p)
                      /\ IsLive(p)' <=> IsLive(p) /\ p # op.head
                      /\ IsHalfDone(p)' <=> IsHalfDone(p) /\ p # op.head
  BY <1>3, <1>4 DEF IsFile, IsLive, IsHalfDone, Flag
<1>7. LinkedIsFile'
  BY <1>1, <1>3, <1>6, SameLinks DEF CommitInv, Flag
<1>8. SUFFICES ASSUME Trusted, Trusted', CommitParts PROVE CommitParts'
  BY <1>1, <1>5, <1>7, RunStep
<1>9. PagesAreOwned'
  <2>1. PICK own \in [Page -> PageOrNo] : IsOwner(own)
    BY <1>8 DEF CommitParts, PagesAreOwned
  <2>2. IsOwner(own)'
    BY <1>1, <1>3, <1>4, <2>1, SameOwner DEF Flag
  <2>3. CallOwns(own)'
    BY <1>5 DEF CallOwns
  <2> QED
    BY <2>2, <2>3 DEF PagesAreOwned
<1>10. TableAgrees'
  BY <1>1, <1>3, <1>5, <1>6, <1>8 DEF CommitParts, TableAgrees, PageAgrees, Flag
<1>11. CleanupInOrder'
  <2>1. SUFFICES ASSUME Booting, NEW p \in Page, "start" \in flags[p]
        PROVE  pstate[p] \in {"FileStart", "Dirty"} /\ (IsHalfDone(p)' => op.head <= p /\ op.head # p)
    BY <1>1, <1>3, <1>5 DEF CleanupInOrder, CleanedUpTo, Flag
  <2> QED
    BY <1>6, <1>8, <2>1 DEF CommitParts, CleanupInOrder, CleanedUpTo
<1>12. NothingLeft'
  <2>1. SUFFICES ASSUME Mounted, NEW p \in Page, IsLive(p)'
        PROVE  pstate[p] = "FileStart" /\ "created" \in flags'[p]
    BY <1>1, <1>5 DEF NothingLeft, IsComplete
  <2> QED
    BY <1>3, <1>5, <1>6, <1>8, <2>1 DEF CommitParts, NothingLeft, IsComplete, Flag
<1>13. CreatesNew' /\ FillsBlank' /\ CommitsNew' /\ ErasesOld'
  BY <1>5 DEF CreatesNew, FillsBlank, CommitsNew, ErasesOld
<1>14. \A n : Versions(n)' = Versions(n)
  BY <1>1, <1>3 DEF Versions, Flag
<1>15. OpenIsNew'
  <2>1. \A fd \in fds : fd.start \in Page /\ fd.old \in PageOrNo
    BY DEF AssertInv, TypeOK, CallType, Fd
  <2>2. Mounted => "written" \in flags[op.head]
    BY <1>5, <1>8 DEF CommitParts, ErasesOld
  <2>3. Mounted => \A fd \in fds : IsTemporary(fd.start, fd.name)'
    BY <1>1, <1>3, <1>6, <1>8, <2>1, <2>2 DEF CommitParts, OpenIsNew, IsTemporary, Flag
  <2>4. Mounted => \A fd \in fds : fd.old # NoPage => "written" \in flags'[fd.old]
    BY <1>3, <1>8, <2>1 DEF CommitParts, OpenIsNew, Flag, PageOrNo
  <2>5. Mounted => \A fd \in fds : fd.name \in FileName => Versions(fd.name)' \subseteq {fd.old}
    BY <1>8, <1>14 DEF CommitParts, OpenIsNew
  <2> QED
    BY <1>1, <1>5, <1>8, <2>3, <2>4, <2>5 DEF CommitParts, OpenIsNew
<1>16. \A p \in Page : \A n : IsVersion(p, n)' <=> IsVersion(p, n)
  BY <1>1, <1>3 DEF IsVersion, Flag
<1>17. OneOnFlash'
  BY <1>8, <1>16 DEF CommitParts, OneOnFlash
<1>18. SavedOnFlash'
  <2>1. \A n \in FileName : Promised[n] # NoPage => Promised[n] \in Page
    BY PromisedIsPage DEF AssertInv
  <2> QED
    BY <1>1, <1>3, <1>8, <1>16, <2>1 DEF CommitParts, SavedOnFlash, Flag
<1>19. OneInTable'
  BY <1>1, <1>5, <1>8, <1>14 DEF CommitParts, OneInTable
<1> QED
  BY <1>9, <1>10, <1>11, <1>12, <1>13, <1>15, <1>17, <1>18, <1>19 DEF CommitParts

\* A page taken from the clean ones belongs to no file, and the scanned pages grow.
LEMMA AllocBlank ==
  ASSUME TypeOK, TableAgrees, Running, NEW p \in Page, NEW st \in {"FileStart", "FileCont"},
         AllocPage(p, st)
  PROVE  /\ ~IsFile(p) /\ pstate[p] = "Clean"
         /\ \A q \in Page : pstate'[q] = IF q = p THEN st ELSE pstate[q]
         /\ p <= lastpg'
         /\ \A q \in Page : q <= lastpg => q <= lastpg'
<1>1. pstate[p] = "Clean" /\ pstate' = [pstate EXCEPT ![p] = st]
  BY DEF AllocPage, IsAllocPage, CleanPages
<1>2. \A q \in Page : pstate'[q] = IF q = p THEN st ELSE pstate[q]
  BY <1>1 DEF TypeOK, TableType
<1>3. ~IsFile(p)
  BY <1>1 DEF TableAgrees, PageAgrees
<1>4. lastpg \in Int /\ Page \subseteq Int /\ lastpg' = IF p > lastpg THEN p ELSE lastpg
  BY SizeAssumption DEF AllocPage, TypeOK, TableType, PageOrNo, Page
<1>5. p <= lastpg' /\ \A q \in Page : q <= lastpg => q <= lastpg'
  BY <1>4
<1> QED
  BY <1>1, <1>2, <1>3, <1>5

\* The table still agrees when such a page is taken.
LEMMA AllocAgrees ==
  ASSUME TypeOK, TableAgrees, Running, NEW p \in Page, NEW st \in {"FileStart", "FileCont"},
         AllocPage(p, st),
         \A q \in Page, g \in Flag \ {"allocated"} : g \in flags'[q] <=> g \in flags[q]
  PROVE  TableAgrees'
<1>1. SUFFICES ASSUME NEW q \in Page PROVE PageAgrees(q)'
  BY DEF TableAgrees
<1>2. IsFile(q)' <=> IsFile(q)
  BY DEF IsFile, Flag
<1>3. /\ "start" \in flags'[q] <=> "start" \in flags[q]
      /\ "dead" \in flags'[q] <=> "dead" \in flags[q]
  BY DEF Flag
<1>4. PageAgrees(q)
  BY DEF TableAgrees
<1>5. /\ ~IsFile(p) /\ pstate'[q] = IF q = p THEN st ELSE pstate[q]
      /\ p <= lastpg' /\ (q <= lastpg => q <= lastpg')
  BY AllocBlank
<1>6. CASE q = p
  BY <1>2, <1>3, <1>5, <1>6 DEF PageAgrees, IsFile
<1>7. CASE q # p
  BY <1>2, <1>3, <1>4, <1>5, <1>7 DEF PageAgrees
<1> QED
  BY <1>6, <1>7

LEMMA StartCreatCommit ==
  ASSUME AssertInv, CommitInv, NEW n \in FileName, NEW k \in 1 .. MaxFilePages,
         NEW v \in PageOrNo, StartCreat(n, k, v),
         v # NoPage => "written" \in flags[v],
         Trusted /\ n \in FileName => Versions(n) \subseteq {v}
  PROVE  CommitInv'
<1>1. pc = "ready" /\ UNCHANGED <<flags, next, fname, fds, Promised, lost>>
  BY PromisedKept DEF StartCreat
<1>2. CASE ~CanAlloc
  <2>1. pc' = "panicAlloc"
    BY <1>2 DEF StartCreat, Panic
  <2>2. ~Running'
    BY <2>1 DEF Running, Booting, Marking, Mounted, Creating, Erasing
  <2> QED
    BY <1>1, <2>1, <2>2, RestStep
<1>3. CASE CanAlloc
  <2>1. PICK p \in Page :
          /\ AllocPage(p, "FileStart")
          /\ Goto("creatSentinel", [NoOp EXCEPT !.name = n, !.head = p,
                      !.cur = p, !.left = k, !.old = v])
    BY <1>3 DEF StartCreat
  <2>2. /\ pc' = "creatSentinel" /\ op'.name = n /\ op'.head = p /\ op'.cur = p
        /\ op'.nxt = NoPage /\ op'.old = v /\ op'.left = k
    BY <2>1 DEF Goto, NoOp
  <2>3. /\ Mounted /\ Running /\ ~Creating /\ ~Erasing
        /\ Mounted' /\ Running' /\ Creating' /\ Filling' /\ ~Erasing' /\ ~Booting' /\ ~Marking'
    BY <1>1, <2>2 DEF Booting, Running, Erasing, Marking, Mounted, Creating, Filling
  <2>4. LinkedIsFile'
    BY <1>1 DEF CommitInv, LinkedIsFile, IsFile
  <2>5. SUFFICES ASSUME Trusted, Trusted', CommitParts PROVE CommitParts'
    BY <1>1, <2>2, <2>3, <2>4, RunStep
  <2>6. /\ ~IsFile(p) /\ pstate[p] = "Clean"
        /\ \A q \in Page : pstate'[q] = IF q = p THEN "FileStart" ELSE pstate[q]
    BY <2>1, <2>3, <2>5, AllocBlank DEF AssertInv, CommitParts
  <2>7. /\ "start" \notin flags[p] /\ "created" \notin flags[p] /\ "written" \notin flags[p]
        /\ p # NoPage
    BY <2>6, PageInSlot, PageIsSome
    DEF IsFile, CommitInv, LinkedIsFile, AssertInv, HeaderOrder
  <2>8. PagesAreOwned'
    <3>1. PICK own \in [Page -> PageOrNo] : IsOwner(own)
      BY <2>5 DEF CommitParts, PagesAreOwned
    <3>2. IsOwner(own)'
      BY <1>1, <3>1, SameOwner
    <3>3. \A q \in Page : own[q] # p
      BY <2>7, <3>1 DEF IsOwner
    <3>4. CallOwns(own)'
      BY <2>2, <2>3, <3>3 DEF CallOwns
    <3> QED
      BY <3>2, <3>4 DEF PagesAreOwned
  <2>9. TableAgrees'
    BY <1>1, <2>1, <2>3, <2>5, AllocAgrees DEF AssertInv, CommitParts
  <2>10. NothingLeft'
    <3>1. SUFFICES ASSUME NEW q \in Page, IsLive(q)
          PROVE  pstate'[q] = "FileStart" /\ "created" \in flags[q]
      BY <1>1, <2>3 DEF NothingLeft, IsComplete, IsLive
    <3>2. q # p
      BY <2>7, <3>1 DEF IsLive
    <3> QED
      BY <2>3, <2>5, <2>6, <3>1, <3>2 DEF CommitParts, NothingLeft, IsComplete
  <2>11. \A m : Versions(m)' = Versions(m)
    BY <1>1, <2>6, <2>7 DEF Versions
  <2>12. CreatesNew'
    <3>1. \A fd \in fds : fd.start # p
      BY <2>3, <2>7 DEF AssertInv, OpenFiles
    <3> QED
      BY <1>1, <2>2, <2>3, <2>5, <2>6, <2>7, <2>11, <3>1 DEF CreatesNew
  <2>13. FillsBlank' /\ ErasesOld' /\ CommitsNew' /\ CleanupInOrder'
    BY <1>1, <2>2, <2>3, <2>6, <2>7
    DEF FillsBlank, ErasesOld, CommitsNew, CleanupInOrder, IsFile
  <2>14. OpenIsNew'
    BY <1>1, <2>3, <2>5, <2>11 DEF CommitParts, OpenIsNew, IsTemporary, IsLive
  <2>15. OneOnFlash' /\ SavedOnFlash'
    BY <1>1, <2>5 DEF CommitParts, OneOnFlash, SavedOnFlash, IsVersion
  <2>16. OneInTable'
    BY <1>1, <2>3, <2>5, <2>11 DEF CommitParts, OneInTable
  <2> QED
    BY <2>8, <2>9, <2>10, <2>12, <2>13, <2>14, <2>15, <2>16 DEF CommitParts
<1> QED
  BY <1>2, <1>3

LEMMA CreateCommit ==
  ASSUME AssertInv, CommitInv, NEW n \in FileName, NEW k \in 1 .. MaxFilePages,
         Create(n, k) \/ Replace(n, k)
  PROVE  CommitInv'
<1>1. pc = "ready"
  BY DEF Create, Replace, StartCreat
<1>2. Mounted /\ Running /\ ~Erasing
  BY <1>1 DEF Mounted, Running, Erasing
<1>3. ASSUME Trusted PROVE Match(n) = Versions(n)
  <2>1. \A p \in Page : pstate[p] = "FileStart" => p <= lastpg
    BY <1>2, <1>3 DEF CommitInv, CommitParts, TableAgrees, PageAgrees
  <2> QED
    BY <2>1 DEF Match, Versions
<1>4. ASSUME Trusted, n \in FileName, NEW p \in Match(n), NEW q \in Match(n) PROVE p = q
  BY <1>1, <1>2, <1>3, <1>4 DEF CommitInv, CommitParts, OneInTable
<1>5. CASE Create(n, k)
  <2>1. StartCreat(n, k, NoPage) /\ NoPage \in PageOrNo
    BY <1>5 DEF Create, PageOrNo
  <2>2. ASSUME Trusted, n \in FileName PROVE Versions(n) \subseteq {NoPage}
    <3>1. Found(n) = {}
      BY <1>5, <2>2 DEF Create
    <3>2. SUFFICES ASSUME NEW p \in Match(n) PROVE FALSE
      BY <1>3, <2>2
    <3>3. p \in Found(n)
      <4>1. \A q \in Match(n) : p <= q
        BY <1>4, <2>2 DEF Match, Page
      <4> QED
        BY <4>1 DEF Found
    <3> QED
      BY <3>1, <3>3
  <2> QED
    BY <2>1, <2>2, StartCreatCommit
<1>6. CASE Replace(n, k)
  <2>1. PICK p \in Found(n) : StartCreat(n, k, p)
    BY <1>6 DEF Replace
  <2>2. p \in PageOrNo /\ p \in Match(n) /\ "written" \in flags[p]
    BY DEF Found, Match, PageOrNo
  <2>3. ASSUME Trusted, n \in FileName PROVE Versions(n) \subseteq {p}
    BY <1>3, <1>4, <2>2, <2>3
  <2> QED
    BY <2>1, <2>2, <2>3, StartCreatCommit
<1> QED
  BY <1>5, <1>6

LEMMA CreatSentinelCommit == AssertInv /\ CommitInv /\ CreatSentinel => CommitInv'
<1> SUFFICES ASSUME AssertInv, CommitInv, CreatSentinel PROVE CommitInv'
  OBVIOUS
<1>1. pc = "creatSentinel" /\ UNCHANGED <<next, fname, fds, Promised, lost>>
  BY PromisedKept DEF CreatSentinel
<1>2. op.cur \in Page /\ op.cur + 1 \in Slot
  BY PageSlots DEF CreatSentinel, AssertInv, TypeOK, CallType, Op
<1>3. \/ pc' = "panicAlloc" /\ UNCHANGED flags
      \/ \E p \in PageOrNo :
            /\ Program(op.cur + 1, {"allocated"})
            /\ Goto("creatHeader", [op EXCEPT !.nxt = p])
            /\ \/ p = NoPage /\ op.left = 1 /\ UNCHANGED table
               \/ p \in Page /\ op.left > 1 /\ AllocPage(p, "FileCont")
  <2>1. NoPage \in PageOrNo /\ \A p \in Page : p \in PageOrNo
    BY DEF PageOrNo
  <2> QED
    BY <2>1, Zenon DEF CreatSentinel, Panic
<1>4. CASE pc' = "panicAlloc" /\ UNCHANGED flags
  <2>1. ~Running'
    BY <1>4 DEF Running, Booting, Marking, Mounted, Creating, Erasing
  <2> QED
    BY <1>1, <1>4, <2>1, RestStep DEF AssertInv, TypeOK, CallType
<1>5. ASSUME NEW p \in PageOrNo, Program(op.cur + 1, {"allocated"}),
             Goto("creatHeader", [op EXCEPT !.nxt = p]),
             \/ p = NoPage /\ op.left = 1 /\ UNCHANGED table
             \/ p \in Page /\ op.left > 1 /\ AllocPage(p, "FileCont")
      PROVE  CommitInv'
  <2>1. /\ pc' = "creatHeader" /\ op'.name = op.name /\ op'.head = op.head
        /\ op'.cur = op.cur /\ op'.nxt = p /\ op'.old = op.old /\ op'.left = op.left
    BY <1>5 DEF Goto, AssertInv, TypeOK, CallType, Op
  <2>2. \A q \in Page, g \in Flag \ {"allocated"} : g \in flags'[q] <=> g \in flags[q]
    BY <1>2, <1>5, KeepsOthers DEF AssertInv
  <2>3. /\ Mounted /\ Running /\ Creating /\ Filling /\ ~Erasing
        /\ Mounted' /\ Running' /\ Creating' /\ Filling' /\ ~Erasing' /\ ~Booting' /\ ~Marking'
    BY <1>1, <2>1 DEF Booting, Running, Erasing, Marking, Mounted, Creating, Filling
  <2>4. \A q \in Page : /\ IsFile(q)' <=> IsFile(q)
                        /\ IsLive(q)' <=> IsLive(q)
    BY <2>2 DEF IsFile, IsLive, Flag
  <2>5. LinkedIsFile'
    BY <1>1, <2>2, <2>4, SameLinks DEF CommitInv, Flag
  <2>6. SUFFICES ASSUME Trusted, Trusted', CommitParts PROVE CommitParts'
    BY <1>1, <2>1, <2>3, <2>5, RunStep
  <2>7. /\ p = NoPage => UNCHANGED <<pstate, lastpg>>
        /\ p # NoPage => /\ p \in Page /\ op.left > 1 /\ AllocPage(p, "FileCont")
                         /\ ~IsFile(p) /\ pstate[p] = "Clean"
                         /\ \A q \in Page : pstate'[q] = IF q = p THEN "FileCont" ELSE pstate[q]
    <3>1. CASE p = NoPage
      BY <1>5, <3>1 DEF table, Page
    <3>2. CASE p # NoPage
      <4>1. p \in Page /\ AllocPage(p, "FileCont") /\ op.left > 1
        BY <1>5, <3>2
      <4> QED
        BY <2>3, <2>6, <3>2, <4>1, AllocBlank DEF AssertInv, CommitParts
    <3> QED
      BY <3>1, <3>2
  <2>8. /\ op.head \in Page /\ op.head # NoPage /\ op.head # p /\ op.cur # p
        /\ pstate[op.head] = "FileStart"
    <3>1. op.head \in Page /\ op.head # NoPage /\ op.cur # NoPage
      BY <1>1, <2>3 DEF AssertInv, CallInProgress, TypeOK, CallType, Op, PageOrNo, CreatSentinel
    <3>2. pstate[op.head] = "FileStart" /\ pstate[op.cur] # "Clean"
      BY <2>3, <2>6, <3>1 DEF AssertInv, CreatPages, CommitParts, CreatesNew
    <3> QED
      BY <2>7, <3>1, <3>2
  <2>9. PagesAreOwned'
    <3>1. PICK own \in [Page -> PageOrNo] : IsOwner(own) /\ CallOwns(own)
      BY <2>6 DEF CommitParts, PagesAreOwned
    <3>2. IsOwner(own)'
      BY <1>1, <2>2, <3>1, SameOwner DEF Flag
    <3>3. CallOwns(own)'
      BY <2>1, <2>3, <2>4, <3>1 DEF CallOwns
    <3> QED
      BY <3>2, <3>3 DEF PagesAreOwned
  <2>10. TableAgrees'
    <3>1. CASE p = NoPage
      BY <2>2, <2>3, <2>4, <2>6, <2>7, <3>1 DEF CommitParts, TableAgrees, PageAgrees, Flag
    <3>2. CASE p # NoPage
      BY <2>2, <2>3, <2>6, <2>7, <3>2, AllocAgrees DEF AssertInv, CommitParts
    <3> QED
      BY <3>1, <3>2
  <2>11. NothingLeft'
    <3>1. SUFFICES ASSUME NEW q \in Page, IsLive(q)
          PROVE  pstate'[q] = "FileStart" /\ ("created" \in flags'[q] \/ q = op.head)
      BY <2>1, <2>3, <2>4 DEF NothingLeft, IsComplete
    <3>2. q # p
      BY <2>7, <3>1, PageIsSome DEF IsLive, IsFile
    <3>3. pstate[q] = "FileStart" /\ ("created" \in flags[q] \/ q = op.head)
      BY <2>3, <2>6, <3>1 DEF CommitParts, NothingLeft, IsComplete
    <3> QED
      BY <2>2, <2>7, <3>2, <3>3 DEF Flag
  <2>12. \A m : Versions(m)' = Versions(m)
    BY <1>1, <2>2, <2>7 DEF Versions, Flag
  <2>13. CreatesNew'
    <3>1. pstate'[op.head] = "FileStart"
      BY <2>7, <2>8
    <3>2. op.old \in PageOrNo
      BY DEF AssertInv, TypeOK, CallType, Op
    <3>3. CreatesNew
      BY <2>6 DEF CommitParts
    <3> QED
      BY <1>1, <2>1, <2>2, <2>3, <2>8, <2>12, <3>1, <3>2, <3>3 DEF CreatesNew, Flag, PageOrNo
  <2>14. FillsBlank'
    <3>1. op.cur # NoPage /\ ~IsFile(op.cur)
      BY <2>3, <2>6 DEF CommitParts, FillsBlank
    <3>2. op.left > 1 <=> p # NoPage
      BY <1>5, PageIsSome
    <3> QED
      BY <1>2, <2>1, <2>4, <2>7, <2>8, <3>1, <3>2 DEF FillsBlank
  <2>15. ErasesOld' /\ CommitsNew' /\ CleanupInOrder'
    BY <2>1, <2>3 DEF ErasesOld, CommitsNew, CleanupInOrder
  <2>16. OpenIsNew'
    <3>1. \A fd \in fds : fd.start \in Page /\ fd.old \in PageOrNo
      BY DEF AssertInv, TypeOK, CallType, Fd
    <3>2. \A fd \in fds : IsTemporary(fd.start, fd.name)'
      BY <1>1, <2>2, <2>3, <2>4, <2>6, <3>1 DEF CommitParts, OpenIsNew, IsTemporary, Flag
    <3>3. \A fd \in fds : fd.old # NoPage => "written" \in flags'[fd.old]
      BY <2>2, <2>3, <2>6, <3>1 DEF CommitParts, OpenIsNew, Flag, PageOrNo
    <3> QED
      BY <1>1, <2>3, <2>6, <2>12, <3>2, <3>3 DEF CommitParts, OpenIsNew
  <2>17. \A q \in Page : \A n : IsVersion(q, n)' <=> IsVersion(q, n)
    BY <1>1, <2>2 DEF IsVersion, Flag
  <2>18. OneOnFlash'
    BY <2>6, <2>17 DEF CommitParts, OneOnFlash
  <2>19. SavedOnFlash'
    <3>1. \A n \in FileName : Promised[n] # NoPage => Promised[n] \in Page
      BY PromisedIsPage DEF AssertInv
    <3> QED
      BY <1>1, <2>2, <2>6, <2>17, <3>1 DEF CommitParts, SavedOnFlash, Flag
  <2>20. OneInTable'
    BY <1>1, <2>3, <2>6, <2>12 DEF CommitParts, OneInTable
  <2> QED
    BY <2>9, <2>10, <2>11, <2>13, <2>14, <2>15, <2>16, <2>18, <2>19, <2>20 DEF CommitParts
<1> QED
  BY <1>3, <1>4, <1>5

\* A page given to the file being created is its own from then on.  No other
\* live file can lose it: such a file is complete, and so owns pages of files only.
LEMMA CreatHeaderOwner ==
  ASSUME NEW own \in [Page -> PageOrNo], NEW own2 \in [Page -> PageOrNo],
         NEW h \in Page, NEW c \in Page, NEW x \in PageOrNo,
         IsOwner(own), LinkedIsFile, next \in [Page -> PageOrNo],
         c # h => own[c] = h /\ "start" \in flags[h], ~IsFile(c),
         x # NoPage => ~IsFile(x) /\ x # c,
         \A q \in Page : IsLive(q) => "created" \in flags[q] \/ q = h,
         "created" \notin flags'[h], IsLive(h)',
         \A q \in Page : q # h => ("start" \in flags'[q] <=> "start" \in flags[q]),
         \A q \in Page, g \in {"created", "deleted"} : g \in flags'[q] <=> g \in flags[q],
         \A q \in Page : IsFile(q)' <=> (IsFile(q) \/ q = c),
         \A q \in Page : next'[q] = IF q = c THEN x ELSE next[q],
         \A q \in Page : own2[q] = IF q = h \/ q = x THEN h ELSE own[q]
  PROVE  IsOwner(own2)'
<1>1. h # NoPage /\ \A q \in Page : q # NoPage
  BY PageIsSome
<1>2. \A q \in Page : IsLive(q)' <=> (IsLive(q) \/ q = h)
  BY DEF IsLive
<1>3. x # NoPage => x \in Page /\ "start" \notin flags[x]
  BY DEF PageOrNo, IsFile
<1>4. \A q \in Page : own[q] # NoPage => own[q] \in Page
  BY LinkedIsOwned
<1>5. "start" \in flags'[h]
  BY DEF IsLive
<1>6. \A q \in Page : "start" \in flags[q] => "start" \in flags'[q]
  BY <1>5
<1>7. ASSUME NEW q \in Page, own[q] # NoPage, IsLive(own[q]), own[q] # h
      PROVE  IsFile(q)
  BY <1>4, <1>7 DEF IsOwner
<1>8. ASSUME NEW p \in Page, IsLive(p)'
      PROVE  own2[p] = p
  <2>1. CASE p = h
    BY <2>1
  <2>2. CASE p # h
    BY <1>1, <1>2, <1>3, <1>8, <2>2 DEF IsOwner, IsLive
  <2> QED
    BY <2>1, <2>2
<1>9. ASSUME NEW p \in Page, own2[p] # NoPage
      PROVE  /\ "start" \in flags'[own2[p]]
             /\ own2[p] # p => "start" \notin flags'[p]
  <2>1. CASE p = h \/ p = x
    BY <1>1, <1>3, <1>5, <2>1
  <2>2. CASE p # h /\ p # x
    BY <1>4, <1>6, <1>9, <2>2 DEF IsOwner
  <2> QED
    BY <2>1, <2>2
<1>10. ASSUME NEW p \in Page, own2[p] # NoPage, IsLive(own2[p])'
       PROVE  /\ next'[p] # NoPage => own2[next'[p]] = own2[p]
              /\ "created" \in flags'[own2[p]] => IsFile(p)'
  <2>1. CASE own2[p] = h
    <3>1. SUFFICES ASSUME next'[p] # NoPage PROVE own2[next'[p]] = h
      BY <2>1
    <3>2. CASE p = c
      BY <1>3, <3>1, <3>2
    <3>3. CASE p # c
      <4>1. next'[p] = next[p] /\ next[p] \in Page /\ IsFile(p)
        BY <3>1, <3>3 DEF LinkedIsFile, PageOrNo
      <4>2. p # x
        BY <1>1, <4>1
      <4>3. own[p] = h /\ IsLive(h)
        <5>1. CASE p = h
          <6>1. "start" \in flags[h] /\ IsLive(h)
            BY <3>3, <5>1 DEF IsLive
          <6> QED
            BY <5>1, <6>1 DEF IsOwner
        <5>2. CASE p # h
          <6>1. own[p] = h
            BY <2>1, <4>2, <5>2
          <6>2. "start" \in flags[h]
            BY <1>1, <6>1 DEF IsOwner
          <6> QED
            BY <6>1, <6>2 DEF IsLive
        <5> QED
          BY <5>1, <5>2
      <4>4. own[next[p]] = h
        BY <1>1, <3>1, <4>1, <4>3 DEF IsOwner
      <4> QED
        BY <4>1, <4>4
    <3> QED
      BY <3>2, <3>3
  <2>2. CASE own2[p] # h
    <3>1. p # h /\ p # x /\ own2[p] = own[p]
      BY <2>2
    <3>2. own[p] \in Page /\ own[p] # NoPage /\ own[p] # h /\ IsLive(own[p])
      BY <1>2, <1>4, <1>10, <2>2, <3>1
    <3>3. p # c /\ next'[p] = next[p]
      BY <3>1, <3>2
    <3>4. IsFile(p)'
      BY <1>7, <3>2
    <3>5. ASSUME next[p] # NoPage PROVE own2[next[p]] = own[p]
      <4>1. next[p] \in Page /\ own[next[p]] = own[p]
        BY <3>2, <3>5 DEF IsOwner, PageOrNo
      <4>2. IsFile(next[p])
        BY <1>7, <3>2, <4>1
      <4>3. next[p] # x
        BY <3>5, <4>2
      <4>4. next[p] # h
        <5>1. SUFFICES ASSUME next[p] = h PROVE FALSE
          OBVIOUS
        <5>2. c # h
          BY <4>2, <5>1
        <5>3. IsLive(h)
          BY <5>2 DEF IsLive
        <5> QED
          BY <3>2, <4>1, <5>1, <5>3 DEF IsOwner
      <4> QED
        BY <4>1, <4>3, <4>4
    <3> QED
      BY <3>1, <3>3, <3>4, <3>5
  <2> QED
    BY <2>1, <2>2
<1> QED
  BY <1>8, <1>9, <1>10 DEF IsOwner

LEMMA CreatHeaderCommit == AssertInv /\ CommitInv /\ CreatHeader => CommitInv'
<1> SUFFICES ASSUME AssertInv, CommitInv, CreatHeader PROVE CommitInv'
  OBVIOUS
<1> DEFINE fl == IF op.cur = op.head THEN {"magic", "moreblocks", "allocated", "start"}
                                     ELSE {"moreblocks", "allocated", "cont"}
<1>1. /\ pc = "creatHeader" /\ pc' \in {"creatSentinel", "creatDone"}
      /\ UNCHANGED <<pstate, lastpg, fds, Promised, lost>>
  BY PromisedKept DEF CreatHeader, Goto, table
<1>2. op.cur \in Page /\ op.cur \in Slot /\ op.head \in Page /\ op.head # NoPage /\ op.nxt \in PageOrNo
  BY <1>1, PageInSlot DEF CreatHeader, AssertInv, CallInProgress, Creating, TypeOK, CallType, Op, PageOrNo
<1>3. /\ op'.name = op.name /\ op'.head = op.head /\ op'.old = op.old /\ op'.nxt = op.nxt
      /\ op.left > 1 => pc' = "creatSentinel" /\ op'.cur = op.nxt
      /\ ~(op.left > 1) => pc' = "creatDone" /\ op'.cur = op.cur
  BY DEF CreatHeader, Goto, AssertInv, TypeOK, CallType, Op
<1>4. /\ Program(op.cur, fl)
      /\ \A q \in Page : fname'[q] = IF q = op.cur /\ q = op.head THEN op.name ELSE fname[q]
  <2>1. CASE op.cur = op.head
    BY <1>2, <2>1 DEF CreatHeader, AssertInv, TypeOK, FlashType
  <2>2. CASE op.cur # op.head
    BY <2>2 DEF CreatHeader
  <2> QED
    BY <2>1, <2>2
<1>5. \A q \in Page, g \in Flag \ fl : g \in flags'[q] <=> g \in flags[q]
  BY <1>2, <1>4, KeepsOthers DEF AssertInv
<1>6. /\ \A q \in Page, g \in {"written", "created", "deleted", "dead"} : g \in flags'[q] <=> g \in flags[q]
      /\ \A q \in Page : "start" \in flags'[q] <=> ("start" \in flags[q] \/ (q = op.cur /\ q = op.head))
      /\ \A q \in Page : IsFile(q)' <=> (IsFile(q) \/ q = op.cur)
  <2>1. /\ flags'[op.cur] = flags[op.cur] \cup fl
        /\ \A q \in Page : q # op.cur => flags'[q] = flags[q]
    BY <1>2, <1>4, PageInSlot DEF Program, AssertInv, TypeOK, FlashType
  <2> QED
    BY <2>1 DEF IsFile
<1> HIDE DEF fl
<1>7. PICK v \in PageOrNo : /\ IsBothBits(v, next[op.cur], op.nxt)
                            /\ \A q \in Page : next'[q] = IF q = op.cur THEN v ELSE next[q]
  BY <1>2 DEF CreatHeader, AssertInv, TypeOK, FlashType
<1>8. /\ Mounted /\ Running /\ Creating /\ Filling /\ ~Erasing
      /\ Mounted' /\ Running' /\ Creating' /\ ~Erasing' /\ ~Booting' /\ ~Marking'
      /\ Filling' => pc' = "creatSentinel" /\ op.left > 1 /\ op'.cur = op.nxt
  BY <1>1, <1>3 DEF Booting, Running, Erasing, Marking, Mounted, Creating, Filling
<1>9. LinkedIsFile'
  BY <1>6, <1>7 DEF CommitInv, LinkedIsFile
<1>10. SUFFICES ASSUME Trusted, Trusted', CommitParts PROVE CommitParts'
  BY <1>1, <1>8, <1>9, RunStep
<1>11. /\ ~IsFile(op.cur) /\ next[op.cur] = NoPage
       /\ op.left > 1 <=> op.nxt # NoPage
       /\ op.nxt # NoPage => ~IsFile(op.nxt) /\ op.nxt # op.cur
  BY <1>1, <1>2, <1>8, <1>10 DEF CommitParts, FillsBlank, CommitInv, LinkedIsFile
<1>12. /\ pstate[op.head] = "FileStart" /\ pstate[op.cur] # "Clean"
       /\ "written" \notin flags[op.head] /\ "created" \notin flags[op.head]
       /\ "deleted" \notin flags[op.head]
  BY <1>1, <1>2, <1>8, <1>10
  DEF CommitParts, CreatesNew, AssertInv, CreatPages, DeletedIsDirty, CreatHeader
<1>13. \A q \in Page : next'[q] = IF q = op.cur THEN op.nxt ELSE next[q]
  BY <1>7, <1>11 DEF IsBothBits
<1>14. /\ op.cur # op.head => "start" \in flags[op.head]
       /\ "start" \in flags'[op.head] /\ IsLive(op.head)' /\ IsFile(op.head)'
  BY <1>2, <1>3, <1>6, <1>8, <1>12 DEF AssertInv, CallInProgress, IsLive, IsFile
<1>15. \A q \in Page : IsLive(q)' <=> (IsLive(q) \/ q = op.head)
  BY <1>2, <1>3, <1>6, <1>14 DEF IsLive
<1>16. PagesAreOwned'
  <2>1. PICK own \in [Page -> PageOrNo] : IsOwner(own) /\ CallOwns(own)
    BY <1>10 DEF CommitParts, PagesAreOwned
  <2>2. [q \in Page |-> IF q = op.head \/ q = op.nxt THEN op.head ELSE own[q]] \in [Page -> PageOrNo]
    BY <1>2 DEF PageOrNo
  <2>3. PICK own2 \in [Page -> PageOrNo] :
          \A q \in Page : own2[q] = IF q = op.head \/ q = op.nxt THEN op.head ELSE own[q]
    BY <2>2
  <2>4. op.cur # op.head => own[op.cur] = op.head
    BY <1>8, <2>1 DEF CallOwns
  <2>5. \A q \in Page : IsLive(q) => "created" \in flags[q] \/ q = op.head
    BY <1>8, <1>10 DEF CommitParts, NothingLeft, IsComplete
  <2>6. IsOwner(own2)'
    <3>1. PICK h \in Page, c \in Page, x \in PageOrNo : h = op.head /\ c = op.cur /\ x = op.nxt
      BY <1>2
    <3>2. next \in [Page -> PageOrNo] /\ LinkedIsFile
      BY DEF AssertInv, TypeOK, FlashType, CommitInv
    <3>3. (c # h => own[c] = h /\ "start" \in flags[h]) /\ ~IsFile(c) /\ (x # NoPage => ~IsFile(x) /\ x # c)
      BY <1>11, <1>14, <2>4, <3>1
    <3>4. "created" \notin flags'[h] /\ IsLive(h)'
      BY <1>3, <1>6, <1>12, <1>14, <3>1 DEF IsLive
    <3>5. \A q \in Page : q # h => ("start" \in flags'[q] <=> "start" \in flags[q])
      BY <1>6, <3>1
    <3>6. \A q \in Page, g \in {"created", "deleted"} : g \in flags'[q] <=> g \in flags[q]
      BY <1>6
    <3>7. \A q \in Page : IsFile(q)' <=> (IsFile(q) \/ q = c)
      BY <1>6, <3>1
    <3>8. \A q \in Page : IsLive(q) => "created" \in flags[q] \/ q = h
      BY <2>5, <3>1
    <3>9. \A q \in Page : next'[q] = IF q = c THEN x ELSE next[q]
      BY <1>13, <3>1
    <3>10. \A q \in Page : own2[q] = IF q = h \/ q = x THEN h ELSE own[q]
      BY <2>3, <3>1
    <3> QED
      BY <2>1, <3>2, <3>3, <3>4, <3>5, <3>6, <3>7, <3>8, <3>9, <3>10, CreatHeaderOwner
  <2>7. ASSUME NEW q \in Page, own2[q] = op.head
        PROVE  IsFile(q)' \/ (Filling' /\ q = op'.cur)
    <3>1. CASE q = op.head
      BY <1>3, <1>14, <3>1
    <3>2. CASE q = op.nxt
      <4>1. op.left > 1
        BY <1>11, <3>2, PageIsSome
      <4> QED
        BY <1>3, <3>2, <4>1 DEF Filling
    <3>3. CASE q # op.head /\ q # op.nxt
      BY <1>6, <1>8, <2>1, <2>3, <2>7, <3>3 DEF CallOwns
    <3> QED
      BY <3>1, <3>2, <3>3
  <2>8. (Filling' /\ op'.cur # op.head) => own2[op'.cur] = op.head
    BY <1>2, <1>8, <1>11, <2>3 DEF PageOrNo
  <2>9. CallOwns(own2)'
    BY <1>1, <1>3, <2>7, <2>8 DEF CallOwns
  <2> QED
    BY <2>6, <2>9 DEF PagesAreOwned
<1>17. TableAgrees'
  <2>1. SUFFICES ASSUME NEW q \in Page PROVE PageAgrees(q)'
    BY DEF TableAgrees
  <2>2. PageAgrees(q) /\ PageAgrees(op.head)
    BY <1>2, <1>8, <1>10 DEF CommitParts, TableAgrees
  <2> QED
    BY <1>1, <1>6, <1>12, <2>2 DEF PageAgrees
<1>18. NothingLeft'
  <2>1. SUFFICES ASSUME NEW q \in Page, IsLive(q)'
        PROVE  pstate[q] = "FileStart" /\ ("created" \in flags'[q] \/ q = op.head)
    BY <1>1, <1>3, <1>8 DEF NothingLeft, IsComplete
  <2>2. CASE q = op.head
    BY <1>12, <2>2
  <2>3. CASE q # op.head
    BY <1>6, <1>8, <1>10, <1>15, <2>1, <2>3 DEF CommitParts, NothingLeft, IsComplete
  <2> QED
    BY <2>2, <2>3
<1>19. \A m : Versions(m)' = Versions(m)
  BY <1>1, <1>4, <1>6, <1>12 DEF Versions
<1>20. CreatesNew'
  <2>1. op.old \in PageOrNo
    BY DEF AssertInv, TypeOK, CallType, Op
  <2>2. CreatesNew
    BY <1>10 DEF CommitParts
  <2>3. fname'[op.head] = op.name
    BY <1>2, <1>4, <1>8, <2>2 DEF CreatesNew
  <2>4. op.old # NoPage => "written" \in flags'[op.old]
    BY <1>6, <1>8, <2>1, <2>2 DEF CreatesNew, PageOrNo
  <2> QED
    BY <1>1, <1>2, <1>3, <1>6, <1>8, <1>12, <1>19, <2>2, <2>3, <2>4 DEF CreatesNew
<1>21. FillsBlank'
  <2>1. ASSUME Filling' PROVE op'.cur # NoPage /\ ~IsFile(op.cur)'
    <3>1. op'.cur = op.nxt /\ op.nxt # NoPage /\ op.nxt \in Page
      BY <1>2, <1>8, <1>11, <2>1 DEF PageOrNo
    <3>2. \A q \in Page : ~IsFile(q) /\ q # op.cur => ~IsFile(q)'
      BY <1>6
    <3> QED
      BY <1>11, <3>1, <3>2
  <2> QED
    BY <1>1, <2>1 DEF FillsBlank, IsFile
<1>22. ErasesOld' /\ CommitsNew' /\ CleanupInOrder'
  BY <1>1, <1>8 DEF ErasesOld, CommitsNew, CleanupInOrder
<1>23. OpenIsNew'
  <2>1. \A fd \in fds : fd.start \in Page /\ fd.old \in PageOrNo
    BY DEF AssertInv, TypeOK, CallType, Fd
  <2>2. \A fd \in fds : fd.start # op.head
    BY <1>8, <1>10 DEF CommitParts, CreatesNew
  <2>3. \A fd \in fds : IsTemporary(fd.start, fd.name)'
    BY <1>4, <1>6, <1>8, <1>10, <1>15, <2>1, <2>2 DEF CommitParts, OpenIsNew, IsTemporary
  <2>4. \A fd \in fds : fd.old # NoPage => "written" \in flags'[fd.old]
    BY <1>6, <1>8, <1>10, <2>1 DEF CommitParts, OpenIsNew, PageOrNo
  <2> QED
    BY <1>1, <1>8, <1>10, <1>19, <2>3, <2>4 DEF CommitParts, OpenIsNew
<1>24. \A q \in Page : \A m : IsVersion(q, m)' <=> IsVersion(q, m)
  BY <1>4, <1>6, <1>12 DEF IsVersion
<1>25. OneOnFlash'
  BY <1>10, <1>24 DEF CommitParts, OneOnFlash
<1>26. SavedOnFlash'
  <2>1. \A n \in FileName : Promised[n] # NoPage => Promised[n] \in Page
    BY PromisedIsPage DEF AssertInv
  <2> QED
    BY <1>1, <1>6, <1>10, <1>24, <2>1 DEF CommitParts, SavedOnFlash
<1>27. OneInTable'
  BY <1>1, <1>8, <1>10, <1>19 DEF CommitParts, OneInTable
<1> QED
  BY <1>16, <1>17, <1>18, <1>20, <1>21, <1>22, <1>23, <1>25, <1>26, <1>27 DEF CommitParts

LEMMA CreatDoneCommit == AssertInv /\ CommitInv /\ CreatDone => CommitInv'
<1> SUFFICES ASSUME AssertInv, CommitInv, CreatDone PROVE CommitInv'
  OBVIOUS
<1>1. /\ pc = "creatDone" /\ pc' = "ready" /\ Program(op.head, {"created"})
      /\ fds' = fds \cup {[name |-> op.name, start |-> op.head, old |-> op.old]}
      /\ UNCHANGED <<next, fname, pstate, lastpg, Promised, lost>>
  BY PromisedKept DEF CreatDone, Return, Goto, table
<1>2. /\ op.head \in Page /\ op.head \in Slot /\ op.head # NoPage /\ op.old \in PageOrNo
      /\ "start" \in flags[op.head]
  BY <1>1, PageInSlot
  DEF AssertInv, CallInProgress, Creating, TypeOK, CallType, Op, PageOrNo
<1>3. \A q \in Page, g \in Flag \ {"created"} : g \in flags'[q] <=> g \in flags[q]
  BY <1>1, <1>2, KeepsOthers DEF AssertInv
<1>4. \A q \in Page : "created" \in flags'[q] <=> ("created" \in flags[q] \/ q = op.head)
  BY <1>1, <1>2, AddsFlag DEF AssertInv
<1>5. /\ Mounted /\ Running /\ Creating /\ ~Filling /\ ~Erasing
      /\ Mounted' /\ Running' /\ ~Creating' /\ ~Filling' /\ ~Erasing' /\ ~Booting' /\ ~Marking'
  BY <1>1 DEF Booting, Running, Erasing, Marking, Mounted, Creating, Filling
<1>6. \A q \in Page : /\ IsFile(q)' <=> IsFile(q)
                      /\ IsLive(q)' <=> IsLive(q)
  BY <1>3 DEF IsFile, IsLive, Flag
<1>7. LinkedIsFile'
  <2>1. IsFile(op.head)
    BY <1>2 DEF IsFile
  <2> QED
    BY <1>1, <1>4, <1>6, <2>1, SameLinks DEF CommitInv
<1>8. SUFFICES ASSUME Trusted, Trusted', CommitParts PROVE CommitParts'
  BY <1>1, <1>5, <1>7, RunStep
<1>9. PagesAreOwned'
  <2>1. PICK own \in [Page -> PageOrNo] : IsOwner(own) /\ CallOwns(own)
    BY <1>8 DEF CommitParts, PagesAreOwned
  <2>2. \A p \in Page : own[p] # NoPage => own[p] \in Page
    BY LinkedIsOwned
  <2>3. \A p \in Page : own[p] = op.head => IsFile(p)
    BY <1>5, <2>1 DEF CallOwns
  <2>4. \A p \in Page : "start" \in flags'[p] <=> "start" \in flags[p]
    BY <1>3 DEF Flag
  <2>5. IsOwner(own)'
    BY <1>1, <1>4, <1>6, <2>1, <2>2, <2>3, <2>4 DEF IsOwner
  <2>6. CallOwns(own)'
    BY <1>1, <1>5 DEF CallOwns
  <2> QED
    BY <2>5, <2>6 DEF PagesAreOwned
<1>10. TableAgrees'
  BY <1>1, <1>3, <1>5, <1>6, <1>8 DEF CommitParts, TableAgrees, PageAgrees, Flag
<1>11. NothingLeft'
  BY <1>1, <1>4, <1>5, <1>6, <1>8 DEF CommitParts, NothingLeft, IsComplete
<1>12. CreatesNew' /\ FillsBlank' /\ ErasesOld' /\ CommitsNew' /\ CleanupInOrder'
  BY <1>1, <1>5 DEF CreatesNew, FillsBlank, ErasesOld, CommitsNew, CleanupInOrder
<1>13. \A m : Versions(m)' = Versions(m)
  BY <1>1, <1>3 DEF Versions, Flag
<1>14. OpenIsNew'
  <2>1. \A fd \in fds' :
          \/ fd \in fds /\ fd.start # op.head
          \/ fd.start = op.head /\ fd.name = op.name /\ fd.old = op.old
    BY <1>1, <1>5, <1>8 DEF CommitParts, CreatesNew
  <2>2. \A fd \in fds' : fd.start \in Page /\ fd.old \in PageOrNo
    BY <1>2, <2>1 DEF AssertInv, TypeOK, CallType, Fd
  <2>3. "deleted" \notin flags[op.head]
    BY <1>2, <1>5, <1>8 DEF AssertInv, DeletedIsDirty, CommitParts, CreatesNew
  <2>4. \A fd \in fds' : /\ "start" \in flags[fd.start] /\ "deleted" \notin flags[fd.start]
                         /\ "created" \in flags'[fd.start] /\ "written" \notin flags[fd.start]
                         /\ fname[fd.start] = fd.name
                         /\ fd.old # NoPage => "written" \in flags[fd.old]
                         /\ fd.name \in FileName => Versions(fd.name) \subseteq {fd.old}
    BY <1>2, <1>4, <1>5, <1>8, <2>1, <2>2, <2>3
    DEF CommitParts, OpenIsNew, CreatesNew, IsTemporary, IsLive
  <2>5. \A fd \in fds' : IsTemporary(fd.start, fd.name)'
    BY <1>1, <1>3, <2>2, <2>4 DEF IsTemporary, IsLive, Flag
  <2>6. \A fd \in fds' : fd.old # NoPage => "written" \in flags'[fd.old]
    BY <1>3, <2>2, <2>4 DEF Flag, PageOrNo
  <2>7. \A fd1, fd2 \in fds' : fd1.start = fd2.start => fd1 = fd2
    <3>1. SUFFICES ASSUME NEW fd1 \in fds', NEW fd2 \in fds', fd1.start = fd2.start
          PROVE  fd1 = fd2
      OBVIOUS
    <3>2. CASE fd1.start = op.head
      <4>1. \A fd \in fds : fd.start # op.head
        BY <1>5, <1>8 DEF CommitParts, CreatesNew
      <4> QED
        BY <1>1, <3>1, <3>2, <4>1
    <3>3. CASE fd1.start # op.head
      BY <1>5, <1>8, <2>1, <3>1, <3>3 DEF CommitParts, OpenIsNew
    <3> QED
      BY <3>2, <3>3
  <2> QED
    BY <1>13, <2>4, <2>5, <2>6, <2>7 DEF OpenIsNew
<1>15. \A q \in Page : \A n : IsVersion(q, n)' <=> IsVersion(q, n)
  BY <1>1, <1>3 DEF IsVersion, Flag
<1>16. OneOnFlash'
  BY <1>8, <1>15 DEF CommitParts, OneOnFlash
<1>17. SavedOnFlash'
  <2>1. \A n \in FileName : Promised[n] # NoPage => Promised[n] \in Page
    BY PromisedIsPage DEF AssertInv
  <2> QED
    BY <1>1, <1>3, <1>4, <1>8, <1>15, <2>1 DEF CommitParts, SavedOnFlash, Flag
<1>18. OneInTable'
  BY <1>1, <1>5, <1>8, <1>13 DEF CommitParts, OneInTable
<1> QED
  BY <1>9, <1>10, <1>11, <1>12, <1>14, <1>16, <1>17, <1>18 DEF CommitParts

LEMMA AbandonCommit ==
  ASSUME AssertInv, CommitInv, NEW fd \in fds, Abandon(fd)
  PROVE  CommitInv'
<1>1. /\ pc = "ready" /\ pc' = pc /\ op' = op /\ fds' \subseteq fds
      /\ UNCHANGED <<flags, next, fname, pstate, lastpg, Promised, lost>>
  BY PromisedKept DEF Abandon, table
<1>2. /\ Mounted /\ Running /\ Mounted' /\ Running'
      /\ ~Creating' /\ ~Filling' /\ ~Erasing' /\ ~Booting' /\ ~Marking /\ ~Marking' /\ ~Creating
  BY <1>1 DEF Booting, Running, Erasing, Marking, Mounted, Creating, Filling
<1>3. LinkedIsFile'
  BY <1>1 DEF CommitInv, LinkedIsFile, IsFile
<1>4. SUFFICES ASSUME Trusted, Trusted', CommitParts PROVE CommitParts'
  BY <1>1, <1>2, <1>3, RunStep
<1>5. PagesAreOwned'
  <2>1. PICK own \in [Page -> PageOrNo] : IsOwner(own)
    BY <1>4 DEF CommitParts, PagesAreOwned
  <2>2. IsOwner(own)' /\ CallOwns(own)'
    BY <1>1, <1>2, <2>1, SameOwner DEF CallOwns
  <2> QED
    BY <2>2 DEF PagesAreOwned
<1>6. TableAgrees'
  BY <1>1, <1>2, <1>4 DEF CommitParts, TableAgrees, PageAgrees, IsFile
<1>7. NothingLeft'
  BY <1>1, <1>2, <1>4 DEF CommitParts, NothingLeft, IsComplete, IsLive, Erasing
<1>8. CleanupInOrder' /\ CreatesNew' /\ FillsBlank' /\ ErasesOld' /\ CommitsNew'
  BY <1>1, <1>2 DEF CleanupInOrder, CreatesNew, FillsBlank, ErasesOld, CommitsNew
<1>9. OpenIsNew'
  BY <1>1, <1>2, <1>4 DEF CommitParts, OpenIsNew, IsTemporary, IsLive, Versions
<1>10. OneOnFlash' /\ SavedOnFlash'
  BY <1>1, <1>4 DEF CommitParts, OneOnFlash, SavedOnFlash, IsVersion
<1>11. OneInTable'
  BY <1>1, <1>2, <1>4 DEF CommitParts, OneInTable, Versions
<1> QED
  BY <1>5, <1>6, <1>7, <1>8, <1>9, <1>10, <1>11 DEF CommitParts

\* What committing the file that starts at s does to the flash and to what is promised.
LEMMA CommitWrites ==
  ASSUME AssertInv, NEW n \in FileName, NEW s \in Page, Commit(n, s)
  PROVE  /\ \A q \in Page, g \in Flag \ {"written"} : g \in flags'[q] <=> g \in flags[q]
         /\ \A q \in Page : "written" \in flags'[q] <=> ("written" \in flags[q] \/ q = s)
         /\ \A m \in FileName : Promised'[m] = IF m # n THEN Promised[m]
                                            ELSE IF "dead" \in flags[s] THEN NoPage ELSE s
         /\ \A q \in Page : /\ IsFile(q)' <=> IsFile(q)
                            /\ IsLive(q)' <=> IsLive(q)
<1>1. Program(s, {"written"}) /\ s \in Slot
  BY PageInSlot DEF Commit
<1>2. \A q \in Page, g \in Flag \ {"written"} : g \in flags'[q] <=> g \in flags[q]
  BY <1>1, KeepsOthers DEF AssertInv
<1>3. \A q \in Page : "written" \in flags'[q] <=> ("written" \in flags[q] \/ q = s)
  BY <1>1, AddsFlag DEF AssertInv
<1>4. \A m \in FileName : Promised'[m] = IF m # n THEN Promised[m]
                                      ELSE IF "dead" \in flags[s] THEN NoPage ELSE s
  BY CommitPromise DEF AssertInv
<1>5. \A q \in Page : /\ IsFile(q)' <=> IsFile(q)
                      /\ IsLive(q)' <=> IsLive(q)
  BY <1>2 DEF IsFile, IsLive, Flag
<1> QED
  BY <1>2, <1>3, <1>4, <1>5

\* The new version is the only one the flash holds when every other is dead.
LEMMA CommitIsOne ==
  ASSUME AssertInv, TableAgrees, Running, OneOnFlash, NEW n \in FileName, NEW s \in Page,
         Commit(n, s), UNCHANGED fname, fname[s] = n,
         n \in FileName => \A q \in Versions(n) : "dead" \in flags[q]
  PROVE  OneOnFlash'
<1>1. ASSUME n \in FileName, NEW q \in Page, IsVersion(q, n)
      PROVE  FALSE
  <2>1. "start" \in flags[q] /\ "dead" \notin flags[q]
    BY <1>1, PageInSlot DEF IsVersion, AssertInv, HeaderOrder
  <2>2. q \in Versions(n)
    BY <1>1, <2>1 DEF TableAgrees, PageAgrees, Versions, IsVersion
  <2> QED
    BY <1>1, <2>1, <2>2
<1>2. ASSUME NEW m \in FileName, NEW q \in Page, IsVersion(q, m)'
      PROVE  IsVersion(q, m) \/ (q = s /\ m = n)
  BY <1>2, CommitWrites DEF IsVersion, Flag
<1>3. SUFFICES ASSUME NEW m \in FileName, NEW p \in Page, NEW q \in Page,
                      IsVersion(p, m)', IsVersion(q, m)'
               PROVE  p = q
  BY DEF OneOnFlash
<1> QED
  BY <1>1, <1>2, <1>3 DEF OneOnFlash

LEMMA MarkWrittenCommit ==
  ASSUME AssertInv, CommitInv, NEW fd \in fds, MarkWritten(fd)
  PROVE  CommitInv'
<1>1. /\ pc = "ready" /\ fds' = fds \ {fd}
      /\ UNCHANGED <<next, fname, pstate, lastpg, lost>>
      /\ fd.old = NoPage => Commit(fd.name, fd.start) /\ pc' = pc /\ op' = op
      /\ fd.old # NoPage => /\ Program(fd.old, {"dead"}) /\ pc' = "markNew" /\ Promised' = Promised
                            /\ op'.name = fd.name /\ op'.head = fd.start /\ op'.old = fd.old
  BY PromisedKept DEF MarkWritten, Goto, NoOp, table
<1>2. fd.start \in Page /\ fd.old \in PageOrNo /\ fd.name \in FileName
  BY DEF AssertInv, TypeOK, CallType, Fd
<1>3. /\ Mounted /\ Running /\ Mounted' /\ Running' /\ ~Creating /\ ~Erasing
      /\ ~Creating' /\ ~Filling' /\ ~Erasing' /\ ~Booting' /\ ~Marking'
      /\ pc' \notin {"erase", "creatHeader", "wipeErase", "wipeHeader"}
  BY <1>1 DEF Booting, Running, Erasing, Marking, Mounted, Creating, Filling
<1>4. /\ \A q \in Page, g \in Flag \ {"written", "dead"} : g \in flags'[q] <=> g \in flags[q]
      /\ \A q \in Page, g \in {"written", "dead"} : g \in flags[q] => g \in flags'[q]
      /\ fd.old = NoPage => \A q \in Page : /\ "dead" \in flags'[q] <=> "dead" \in flags[q]
                                            /\ "written" \in flags'[q] => "written" \in flags[q] \/ q = fd.start
      /\ fd.old # NoPage => \A q \in Page : /\ "written" \in flags'[q] <=> "written" \in flags[q]
                                            /\ "dead" \in flags'[q] <=> "dead" \in flags[q] \/ q = fd.old
  <2>1. CASE fd.old = NoPage
    BY <1>1, <1>2, <2>1, CommitWrites DEF Flag
  <2>2. CASE fd.old # NoPage
    <3>1. fd.old \in Slot /\ Program(fd.old, {"dead"})
      BY <1>1, <1>2, <2>2, PageInSlot DEF PageOrNo
    <3>2. \A q \in Page, g \in Flag \ {"dead"} : g \in flags'[q] <=> g \in flags[q]
      BY <3>1, KeepsOthers DEF AssertInv
    <3>3. \A q \in Page : "dead" \in flags'[q] <=> ("dead" \in flags[q] \/ q = fd.old)
      BY <3>1, AddsFlag DEF AssertInv
    <3> QED
      BY <2>2, <3>2, <3>3 DEF Flag
  <2> QED
    BY <2>1, <2>2
<1>5. \A q \in Page : /\ IsFile(q)' <=> IsFile(q)
                      /\ IsLive(q)' <=> IsLive(q)
  BY <1>4 DEF IsFile, IsLive, Flag
<1>6. LinkedIsFile'
  BY <1>1, <1>4, <1>5, SameLinks DEF CommitInv, Flag
<1>7. SUFFICES ASSUME Trusted, Trusted', CommitParts PROVE CommitParts'
  BY <1>1, <1>3, <1>6, RunStep
<1>8. PagesAreOwned'
  <2>1. PICK own \in [Page -> PageOrNo] : IsOwner(own)
    BY <1>7 DEF CommitParts, PagesAreOwned
  <2>2. IsOwner(own)' /\ CallOwns(own)'
    BY <1>1, <1>3, <1>4, <2>1, SameOwner DEF CallOwns, Flag
  <2> QED
    BY <2>2 DEF PagesAreOwned
<1>9. TableAgrees'
  BY <1>1, <1>3, <1>4, <1>5, <1>7 DEF CommitParts, TableAgrees, PageAgrees, Flag
<1>10. NothingLeft'
  BY <1>1, <1>3, <1>4, <1>5, <1>7 DEF CommitParts, NothingLeft, IsComplete, Flag
<1>11. CleanupInOrder' /\ CreatesNew' /\ FillsBlank' /\ ErasesOld'
  BY <1>3 DEF CleanupInOrder, CreatesNew, FillsBlank, ErasesOld
<1>12. /\ IsTemporary(fd.start, fd.name)
       /\ fd.old # NoPage => "written" \in flags[fd.old] /\ IsPrevious(fd.old, fd.name)
       /\ fd.name \in FileName => Versions(fd.name) \subseteq {fd.old}
  BY <1>3, <1>7 DEF CommitParts, OpenIsNew, AssertInv, OpenFiles
<1>13. /\ \A m : m # fd.name => Versions(m)' = Versions(m)
       /\ Versions(fd.name)' \subseteq Versions(fd.name) \cup {fd.start}
       /\ fd.old # NoPage => Versions(fd.name)' = Versions(fd.name)
  BY <1>1, <1>4, <1>12 DEF Versions, IsTemporary
<1>14. \A f \in fds' : /\ f \in fds /\ f.start # fd.start /\ f.name # fd.name
                       /\ f.start \in Page /\ f.old \in PageOrNo
  BY <1>1, <1>3, <1>7
  DEF CommitParts, OpenIsNew, AssertInv, OpenFiles, TypeOK, CallType, Fd
<1>15. OpenIsNew'
  <2>1. \A f \in fds' : IsTemporary(f.start, f.name)'
    BY <1>1, <1>3, <1>4, <1>5, <1>7, <1>14 DEF CommitParts, OpenIsNew, IsTemporary, Flag
  <2>2. \A f \in fds' : f.old # NoPage => "written" \in flags'[f.old]
    BY <1>3, <1>4, <1>7, <1>14 DEF CommitParts, OpenIsNew, PageOrNo
  <2> QED
    BY <1>3, <1>7, <1>13, <1>14, <2>1, <2>2 DEF CommitParts, OpenIsNew
<1>16. CommitsNew'
  <2>1. SUFFICES ASSUME fd.old # NoPage
        PROVE  /\ IsTemporary(fd.start, fd.name)'
               /\ {"written", "dead"} \subseteq flags'[fd.old]
               /\ \A f \in fds' : f.start # fd.start
               /\ fd.name \in FileName => Versions(fd.name)' \subseteq {fd.old}
    BY <1>1 DEF CommitsNew, IsTemporary, IsLive, Versions
  <2> QED
    BY <1>1, <1>2, <1>4, <1>5, <1>12, <1>13, <1>14, <2>1 DEF IsTemporary, Flag, PageOrNo
<1>17. OneOnFlash'
  <2>1. CASE fd.old = NoPage
    <3>1. fd.name \in FileName => \A q \in Versions(fd.name) : "dead" \in flags[q]
      BY <1>12, <2>1, PageIsSome DEF Versions
    <3> QED
      BY <1>1, <1>2, <1>3, <1>7, <1>12, <2>1, <3>1, CommitIsOne DEF CommitParts, IsTemporary
  <2>2. CASE fd.old # NoPage
    BY <1>1, <1>4, <1>7, <2>2 DEF CommitParts, OneOnFlash, IsVersion
  <2> QED
    BY <2>1, <2>2
<1>18. SavedOnFlash'
  <2>1. SUFFICES ASSUME NEW n \in FileName, Promised'[n] # NoPage, ~(pc' = "markNew" /\ op'.name = n)
        PROVE  (IsVersion(Promised[n], n) /\ {"start", "created"} \subseteq flags[Promised[n]])'
    BY DEF SavedOnFlash
  <2>2. n \in FileName
    OBVIOUS
  <2>3. CASE n # fd.name
    <3>1. Promised'[n] = Promised[n] /\ Promised[n] \in Page
      BY <1>1, <1>2, <2>1, <2>2, <2>3, CommitWrites, PromisedIsPage DEF AssertInv
    <3>2. IsVersion(Promised[n], n) /\ {"start", "created"} \subseteq flags[Promised[n]]
      BY <1>1, <1>7, <2>1, <3>1 DEF CommitParts, SavedOnFlash
    <3>3. fd.old # NoPage => Promised[n] # fd.old
      BY <1>12, <2>3, <3>2 DEF IsVersion, IsPrevious
    <3> QED
      BY <1>1, <1>4, <3>1, <3>2, <3>3 DEF IsVersion, Flag
  <2>4. CASE n = fd.name
    <3>1. fd.old = NoPage
      BY <1>1, <2>1, <2>4
    <3>2. Promised'[n] = fd.start /\ "dead" \notin flags[fd.start]
      BY <1>1, <1>2, <2>1, <2>2, <2>4, <3>1, CommitWrites
    <3>3. "written" \in flags'[fd.start] /\ "dead" \notin flags'[fd.start]
      BY <1>1, <1>2, <1>4, <3>1, <3>2, CommitWrites
    <3> QED
      BY <1>1, <1>2, <1>4, <1>12, <2>4, <3>2, <3>3 DEF IsVersion, IsTemporary, IsLive, Flag
  <2> QED
    BY <2>3, <2>4
<1>19. OneInTable'
  <2>1. \A n \in FileName : \A p, q \in Versions(n) : p = q
    BY <1>1, <1>3, <1>7 DEF CommitParts, OneInTable
  <2>2. fd.name \in FileName /\ fd.old = NoPage => Versions(fd.name) = {}
    BY <1>12, PageIsSome DEF Versions
  <2>3. ASSUME NEW n \in FileName, NEW p \in Versions(n)', NEW q \in Versions(n)' PROVE p = q
    BY <1>13, <2>1, <2>2, <2>3
  <2> QED
    BY <2>3 DEF OneInTable
<1> QED
  BY <1>8, <1>9, <1>10, <1>11, <1>15, <1>16, <1>17, <1>18, <1>19 DEF CommitParts

LEMMA MarkNewCommit == AssertInv /\ CommitInv /\ MarkNew => CommitInv'
<1> SUFFICES ASSUME AssertInv, CommitInv, MarkNew PROVE CommitInv'
  OBVIOUS
<1>1. /\ pc = "markNew" /\ Commit(op.name, op.head) /\ StartErase(op.old, op)
      /\ op.head # NoPage /\ op.old # NoPage /\ op.name # NoName
      /\ UNCHANGED <<next, fname, pstate, lastpg, fds, lost>>
  BY DEF MarkNew, table
<1>2. op.head \in Page /\ op.old \in Page /\ op.name \in FileName
  BY <1>1 DEF AssertInv, TypeOK, CallType, Op, PageOrNo
<1>3. /\ pc' = "erase" /\ op'.head = op.old /\ op'.cur = op.old /\ op'.name = op.name
      /\ ~op'.booting /\ IsPrevious(op.old, op.name)
  <2>1. IsPrevious(op.old, op.name) /\ ~op.booting
    BY <1>1 DEF AssertInv, CallInProgress
  <2>2. pc' = "erase" /\ op' = [op EXCEPT !.head = op.old, !.cur = op.old]
    BY <1>1, <2>1 DEF StartErase, IsPrevious, Goto
  <2> QED
    BY <2>1, <2>2 DEF AssertInv, TypeOK, CallType, Op
<1>4. /\ Mounted /\ Running /\ Mounted' /\ Running' /\ ~Creating /\ ~Erasing /\ Erasing'
      /\ ~Creating' /\ ~Filling' /\ ~Booting' /\ ~Marking'
  BY <1>1, <1>3 DEF Booting, Running, Erasing, Marking, Mounted, Creating, Filling
<1>5. /\ \A q \in Page, g \in Flag \ {"written"} : g \in flags'[q] <=> g \in flags[q]
      /\ \A q \in Page : "written" \in flags'[q] <=> ("written" \in flags[q] \/ q = op.head)
      /\ \A m \in FileName : Promised'[m] = IF m # op.name THEN Promised[m]
                                         ELSE IF "dead" \in flags[op.head] THEN NoPage ELSE op.head
      /\ \A q \in Page : /\ IsFile(q)' <=> IsFile(q)
                         /\ IsLive(q)' <=> IsLive(q)
  BY <1>1, <1>2, CommitWrites
<1>6. LinkedIsFile'
  BY <1>1, <1>5, SameLinks DEF CommitInv, Flag
<1>7. SUFFICES ASSUME Trusted, Trusted', CommitParts PROVE CommitParts'
  BY <1>1, <1>3, <1>4, <1>6, RunStep
<1>8. /\ IsTemporary(op.head, op.name)
      /\ {"written", "dead"} \subseteq flags[op.old] /\ op.old # op.head
      /\ \A fd \in fds : fd.start # op.head /\ fd.name # op.name
      /\ op.name \in FileName => Versions(op.name) \subseteq {op.old}
  BY <1>1, <1>4, <1>7 DEF CommitParts, CommitsNew, IsTemporary, AssertInv, OpenFiles
<1>9. IsLive(op.old)
  BY <1>3 DEF IsPrevious, IsLive
<1>10. PagesAreOwned'
  <2>1. PICK own \in [Page -> PageOrNo] : IsOwner(own)
    BY <1>7 DEF CommitParts, PagesAreOwned
  <2>2. IsOwner(own)'
    BY <1>1, <1>5, <2>1, SameOwner DEF Flag
  <2>3. own[op.old] = op.old
    BY <1>2, <1>9, <2>1 DEF IsOwner
  <2>4. CallOwns(own)'
    BY <1>3, <1>4, <2>3 DEF CallOwns
  <2> QED
    BY <2>2, <2>4 DEF PagesAreOwned
<1>11. TableAgrees'
  BY <1>1, <1>4, <1>5, <1>7 DEF CommitParts, TableAgrees, PageAgrees, Flag
<1>12. NothingLeft'
  BY <1>1, <1>4, <1>5, <1>7 DEF CommitParts, NothingLeft, IsComplete, Flag
<1>13. CleanupInOrder' /\ CreatesNew' /\ FillsBlank' /\ CommitsNew'
  BY <1>3, <1>4 DEF CleanupInOrder, CreatesNew, FillsBlank, CommitsNew
<1>14. ErasesOld'
  <2>1. /\ "start" \in flags'[op.old] /\ "deleted" \notin flags'[op.old]
        /\ {"dead", "written"} \subseteq flags'[op.old]
    BY <1>2, <1>5, <1>8, <1>9 DEF IsLive, Flag
  <2> QED
    BY <1>1, <1>3, <2>1 DEF ErasesOld, IsHalfDone, IsLive
<1>15. /\ \A m : m # op.name => Versions(m)' = Versions(m)
       /\ Versions(op.name)' \subseteq Versions(op.name) \cup {op.head}
  <2>1. ASSUME NEW m PROVE /\ m # op.name => Versions(m)' = Versions(m)
                           /\ m = op.name => Versions(m)' \subseteq Versions(m) \cup {op.head}
    BY <1>1, <1>5, <1>8 DEF Versions, IsTemporary
  <2> QED
    BY <1>3, <2>1 DEF Versions
<1>16. OpenIsNew'
  <2>1. \A fd \in fds : fd.start \in Page /\ fd.old \in PageOrNo
    BY DEF AssertInv, TypeOK, CallType, Fd
  <2>2. \A fd \in fds : IsTemporary(fd.start, fd.name)'
    BY <1>1, <1>4, <1>5, <1>7, <1>8, <2>1 DEF CommitParts, OpenIsNew, IsTemporary, Flag
  <2>3. \A fd \in fds : fd.old # NoPage => "written" \in flags'[fd.old]
    BY <1>4, <1>5, <1>7, <2>1 DEF CommitParts, OpenIsNew, PageOrNo
  <2> QED
    BY <1>1, <1>4, <1>7, <1>8, <1>15, <2>2, <2>3 DEF CommitParts, OpenIsNew
<1>17. OneOnFlash'
  <2>1. op.name \in FileName => \A q \in Versions(op.name) : "dead" \in flags[q]
    BY <1>8
  <2> QED
    BY <1>1, <1>2, <1>4, <1>7, <1>8, <2>1, CommitIsOne DEF CommitParts, IsTemporary
<1>18. SavedOnFlash'
  <2>1. SUFFICES ASSUME NEW n \in FileName, Promised'[n] # NoPage
        PROVE  (IsVersion(Promised[n], n) /\ {"start", "created"} \subseteq flags[Promised[n]])'
    BY DEF SavedOnFlash
  <2>2. n \in FileName
    OBVIOUS
  <2>3. CASE n # op.name
    <3>1. Promised'[n] = Promised[n] /\ Promised[n] \in Page
      BY <1>5, <2>1, <2>2, <2>3, PromisedIsPage DEF AssertInv
    <3>2. IsVersion(Promised[n], n) /\ {"start", "created"} \subseteq flags[Promised[n]]
      BY <1>7, <2>1, <2>3, <3>1 DEF CommitParts, SavedOnFlash
    <3> QED
      BY <1>1, <1>5, <3>1, <3>2 DEF IsVersion, Flag
  <2>4. CASE n = op.name
    <3>1. Promised'[n] = op.head /\ "dead" \notin flags[op.head]
      BY <1>5, <2>1, <2>2, <2>4
    <3> QED
      BY <1>1, <1>2, <1>5, <1>8, <2>4, <3>1 DEF IsVersion, IsTemporary, IsLive, Flag
  <2> QED
    BY <2>3, <2>4
<1>19. OneInTable'
  <2>1. \A n \in FileName : \A p, q \in Versions(n) : p = q
    BY <1>1, <1>4, <1>7 DEF CommitParts, OneInTable
  <2>2. ASSUME NEW n \in FileName, NEW p \in Versions(n)', NEW q \in Versions(n)'
        PROVE  p = q \/ op.old \in {p, q}
    <3>1. CASE n = op.name
      <4>1. p \in {op.old, op.head} /\ q \in {op.old, op.head}
        BY <1>3, <1>8, <1>15, <2>2, <3>1 DEF Versions
      <4> QED
        BY <4>1
    <3>2. CASE n # op.name
      BY <1>15, <2>1, <2>2, <3>2
    <3> QED
      BY <3>1, <3>2
  <2> QED
    BY <1>3, <2>2 DEF OneInTable
<1> QED
  BY <1>10, <1>11, <1>12, <1>13, <1>14, <1>16, <1>17, <1>18, <1>19 DEF CommitParts

LEMMA StepCommit == AssertInv /\ CommitInv /\ [Next]_vars => CommitInv'
<1> SUFFICES ASSUME AssertInv, CommitInv, [Next]_vars PROVE CommitInv'
  OBVIOUS
<1>1. CASE Run
  BY <1>1, BootCommit, RecoverCommit, FindGcSectorCommit, GcSentinelCommit, GcHeaderCommit,
     EraseCommit, ErasedCommit, CreatSentinelCommit, CreatHeaderCommit, CreatDoneCommit,
     MarkNewCommit, WipeEraseCommit, WipeHeaderCommit DEF Run
<1>2. CASE Call
  BY <1>2, CreateCommit, MarkWrittenCommit, AbandonCommit, FormatCommit DEF Call
<1>3. CASE Crash
  BY <1>3, CrashCommit
<1>4. CASE UNCHANGED vars
  <2>1. CASE Running
    <3>1. CommitParts => CommitParts'
      <4>1. /\ PagesAreOwned => PagesAreOwned'
            /\ TableAgrees /\ CleanupInOrder /\ NothingLeft
                 => TableAgrees' /\ CleanupInOrder' /\ NothingLeft'
        BY <1>4
        DEF vars, PagesAreOwned, IsOwner, CallOwns, IsLive, IsFile, TableAgrees, PageAgrees,
            CleanupInOrder, CleanedUpTo, IsHalfDone, NothingLeft, IsComplete, Running,
            Booting, Marking, Mounted, Creating, Erasing, Filling
      <4>2. CreatesNew /\ FillsBlank /\ ErasesOld => CreatesNew' /\ FillsBlank' /\ ErasesOld'
        BY <1>4
        DEF vars, CreatesNew, FillsBlank, ErasesOld, Versions, IsFile, IsLive, IsHalfDone,
            Creating, Erasing, Filling
      <4>3. CommitsNew /\ OpenIsNew => CommitsNew' /\ OpenIsNew'
        BY <1>4
        DEF vars, CommitsNew, OpenIsNew, IsTemporary, IsLive, Versions, Mounted, Creating, Erasing
      <4>4. OneOnFlash /\ SavedOnFlash => OneOnFlash' /\ SavedOnFlash'
        BY <1>4, PromisedKept DEF vars, OneOnFlash, SavedOnFlash, IsVersion
      <4>5. OneInTable => OneInTable'
        BY <1>4 DEF vars, OneInTable, Versions, Running, Booting, Marking, Mounted, Creating, Erasing
      <4> QED
        BY <4>1, <4>2, <4>3, <4>4, <4>5 DEF CommitParts
    <3>2. LinkedIsFile' /\ NothingSaved' /\ (Trusted' <=> Trusted)
      BY <1>4, PromisedKept DEF vars, CommitInv, LinkedIsFile, NothingSaved, Trusted, IsFile
    <3> QED
      BY <3>1, <3>2 DEF CommitInv
  <2>2. CASE ~Running
    <3>1. UNCHANGED <<flags, next, fname, lost, pc, Promised>> /\ ~Running'
      BY <1>4, <2>2, PromisedKept DEF vars, Running, Booting, Marking, Mounted, Creating, Erasing
    <3>2. pc # "markNew"
      BY <2>2 DEF Running, Mounted
    <3> QED
      BY <3>1, <3>2, RestStep DEF CommitInv, NothingSaved
  <2> QED
    BY <2>1, <2>2
<1> QED
  BY <1>1, <1>2, <1>3, <1>4 DEF Next

\* What every reachable state of fs.c keeps of committed files, whatever calls,
\* power losses, cleanups and formats led to it, as long as the flash is one
\* whose mounts find what they look for.
THEOREM CommitInvHolds == Spec => []CommitInv
<1>1. Init => CommitInv
  BY InitCommit
<1>2. AssertInv /\ CommitInv /\ [Next]_vars => CommitInv'
  BY StepCommit
<1> QED
  BY <1>1, <1>2, AssertInvHolds, PTL DEF Spec

\* A replaced database keeps the version committed last, never has two, and a
\* mount leaves no file half created or half deleted behind (fs_mark_written
\* and the cleanup of fs_init), for any number of pages, names, open files and
\* power losses.
THEOREM CommitsAtomic == Spec => []CommitsAreAtomic
<1>1. AssertInv /\ CommitInv => CommitsAreAtomic
  <2>1. CASE ReadyState
    BY <2>1, ReadySavedIsFound, ReadyOneVersion, ReadyNothingHalfDone DEF CommitsAreAtomic
  <2>2. CASE ~(pc = "ready" /\ Intact)
    BY <2>2 DEF CommitsAreAtomic, CommittedIsFound, OneVersion, NothingHalfDone
  <2> QED
    BY <2>1, <2>2 DEF ReadyState
<1> QED
  BY <1>1, AssertInvHolds, CommitInvHolds, PTL

\* What fs_find_file returns is a file wholly created and committed, its chain
\* along next_page is of its own continuations, and no two files share a page,
\* however often the pages were given to files abandoned, replaced or recovered.
THEOREM FilesAreWhole == Spec => []FoundFilesAreWhole
<1>1. AssertInv /\ CommitInv => FoundFilesAreWhole
  BY ReadyFilesAreWhole
<1> QED
  BY <1>1, AssertInvHolds, CommitInvHolds, PTL

===============================================================================
