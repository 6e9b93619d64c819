------------------------------- MODULE QArena -------------------------------
(***************************************************************************)
(* The heap of a task: lib/minilib/qalloc.c, called through                *)
(* rcore/rebble_memory.c.  An arena is a row of blocks, each a header and   *)
(* a payload; the size in a header leads to the next.  A call walks the    *)
(* row, one block a step; the mutex of the heap keeps other calls out, and *)
(* `pc' says whether it is taken.                                          *)
(*                                                                         *)
(* Sizes and addresses are counted in words of four bytes.  What is in the *)
(* payloads is left out; where headers are is the point.                   *)
(***************************************************************************)
EXTENDS Integers

CONSTANTS
  Base,     \* sizeof(qarena_t): where the first block begins
  End,      \* where the arena ends
  H,        \* sizeof(qblock_t)
  Request,  \* payload sizes that callers ask for
  Careful   \* callers resize only where SafeResize says that they may

ASSUME SizeAssumption ==
  /\ {Base, End, H} \subseteq Nat /\ H > 0 /\ Base + H <= End
  /\ Request \subseteq Nat \ {0}
  /\ Careful \in BOOLEAN

VARIABLES
  hdr,   \* the headers, by address: size, free flag, and what the cookies say
  pc,    \* idle, or what the call that has the mutex is doing
  at,    \* the block its walk has come to
  call,  \* the call: what for, the old pointer, the size of block it needs
  own,   \* what callers hold: for each block that is theirs, the words they asked for
  up     \* no panic yet

vars == <<hdr, pc, at, call, own, up>>

Addr   == Base .. End - 1
Block  == [size : 0 .. End, free : BOOLEAN, mark : {"free", "alloc"}]
NoCall == [op |-> "none", ptr |-> 0, n |-> 0, want |-> 0]

TypeOK ==
  /\ DOMAIN hdr \subseteq Addr /\ hdr \in [DOMAIN hdr -> Block]
  /\ pc \in {"idle", "find", "join"} /\ at \in Base .. End
  /\ call \in [op : {"none", "malloc", "realloc"}, ptr : Addr \cup {0}, n : Request \cup {0}, want : Nat]
  /\ DOMAIN own \subseteq Addr /\ own \in [DOMAIN own -> Request]
  /\ up \in BOOLEAN

Free(size) == [size |-> size, free |-> TRUE, mark |-> "free"]
After(a)   == a + hdr[a].size

\* Mutant: the block takes the words of the arena's own header too.
Fresh_WholeArena == [a \in {Base} |-> Free(End)]

(* qinit: one free block. *)
Fresh == [a \in {Base} |-> Free(End - Base)]

Init ==
  /\ hdr = Fresh /\ pc = "idle" /\ at = Base /\ call = NoCall
  /\ own = [a \in {} |-> 0] /\ up = TRUE

(* The next application: mem_heap_init makes the mutex anew too. *)
Restart ==
  /\ up /\ hdr' = Fresh /\ pc' = "idle" /\ at' = Base /\ call' = NoCall
  /\ own' = [a \in {} |-> 0] /\ UNCHANGED up
-----------------------------------------------------------------------------
(* qcheck panics when the cookies of a header are not those of its flag;     *)
(* after a panic nothing happens any more.                                   *)
Sane(a)  == hdr[a].free <=> hdr[a].mark = "free"
Check(a) == up' = Sane(a)

(* h with the block at a ended after `size' words and the rest made free;    *)
(* the flags of a are cleared, its cookies stay.                             *)
Split(h, a, size) ==
  [b \in DOMAIN h \cup {a + size} |->
     CASE b = a + size -> Free(h[a].size - size)
       [] b = a        -> [h[a] EXCEPT !.size = size, !.free = FALSE]
       [] OTHER        -> h[b]]

Taken(h, a)    == [h EXCEPT ![a].free = FALSE, ![a].mark = "alloc"]

Released(h, a) == [h EXCEPT ![a].free = TRUE, ![a].mark = "free"]
Drop(f, a)     == [b \in DOMAIN f \ {a} |-> f[b]]
Put(f, a, n)   == [b \in DOMAIN f \cup {a} |-> IF b = a THEN n ELSE f[b]]

Calling(op, p, n, want) ==
  /\ call' = [op |-> op, ptr |-> p, n |-> n, want |-> want]
  /\ pc' = "find" /\ at' = Base

Joining  == pc' = "join" /\ at' = Base /\ call' = NoCall
Return   == pc' = "idle" /\ at' = Base /\ call' = NoCall

\* Mutant: the header is not counted in the size of the block.
Malloc_NoHeader(n) ==
  /\ up /\ pc = "idle" /\ Calling("malloc", 0, n, n) /\ UNCHANGED <<hdr, own, up>>

(* malloc is a realloc of NULL, and qrealloc passes a size with the header    *)
(* on to qalloc, which adds another.                                         *)
Malloc(n) ==
  /\ up /\ pc = "idle" /\ Calling("malloc", 0, n, n + 2 * H) /\ UNCHANGED <<hdr, own, up>>
-----------------------------------------------------------------------------
(* qalloc: the first free block of exactly the size, or with room for one     *)
(* more header behind it.                                                    *)
Suits(a, want) == hdr[a].free /\ (hdr[a].size = want \/ hdr[a].size >= want + H)

FindOn ==
  /\ up /\ pc = "find" /\ at < End /\ Check(at) /\ ~Suits(at, call.want)
  /\ at' = After(at) /\ UNCHANGED <<hdr, pc, call, own>>

Carved ==
  Taken(IF hdr[at].size > call.want THEN Split(hdr, at, call.want) ELSE hdr, at)

(* qrealloc copies what the old block held into the new one and frees it;     *)
(* its second qjoin finds nothing left to join.                              *)
FindTake ==
  /\ up /\ pc = "find" /\ at < End /\ Suits(at, call.want)
  /\ \/ /\ call.op = "malloc" /\ Check(at)
        /\ hdr' = Carved /\ own' = Put(own, at, call.n) /\ Return
     \/ /\ call.op = "realloc" /\ up' = (Sane(at) /\ Sane(call.ptr) /\ ~hdr[call.ptr].free)
        /\ hdr' = Released(Carved, call.ptr)
        /\ own' = Put(Drop(own, call.ptr), at, call.n) /\ Joining

(* NULL; a block that was to be resized stays as it was. *)
FindNone ==
  /\ up /\ pc = "find" /\ at >= End /\ Return /\ UNCHANGED <<hdr, own, up>>

Find == FindOn \/ FindTake \/ FindNone
-----------------------------------------------------------------------------
(* qjoin: each free block takes in the free blocks behind it. *)
Joinable(a) == After(a) < End /\ hdr[a].free /\ hdr[After(a)].free

\* Mutant: the walk goes on after two blocks are joined, whatever is behind them.
JoinTwo_OnlyTwo ==
  /\ up /\ pc = "join" /\ at < End /\ Check(at) /\ Joinable(at)
  /\ hdr' = Drop([hdr EXCEPT ![at].size = @ + hdr[After(at)].size], After(at))
  /\ at' = After(After(at)) /\ UNCHANGED <<pc, call, own>>

JoinTwo ==
  /\ up /\ pc = "join" /\ at < End /\ Check(at) /\ Joinable(at)
  /\ hdr' = Drop([hdr EXCEPT ![at].size = @ + hdr[After(at)].size], After(at))
  /\ UNCHANGED <<pc, at, call, own>>

JoinOn ==
  /\ up /\ pc = "join" /\ at < End /\ Check(at) /\ ~Joinable(at)
  /\ at' = After(at) /\ UNCHANGED <<hdr, pc, call, own>>

JoinDone ==
  /\ up /\ pc = "join" /\ at >= End /\ Return /\ UNCHANGED <<hdr, own, up>>

Join == JoinTwo \/ JoinOn \/ JoinDone

(* qfree; a free block is a second call for the same pointer. *)
Release(p) ==
  /\ up /\ pc = "idle" /\ p \in DOMAIN own
  /\ up' = (Sane(p) /\ ~hdr[p].free)
  /\ hdr' = Released(hdr, p) /\ own' = Drop(own, p) /\ Joining
-----------------------------------------------------------------------------
(* qrealloc of a block.  It takes what it lacks from the block behind if that *)
(* is large enough, free or not, and what it leaves over may be too small for *)
(* the header it puts there.  SafeResize is when neither happens.             *)
SafeResize(p, want) ==
  \/ want = hdr[p].size
  \/ want + H <= hdr[p].size
  \/ /\ want > hdr[p].size /\ After(p) < End
     /\ LET lacks == want - hdr[p].size
            room  == hdr[After(p)].size
        IN  room < lacks \/ (hdr[After(p)].free /\ room >= lacks + H)

Resizing(p, n) == up /\ pc = "idle" /\ p \in DOMAIN own /\ (Careful => SafeResize(p, n + H))

ResizeSame(p, n) ==
  /\ Resizing(p, n) /\ n + H = hdr[p].size
  /\ own' = Put(own, p, n) /\ UNCHANGED <<hdr, pc, at, call, up>>

ResizeLess(p, n) ==
  /\ Resizing(p, n) /\ n + H < hdr[p].size
  /\ hdr' = Taken(Split(hdr, p, n + H), p)
  /\ own' = Put(own, p, n) /\ Joining /\ UNCHANGED up

Resized(h, a, size) == [h EXCEPT ![a].size = size, ![a].free = FALSE]

(* What is behind the last block is no block; the word there may say that    *)
(* there is room.                                                            *)
Grown(p, want) ==
  IF After(p) = End THEN Resized(hdr, p, want)
  ELSE Resized(Drop(Split(hdr, After(p), want - hdr[p].size), After(p)), p, want)

ResizeInPlace(p, n) ==
  /\ Resizing(p, n) /\ n + H > hdr[p].size
  /\ After(p) < End => hdr[After(p)].size >= n + H - hdr[p].size
  /\ hdr' = Grown(p, n + H)
  /\ own' = Put(own, p, n) /\ UNCHANGED <<pc, at, call, up>>

ResizeElsewhere(p, n) ==
  /\ Resizing(p, n) /\ n + H > hdr[p].size
  /\ After(p) < End => hdr[After(p)].size < n + H - hdr[p].size
  /\ Calling("realloc", p, n, n + 2 * H) /\ UNCHANGED <<hdr, own, up>>

Realloc(p, n) ==
  \/ ResizeSame(p, n) \/ ResizeLess(p, n) \/ ResizeInPlace(p, n) \/ ResizeElsewhere(p, n)

Next ==
  \/ Restart
  \/ \E n \in Request : Malloc(n)
  \/ \E p \in DOMAIN own : Release(p)
  \/ \E p \in DOMAIN own, n \in Request : Realloc(p, n)
  \/ Find \/ Join

Spec == Init /\ [][Next]_vars
-----------------------------------------------------------------------------
(* Properties of callers that are careful. *)

(* The blocks fill the arena without a gap: a walk that starts at the first  *)
(* meets every header and nothing else, and ends exactly at the end.  This   *)
(* is what every loop of qalloc.c relies on.                                 *)
BlocksTile ==
  /\ Base \in DOMAIN hdr
  /\ \A a \in DOMAIN hdr : hdr[a].size >= H /\ (After(a) = End \/ After(a) \in DOMAIN hdr)
  /\ \A a, b \in DOMAIN hdr : a < b => After(a) <= b

(* Exactly the blocks of callers are taken, and each has the words that were  *)
(* asked for: nobody's block is free, and nothing is lost.                    *)
TakenIsOwned ==
  /\ DOMAIN own = {a \in DOMAIN hdr : ~hdr[a].free}
  /\ \A a \in DOMAIN own : own[a] + H <= hdr[a].size

(* Between calls no two free blocks lie side by side, so that a request finds *)
(* all the room there is in one place (qjoin).                                *)
Coalesced == pc = "idle" => \A a \in DOMAIN hdr : ~Joinable(a)

(* The checks of qcheck and qfree never panic. *)
NoPanic == up

(* So the arena stands, after any number of calls.                            *)
ArenaStands == BlocksTile /\ TakenIsOwned /\ Coalesced /\ NoPanic

(* What the callers see: pointers whose words are nobody else's, from call to *)
(* call.                                                                      *)
Pointers == [p \in {a + H : a \in DOMAIN own} |-> own[p - H]]
Store    == INSTANCE Heap WITH live <- Pointers
IsAHeap  == Store!Spec

(* "there is a free block after. Lets take what we need" (qalloc.c:149): a    *)
(* block that grows where it is leaves the headers of the others alone.       *)
HeadersStand == DOMAIN own \subseteq DOMAIN hdr
=============================================================================
