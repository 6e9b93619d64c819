---------------------------- MODULE QArenaProofs ----------------------------
(***************************************************************************)
(* Theorems about QArena for every size of arena, header and request, and  *)
(* callers that resize only where SafeResize says that they may.           *)
(*                                                                         *)
(* The inductive invariant is Inv: the blocks tile the arena, the taken    *)
(* ones are those that callers own, and the walk of a call in progress has *)
(* come to a header or to the end.  The lemmas before it say of each       *)
(* change to the row of blocks that it leaves a row of blocks.             *)
(***************************************************************************)
EXTENDS QArena, TLAPS

(* h is a row of blocks that fills the arena. *)
Good(h) ==
  /\ h \in [DOMAIN h -> Block] /\ DOMAIN h \subseteq Addr
  /\ Base \in DOMAIN h
  /\ \A a \in DOMAIN h : h[a].size >= H
  /\ \A a \in DOMAIN h : a + h[a].size = End \/ a + h[a].size \in DOMAIN h
  /\ \A a, b \in DOMAIN h : a < b => a + h[a].size <= b

(* No two free blocks lie side by side in h, before the address x. *)
Apart(h, x) == \A a \in DOMAIN h :
  a < x /\ a + h[a].size < End => ~(h[a].free /\ h[a + h[a].size].free)

Marked(h) == \A a \in DOMAIN h : h[a].free <=> h[a].mark = "free"

Owned(h, o) ==
  /\ DOMAIN o = {a \in DOMAIN h : ~h[a].free}
  /\ \A a \in DOMAIN o : o[a] + H <= h[a].size

CallOK ==
  /\ pc = "idle" => call = NoCall /\ at = Base
  /\ pc = "find" => /\ call.op \in {"malloc", "realloc"} /\ call.n \in Request
                    /\ call.want = call.n + 2 * H
                    /\ call.op = "realloc" => call.ptr \in DOMAIN own
  /\ at \in DOMAIN hdr \cup {End}

Inv ==
  /\ TypeOK /\ Good(hdr) /\ Marked(hdr) /\ Owned(hdr, own) /\ CallOK /\ up
  /\ IF pc = "join" THEN Apart(hdr, at) ELSE Apart(hdr, End)

(* k is h with another block at a. *)
Changed(k, h, a, blk) == DOMAIN k = DOMAIN h /\ k[a] = blk /\ \A b \in DOMAIN h \ {a} : k[b] = h[b]

(* s is h with the block at a split after `size' words. *)
IsSplit(s, h, a, size) ==
  /\ DOMAIN s = DOMAIN h \cup {a + size} /\ a + size \notin DOMAIN h
  /\ s[a + size] = Free(h[a].size - size)
  /\ s[a] = [h[a] EXCEPT !.size = size, !.free = FALSE]
  /\ \A b \in DOMAIN h \ {a} : s[b] = h[b]

(* k is h with the block at a and the one behind it made one. *)
Joined(h, a)    == Drop([h EXCEPT ![a].size = @ + h[a + h[a].size].size], a + h[a].size)
IsJoin(k, h, a) ==
  /\ DOMAIN k = DOMAIN h \ {a + h[a].size} /\ a \in DOMAIN k
  /\ k[a] = [h[a] EXCEPT !.size = @ + h[a + h[a].size].size]
  /\ \A b \in DOMAIN k \ {a} : k[b] = h[b]

(* k is h with the block at a grown into the one behind it. *)
GrownBy(h, a, lacks) ==
  Resized(Drop(Split(h, a + h[a].size, lacks), a + h[a].size), a, h[a].size + lacks)
IsGrown(k, h, a, lacks) ==
  LET n == a + h[a].size IN
  /\ DOMAIN k = (DOMAIN h \ {n}) \cup {n + lacks} /\ n + lacks \notin DOMAIN h
  /\ k[n + lacks] = Free(h[n].size - lacks)
  /\ a \in DOMAIN k /\ k[a] = [h[a] EXCEPT !.size = h[a].size + lacks, !.free = FALSE]
  /\ \A b \in DOMAIN h \ {a, n} : k[b] = h[b]

-----------------------------------------------------------------------------
(* The end of a block is not before the next header. *)
LEMMA SplitIsGood ==
  ASSUME SizeAssumption, NEW h, Good(h), NEW a \in DOMAIN h, NEW size \in Nat,
         size >= H, h[a].size >= size + H
  PROVE  Good(Split(h, a, size)) /\ IsSplit(Split(h, a, size), h, a, size)
<1> DEFINE s == Split(h, a, size)
<1>0. /\ H \in Nat /\ H > 0 /\ Base \in Nat /\ End \in Nat
      /\ \A b \in DOMAIN h : b \in Nat /\ b >= Base /\ b < End /\ h[b].size \in 0 .. End /\ h[b].free \in BOOLEAN
  BY DEF SizeAssumption, Good, Block, Addr
<1>1. a + size \notin DOMAIN h
  BY <1>0 DEF Good
<1>2. a + h[a].size <= End
  BY <1>0 DEF Good, Addr
<1>3. DOMAIN s = DOMAIN h \cup {a + size}
  BY DEF Split
<1>4. s[a + size] = Free(h[a].size - size)
  BY <1>0, <1>1 DEF Split
<1>5. s[a] = [h[a] EXCEPT !.size = size, !.free = FALSE]
  BY <1>0 DEF Split
<1>6. \A b \in DOMAIN h \ {a} : s[b] = h[b]
  BY <1>1 DEF Split
<1>7. /\ s[a + size].size = h[a].size - size /\ s[a].size = size
      /\ \A b \in DOMAIN h \ {a} : s[b].size = h[b].size
  BY <1>0, <1>4, <1>5, <1>6 DEF Free, Good, Block
<1>8. s \in [DOMAIN s -> Block]
  <2>1. \A b \in DOMAIN s : s[b] \in Block
    <3> SUFFICES ASSUME NEW b \in DOMAIN s PROVE s[b] \in Block OBVIOUS
    <3>1. CASE b = a + size BY <3>1, <1>0, <1>4 DEF Free, Block
    <3>2. CASE b = a
      <4>1. h[a] \in Block BY DEF Good
      <4>2. size \in 0 .. End BY <1>0
      <4> QED BY <3>2, <4>1, <4>2, <1>5 DEF Block
    <3>3. CASE b \in DOMAIN h \ {a} BY <3>3, <1>6 DEF Good
    <3> QED BY <3>1, <3>2, <3>3, <1>3
  <2> QED BY <2>1 DEF Split
<1>9. DOMAIN s \subseteq Addr
  BY <1>0, <1>2, <1>3 DEF Addr
<1>10. \A b \in DOMAIN s : s[b].size >= H /\ (b + s[b].size = End \/ b + s[b].size \in DOMAIN s)
  <2> SUFFICES ASSUME NEW b \in DOMAIN s
               PROVE  s[b].size >= H /\ (b + s[b].size = End \/ b + s[b].size \in DOMAIN s)
    OBVIOUS
  <2>1. CASE b = a + size BY <2>1, <1>0, <1>3, <1>7 DEF Good
  <2>2. CASE b = a BY <2>2, <1>0, <1>3, <1>7 DEF Good
  <2>3. CASE b \in DOMAIN h \ {a} BY <2>3, <1>0, <1>3, <1>7 DEF Good
  <2> QED BY <2>1, <2>2, <2>3, <1>3
<1>11. \A b, c \in DOMAIN s : b < c => b + s[b].size <= c
  <2> SUFFICES ASSUME NEW b \in DOMAIN s, NEW c \in DOMAIN s, b < c PROVE b + s[b].size <= c
    OBVIOUS
  <2>1. CASE b = a + size BY <2>1, <1>0, <1>3, <1>7 DEF Good
  <2>2. CASE b = a BY <2>2, <1>0, <1>3, <1>7 DEF Good
  <2>3. CASE b \in DOMAIN h \ {a} BY SMTT(60), <2>3, <1>0, <1>3, <1>7 DEF Good
  <2> QED BY <2>1, <2>2, <2>3, <1>3
<1>12. Base \in DOMAIN s
  BY <1>3 DEF Good
<1>13. Good(s)
  BY <1>8, <1>9, <1>10, <1>11, <1>12 DEF Good
<1>14. IsSplit(s, h, a, size)
  BY <1>1, <1>3, <1>4, <1>5, <1>6 DEF IsSplit
<1> QED BY <1>13, <1>14

(* Flags and cookies do not move headers. *)
LEMMA SameSizesIsGood ==
  ASSUME NEW h, NEW k, Good(h), k \in [DOMAIN h -> Block], \A a \in DOMAIN h : k[a].size = h[a].size
  PROVE  Good(k)
BY DEF Good

LEMMA TakenReleased ==
  ASSUME NEW h, Good(h), NEW a \in DOMAIN h
  PROVE  /\ Good(Taken(h, a)) /\ Good(Released(h, a))
         /\ Changed(Taken(h, a), h, a, [size |-> h[a].size, free |-> FALSE, mark |-> "alloc"])
         /\ Changed(Released(h, a), h, a, [size |-> h[a].size, free |-> TRUE, mark |-> "free"])
<1> USE DEF Taken, Released
<1>1. h \in [DOMAIN h -> Block] BY DEF Good
<1>2. /\ DOMAIN Taken(h, a) = DOMAIN h /\ DOMAIN Released(h, a) = DOMAIN h
      /\ Taken(h, a)[a] = [size |-> h[a].size, free |-> FALSE, mark |-> "alloc"]
      /\ Released(h, a)[a] = [size |-> h[a].size, free |-> TRUE, mark |-> "free"]
      /\ \A b \in DOMAIN h \ {a} : Taken(h, a)[b] = h[b] /\ Released(h, a)[b] = h[b]
  BY <1>1 DEF Block
<1>3. Taken(h, a) \in [DOMAIN h -> Block] /\ Released(h, a) \in [DOMAIN h -> Block]
  BY <1>1 DEF Block
<1>4. \A b \in DOMAIN h : Taken(h, a)[b].size = h[b].size /\ Released(h, a)[b].size = h[b].size
  BY <1>2
<1>5. Good(Taken(h, a)) BY <1>3, <1>4, SameSizesIsGood
<1>6. Good(Released(h, a)) BY <1>3, <1>4, SameSizesIsGood
<1>7. Changed(Taken(h, a), h, a, [size |-> h[a].size, free |-> FALSE, mark |-> "alloc"])
  BY <1>2 DEF Changed
<1>8. Changed(Released(h, a), h, a, [size |-> h[a].size, free |-> TRUE, mark |-> "free"])
  BY <1>2 DEF Changed
<1> QED BY <1>5, <1>6, <1>7, <1>8

(* The walk that qjoin does: a block takes in the one behind it. *)
LEMMA JoinIsGood ==
  ASSUME SizeAssumption, NEW h, Good(h), NEW a \in DOMAIN h, a + h[a].size \in DOMAIN h
  PROVE  Good(Joined(h, a)) /\ IsJoin(Joined(h, a), h, a)
<1> DEFINE k == Joined(h, a)
<1> DEFINE n == a + h[a].size
<1>0. /\ H \in Nat /\ H > 0 /\ Base \in Nat /\ End \in Nat
      /\ \A b \in DOMAIN h : b \in Nat /\ b >= Base /\ b < End /\ h[b].size \in 0 .. End /\ h[b].size > 0
  BY DEF SizeAssumption, Good, Block, Addr
<1>1. n > a /\ n \in DOMAIN h
  BY <1>0
<1>2. DOMAIN k = DOMAIN h \ {n} /\ a \in DOMAIN k
  BY <1>0, <1>1 DEF Drop, Joined
<1>3. k[a] = [h[a] EXCEPT !.size = @ + h[n].size] /\ \A b \in DOMAIN k \ {a} : k[b] = h[b]
  BY <1>0, <1>1, <1>2 DEF Drop, Joined
<1>4. n + h[n].size <= End /\ (n + h[n].size = End \/ n + h[n].size \in DOMAIN h)
  BY <1>0, <1>1 DEF Good
<1>5. /\ k[a].size = h[a].size + h[n].size
      /\ \A b \in DOMAIN k \ {a} : k[b].size = h[b].size
  BY <1>0, <1>3 DEF Good, Block
<1>6. k \in [DOMAIN k -> Block]
  <2>1. h[a] \in Block /\ h[a].size + h[n].size \in 0 .. End
    BY <1>0, <1>1, <1>4 DEF Good
  <2>2. k[a] \in Block
    BY <2>1, <1>3 DEF Block
  <2>3. \A b \in DOMAIN k : k[b] \in Block
    BY <2>2, <1>2, <1>3 DEF Good
  <2>4. k = [b \in DOMAIN k |-> k[b]]
    BY DEF Drop, Joined
  <2> QED BY <2>3, <2>4
<1>7. \A b \in DOMAIN k : k[b].size >= H /\ (b + k[b].size = End \/ b + k[b].size \in DOMAIN k)
  <2>1. k[a].size >= H /\ (a + k[a].size = End \/ a + k[a].size \in DOMAIN k)
    BY <1>0, <1>1, <1>2, <1>4, <1>5 DEF Good
  <2>2. ASSUME NEW b \in DOMAIN k \ {a}
        PROVE  k[b].size >= H /\ (b + k[b].size = End \/ b + k[b].size \in DOMAIN k)
    <3>1. b \in DOMAIN h /\ b # a BY <1>2
    <3>2. b + h[b].size # n BY SMTT(60), <3>1, <1>0, <1>1 DEF Good
    <3> QED BY <3>1, <3>2, <1>0, <1>2, <1>5 DEF Good
  <2> QED BY <2>1, <2>2
<1>8. \A b, c \in DOMAIN k : b < c => b + k[b].size <= c
  <2> SUFFICES ASSUME NEW b \in DOMAIN k, NEW c \in DOMAIN k, b < c PROVE b + k[b].size <= c
    OBVIOUS
  <2>1. CASE b = a
    <3>1. n < c BY SMTT(60), <2>1, <1>0, <1>1, <1>2 DEF Good
    <3> QED BY <3>1, <2>1, <1>0, <1>1, <1>2, <1>5 DEF Good
  <2>2. CASE b # a BY <2>2, <1>0, <1>2, <1>5 DEF Good
  <2> QED BY <2>1, <2>2
<1>9. DOMAIN k \subseteq Addr /\ Base \in DOMAIN k
  BY <1>0, <1>1, <1>2 DEF Good
<1>10. Good(k)
  BY <1>6, <1>7, <1>8, <1>9 DEF Good
<1> QED BY <1>2, <1>3, <1>10 DEF IsJoin

(* A block grows into the free block behind it, which leaves room for a header. *)
LEMMA GrowIsGood ==
  ASSUME SizeAssumption, NEW h, Good(h), NEW a \in DOMAIN h, a + h[a].size \in DOMAIN h,
         NEW lacks \in Nat, lacks > 0, h[a + h[a].size].size >= lacks + H
  PROVE  Good(GrownBy(h, a, lacks)) /\ IsGrown(GrownBy(h, a, lacks), h, a, lacks)
<1> DEFINE k == GrownBy(h, a, lacks)
<1> DEFINE n == a + h[a].size
           r == n + lacks
<1>0. /\ H \in Nat /\ H > 0 /\ Base \in Nat /\ End \in Nat
      /\ \A b \in DOMAIN h : b \in Nat /\ b >= Base /\ b < End /\ h[b].size \in 0 .. End /\ h[b].size > 0
  BY DEF SizeAssumption, Good, Block, Addr
<1>1. n > a /\ n \in DOMAIN h /\ r \in Nat /\ r > n /\ r < n + h[n].size
  BY <1>0
<1>2. r \notin DOMAIN h
  BY <1>0, <1>1 DEF Good
<1>3. n + h[n].size <= End /\ (n + h[n].size = End \/ n + h[n].size \in DOMAIN h)
  BY <1>0, <1>1 DEF Good
<1> DEFINE t == Split(h, n, lacks)
<1>3a. /\ DOMAIN t = DOMAIN h \cup {r}
       /\ t[r] = Free(h[n].size - lacks) /\ \A b \in DOMAIN h \ {n} : t[b] = h[b]
  BY <1>1, <1>2 DEF Split
<1>3b. k = [b \in (DOMAIN h \ {n}) \cup {r} |->
              IF b = a THEN [t[a] EXCEPT !.size = h[a].size + lacks, !.free = FALSE] ELSE t[b]]
  BY <1>1, <1>2, <1>3a DEF Drop, GrownBy, Resized
<1>4. DOMAIN k = (DOMAIN h \ {n}) \cup {r} /\ a \in DOMAIN k
  BY <1>0, <1>1, <1>3b
<1>5. k[r] = Free(h[n].size - lacks)
  BY <1>0, <1>1, <1>2, <1>3a, <1>3b
<1>6. k[a] = [h[a] EXCEPT !.size = h[a].size + lacks, !.free = FALSE]
  <2>1. a \in DOMAIN h \ {n} BY <1>0, <1>1
  <2>2. t[a] = h[a] BY <2>1, <1>3a
  <2>3. k[a] = [t[a] EXCEPT !.size = h[a].size + lacks, !.free = FALSE] BY <2>1, <1>3b
  <2> QED BY <2>2, <2>3
<1>7. \A b \in DOMAIN h \ {a, n} : k[b] = h[b]
  BY <1>3a, <1>3b
<1>8. /\ k[r].size = h[n].size - lacks /\ k[a].size = h[a].size + lacks
      /\ \A b \in DOMAIN h \ {a, n} : k[b].size = h[b].size
  <2>1. h[a] = [size |-> h[a].size, free |-> h[a].free, mark |-> h[a].mark]
    BY DEF Good, Block
  <2>2. k[a].size = h[a].size + lacks BY <2>1, <1>6
  <2>3. k[r].size = h[n].size - lacks BY <1>5 DEF Free
  <2> QED BY <2>2, <2>3, <1>7
<1>9. k \in [DOMAIN k -> Block] /\ DOMAIN k \subseteq Addr
  <2>1. h[a] \in Block /\ h[a].size + lacks \in 0 .. End /\ h[n].size - lacks \in 0 .. End /\ r < End
    BY <1>0, <1>1, <1>3 DEF Good
  <2>2. k[a] \in Block
    BY <2>1, <1>6 DEF Block
  <2>3. k[r] \in Block
    <3>1. k[r] = [size |-> h[n].size - lacks, free |-> TRUE, mark |-> "free"] BY <1>5 DEF Free
    <3>2. h[n].size - lacks \in 0 .. End BY <2>1
    <3>3. \A x \in 0 .. End : [size |-> x, free |-> TRUE, mark |-> "free"] \in Block
      BY DEF Block
    <3> QED BY ONLY <3>1, <3>2, <3>3
  <2>4. \A b \in DOMAIN k : k[b] \in Block
    BY <2>2, <2>3, <1>4, <1>7 DEF Good
  <2>5. k = [b \in DOMAIN k |-> k[b]]
    BY DEF Drop, GrownBy, Resized
  <2>6. DOMAIN k \subseteq Addr
    BY <2>1, <1>0, <1>1, <1>4 DEF Addr
  <2> QED BY <2>4, <2>5, <2>6
<1>10. \A b \in DOMAIN k : k[b].size >= H /\ (b + k[b].size = End \/ b + k[b].size \in DOMAIN k)
  <2> SUFFICES ASSUME NEW b \in DOMAIN k
               PROVE  k[b].size >= H /\ (b + k[b].size = End \/ b + k[b].size \in DOMAIN k)
    OBVIOUS
  <2>1. CASE b = r BY <2>1, <1>0, <1>1, <1>3, <1>4, <1>8 DEF Good
  <2>2. CASE b = a BY <2>2, <1>0, <1>1, <1>4, <1>8 DEF Good
  <2>3. CASE b \in DOMAIN h \ {a, n}
    <3>1. b + h[b].size # n BY SMTT(60), <2>3, <1>0, <1>1 DEF Good
    <3> QED BY <3>1, <2>3, <1>0, <1>4, <1>8 DEF Good
  <2> QED BY <2>1, <2>2, <2>3, <1>4
<1>11. \A b, c \in DOMAIN k : b < c => b + k[b].size <= c
  <2> SUFFICES ASSUME NEW b \in DOMAIN k, NEW c \in DOMAIN k, b < c PROVE b + k[b].size <= c
    OBVIOUS
  <2>1. CASE b = r BY <2>1, <1>0, <1>1, <1>4, <1>8 DEF Good
  <2>2. CASE b = a
    <3>1. c # r => c \in DOMAIN h /\ c > n BY <2>2, <1>0, <1>1, <1>4 DEF Good
    <3>2. c # r => n + h[n].size <= c BY <3>1, <1>1 DEF Good
    <3>3. c >= r BY <3>1, <3>2, <1>0, <1>1, <1>4
    <3> QED BY <3>3, <2>2, <1>0, <1>1, <1>8
  <2>3. CASE b \in DOMAIN h \ {a, n} /\ c = r
    <3>1. b < n BY <2>3, <1>0, <1>1 DEF Good
    <3> QED BY <3>1, <2>3, <1>0, <1>1, <1>8 DEF Good
  <2>4. CASE b \in DOMAIN h \ {a, n} /\ c # r BY <2>4, <1>0, <1>4, <1>8 DEF Good
  <2> QED BY <2>1, <2>2, <2>3, <2>4, <1>4
<1>12. Good(k)
  BY <1>0, <1>1, <1>4, <1>9, <1>10, <1>11 DEF Good
<1>13. IsGrown(k, h, a, lacks)
  BY <1>1, <1>2, <1>4, <1>5, <1>6, <1>7 DEF IsGrown
<1> QED BY <1>12, <1>13

(* qalloc takes a free block, and what it leaves over is not beside another.  *)
LEMMA CarvedIsGood ==
  ASSUME SizeAssumption, NEW h, Good(h), Marked(h), Apart(h, End),
         NEW a \in DOMAIN h, h[a].free, NEW want \in Nat, want >= H,
         h[a].size = want \/ h[a].size >= want + H,
         NEW c, c = Taken(IF h[a].size > want THEN Split(h, a, want) ELSE h, a)
  PROVE  /\ Good(c) /\ Marked(c) /\ Apart(c, End) /\ DOMAIN h \subseteq DOMAIN c
         /\ c[a] = [size |-> want, free |-> FALSE, mark |-> "alloc"]
         /\ \A b \in DOMAIN h \ {a} : c[b] = h[b]
         /\ \A b \in DOMAIN c \ DOMAIN h : c[b].free
<1>0. /\ H \in Nat /\ H > 0 /\ End \in Nat
      /\ \A b \in DOMAIN h : b \in Nat /\ b < End /\ h[b].size \in 0 .. End /\ h[b].size > 0
      /\ \A b \in DOMAIN h : h[b].free \in BOOLEAN
  BY DEF SizeAssumption, Good, Block, Addr
<1>1. CASE h[a].size = want
  <2>1. c = Taken(h, a) BY <1>1, <1>0
  <2>2. /\ Good(c) /\ DOMAIN c = DOMAIN h
        /\ c[a] = [size |-> want, free |-> FALSE, mark |-> "alloc"]
        /\ \A b \in DOMAIN h \ {a} : c[b] = h[b]
    <3>1. Good(Taken(h, a)) /\ Changed(Taken(h, a), h, a, [size |-> h[a].size, free |-> FALSE, mark |-> "alloc"])
      BY TakenReleased
    <3> QED BY <3>1, <2>1, <1>1 DEF Changed
  <2>3. Marked(c) BY <2>2 DEF Marked
  <2>4. Apart(c, End)
    <3> SUFFICES ASSUME NEW b \in DOMAIN c, b + c[b].size < End, c[b].free, c[b + c[b].size].free
                 PROVE  FALSE
      BY DEF Apart
    <3>1. b # a /\ c[b] = h[b] BY <2>2
    <3>2. b + h[b].size \in DOMAIN h /\ b + h[b].size # a BY <3>1, <2>2, <1>0 DEF Good
    <3> QED BY <3>1, <3>2, <2>2, <1>0 DEF Apart
  <2> QED BY <2>2, <2>3, <2>4
<1>2. CASE h[a].size >= want + H
  <2> DEFINE s == Split(h, a, want)
             r == a + want
  <2>1. c = Taken(s, a) /\ want \in 0 .. End /\ r \in Nat /\ r # a BY <1>2, <1>0
  <2>2. /\ Good(s) /\ DOMAIN s = DOMAIN h \cup {r} /\ r \notin DOMAIN h
        /\ s[r] = Free(h[a].size - want)
        /\ s[a] = [h[a] EXCEPT !.size = want, !.free = FALSE]
        /\ \A b \in DOMAIN h \ {a} : s[b] = h[b]
    <3>1. Good(s) /\ IsSplit(s, h, a, want)
      BY <1>2, SplitIsGood
    <3> QED BY <3>1 DEF IsSplit
  <2>3. s[a].size = want
    <3>1. h[a] = [size |-> h[a].size, free |-> h[a].free, mark |-> h[a].mark] BY DEF Good, Block
    <3> QED BY <3>1, <2>2
  <2>4. /\ Good(c) /\ DOMAIN c = DOMAIN s
        /\ c[a] = [size |-> want, free |-> FALSE, mark |-> "alloc"]
        /\ \A b \in DOMAIN s \ {a} : c[b] = s[b]
    <3>1. Good(Taken(s, a)) /\ Changed(Taken(s, a), s, a, [size |-> s[a].size, free |-> FALSE, mark |-> "alloc"])
      BY <2>2, TakenReleased
    <3> QED BY <3>1, <2>1, <2>3 DEF Changed
  <2>5. /\ c[r] = [size |-> h[a].size - want, free |-> TRUE, mark |-> "free"]
        /\ \A b \in DOMAIN h \ {a} : c[b] = h[b]
    BY <2>1, <2>2, <2>4 DEF Free
  <2>6. Marked(c)
    <3>1. \A b \in DOMAIN c : b = a \/ b = r \/ b \in DOMAIN h \ {a} BY <2>2, <2>4
    <3> QED BY <3>1, <2>4, <2>5 DEF Marked
  <2>7. Apart(c, End)
    <3> SUFFICES ASSUME NEW b \in DOMAIN c, b + c[b].size < End, c[b].free, c[b + c[b].size].free
                 PROVE  FALSE
      BY DEF Apart
    <3>1. b # a BY <2>4
    <3>2. CASE b = r
      <4>1. r + c[r].size = a + h[a].size BY <2>5, <1>0, <2>1
      <4>2. a + h[a].size \in DOMAIN h \ {a} BY <4>1, <3>2, <1>0 DEF Good
      <4> QED BY <4>1, <4>2, <3>2, <2>5, <1>0 DEF Apart
    <3>3. CASE b # r
      <4>1. b \in DOMAIN h \ {a} /\ c[b] = h[b] BY <3>1, <3>3, <2>2, <2>4, <2>5
      <4>2. b + h[b].size \in DOMAIN h BY <4>1, <1>0 DEF Good
      <4>3. b + h[b].size # a BY <4>1, <2>4
      <4> QED BY <4>1, <4>2, <4>3, <2>5, <1>0 DEF Apart
    <3> QED BY <3>2, <3>3
  <2> QED BY <2>2, <2>4, <2>5, <2>6, <2>7
<1> QED BY <1>1, <1>2

-----------------------------------------------------------------------------
LEMMA InitInv == ASSUME SizeAssumption, Init PROVE Inv
<1>0. {Base, End, H} \subseteq Nat /\ H > 0 /\ Base + H <= End
  BY DEF SizeAssumption
<1>1. /\ DOMAIN hdr = {Base} /\ hdr[Base] = [size |-> End - Base, free |-> TRUE, mark |-> "free"]
      /\ hdr \in [{Base} -> Block]
  BY <1>0 DEF Init, Fresh, Free, Block
<1>2. hdr[Base].size = End - Base /\ hdr[Base].free /\ hdr[Base].mark = "free"
  BY <1>1
<1>3. Good(hdr)
  BY <1>0, <1>1, <1>2 DEF Good, Addr
<1>4. Marked(hdr) /\ Apart(hdr, End) /\ DOMAIN own = {} /\ Owned(hdr, own)
  BY <1>0, <1>1, <1>2 DEF Init, Marked, Apart, Owned
<1>5. own \in [DOMAIN own -> Request]
  BY DEF Init
<1>6. call \in [op : {"none", "malloc", "realloc"}, ptr : Addr \cup {0}, n : Request \cup {0}, want : Nat]
  BY DEF Init, NoCall
<1>7. TypeOK
  BY <1>0, <1>1, <1>3, <1>4, <1>5, <1>6 DEF Init, TypeOK, Good
<1>8. CallOK
  BY <1>1 DEF Init, CallOK
<1> QED BY <1>3, <1>4, <1>7, <1>8 DEF Inv, Init

LEMMA RestartInv == ASSUME SizeAssumption, Inv, Restart PROVE Inv'
<1>0. {Base, End, H} \subseteq Nat /\ H > 0 /\ Base + H <= End
  BY DEF SizeAssumption
<1>1. /\ DOMAIN hdr' = {Base} /\ hdr'[Base] = [size |-> End - Base, free |-> TRUE, mark |-> "free"]
      /\ hdr' \in [{Base} -> Block]
  BY <1>0 DEF Restart, Fresh, Free, Block
<1>2. hdr'[Base].size = End - Base /\ hdr'[Base].free /\ hdr'[Base].mark = "free"
  BY <1>1
<1>3. Good(hdr')
  BY <1>0, <1>1, <1>2 DEF Good, Addr
<1>4. Marked(hdr') /\ Apart(hdr', End) /\ DOMAIN own' = {} /\ Owned(hdr', own')
  BY <1>0, <1>1, <1>2 DEF Restart, Marked, Apart, Owned
<1>5. own' \in [DOMAIN own' -> Request]
  BY DEF Restart
<1>6. call' \in [op : {"none", "malloc", "realloc"}, ptr : Addr \cup {0}, n : Request \cup {0}, want : Nat]
  BY DEF Restart, NoCall
<1>7. TypeOK'
  BY <1>0, <1>1, <1>3, <1>4, <1>5, <1>6 DEF Restart, TypeOK, Good, Inv
<1>8. CallOK'
  BY <1>1 DEF Restart, CallOK
<1> QED BY <1>3, <1>4, <1>7, <1>8 DEF Inv, Restart

(* What changes in a step: the row and its owners, or the call and its walk. *)
LEMMA Together ==
  ASSUME SizeAssumption, Inv, Good(hdr'), Marked(hdr'), Owned(hdr', own'),
         own' \in [DOMAIN own' -> Request],
         pc' \in {"idle", "find", "join"}, CallOK', up',
         call' \in [op : {"none", "malloc", "realloc"}, ptr : Addr \cup {0}, n : Request \cup {0}, want : Nat],
         IF pc' = "join" THEN Apart(hdr', at') ELSE Apart(hdr', End)
  PROVE  Inv'
<1>0. {Base, End, H} \subseteq Nat /\ H > 0 /\ Base + H <= End
  BY DEF SizeAssumption
<1>1. at' \in Base .. End
  BY <1>0 DEF CallOK, Good, Addr
<1>2. DOMAIN own' \subseteq Addr
  BY DEF Owned, Good
<1>3. TypeOK'
  BY <1>1, <1>2 DEF TypeOK, Good
<1> QED BY <1>3 DEF Inv

(* A walk that begins has passed no block yet. *)
LEMMA NothingPassed == ASSUME NEW h, Good(h), SizeAssumption PROVE Apart(h, Base)
BY DEF Apart, Good, Addr, SizeAssumption

LEMMA MallocInv == ASSUME SizeAssumption, Inv, NEW n \in Request, Malloc(n) PROVE Inv'
<1>0. H \in Nat /\ n \in Nat
  BY DEF SizeAssumption
<1>1. n + 2 * H \in Nat
  BY <1>0
<1>2. CallOK'
  BY DEF Inv, Malloc, Calling, CallOK, Good
<1>3. call' \in [op : {"none", "malloc", "realloc"}, ptr : Addr \cup {0}, n : Request \cup {0}, want : Nat]
  BY <1>1 DEF Malloc, Calling
<1> QED BY <1>2, <1>3, Together DEF Inv, TypeOK, Malloc, Calling

LEMMA FindInv == ASSUME SizeAssumption, Inv, Find PROVE Inv'
<1>0. {Base, End, H} \subseteq Nat /\ H > 0 /\ Base + H <= End /\ Request \subseteq Nat \ {0}
  BY DEF SizeAssumption
<1>a. /\ Good(hdr) /\ Marked(hdr) /\ Owned(hdr, own) /\ CallOK /\ up /\ TypeOK
      /\ pc = "find" /\ Apart(hdr, End)
  BY DEF Inv, Find, FindOn, FindTake, FindNone
<1>b. at < End => at \in DOMAIN hdr /\ Sane(at)
  BY <1>0, <1>a DEF CallOK, Marked, Sane
<1>c. /\ call.op \in {"malloc", "realloc"} /\ call.n \in Request /\ call.want = call.n + 2 * H
      /\ call.op = "realloc" => call.ptr \in DOMAIN own
  BY <1>a DEF CallOK
<1>d. /\ call.n \in Nat /\ H \in Nat /\ call.want \in Nat /\ call.want >= call.n + H /\ call.want >= H
  <2>1. call.n \in Nat /\ H \in Nat BY <1>0, <1>c
  <2>2. call.n + 2 * H \in Nat /\ call.n + 2 * H >= call.n + H /\ call.n + 2 * H >= H BY <2>1
  <2> QED BY <2>1, <2>2, <1>c
<1>1. CASE FindOn
  <2>1. at \in DOMAIN hdr /\ at' = After(at) /\ up' /\ UNCHANGED <<hdr, pc, call, own>>
    BY <1>1, <1>b DEF FindOn, Check
  <2>2. at' \in DOMAIN hdr \cup {End}
    BY <2>1, <1>a DEF Good, After
  <2>3. CallOK'
    BY <2>1, <2>2, <1>a DEF CallOK
  <2> QED BY <2>1, <2>3, <1>a, Together DEF TypeOK
<1>2. CASE FindNone
  <2>1. CallOK'
    BY <1>2, <1>a DEF CallOK, FindNone, Return, Good
  <2>2. call' \in [op : {"none", "malloc", "realloc"}, ptr : Addr \cup {0}, n : Request \cup {0}, want : Nat]
    BY <1>2 DEF FindNone, Return, NoCall
  <2> QED BY <1>2, <2>1, <2>2, <1>a, Together DEF TypeOK, FindNone, Return
<1>3. CASE FindTake
  <2>0. /\ at \in DOMAIN hdr /\ hdr[at].free /\ call.want \in Nat /\ call.want >= H
        /\ hdr[at].size = call.want \/ hdr[at].size >= call.want + H
    BY <1>3, <1>b, <1>d DEF FindTake, Suits
  <2> DEFINE c == Carved
  <2>1. /\ Good(c) /\ Marked(c) /\ Apart(c, End) /\ DOMAIN hdr \subseteq DOMAIN c
        /\ c[at] = [size |-> call.want, free |-> FALSE, mark |-> "alloc"]
        /\ \A b \in DOMAIN hdr \ {at} : c[b] = hdr[b]
        /\ \A b \in DOMAIN c \ DOMAIN hdr : c[b].free
    BY <2>0, <1>a, CarvedIsGood DEF Carved
  <2>2. at \notin DOMAIN own /\ DOMAIN own = {a \in DOMAIN hdr : ~hdr[a].free}
    BY <2>0, <1>a DEF Owned
  <2>3. DOMAIN own \cup {at} = {a \in DOMAIN c : ~c[a].free}
    BY <2>0, <2>1, <2>2
  <2>4. call.n + H <= c[at].size
    <3>1. c[at].size = call.want BY <2>1
    <3> QED BY <3>1, <1>d
  <2>5. call' = NoCall /\ at' = Base
    BY <1>3 DEF FindTake, Return, Joining
  <2>6. call' \in [op : {"none", "malloc", "realloc"}, ptr : Addr \cup {0}, n : Request \cup {0}, want : Nat]
    BY <2>5 DEF NoCall
  <2>7. CASE call.op = "malloc"
    <3>1. hdr' = c /\ own' = Put(own, at, call.n) /\ pc' = "idle" /\ up'
      BY <2>7, <1>3, <1>b DEF FindTake, Return, Check
    <3>2. Owned(hdr', own')
      BY <3>1, <2>1, <2>2, <2>3, <2>4, <1>a DEF Owned, Put
    <3>3. own' \in [DOMAIN own' -> Request]
      BY <3>1, <1>a, <1>c DEF TypeOK, Put
    <3>4. CallOK'
      BY <3>1, <2>1, <2>5 DEF CallOK, Good
    <3> QED BY <3>1, <3>2, <3>3, <3>4, <2>1, <2>6, Together
  <2>8. CASE call.op = "realloc"
    <3>0. call.ptr \in DOMAIN own /\ call.ptr \in DOMAIN hdr /\ ~hdr[call.ptr].free /\ call.ptr # at
      BY <2>8, <2>0, <2>2, <1>c
    <3>1. hdr' = Released(c, call.ptr) /\ own' = Put(Drop(own, call.ptr), at, call.n) /\ pc' = "join" /\ up'
      BY <2>8, <3>0, <1>3, <1>a, <1>b DEF FindTake, Joining, Marked, Sane
    <3>2. /\ Good(hdr')
          /\ Changed(hdr', c, call.ptr, [size |-> c[call.ptr].size, free |-> TRUE, mark |-> "free"])
      BY <3>0, <3>1, <2>1, TakenReleased
    <3>3. /\ DOMAIN hdr' = DOMAIN c /\ hdr'[call.ptr].free /\ hdr'[call.ptr].mark = "free"
          /\ \A b \in DOMAIN c \ {call.ptr} : hdr'[b] = c[b]
      BY <3>2 DEF Changed
    <3>4. Marked(hdr')
      BY <3>3, <2>1 DEF Marked
    <3>5. DOMAIN own' = (DOMAIN own \ {call.ptr}) \cup {at}
      BY <3>1 DEF Put, Drop
    <3>6. DOMAIN own' = {a \in DOMAIN hdr' : ~hdr'[a].free}
      BY <3>0, <3>3, <3>5, <2>3
    <3>7. \A a \in DOMAIN own' : own'[a] + H <= hdr'[a].size
      <4> SUFFICES ASSUME NEW a \in DOMAIN own' PROVE own'[a] + H <= hdr'[a].size OBVIOUS
      <4>1. CASE a = at
        <5>1. own'[at] = call.n BY <3>1 DEF Put
        <5>2. hdr'[at] = c[at] BY <3>0, <3>3, <2>0, <2>1
        <5> QED BY <5>1, <5>2, <4>1, <2>4
      <4>2. CASE a # at
        <5>1. a \in DOMAIN own /\ a # call.ptr /\ own'[a] = own[a] BY <4>2, <3>1, <3>5 DEF Put, Drop
        <5>2. hdr'[a] = hdr[a] BY <5>1, <4>2, <3>3, <2>1, <2>2
        <5> QED BY <5>1, <5>2, <1>a DEF Owned
      <4> QED BY <4>1, <4>2
    <3>8. own' \in [DOMAIN own' -> Request]
      BY <3>1, <1>a, <1>c DEF TypeOK, Put, Drop
    <3>9. CallOK'
      BY <3>1, <3>2, <2>5 DEF CallOK, Good
    <3>10. Apart(hdr', at')
      BY <3>2, <2>5, NothingPassed
    <3> QED BY <3>1, <3>2, <3>4, <3>6, <3>7, <3>8, <3>9, <3>10, <2>6, Together DEF Owned
  <2> QED BY <2>7, <2>8, <1>c
<1> QED BY <1>1, <1>2, <1>3 DEF Find

LEMMA JoinInv == ASSUME SizeAssumption, Inv, Join PROVE Inv'
<1>0. {Base, End, H} \subseteq Nat /\ H > 0 /\ Base + H <= End
  BY DEF SizeAssumption
<1>a. /\ Good(hdr) /\ Marked(hdr) /\ Owned(hdr, own) /\ CallOK /\ up /\ TypeOK
      /\ pc = "join" /\ Apart(hdr, at)
  BY DEF Inv, Join, JoinTwo, JoinOn, JoinDone
<1>b. at < End => at \in DOMAIN hdr /\ Sane(at)
  BY <1>0, <1>a DEF CallOK, Marked, Sane
<1>c. \A b \in DOMAIN hdr : /\ b \in Nat /\ b < End /\ hdr[b].size \in 0 .. End /\ hdr[b].size > 0
                            /\ hdr[b].free \in BOOLEAN
                            /\ b + hdr[b].size <= End
  BY <1>0, <1>a DEF Good, Block, Addr
<1>1. CASE JoinTwo
  <2> DEFINE n == at + hdr[at].size
  <2>1. /\ at \in DOMAIN hdr /\ up' /\ UNCHANGED <<pc, at, call, own>>
        /\ n < End /\ n \in DOMAIN hdr /\ hdr[at].free /\ hdr[n].free
        /\ hdr' = Joined(hdr, at)
    BY <1>1, <1>a, <1>b, <1>0, <1>c DEF JoinTwo, Check, Joinable, After, Good, Joined
  <2>2. /\ Good(hdr') /\ DOMAIN hdr' = DOMAIN hdr \ {n} /\ at \in DOMAIN hdr'
        /\ hdr'[at] = [hdr[at] EXCEPT !.size = @ + hdr[n].size]
        /\ \A b \in DOMAIN hdr' \ {at} : hdr'[b] = hdr[b]
    <3>1. Good(Joined(hdr, at)) /\ IsJoin(Joined(hdr, at), hdr, at) BY <2>1, <1>a, JoinIsGood
    <3> QED BY <3>1, <2>1 DEF IsJoin
  <2>3. hdr'[at].free /\ hdr'[at].mark = "free"
    <3>1. hdr[at] = [size |-> hdr[at].size, free |-> hdr[at].free, mark |-> hdr[at].mark]
      BY <2>1, <1>a DEF Good, Block
    <3>2. hdr[at].mark = "free" BY <2>1, <1>a DEF Marked
    <3> QED BY <3>1, <3>2, <2>1, <2>2
  <2>4. Marked(hdr')
    BY <2>2, <2>3, <1>a DEF Marked
  <2>5. Owned(hdr', own')
    BY <2>1, <2>2, <2>3, <1>a DEF Owned
  <2>6. Apart(hdr', at')
    <3> SUFFICES ASSUME NEW b \in DOMAIN hdr', b < at, b + hdr'[b].size < End,
                        hdr'[b].free, hdr'[b + hdr'[b].size].free
                 PROVE  FALSE
      BY <2>1 DEF Apart
    <3>0. b \in DOMAIN hdr /\ at \in DOMAIN hdr BY <2>1, <2>2
    <3>1a. b # at BY <3>0, <1>c
    <3>1. b \in DOMAIN hdr /\ b # at /\ hdr'[b] = hdr[b] BY <3>0, <3>1a, <2>2
    <3>2. b + hdr[b].size \in DOMAIN hdr' BY <3>1, <2>2, <1>c DEF Good
    <3>3. b + hdr[b].size = at \/ hdr'[b + hdr[b].size] = hdr[b + hdr[b].size] BY <3>2, <2>2
    <3>4. hdr[b + hdr[b].size].free BY <3>1, <3>3, <2>1
    <3> QED BY <3>1, <3>4, <1>a DEF Apart
  <2>7. CallOK'
    BY <2>1, <2>2, <1>a DEF CallOK
  <2> QED BY <2>1, <2>2, <2>4, <2>5, <2>6, <2>7, <1>a, Together DEF TypeOK
<1>2. CASE JoinOn
  <2>1. at \in DOMAIN hdr /\ at' = at + hdr[at].size /\ up' /\ UNCHANGED <<hdr, pc, call, own>> /\ ~Joinable(at)
    BY <1>2, <1>b DEF JoinOn, Check, After
  <2>2. at' \in DOMAIN hdr \cup {End}
    BY <2>1, <1>a DEF Good
  <2>3. CallOK'
    BY <2>1, <2>2, <1>a DEF CallOK
  <2>4. Apart(hdr', at')
    <3> SUFFICES ASSUME NEW b \in DOMAIN hdr, b < at', b + hdr[b].size < End,
                        hdr[b].free, hdr[b + hdr[b].size].free
                 PROVE  FALSE
      BY <2>1 DEF Apart
    <3>1. CASE b < at BY <3>1, <1>a DEF Apart
    <3>2. CASE b = at BY <3>2, <2>1 DEF Joinable, After
    <3>3. CASE b > at BY <3>3, <2>1, <1>a, <1>c DEF Good
    <3> QED BY <3>1, <3>2, <3>3, <2>1, <1>c
  <2> QED BY <2>1, <2>3, <2>4, <1>a, Together DEF TypeOK
<1>3. CASE JoinDone
  <2>1. CallOK'
    BY <1>3, <1>a DEF CallOK, JoinDone, Return, Good
  <2>2. call' \in [op : {"none", "malloc", "realloc"}, ptr : Addr \cup {0}, n : Request \cup {0}, want : Nat]
    BY <1>3 DEF JoinDone, Return, NoCall
  <2>3. at = End
    BY <1>3, <1>a, <1>c, <1>0 DEF CallOK, JoinDone
  <2> QED BY <1>3, <2>1, <2>2, <2>3, <1>a, Together DEF TypeOK, JoinDone, Return
<1> QED BY <1>1, <1>2, <1>3 DEF Join

LEMMA ReleaseInv == ASSUME SizeAssumption, Inv, NEW p \in DOMAIN own, Release(p) PROVE Inv'
<1>a. Good(hdr) /\ Marked(hdr) /\ Owned(hdr, own) /\ TypeOK
  BY DEF Inv
<1>1. p \in DOMAIN hdr /\ ~hdr[p].free /\ Sane(p)
  BY <1>a DEF Owned, Marked, Sane
<1>2. /\ hdr' = Released(hdr, p) /\ own' = Drop(own, p) /\ pc' = "join" /\ at' = Base
      /\ call' = NoCall /\ up'
  BY <1>1 DEF Release, Joining
<1>3. Good(hdr') /\ Changed(hdr', hdr, p, [size |-> hdr[p].size, free |-> TRUE, mark |-> "free"])
  BY <1>1, <1>2, <1>a, TakenReleased
<1>4. /\ DOMAIN hdr' = DOMAIN hdr /\ hdr'[p].free /\ hdr'[p].mark = "free"
      /\ \A b \in DOMAIN hdr \ {p} : hdr'[b] = hdr[b]
  BY <1>3 DEF Changed
<1>5. Marked(hdr')
  BY <1>4, <1>a DEF Marked
<1>6. Owned(hdr', own') /\ own' \in [DOMAIN own' -> Request]
  BY <1>2, <1>4, <1>a DEF Owned, Drop, TypeOK
<1>7. CallOK'
  BY <1>2, <1>3 DEF CallOK, Good
<1>8. call' \in [op : {"none", "malloc", "realloc"}, ptr : Addr \cup {0}, n : Request \cup {0}, want : Nat]
  BY <1>2 DEF NoCall
<1>9. Apart(hdr', at')
  BY <1>2, <1>3, NothingPassed
<1> QED BY <1>2, <1>3, <1>5, <1>6, <1>7, <1>8, <1>9, Together

LEMMA GrownIsGrownBy ==
  ASSUME NEW p, NEW lacks, After(p) # End, (hdr[p].size + lacks) - hdr[p].size = lacks
  PROVE  Grown(p, hdr[p].size + lacks) = GrownBy(hdr, p, lacks)
BY Zenon DEF Grown, GrownBy, After

LEMMA ReallocInv ==
  ASSUME SizeAssumption, Careful, Inv, NEW p \in DOMAIN own, NEW n \in Request, Realloc(p, n)
  PROVE  Inv'
<1>0. {Base, End, H} \subseteq Nat /\ H > 0 /\ Base + H <= End /\ n \in Nat /\ n > 0
  <2>1. Request \subseteq Nat \ {0} BY DEF SizeAssumption
  <2>2. n \in Nat \ {0} BY <2>1
  <2> QED BY <2>2 DEF SizeAssumption
<1>a. Good(hdr) /\ Marked(hdr) /\ Owned(hdr, own) /\ TypeOK /\ CallOK
  BY DEF Inv
<1>b. /\ p \in DOMAIN hdr /\ ~hdr[p].free /\ hdr[p].mark = "alloc"
      /\ SafeResize(p, n + H) /\ pc = "idle" /\ Apart(hdr, End) /\ up
      /\ hdr[p] = [size |-> hdr[p].size, free |-> FALSE, mark |-> "alloc"]
  <2>1. p \in DOMAIN hdr /\ ~hdr[p].free BY <1>a DEF Owned
  <2>2. hdr[p] \in Block BY <2>1, <1>a DEF Good
  <2>3. hdr[p].mark = "alloc" BY <2>1, <2>2, <1>a DEF Marked, Block
  <2>4. hdr[p] = [size |-> hdr[p].size, free |-> FALSE, mark |-> "alloc"] BY <2>1, <2>2, <2>3 DEF Block
  <2>5. SafeResize(p, n + H) /\ pc = "idle" /\ Apart(hdr, End) /\ up
    BY DEF Realloc, ResizeSame, ResizeLess, ResizeInPlace, ResizeElsewhere, Resizing, Inv
  <2> QED BY <2>1, <2>3, <2>4, <2>5
<1>c. \A b \in DOMAIN hdr : /\ b \in Nat /\ b < End /\ hdr[b].size \in 0 .. End /\ hdr[b].size > 0
                            /\ hdr[b].free \in BOOLEAN
                            /\ b + hdr[b].size <= End
  BY <1>0, <1>a DEF Good, Block, Addr
<1>d. /\ DOMAIN own \cup {p} = DOMAIN own
      /\ Put(own, p, n) \in [DOMAIN own -> Request]
      /\ Put(own, p, n)[p] = n /\ \A b \in DOMAIN own \ {p} : Put(own, p, n)[b] = own[b]
  BY <1>a DEF Put, TypeOK
<1>e. NoCall \in [op : {"none", "malloc", "realloc"}, ptr : Addr \cup {0}, n : Request \cup {0}, want : Nat]
  BY DEF NoCall
<1>1. CASE ResizeSame(p, n)
  <2>1. own' = Put(own, p, n) /\ UNCHANGED <<hdr, pc, at, call, up>> /\ n + H = hdr[p].size
    BY <1>1 DEF ResizeSame
  <2>2. Owned(hdr', own')
    BY <2>1, <1>0, <1>a, <1>d DEF Owned
  <2>3. CallOK'
    BY <2>1, <1>a, <1>b DEF CallOK
  <2> QED BY <2>1, <2>2, <2>3, <1>a, <1>b, <1>d, Together DEF TypeOK
<1>2. CASE ResizeLess(p, n)
  <2> DEFINE want == n + H
             s == Split(hdr, p, want)
  <2>1. /\ want \in Nat /\ want >= H /\ hdr[p].size >= want + H
        /\ hdr' = Taken(s, p) /\ own' = Put(own, p, n) /\ pc' = "join" /\ at' = Base
        /\ call' = NoCall /\ UNCHANGED up
    BY <1>2, <1>0, <1>b, <1>c DEF ResizeLess, Joining, SafeResize
  <2>2. Good(s) /\ IsSplit(s, hdr, p, want)
    BY <2>1, <1>a, <1>b, SplitIsGood
  <2>3. Good(Taken(s, p)) /\ Changed(Taken(s, p), s, p, [size |-> s[p].size, free |-> FALSE, mark |-> "alloc"])
    BY <2>2, <1>b, TakenReleased DEF IsSplit
  <2>4. s[p].size = want
    BY <2>2, <1>b DEF IsSplit
  <2>5. /\ Good(hdr') /\ DOMAIN hdr' = DOMAIN hdr \cup {p + want} /\ p + want \notin DOMAIN hdr
        /\ hdr'[p] = [size |-> want, free |-> FALSE, mark |-> "alloc"]
        /\ hdr'[p + want] = [size |-> hdr[p].size - want, free |-> TRUE, mark |-> "free"]
        /\ \A b \in DOMAIN hdr \ {p} : hdr'[b] = hdr[b]
    BY <2>1, <2>2, <2>3, <2>4, <1>b DEF IsSplit, Changed, Free
  <2>6. Marked(hdr')
    BY <2>5, <1>a DEF Marked
  <2>7. DOMAIN own = {a \in DOMAIN hdr' : ~hdr'[a].free}
    BY <2>5, <1>a, <1>b DEF Owned
  <2>8. \A b \in DOMAIN own : Put(own, p, n)[b] + H <= hdr'[b].size
    BY <2>5, <1>0, <1>a, <1>d DEF Owned
  <2>9. Owned(hdr', own') /\ own' \in [DOMAIN own' -> Request]
    BY <2>1, <2>7, <2>8, <1>d DEF Owned
  <2>10. CallOK'
    BY <2>1, <2>5 DEF CallOK, Good
  <2>11. Apart(hdr', at')
    BY <2>1, <2>5, NothingPassed
  <2> QED BY <2>1, <2>5, <2>6, <2>9, <2>10, <2>11, <1>b, <1>e, Together
<1>3. CASE ResizeInPlace(p, n)
  <2> DEFINE lacks == n + H - hdr[p].size
             q == p + hdr[p].size
             r == q + lacks
  <2>1. /\ n + H > hdr[p].size /\ q < End /\ hdr[q].size >= lacks
        /\ hdr' = Grown(p, n + H) /\ own' = Put(own, p, n) /\ UNCHANGED <<pc, at, call, up>>
    BY <1>3, <1>0, <1>b, <1>c DEF ResizeInPlace, SafeResize, After
  <2>2. q \in DOMAIN hdr /\ q # p
    BY <2>1, <1>0, <1>a, <1>b, <1>c DEF Good
  <2>3. /\ hdr[q].free /\ hdr[q].size >= lacks + H /\ lacks \in Nat /\ lacks > 0
        /\ hdr[p].size + lacks = n + H
    BY <2>1, <2>2, <1>0, <1>b, <1>c DEF SafeResize, After
  <2>4. Good(GrownBy(hdr, p, lacks)) /\ IsGrown(GrownBy(hdr, p, lacks), hdr, p, lacks)
    BY <2>2, <2>3, <1>a, <1>b, GrowIsGood
  <2>5. hdr' = GrownBy(hdr, p, lacks)
    <3>1. After(p) # End
      BY <2>1, <1>0, <1>b, <1>c DEF After
    <3>2. hdr' = Grown(p, hdr[p].size + lacks)
      BY <2>1, <2>3
    <3>3. (hdr[p].size + lacks) - hdr[p].size = lacks
      BY <2>3, <1>b, <1>c
    <3>4. Grown(p, hdr[p].size + lacks) = GrownBy(hdr, p, lacks)
      BY <3>1, <3>3, GrownIsGrownBy
    <3> QED BY ONLY <3>2, <3>4
  <2>6. /\ Good(hdr') /\ DOMAIN hdr' = (DOMAIN hdr \ {q}) \cup {r} /\ r \notin DOMAIN hdr
        /\ hdr'[p] = [size |-> n + H, free |-> FALSE, mark |-> "alloc"]
        /\ hdr'[r] = [size |-> hdr[q].size - lacks, free |-> TRUE, mark |-> "free"]
        /\ \A b \in DOMAIN hdr \ {p, q} : hdr'[b] = hdr[b]
    BY ZenonT(120), <2>3, <2>4, <2>5, <1>b DEF IsGrown, Free
  <2>7. Marked(hdr')
    BY <2>6, <1>a DEF Marked
  <2>8. DOMAIN own = {a \in DOMAIN hdr' : ~hdr'[a].free}
    BY <2>2, <2>3, <2>6, <1>a, <1>b DEF Owned
  <2>9. \A b \in DOMAIN own : Put(own, p, n)[b] + H <= hdr'[b].size
    BY <2>3, <2>6, <1>0, <1>a, <1>d DEF Owned
  <2>10. Owned(hdr', own') /\ own' \in [DOMAIN own' -> Request]
    BY <2>1, <2>8, <2>9, <1>d DEF Owned
  <2>11. CallOK'
    BY <2>1, <2>6, <1>a, <1>b DEF CallOK, Good
  <2>12. Apart(hdr', End)
    <3> SUFFICES ASSUME NEW b \in DOMAIN hdr', b + hdr'[b].size < End,
                        hdr'[b].free, hdr'[b + hdr'[b].size].free
                 PROVE  FALSE
      BY DEF Apart
    <3>0. b # p BY <2>6
    <3>1. CASE b = r
      <4>1. r + hdr'[r].size = q + hdr[q].size BY <2>2, <2>3, <2>6, <1>b, <1>c
      <4>2. q + hdr[q].size \in DOMAIN hdr \ {p, q}
        BY <4>1, <3>1, <2>2, <1>a, <1>b, <1>c DEF Good
      <4> QED BY <4>1, <4>2, <3>1, <2>2, <2>3, <2>6, <1>b, <1>c DEF Apart
    <3>2. CASE b # r
      <4>1. b \in DOMAIN hdr \ {p, q} /\ hdr'[b] = hdr[b] BY <3>0, <3>2, <2>6
      <4>2. b + hdr[b].size \in DOMAIN hdr BY <4>1, <1>a, <1>c DEF Good
      <4>3. b + hdr[b].size # p BY <4>1, <2>6
      <4>4. b + hdr[b].size # q BY <4>1, <2>2, <1>a, <1>b, <1>c DEF Good
      <4> QED BY <4>1, <4>2, <4>3, <4>4, <2>6, <1>b, <1>c DEF Apart
    <3> QED BY <3>1, <3>2
  <2> QED BY <2>1, <2>6, <2>7, <2>10, <2>11, <2>12, <1>a, <1>b, Together DEF TypeOK
<1>4. CASE ResizeElsewhere(p, n)
  <2>1. n + 2 * H \in Nat
    BY <1>0
  <2>2. /\ call' = [op |-> "realloc", ptr |-> p, n |-> n, want |-> n + 2 * H]
        /\ pc' = "find" /\ at' = Base /\ UNCHANGED <<hdr, own, up>>
    BY <1>4 DEF ResizeElsewhere, Calling
  <2>3. call' \in [op : {"none", "malloc", "realloc"}, ptr : Addr \cup {0}, n : Request \cup {0}, want : Nat]
    BY <2>1, <2>2, <1>a, <1>b DEF Good
  <2>4. CallOK'
    BY <2>2, <1>a DEF CallOK, Good
  <2> QED BY <2>2, <2>3, <2>4, <1>a, <1>b, Together DEF TypeOK
<1> QED BY <1>1, <1>2, <1>3, <1>4 DEF Realloc
-----------------------------------------------------------------------------
LEMMA NextInv == ASSUME SizeAssumption, Careful, Inv, [Next]_vars PROVE Inv'
<1>1. CASE Restart BY <1>1, RestartInv
<1>2. CASE \E n \in Request : Malloc(n) BY <1>2, MallocInv
<1>3. CASE \E p \in DOMAIN own : Release(p) BY <1>3, ReleaseInv
<1>4. CASE \E p \in DOMAIN own, n \in Request : Realloc(p, n) BY <1>4, ReallocInv
<1>5. CASE Find BY <1>5, FindInv
<1>6. CASE Join BY <1>6, JoinInv
<1>7. CASE UNCHANGED vars
  BY <1>7 DEF vars, Inv, TypeOK, Good, Marked, Owned, CallOK, Apart
<1> QED BY <1>1, <1>2, <1>3, <1>4, <1>5, <1>6, <1>7 DEF Next

(* The invariant that all of the theorems rest on.                           *)
LEMMA Invariance == ASSUME Careful PROVE Spec => []Inv
<1>1. Init => Inv
  BY InitInv, SizeAssumption
<1>2. Inv /\ [Next]_vars => Inv'
  BY NextInv, SizeAssumption
<1> QED BY <1>1, <1>2, PTL DEF Spec

(* The headers, the call in progress and what the callers hold are what      *)
(* qalloc.c says they are.                                                   *)
THEOREM ArenaTypeCorrect == ASSUME Careful PROVE Spec => []TypeOK
<1>1. Inv => TypeOK BY DEF Inv
<1> QED BY <1>1, Invariance, PTL

(* No sequence of calls leaves a gap between two blocks of the arena, or an  *)
(* overlap: the walks of qalloc and qjoin meet headers only.                 *)
THEOREM BlocksAlwaysTile == ASSUME Careful PROVE Spec => []BlocksTile
<1>1. Inv => BlocksTile
  BY DEF Inv, Good, BlocksTile, After
<1> QED BY <1>1, Invariance, PTL

(* The blocks marked as taken are those that callers hold, at each moment.   *)
THEOREM OnlyOwnersTaken == ASSUME Careful PROVE Spec => []TakenIsOwned
<1>1. Inv => TakenIsOwned
  BY DEF Inv, Owned, TakenIsOwned
<1> QED BY <1>1, Invariance, PTL

(* qjoin leaves no two free blocks side by side, however many there were.    *)
THEOREM AlwaysCoalesced == ASSUME Careful PROVE Spec => []Coalesced
<1>1. Inv => Coalesced
  <2> SUFFICES ASSUME Inv, pc = "idle", NEW a \in DOMAIN hdr, Joinable(a) PROVE FALSE
    BY DEF Coalesced
  <2>1. Apart(hdr, End) /\ a < End
    BY SizeAssumption DEF Inv, Good, Addr, SizeAssumption
  <2> QED BY <2>1 DEF Apart, Joinable, After
<1> QED BY <1>1, Invariance, PTL

(* qcheck and the test of qfree find nothing to panic about.                 *)
THEOREM NeverPanics == ASSUME Careful PROVE Spec => []NoPanic
<1>1. Inv => NoPanic BY DEF Inv, NoPanic
<1> QED BY <1>1, Invariance, PTL

(* The row of blocks is whole, taken exactly where a caller holds a pointer, *)
(* joined where it can be, and passes its own checks.                        *)
THEOREM ArenaAlwaysStands == ASSUME Careful PROVE Spec => []ArenaStands
<1>1. BlocksTile /\ TakenIsOwned /\ Coalesced /\ NoPanic => ArenaStands
  BY DEF ArenaStands
<1> QED BY <1>1, BlocksAlwaysTile, OnlyOwnersTaken, AlwaysCoalesced, NeverPanics, PTL
-----------------------------------------------------------------------------
(* The pointers that callers see, of any owners.                             *)
PointersOf(o) == [p \in {a + H : a \in DOMAIN o} |-> o[p - H]]

LEMMA PutPointer ==
  ASSUME NEW o, DOMAIN o \subseteq Nat, NEW a \in Nat, NEW n, H \in Nat
  PROVE  /\ Store!Without(PointersOf(Put(o, a, n)), a + H) = Store!Without(PointersOf(o), a + H)
         /\ a + H \in DOMAIN PointersOf(Put(o, a, n))
         /\ a \notin DOMAIN o => /\ a + H \notin DOMAIN PointersOf(o)
                                 /\ Store!Without(PointersOf(o), a + H) = PointersOf(o)
<1> DEFINE l == PointersOf(o)
           k == PointersOf(Put(o, a, n))
<1>1. DOMAIN l = {b + H : b \in DOMAIN o} /\ \A p \in DOMAIN l : l[p] = o[p - H] /\ p - H \in DOMAIN o
  BY DEF PointersOf
<1>2. /\ DOMAIN k = {b + H : b \in DOMAIN o \cup {a}}
      /\ \A p \in DOMAIN k : p # a + H => k[p] = o[p - H]
  BY DEF PointersOf, Put
<1>3. DOMAIN k \ {a + H} = DOMAIN l \ {a + H} /\ a + H \in DOMAIN k
  BY <1>1, <1>2
<1>4. Store!Without(k, a + H) = Store!Without(l, a + H)
  BY <1>1, <1>2, <1>3 DEF Store!Without
<1>5. a \notin DOMAIN o => a + H \notin DOMAIN l
  BY <1>1
<1>6. l = [p \in DOMAIN l |-> l[p]]
  BY DEF PointersOf
<1>7. a + H \notin DOMAIN l => Store!Without(l, a + H) = l
  BY <1>6 DEF Store!Without
<1> QED BY <1>3, <1>4, <1>5, <1>7

LEMMA DropPointer ==
  ASSUME NEW o, DOMAIN o \subseteq Nat, NEW a \in DOMAIN o, H \in Nat
  PROVE  /\ PointersOf(Drop(o, a)) = Store!Without(PointersOf(o), a + H)
         /\ a + H \in DOMAIN PointersOf(o)
<1> DEFINE l == PointersOf(o)
           k == PointersOf(Drop(o, a))
<1>1. DOMAIN l = {b + H : b \in DOMAIN o} /\ \A p \in DOMAIN l : l[p] = o[p - H]
  BY DEF PointersOf
<1>2. DOMAIN k = {b + H : b \in DOMAIN o \ {a}} /\ \A p \in DOMAIN k : k[p] = o[p - H]
  BY DEF PointersOf, Drop
<1>3. DOMAIN k = DOMAIN l \ {a + H} /\ a + H \in DOMAIN l
  BY <1>1, <1>2
<1>4. k = [p \in DOMAIN k |-> k[p]]
  BY DEF PointersOf
<1>5. k = Store!Without(l, a + H)
  BY <1>1, <1>2, <1>3, <1>4 DEF Store!Without
<1> QED BY <1>3, <1>5

(* Words that are one pointer's are no other's: they are in its block.       *)
LEMMA PointersApart ==
  ASSUME SizeAssumption, NEW h, NEW o, Good(h), Owned(h, o), o \in [DOMAIN o -> Request]
  PROVE  Store!Apart(PointersOf(o))
<1> DEFINE l == PointersOf(o)
<1>0. H \in Nat /\ H > 0 /\ Base \in Nat /\ End \in Nat /\ Request \subseteq Nat
  BY DEF SizeAssumption
<1>1. ASSUME NEW p \in DOMAIN l
      PROVE  /\ p - H \in DOMAIN h /\ p - H \in Nat /\ p \in Nat /\ l[p] \in Nat
             /\ p + l[p] <= (p - H) + h[p - H].size
             /\ (p - H) + h[p - H].size <= End /\ h[p - H].size \in Nat
  <2>1. p - H \in DOMAIN o /\ p - H \in DOMAIN h /\ p - H \in Nat /\ p \in Nat
    BY <1>0 DEF PointersOf, Good, Addr, Owned
  <2>2. l[p] = o[p - H]
    BY DEF PointersOf
  <2>3. o[p - H] \in Nat /\ o[p - H] + H <= h[p - H].size
    BY <1>0, <2>1 DEF Owned
  <2>4. (p - H) + h[p - H].size <= End /\ h[p - H].size \in Nat
    BY <2>1, <1>0 DEF Good, Addr, Block
  <2> QED BY <1>0, <2>1, <2>2, <2>3, <2>4
<1>2. \A p \in DOMAIN l : Store!Words(l, p) \subseteq 0 .. End - 1
  BY <1>0, <1>1 DEF Store!Words
<1>3. ASSUME NEW p \in DOMAIN l, NEW q \in DOMAIN l, p < q
      PROVE  p + l[p] <= q
  <2>1. p - H \in DOMAIN h /\ q - H \in DOMAIN h /\ p \in Nat /\ q \in Nat /\ l[p] \in Nat
        /\ p + l[p] <= (p - H) + h[p - H].size
    BY <1>1
  <2>2. p - H < q - H
    BY <1>0, <1>3, <2>1
  <2>3. (p - H) + h[p - H].size <= q - H
    BY <2>1, <2>2 DEF Good
  <2>4. h[p - H].size \in Nat
    BY <1>1
  <2> QED BY <2>1, <2>3, <2>4, <1>0
<1>4. \A p, q \in DOMAIN l : p # q => Store!Words(l, p) \cap Store!Words(l, q) = {}
  <2> SUFFICES ASSUME NEW p \in DOMAIN l, NEW q \in DOMAIN l, p # q,
                      NEW w \in Store!Words(l, p), w \in Store!Words(l, q)
               PROVE  FALSE
    OBVIOUS
  <2>1. p \in Nat /\ q \in Nat /\ l[p] \in Nat /\ l[q] \in Nat BY <1>1
  <2>2. w \in Int /\ p <= w /\ w < p + l[p] /\ q <= w /\ w < q + l[q]
    BY <2>1 DEF Store!Words
  <2>3. CASE p < q BY <2>1, <2>2, <2>3, <1>3
  <2>4. CASE q < p BY <2>1, <2>2, <2>4, <1>3
  <2> QED BY <2>1, <2>3, <2>4
<1> QED BY <1>2, <1>4 DEF Store!Apart

(* A step that puts words into the hands of a caller: new ones, or others in *)
(* the place of those at b.                                                  *)
LEMMA Handed ==
  ASSUME SizeAssumption, Inv, Inv', NEW a \in Nat, NEW n
  PROVE  /\ own' = Put(own, a, n) /\ a \notin DOMAIN own => Store!Malloc
         /\ own' = Put(own, a, n) /\ a \in DOMAIN own => Store!Realloc
         /\ \A b \in DOMAIN own :
              own' = Put(Drop(own, b), a, n) /\ a \notin DOMAIN own => Store!Realloc
<1>1. DOMAIN own \subseteq Nat /\ H \in Nat
  BY DEF Inv, TypeOK, Addr, SizeAssumption
<1>2. Pointers = PointersOf(own) /\ Pointers' = PointersOf(own')
  BY DEF Pointers, PointersOf
<1>3. Store!Apart(Pointers')
  BY <1>2, PointersApart DEF Inv, TypeOK
<1>4. ASSUME own' = Put(own, a, n), a \notin DOMAIN own PROVE Store!Malloc
  BY <1>1, <1>2, <1>3, <1>4, PutPointer DEF Store!Malloc
<1>5. ASSUME own' = Put(own, a, n), a \in DOMAIN own PROVE Store!Realloc
  <2>1. a + H \in DOMAIN Pointers BY <1>2, <1>5 DEF PointersOf
  <2>2. a + H \in DOMAIN Pointers' /\ Store!Without(Pointers', a + H) = Store!Without(Pointers, a + H)
    BY <1>1, <1>2, <1>5, PutPointer
  <2> QED BY <2>1, <2>2, <1>3 DEF Store!Realloc
<1>6. ASSUME NEW b \in DOMAIN own, own' = Put(Drop(own, b), a, n), a \notin DOMAIN own
      PROVE  Store!Realloc
  <2> DEFINE d == Drop(own, b)
  <2>1. b + H \in DOMAIN Pointers /\ PointersOf(d) = Store!Without(Pointers, b + H)
    BY <1>1, <1>2, DropPointer
  <2>2. DOMAIN d \subseteq Nat /\ a \notin DOMAIN d
    BY <1>1, <1>6 DEF Drop
  <2>3. a + H \in DOMAIN Pointers' /\ Store!Without(Pointers', a + H) = PointersOf(d)
    BY <1>1, <1>2, <1>6, <2>2, PutPointer
  <2>4. a + H \notin DOMAIN Pointers
    BY <1>1, <1>2, <1>6, PutPointer
  <2> QED BY <2>1, <2>3, <2>4, <1>3 DEF Store!Realloc
<1> QED BY <1>4, <1>5, <1>6

LEMMA NextIsHeap ==
  ASSUME SizeAssumption, Inv, Inv', [Next]_vars
  PROVE  Store!Next \/ UNCHANGED Pointers
<1>0. DOMAIN own \subseteq Nat /\ H \in Nat /\ (DOMAIN hdr \subseteq Nat)
  BY DEF Inv, TypeOK, Addr, SizeAssumption
<1>1. CASE UNCHANGED own
  BY <1>1 DEF Pointers
<1>2. CASE Restart
  BY <1>2 DEF Restart, Pointers, Store!Next, Store!Restart
<1>3. ASSUME NEW p \in DOMAIN own, Release(p) PROVE Store!Next
  <2>1. own' = Drop(own, p) BY <1>3 DEF Release
  <2>2. Pointers = PointersOf(own) /\ Pointers' = PointersOf(Drop(own, p))
    BY <2>1 DEF Pointers, PointersOf
  <2>3. p + H \in DOMAIN Pointers /\ Pointers' = Store!Without(Pointers, p + H)
    BY <2>2, <1>0, DropPointer
  <2> QED BY <2>3 DEF Store!Next, Store!Free
<1>4. ASSUME NEW p \in DOMAIN own, NEW n \in Request, Realloc(p, n)
      PROVE  Store!Next \/ UNCHANGED Pointers
  <2>1. own' = Put(own, p, n) \/ UNCHANGED own
    BY <1>4 DEF Realloc, ResizeSame, ResizeLess, ResizeInPlace, ResizeElsewhere
  <2>2. p \in Nat BY <1>0
  <2> QED BY <2>1, <2>2, <1>1, Handed DEF Store!Next
<1>5. CASE Find
  <2>1. CASE FindTake
    <3>1. at \in DOMAIN hdr /\ hdr[at].free /\ at \in Nat
      BY <2>1, <1>0, SizeAssumption DEF FindTake, Suits, Inv, CallOK, SizeAssumption
    <3>2. at \notin DOMAIN own
      BY <3>1 DEF Inv, Owned
    <3>3. CASE call.op = "malloc"
      BY <3>1, <3>2, <3>3, <2>1, Handed DEF FindTake, Store!Next
    <3>4. CASE call.op = "realloc"
      <4>1. call.ptr \in DOMAIN own BY <2>1, <3>4 DEF FindTake, Inv, CallOK
      <4>2. own' = Put(Drop(own, call.ptr), at, call.n) BY <2>1, <3>4 DEF FindTake
      <4> QED BY <4>1, <4>2, <3>1, <3>2, Handed DEF Store!Next
    <3> QED BY <3>3, <3>4, <2>1 DEF FindTake
  <2>2. CASE ~FindTake
    BY <2>2, <1>5, <1>1 DEF Find, FindOn, FindNone
  <2> QED BY <2>1, <2>2
<1>6. CASE Join
  BY <1>6, <1>1 DEF Join, JoinTwo, JoinOn, JoinDone
<1>7. CASE \E n \in Request : Malloc(n)
  BY <1>7, <1>1 DEF Malloc
<1>8. CASE UNCHANGED vars
  BY <1>8, <1>1 DEF vars
<1> QED BY <1>2, <1>3, <1>4, <1>5, <1>6, <1>7, <1>8 DEF Next

(* To its callers the arena is a heap: every pointer it hands out stands for *)
(* words that nobody else has, until the call that takes it back, whatever   *)
(* the sizes, and whatever blocks are split, joined, grown or moved.         *)
THEOREM ArenaIsAHeap == ASSUME Careful PROVE Spec => IsAHeap
<1>1. Init => Store!Init
  BY DEF Init, Pointers, Store!Init
<1>2. Inv /\ Inv' /\ [Next]_vars => [Store!Next]_Pointers
  BY NextIsHeap, SizeAssumption
<1> QED BY <1>1, <1>2, Invariance, PTL DEF Spec, Store!Spec, IsAHeap
=============================================================================
