--------------------------- MODULE RecordDbProofs ---------------------------
(***************************************************************************)
(* Theorems about RecordDb for all sizes of file, all keys and all sizes   *)
(* of values: the types, that the log can be read, that the answers of the *)
(* calls are true, and that the log implements the set of RecordStore.     *)
(***************************************************************************)
EXTENDS RecordDb, TLAPS

LEMMA Sizes == Cap \in Nat /\ Cap > 0 /\ \A v \in Val : Size[v] \in Nat
  BY CapAssumption, SizeAssumption

(* What cells there are, and what can be seen of them. *)
LEMMA Cells ==
  /\ Blank \in Cell /\ Ruined \in Cell /\ Blank.is = "blank" /\ Ruined.is = "ruined"
  /\ \A n \in Len, fl \in SUBSET HdrFlag : Hdr(n, fl) \in Cell
  /\ \A n, fl : Hdr(n, fl).is = "header" /\ Hdr(n, fl).len = n /\ Hdr(n, fl).flags = fl
  /\ \A k \in Key : KeyCell(k) \in Cell
  /\ \A v \in Val : \A i \in 1 .. Size[v] : DataCell(v, i) \in Cell
  /\ \A v \in Val : 1 + Size[v] \in Len
  /\ \A n \in Len : n \in Nat /\ n > 0
<1>1. \A n \in Len, fl \in SUBSET HdrFlag : Hdr(n, fl) \in Cell
  BY DEF Cell
<1>2. \A k \in Key : KeyCell(k) \in Cell
  BY DEF Cell
<1>3. \A v \in Val : \A i \in 1 .. Size[v] : DataCell(v, i) \in Cell
  BY DEF Cell
<1>4. Blank \in Cell /\ Ruined \in Cell
  BY DEF Cell
<1>5. Blank.is = "blank" /\ Ruined.is = "ruined"
  BY DEF Blank, Ruined
<1>6. \A n, fl : Hdr(n, fl).is = "header" /\ Hdr(n, fl).len = n /\ Hdr(n, fl).flags = fl
  BY DEF Hdr
<1>7. \A v \in Val : 1 + Size[v] \in Len
  BY DEF Len
<1>8. \A n \in Len : n \in Nat /\ n > 0
  BY Sizes DEF Len
<1> QED BY <1>1, <1>2, <1>3, <1>4, <1>5, <1>6, <1>7, <1>8

LEMMA Headers ==
  ASSUME NEW c \in Cell, c.is = "header"
  PROVE  c.len \in Len /\ c.flags \subseteq HdrFlag /\ c = Hdr(c.len, c.flags)
<1>1. c # Blank /\ c # Ruined
  BY Cells
<1>2. \A k : c # KeyCell(k)
  BY DEF KeyCell
<1>3. \A v, i : c # DataCell(v, i)
  BY DEF DataCell
<1>4. \E n \in Len, fl \in SUBSET HdrFlag : c = Hdr(n, fl)
  BY <1>1, <1>2, <1>3 DEF Cell
<1> QED BY <1>4, Cells
-----------------------------------------------------------------------------
(* The log as a row.  Its headers are at H and it ends at e; s counts, at     *)
(* every place where a walk stops, the cells of the valid records before it.  *)

Weight(f, h) == IF Valid(f, h) THEN 1 + f[h].len ELSE 0

Row(f, H, e, s) ==
  /\ e \in Pos /\ s \in [Pos -> Int] /\ s[0] = 0 /\ 0 \in H \cup {e}
  /\ H \subseteq Offset
  /\ \A h \in H : /\ IsHdr(f, h) /\ h + 1 + f[h].len <= Cap
                  /\ After(f, h) \in H \cup {e}
                  /\ s[After(f, h)] = s[h] + Weight(f, h)
                  /\ \A g \in H : g > h => g >= After(f, h)
  /\ \A o \in e .. Cap - 1 : f[o] = Blank

Files == [Offset -> Cell]

LEMMA Emptiness == BlankFile \in Files /\ Row(BlankFile, {}, 0, [p \in Pos |-> 0])
  BY Sizes, Cells DEF Files, Row, BlankFile, Pos, Offset

(* A header, and the place after it. *)
LEMMA Heading ==
  ASSUME NEW f \in Files, NEW o \in Offset, IsHdr(f, o), o + 1 + f[o].len <= Cap
  PROVE  /\ f[o].len \in Nat /\ f[o].len > 0 /\ f[o].flags \subseteq HdrFlag
         /\ f[o] = Hdr(f[o].len, f[o].flags)
         /\ After(f, o) = IF {"header", "written"} \cap f[o].flags = {} THEN o + 1 ELSE o + 1 + f[o].len
         /\ After(f, o) \in Pos /\ After(f, o) > o
<1>1. f[o] \in Cell /\ f[o].is = "header" /\ o \in Nat /\ Cap \in Nat /\ o < Cap
  BY Sizes DEF Files, IsHdr, Offset
<1>2. f[o].len \in Len /\ f[o].flags \subseteq HdrFlag /\ f[o] = Hdr(f[o].len, f[o].flags)
  BY <1>1, Headers
<1>3. f[o].len \in Nat /\ f[o].len > 0
  BY <1>2, Cells
<1>4. After(f, o) = IF {"header", "written"} \cap f[o].flags = {} THEN o + 1 ELSE o + 1 + f[o].len
  BY <1>1, <1>3 DEF After, Within
<1> QED BY <1>1, <1>2, <1>3, <1>4 DEF Pos

LEMMA RowHeads ==
  ASSUME NEW f \in Files, NEW H, NEW e, NEW s, Row(f, H, e, s)
  PROVE  /\ e \in Nat /\ e <= Cap /\ Cap \in Nat /\ e \in Pos
         /\ \A h \in H : /\ IsHdr(f, h) /\ h + 1 + f[h].len <= Cap /\ h \in Pos
                         /\ h \in Offset /\ h \in Nat /\ h < e /\ h < Cap
                         /\ f[h].len \in Nat /\ f[h].len > 0 /\ f[h].flags \subseteq HdrFlag
                         /\ f[h] = Hdr(f[h].len, f[h].flags)
                         /\ After(f, h) = IF {"header", "written"} \cap f[h].flags = {} THEN h + 1
                                          ELSE h + 1 + f[h].len
                         /\ After(f, h) \in Pos /\ After(f, h) \in Nat /\ After(f, h) > h /\ After(f, h) <= e
                         /\ Weight(f, h) \in Nat
<1>1. e \in Nat /\ e <= Cap /\ Cap \in Nat /\ e \in Pos
  BY Sizes DEF Row, Pos
<1> SUFFICES ASSUME NEW h \in H
    PROVE  /\ IsHdr(f, h) /\ h + 1 + f[h].len <= Cap /\ h \in Pos
           /\ h \in Offset /\ h \in Nat /\ h < e /\ h < Cap
           /\ f[h].len \in Nat /\ f[h].len > 0 /\ f[h].flags \subseteq HdrFlag
           /\ f[h] = Hdr(f[h].len, f[h].flags)
           /\ After(f, h) = IF {"header", "written"} \cap f[h].flags = {} THEN h + 1
                            ELSE h + 1 + f[h].len
           /\ After(f, h) \in Pos /\ After(f, h) \in Nat /\ After(f, h) > h /\ After(f, h) <= e
           /\ Weight(f, h) \in Nat
  BY <1>1
<1>2. h \in Offset /\ h \in Nat /\ h < Cap /\ IsHdr(f, h) /\ h + 1 + f[h].len <= Cap
  BY <1>1 DEF Row, Offset
<1>3. h < e
  <2> SUFFICES ASSUME h >= e PROVE FALSE
    BY <1>1, <1>2
  <2>1. f[h] = Blank
    BY <1>1, <1>2 DEF Row
  <2> QED BY <1>2, <2>1, Cells DEF IsHdr
<1>4. /\ f[h].len \in Nat /\ f[h].len > 0 /\ f[h].flags \subseteq HdrFlag
      /\ f[h] = Hdr(f[h].len, f[h].flags)
      /\ After(f, h) = IF {"header", "written"} \cap f[h].flags = {} THEN h + 1 ELSE h + 1 + f[h].len
      /\ After(f, h) \in Pos /\ After(f, h) > h
  BY <1>2, Heading
<1>5. After(f, h) <= e
  <2>1. After(f, h) \in H \cup {e}
    BY DEF Row
  <2>2. CASE After(f, h) \in H
    <3>1. After(f, h) \in Offset /\ IsHdr(f, After(f, h))
      BY <2>2 DEF Row
    <3>2. ~(After(f, h) >= e)
      BY <1>1, <3>1, Cells DEF Row, Offset, IsHdr
    <3> QED BY <1>1, <3>1, <3>2 DEF Offset
  <2> QED BY <1>1, <2>1, <2>2
<1>6. Weight(f, h) \in Nat
  BY <1>4 DEF Weight
<1>7. After(f, h) \in Nat /\ h \in Pos
  BY <1>1, <1>2, <1>4 DEF Pos
<1> QED BY <1>1, <1>2, <1>3, <1>4, <1>5, <1>6, <1>7
-----------------------------------------------------------------------------
(* What a write does to the row.                                             *)

(* A header is all that After and Weight look at. *)
LEMMA SameHeader ==
  ASSUME NEW f, NEW g, NEW h, g[h] = f[h]
  PROVE  IsHdr(g, h) = IsHdr(f, h) /\ After(g, h) = After(f, h) /\ Weight(g, h) = Weight(f, h)
  BY DEF IsHdr, After, Weight, Valid

(* A header is written at the end of the row. *)
LEMMA RowNew ==
  ASSUME NEW f \in Files, NEW H, NEW e, NEW s, Row(f, H, e, s), NEW n \in Len, e + 1 + n <= Cap,
         NEW g, g = [f EXCEPT ![e] = Hdr(n, {})]
  PROVE  (\E t : Row(g, H \cup {e}, e + 1, t)) /\ g \in Files /\ e \in Offset
<1> DEFINE u == [s EXCEPT ![e + 1] = s[e]]
           K == H \cup {e}
<1>1. n \in Nat /\ n > 0 /\ Hdr(n, {}) \in Cell
  BY Cells
<1>2. e \in Offset /\ e \in Nat /\ e + 1 \in Pos /\ Cap \in Nat /\ f[e] = Blank
  <2>1. e \in Nat /\ Cap \in Nat
    BY RowHeads
  <2>2. e \in 0 .. Cap - 1 /\ e \in e .. Cap - 1 /\ e + 1 \in 0 .. Cap
    BY <1>1, <2>1
  <2> QED BY <2>1, <2>2 DEF Offset, Pos, Row
<1>3. g \in Files /\ g[e] = Hdr(n, {}) /\ \A o \in Offset : o # e => g[o] = f[o]
  BY <1>1, <1>2 DEF Files
<1>4. IsHdr(g, e) /\ g[e].len = n /\ g[e].flags = {}
  BY <1>3, Cells DEF IsHdr
<1>5. After(g, e) = e + 1 /\ Weight(g, e) = 0
  BY <1>4 DEF After, Weight, Valid
<1>6. /\ u \in [Pos -> Int] /\ u[e + 1] = s[e] /\ s \in [Pos -> Int]
      /\ \A p \in Pos : p # e + 1 => u[p] = s[p]
  BY <1>2 DEF Row, Pos
<1>7. e \in Pos /\ u[e] = s[e] /\ u[0] = s[0] /\ s[e] \in Int /\ u[e + 1] = u[e] + 0
  BY <1>2, <1>6 DEF Pos
<1>8. ASSUME NEW h \in H
      PROVE  /\ IsHdr(g, h) /\ h + 1 + g[h].len <= Cap /\ After(g, h) \in K
             /\ u[After(g, h)] = u[h] + Weight(g, h)
             /\ \A k \in K : k > h => k >= After(g, h)
  <2>1. /\ h \in Offset /\ h < e /\ h \in Nat /\ After(f, h) <= e /\ After(f, h) \in Nat
        /\ After(f, h) \in Pos /\ h \in Pos
    BY RowHeads DEF Pos, Offset
  <2>2. g[h] = f[h]
    BY <1>2, <1>3, <2>1
  <2>3. IsHdr(g, h) = IsHdr(f, h) /\ After(g, h) = After(f, h) /\ Weight(g, h) = Weight(f, h)
    BY <2>2, SameHeader
  <2>4. u[h] = s[h] /\ u[After(f, h)] = s[After(f, h)]
    BY <1>2, <1>6, <2>1
  <2>5. /\ IsHdr(f, h) /\ h + 1 + f[h].len <= Cap /\ After(f, h) \in K
        /\ s[After(f, h)] = s[h] + Weight(f, h) /\ \A k \in H : k > h => k >= After(f, h)
    BY DEF Row
  <2> HIDE DEF u
  <2> QED BY <2>1, <2>2, <2>3, <2>4, <2>5
<1>9. \A k \in K : k > e => k >= After(g, e)
  BY <1>2, RowHeads
<1>10. \A o \in e + 1 .. Cap - 1 : g[o] = Blank
  BY <1>2, <1>3 DEF Row, Offset
<1>11. 0 \in K \cup {e + 1} /\ K \subseteq Offset /\ u[0] = 0
  BY <1>2, <1>7 DEF Row
<1> HIDE DEF u
<1>12. \A h \in K : /\ IsHdr(g, h) /\ h + 1 + g[h].len <= Cap
                    /\ After(g, h) \in K \cup {e + 1}
                    /\ u[After(g, h)] = u[h] + Weight(g, h)
                    /\ \A k \in K : k > h => k >= After(g, h)
  BY <1>2, <1>4, <1>5, <1>7, <1>8, <1>9
<1>13. Row(g, K, e + 1, u)
  BY <1>2, <1>6, <1>10, <1>11, <1>12 DEF Row
<1> QED BY <1>2, <1>3, <1>13

(* The last header, that had no flag, says that it is complete. *)
LEMMA RowFlag ==
  ASSUME NEW f \in Files, NEW H, NEW e, NEW s, Row(f, H, e, s), NEW h \in H, h + 1 = e, f[h].flags = {},
         NEW g, g = [f EXCEPT ![h] = Hdr(f[h].len, {"header"})],
         NEW d, d = h + 1 + f[h].len
  PROVE  (\E t : Row(g, H, d, t)) /\ g \in Files
<1> DEFINE u == [s EXCEPT ![d] = s[h]]
<1>1. /\ h \in Offset /\ h \in Nat /\ e \in Nat /\ Cap \in Nat /\ h \in Pos /\ f[h].len \in Nat /\ f[h].len > 0
      /\ IsHdr(f, h) /\ d <= Cap /\ d \in Nat /\ d >= e /\ d \in Pos /\ d > h
  <2>1. /\ h \in Offset /\ h \in Nat /\ e \in Nat /\ Cap \in Nat /\ h \in Pos /\ f[h].len \in Nat /\ f[h].len > 0
        /\ IsHdr(f, h) /\ h + 1 + f[h].len <= Cap
    BY RowHeads
  <2> QED BY <2>1 DEF Pos
<1>2. f[h].len \in Len
  BY <1>1, Headers DEF Files, IsHdr
<1>3. Hdr(f[h].len, {"header"}) \in Cell
  BY <1>2, Cells DEF HdrFlag
<1>4. g \in Files /\ g[h] = Hdr(f[h].len, {"header"}) /\ \A o \in Offset : o # h => g[o] = f[o]
  BY <1>1, <1>3 DEF Files
<1>5. IsHdr(g, h) /\ g[h].len = f[h].len /\ g[h].flags = {"header"}
  BY <1>4, Cells DEF IsHdr
<1>6. After(g, h) = d /\ Weight(g, h) = 0
  BY ZenonT(120), <1>1, <1>4, <1>5, Heading DEF Weight, Valid
<1>7. u \in [Pos -> Int] /\ u[d] = s[h] /\ s[h] \in Int /\ \A p \in Pos : p # d => u[p] = s[p]
  BY <1>1 DEF Row
<1>8. u[h] = s[h] /\ u[0] = 0 /\ u[d] = u[h] + 0
  <2>1. 0 \in Pos /\ 0 # d /\ h # d
    BY <1>1 DEF Pos
  <2> QED BY <1>1, <1>7, <2>1 DEF Row
<1>9. ASSUME NEW k \in H, k # h
      PROVE  /\ IsHdr(g, k) /\ k + 1 + g[k].len <= Cap /\ After(g, k) \in H
             /\ u[After(g, k)] = u[k] + Weight(g, k)
             /\ \A i \in H : i > k => i >= After(g, k)
  <2>1. /\ k \in Offset /\ k \in Nat /\ k < e /\ k \in Pos /\ After(f, k) \in Pos /\ After(f, k) \in Nat
        /\ After(f, k) > k
    BY RowHeads DEF Pos, Offset
  <2>2. k < h
    BY <1>1, <1>9, <2>1
  <2>3. After(f, k) <= h
    BY <2>2 DEF Row
  <2>4. g[k] = f[k]
    BY <1>4, <1>9, <2>1
  <2>5. IsHdr(g, k) = IsHdr(f, k) /\ After(g, k) = After(f, k) /\ Weight(g, k) = Weight(f, k)
    BY <2>4, SameHeader
  <2>6. u[k] = s[k] /\ u[After(f, k)] = s[After(f, k)]
    BY <1>1, <1>7, <2>1, <2>2, <2>3
  <2>7. After(f, k) # e
    BY <1>1, <2>1, <2>3
  <2>8. /\ IsHdr(f, k) /\ k + 1 + f[k].len <= Cap /\ After(f, k) \in H \cup {e}
        /\ s[After(f, k)] = s[k] + Weight(f, k) /\ \A i \in H : i > k => i >= After(f, k)
    BY DEF Row
  <2> HIDE DEF u
  <2> QED BY <2>4, <2>5, <2>6, <2>7, <2>8
<1>10. \A i \in H : ~(i > h)
  BY <1>1, RowHeads
<1>11. \A o \in d .. Cap - 1 : g[o] = Blank
  <2> SUFFICES ASSUME NEW o \in d .. Cap - 1 PROVE g[o] = Blank
    OBVIOUS
  <2>1. o \in e .. Cap - 1 /\ o \in Offset /\ o # h
    BY <1>1 DEF Offset
  <2> QED BY <1>4, <2>1 DEF Row
<1>12. 0 \in H \cup {d} /\ H \subseteq Offset
  BY <1>1 DEF Row
<1> HIDE DEF u
<1>13. \A k \in H : /\ IsHdr(g, k) /\ k + 1 + g[k].len <= Cap
                    /\ After(g, k) \in H \cup {d}
                    /\ u[After(g, k)] = u[k] + Weight(g, k)
                    /\ \A i \in H : i > k => i >= After(g, k)
  BY <1>1, <1>5, <1>6, <1>8, <1>9, <1>10
<1>14. Row(g, H, d, u)
  BY <1>1, <1>7, <1>8, <1>11, <1>12, <1>13 DEF Row
<1> QED BY <1>4, <1>14

(* A cell inside a record is written. *)
LEMMA RowPut ==
  ASSUME NEW f \in Files, NEW H, NEW e, NEW s, Row(f, H, e, s), NEW h \in H, NEW o \in Offset,
         h < o, o < After(f, h), NEW g \in Files, \A p \in Offset : p # o => g[p] = f[p]
  PROVE  Row(g, H, e, s) /\ g[h] = f[h]
<1>1. /\ h \in Nat /\ h \in Offset /\ o \in Nat /\ After(f, h) \in Nat /\ After(f, h) <= e /\ e \in Nat /\ Cap \in Nat
  BY RowHeads DEF Offset
<1>2. o \notin H
  BY <1>1 DEF Row
<1>3. \A k \in H : g[k] = f[k]
  BY <1>2 DEF Row
<1>4. \A k \in H : IsHdr(g, k) = IsHdr(f, k) /\ After(g, k) = After(f, k) /\ Weight(g, k) = Weight(f, k)
  BY <1>3, SameHeader
<1>5. \A p \in e .. Cap - 1 : g[p] = Blank
  BY <1>1 DEF Row, Offset
<1>6. Row(g, H, e, s)
  BY <1>3, <1>4, <1>5 DEF Row
<1> QED BY <1>3, <1>6

(* The last record becomes valid. *)
LEMMA RowWritten ==
  ASSUME NEW f \in Files, NEW H, NEW e, NEW s, Row(f, H, e, s), NEW h \in H, After(f, h) = e,
         f[h].flags = {"header"},
         NEW g, g = [f EXCEPT ![h] = Hdr(f[h].len, {"header", "written"})]
  PROVE  (\E t : Row(g, H, e, t)) /\ g \in Files
<1> DEFINE u == [s EXCEPT ![e] = s[h] + 1 + f[h].len]
<1>1. /\ h \in Offset /\ h \in Nat /\ e \in Nat /\ Cap \in Nat /\ h \in Pos /\ f[h].len \in Nat /\ f[h].len > 0
      /\ IsHdr(f, h) /\ h + 1 + f[h].len <= Cap /\ e \in Pos /\ h < e /\ e = h + 1 + f[h].len
  <2>1. {"header", "written"} \cap f[h].flags # {}
    OBVIOUS
  <2> QED BY <2>1, RowHeads
<1>2. f[h].len \in Len
  BY <1>1, Headers DEF Files, IsHdr
<1>3. Hdr(f[h].len, {"header", "written"}) \in Cell
  BY <1>2, Cells DEF HdrFlag
<1>4. g \in Files /\ g[h] = Hdr(f[h].len, {"header", "written"}) /\ \A o \in Offset : o # h => g[o] = f[o]
  BY <1>1, <1>3 DEF Files
<1>5. IsHdr(g, h) /\ g[h].len = f[h].len /\ g[h].flags = {"header", "written"}
  BY <1>4, Cells DEF IsHdr
<1>6. After(g, h) = e /\ Weight(g, h) = 1 + f[h].len
  <2>1. {"header", "written"} \cap g[h].flags # {} /\ h + 1 + g[h].len <= Cap
    BY <1>1, <1>5
  <2>2. After(g, h) = h + 1 + g[h].len
    BY <1>1, <1>4, <1>5, <2>1, Heading
  <2>3. Weight(g, h) = 1 + g[h].len
    BY <1>5 DEF Weight, Valid
  <2> QED BY <1>1, <1>5, <2>2, <2>3
<1>7. s[h] \in Int /\ u \in [Pos -> Int] /\ u[e] = s[h] + (1 + f[h].len) /\ \A p \in Pos : p # e => u[p] = s[p]
  BY <1>1 DEF Row
<1>8. u[h] = s[h] /\ u[0] = 0
  <2>1. 0 \in Pos /\ 0 # e /\ h # e
    BY <1>1 DEF Pos
  <2> QED BY <1>1, <1>7, <2>1 DEF Row
<1>9. ASSUME NEW k \in H, k # h
      PROVE  /\ IsHdr(g, k) /\ k + 1 + g[k].len <= Cap /\ After(g, k) \in H
             /\ u[After(g, k)] = u[k] + Weight(g, k)
             /\ \A i \in H : i > k => i >= After(g, k)
  <2>1. /\ k \in Offset /\ k \in Nat /\ k < e /\ k \in Pos /\ After(f, k) \in Pos /\ After(f, k) \in Nat
        /\ After(f, k) > k
    BY RowHeads DEF Pos, Offset
  <2>2. k < h
    <3>1. k > h => k >= e
      BY DEF Row
    <3> QED BY <1>1, <1>9, <2>1, <3>1
  <2>3. After(f, k) <= h
    BY <2>2 DEF Row
  <2>4. g[k] = f[k]
    BY <1>4, <1>9, <2>1
  <2>5. IsHdr(g, k) = IsHdr(f, k) /\ After(g, k) = After(f, k) /\ Weight(g, k) = Weight(f, k)
    BY <2>4, SameHeader
  <2>6. u[k] = s[k] /\ u[After(f, k)] = s[After(f, k)]
    BY <1>1, <1>7, <2>1, <2>2, <2>3
  <2>7. After(f, k) # e
    BY <1>1, <2>1, <2>3
  <2>8. /\ IsHdr(f, k) /\ k + 1 + f[k].len <= Cap /\ After(f, k) \in H \cup {e}
        /\ s[After(f, k)] = s[k] + Weight(f, k) /\ \A i \in H : i > k => i >= After(f, k)
    BY DEF Row
  <2> HIDE DEF u
  <2> QED BY <2>4, <2>5, <2>6, <2>7, <2>8
<1>10. \A i \in H : i > h => i >= e
  BY DEF Row
<1>11. \A o \in e .. Cap - 1 : g[o] = Blank
  BY <1>1, <1>4 DEF Row, Offset
<1>12. 0 \in H \cup {e} /\ H \subseteq Offset
  BY DEF Row
<1> HIDE DEF u
<1>13. \A k \in H : /\ IsHdr(g, k) /\ k + 1 + g[k].len <= Cap
                    /\ After(g, k) \in H \cup {e}
                    /\ u[After(g, k)] = u[k] + Weight(g, k)
                    /\ \A i \in H : i > k => i >= After(g, k)
  BY <1>1, <1>5, <1>6, <1>7, <1>8, <1>9, <1>10
<1>14. Row(g, H, e, u)
  BY <1>1, <1>7, <1>8, <1>11, <1>12, <1>13 DEF Row
<1> QED BY <1>4, <1>14

(* A record is erased: everything behind it counts for less. *)
LEMMA RowErase ==
  ASSUME NEW f \in Files, NEW H, NEW e, NEW s, Row(f, H, e, s), NEW h \in H,
         NEW g, g = [f EXCEPT ![h] = Hdr(f[h].len, f[h].flags \cup {"erased"})]
  PROVE  (\E t : Row(g, H, e, t)) /\ g \in Files
<1> DEFINE u == [p \in Pos |-> IF p > h THEN s[p] - Weight(f, h) ELSE s[p]]
<1>1. /\ h \in Offset /\ h \in Nat /\ e \in Nat /\ Cap \in Nat /\ h \in Pos /\ f[h].len \in Nat /\ f[h].len > 0
      /\ IsHdr(f, h) /\ h + 1 + f[h].len <= Cap /\ e \in Pos /\ h < e /\ f[h].flags \subseteq HdrFlag
      /\ Weight(f, h) \in Nat
  BY RowHeads
<1>2. f[h].len \in Len
  BY <1>1, Headers DEF Files, IsHdr
<1>3. Hdr(f[h].len, f[h].flags \cup {"erased"}) \in Cell
  BY <1>1, <1>2, Cells DEF HdrFlag
<1>4. /\ g \in Files /\ g[h] = Hdr(f[h].len, f[h].flags \cup {"erased"})
      /\ \A o \in Offset : o # h => g[o] = f[o]
  BY <1>1, <1>3 DEF Files
<1>5. IsHdr(g, h) /\ g[h].len = f[h].len /\ g[h].flags = f[h].flags \cup {"erased"}
  BY <1>4, Cells DEF IsHdr
<1>6. After(g, h) = After(f, h) /\ Weight(g, h) = 0
  BY SMTT(60), <1>5 DEF After, Weight, Valid
<1>7. /\ s \in [Pos -> Int] /\ u \in [Pos -> Int]
      /\ \A p \in Pos : (p > h => u[p] = s[p] - Weight(f, h)) /\ (~(p > h) => u[p] = s[p])
  BY <1>1 DEF Row
<1>8. u[0] = 0
  <2>1. 0 \in Pos /\ ~(0 > h)
    BY <1>1 DEF Pos
  <2> QED BY <1>7, <2>1 DEF Row
<1>9. ASSUME NEW k \in H
      PROVE  /\ IsHdr(g, k) /\ k + 1 + g[k].len <= Cap /\ After(g, k) \in H \cup {e}
             /\ u[After(g, k)] = u[k] + Weight(g, k)
             /\ \A i \in H : i > k => i >= After(g, k)
  <2>1. /\ k \in Offset /\ k \in Nat /\ k \in Pos /\ After(f, k) \in Pos /\ After(f, k) \in Nat
        /\ After(f, k) > k /\ Weight(f, k) \in Nat
    BY RowHeads DEF Pos, Offset
  <2>2. /\ IsHdr(f, k) /\ k + 1 + f[k].len <= Cap /\ After(f, k) \in H \cup {e}
        /\ s[After(f, k)] = s[k] + Weight(f, k) /\ \A i \in H : i > k => i >= After(f, k)
    BY DEF Row
  <2>3. s[k] \in Int /\ s[After(f, k)] \in Int
    BY <1>7, <2>1
  <2>4. CASE k = h
    <3>1. u[After(f, h)] = s[h] /\ u[h] = s[h]
      BY <1>1, <1>7, <2>1, <2>2, <2>3, <2>4
    <3> HIDE DEF u
    <3>2. After(g, k) = After(f, k) /\ Weight(g, k) = 0 /\ IsHdr(g, k) /\ g[k].len = f[k].len
      BY <1>5, <1>6, <2>4
    <3>3. u[After(f, k)] = u[k] + 0
      BY <2>3, <2>4, <3>1
    <3> QED BY <2>2, <3>2, <3>3
  <2>5. CASE k # h
    <3>1. g[k] = f[k]
      BY <1>4, <2>1, <2>5
    <3>2. IsHdr(g, k) = IsHdr(f, k) /\ After(g, k) = After(f, k) /\ Weight(g, k) = Weight(f, k)
      BY <3>1, SameHeader
    <3>3. u[After(f, k)] = u[k] + Weight(f, k)
      <4>1. CASE k > h
        BY <1>1, <1>7, <2>1, <2>2, <2>3, <4>1
      <4>2. CASE k < h
        <5>1. After(f, k) <= h
          BY <2>2, <4>2
        <5> QED BY <1>1, <1>7, <2>1, <2>2, <2>3, <4>2, <5>1
      <4> QED BY <1>1, <2>1, <2>5, <4>1, <4>2
    <3> HIDE DEF u
    <3> QED BY <2>2, <3>1, <3>2, <3>3
  <2> QED BY <2>4, <2>5
<1>10. \A o \in e .. Cap - 1 : g[o] = Blank
  BY <1>1, <1>4 DEF Row, Offset
<1> HIDE DEF u
<1>11. Row(g, H, e, u)
  BY <1>7, <1>8, <1>9, <1>10 DEF Row
<1> QED BY <1>4, <1>11

(* A valid record is copied to the end of another row. *)
LEMMA RowCopy ==
  ASSUME NEW f \in Files, NEW H, NEW e, NEW s, Row(f, H, e, s), NEW h \in H, Valid(f, h),
         NEW b \in Files, NEW J, NEW to, NEW r, Row(b, J, to, r), NEW n, n = 1 + f[h].len, to + n <= Cap,
         NEW g \in Files, g[to] = f[h], \A o \in Offset : o < to \/ to + n <= o => g[o] = b[o]
  PROVE  \E t : Row(g, J \cup {to}, to + n, t)
<1> DEFINE u == [r EXCEPT ![to + n] = r[to] + n]
           K == J \cup {to}
<1>1. /\ h \in Nat /\ Cap \in Nat /\ f[h].len \in Nat /\ f[h].len > 0 /\ IsHdr(f, h) /\ h + n <= Cap /\ n \in Nat /\ n > 1
  BY RowHeads
<1>2. to \in Nat /\ to \in Pos /\ to \in Offset /\ to + n \in Pos /\ to + n \in Nat
  <2>1. to \in Nat
    BY RowHeads
  <2> QED BY <1>1, <2>1 DEF Pos, Offset
<1>3. IsHdr(g, to) /\ Weight(g, to) = n /\ After(g, to) = to + n /\ to + 1 + g[to].len <= Cap
  <2>1. IsHdr(g, to) /\ g[to].len = f[h].len /\ g[to].flags = f[h].flags
    BY <1>1 DEF IsHdr
  <2>2. to + 1 + g[to].len <= Cap /\ to + 1 + g[to].len = to + n
    BY <1>1, <1>2, <2>1
  <2>3. "written" \in g[to].flags /\ "erased" \notin g[to].flags
    BY <2>1 DEF Valid
  <2> QED BY <1>2, <2>1, <2>2, <2>3, Heading DEF Weight, Valid
<1>4. /\ u \in [Pos -> Int] /\ r \in [Pos -> Int] /\ u[to + n] = r[to] + n /\ r[to] \in Int
      /\ \A p \in Pos : p # to + n => u[p] = r[p]
  BY <1>1, <1>2 DEF Row
<1>5. u[to] = r[to] /\ u[0] = 0
  <2>1. 0 \in Pos /\ 0 # to + n /\ to # to + n
    BY <1>1, <1>2, Sizes DEF Pos
  <2> QED BY <1>2, <1>4, <2>1 DEF Row
<1>6. ASSUME NEW k \in J
      PROVE  /\ IsHdr(g, k) /\ k + 1 + g[k].len <= Cap /\ After(g, k) \in K
             /\ u[After(g, k)] = u[k] + Weight(g, k)
             /\ \A i \in K : i > k => i >= After(g, k)
  <2>1. /\ k \in Offset /\ k \in Nat /\ k < to /\ k \in Pos /\ After(b, k) \in Pos /\ After(b, k) \in Nat
        /\ After(b, k) <= to
    BY RowHeads
  <2>2. g[k] = b[k]
    BY <1>2, <2>1
  <2>3. IsHdr(g, k) = IsHdr(b, k) /\ After(g, k) = After(b, k) /\ Weight(g, k) = Weight(b, k)
    BY <2>2, SameHeader
  <2>4. u[k] = r[k] /\ u[After(b, k)] = r[After(b, k)]
    BY <1>1, <1>2, <1>4, <2>1
  <2>5. /\ IsHdr(b, k) /\ k + 1 + b[k].len <= Cap /\ After(b, k) \in K
        /\ r[After(b, k)] = r[k] + Weight(b, k) /\ \A i \in J : i > k => i >= After(b, k)
    BY DEF Row
  <2> HIDE DEF u
  <2> QED BY <2>1, <2>2, <2>3, <2>4, <2>5
<1>7. \A i \in K : ~(i > to)
  BY <1>2, RowHeads
<1>8. \A o \in to + n .. Cap - 1 : g[o] = Blank
  <2> SUFFICES ASSUME NEW o \in to + n .. Cap - 1 PROVE g[o] = Blank
    OBVIOUS
  <2>1. o \in to .. Cap - 1 /\ o \in Offset /\ to + n <= o
    BY <1>1, <1>2 DEF Offset
  <2> QED BY <2>1 DEF Row
<1>9. 0 \in K \cup {to + n} /\ K \subseteq Offset
  BY <1>2 DEF Row
<1> HIDE DEF u
<1>10. \A k \in K : /\ IsHdr(g, k) /\ k + 1 + g[k].len <= Cap
                    /\ After(g, k) \in K \cup {to + n}
                    /\ u[After(g, k)] = u[k] + Weight(g, k)
                    /\ \A i \in K : i > k => i >= After(g, k)
  BY <1>3, <1>4, <1>5, <1>6, <1>7
<1>11. Row(g, K, to + n, u)
  BY <1>2, <1>4, <1>5, <1>8, <1>9, <1>10 DEF Row
<1> QED BY <1>11
-----------------------------------------------------------------------------
(* The inductive invariant.                                                  *)
Collecting == {"gcCopy", "gcOld", "gcNew"}
Writing    == {"gc", "header", "headerFlag", "payload", "writtenFlag"} \cup Collecting

(* What is inserted is known, and it is the insert that writes. *)
Args == /\ op.inserting \/ op.kind = "update" => op.key \in Key /\ op.val \in Val
        /\ pc \in Writing => op.inserting
        /\ pc = "payload" => op.unit \in 1 .. 1 + Size[op.val]

(* The log is a row, the call in progress stands at a place of it, has        *)
(* counted what is before that, and knows that what it writes will fit.       *)
LogAt(e, s) ==
  /\ Row(file, heads, e, s)
  /\ pc \in {"scan", "gc", "gcCopy"} => op.pos \in heads \cup {e}
  /\ pc = "gc"     => op.used = s[op.pos]
  /\ pc = "gcCopy" => op.to = s[op.pos] /\ op.used = s[e]
  /\ pc = "header" => op.pos = e /\ e + Need <= Cap
  /\ pc = "headerFlag" => /\ op.pos \in heads /\ e = op.pos + 1 /\ op.pos + Need <= Cap
                          /\ file[op.pos] = Hdr(1 + Size[op.val], {})
  /\ pc \in {"payload", "writtenFlag"} => /\ op.pos \in heads /\ e = op.pos + Need
                                          /\ file[op.pos] = Hdr(1 + Size[op.val], {"header"})
LogInv == \E e, s : LogAt(e, s)

(* So is the file that is to replace it, and all of it was counted before. *)
CopyInv ==
  /\ pc \in Collecting => op.used + Need < Cap /\ \E r : Row(temp, tempHeads, op.to, r)
  /\ pc \in {"gcOld", "gcNew"} => op.to = op.used

(* What is to be erased is a header of this file. *)
Pointers == /\ pc = "erase" => op.hit \in heads
            /\ pc = "scan"  => op.hit \in heads \cup {Cap}
            /\ heldHere => held \subseteq heads

(* Only a call that does without a file runs without one. *)
HasFile == (heads # {} => present) /\ (pc \notin {"idle", "dismiss"} => present)

Inv == TypeOK /\ Args /\ LogInv /\ CopyInv /\ Pointers /\ HasFile

LEMMA Typed ==
  ASSUME TypeOK
  PROVE  /\ file \in Files /\ temp \in Files /\ op \in Op /\ op.pos \in Pos /\ op.to \in Pos /\ op.used \in Nat
         /\ op.unit \in Nat /\ op.hit \in Offset \cup {Cap} /\ op.inserting \in BOOLEAN /\ op.kind \in Kind
         /\ op.key \in Key \cup {NoKey} /\ op.val \in Val \cup {NoVal}
         /\ op.seen \in BOOLEAN /\ op.result \in Result /\ op.was \subseteq Key \X Val
         /\ heads \subseteq Offset /\ tempHeads \subseteq Offset /\ held \subseteq Offset /\ heldHere \in BOOLEAN
         /\ present \in BOOLEAN /\ shown \subseteq Key \X Val
  BY DEF TypeOK, Op, Files

LEMMA NoOpTyped == NoOp \in Op /\ NoOp.inserting = FALSE /\ NoOp.kind = "none" /\ Cap \in Pos /\ 0 \in Pos
<1>1. Cap \in Pos /\ 0 \in Pos
  BY Sizes DEF Pos
<1> QED BY <1>1 DEF NoOp, Op, Kind, Result

LEMMA InvInit == Init => Inv
<1> SUFFICES ASSUME Init PROVE Inv
  OBVIOUS
<1>1. file = BlankFile /\ temp = BlankFile /\ heads = {} /\ tempHeads = {} /\ held = {} /\ pc = "idle" /\ op = NoOp
  BY DEF Init
<1>2. TypeOK
  BY <1>1, Emptiness, NoOpTyped DEF Init, TypeOK, PC, Files
<1>3. LogInv
  BY <1>1, Emptiness DEF LogInv, LogAt
<1> QED BY <1>1, <1>2, <1>3, NoOpTyped DEF Inv, Args, CopyInv, Pointers, Writing, Collecting, HasFile

(* A call is answered: it leaves the log as it is. *)
LEMMA Ends ==
  ASSUME Inv, pc' = "idle", op' \in Op, op'.inserting \/ op'.kind = "update" => op'.key \in Key /\ op'.val \in Val,
         UNCHANGED <<present, file, temp, heads, tempHeads, heldHere>>, held' \subseteq held, shown' \subseteq Key \X Val
  PROVE  Inv'
<1>1. TypeOK'
  BY DEF Inv, TypeOK, PC
<1>2. LogInv'
  BY DEF Inv, LogInv, LogAt
<1> QED BY <1>1, <1>2 DEF Inv, Args, CopyInv, Pointers, Writing, Collecting, HasFile

LEMMA Results ==
  ASSUME Inv, NEW x \in Result, Answer(x)
  PROVE  pc' = "idle" /\ op' \in Op /\ (op'.inserting \/ op'.kind = "update" => op'.key \in Key /\ op'.val \in Val)
<1>1. op \in Op /\ op' = [op EXCEPT !.result = x] /\ pc' = "idle"
  BY DEF Inv, TypeOK, Answer, Goto
<1> QED BY <1>1 DEF Op, Inv, Args

LEMMA InsertResults ==
  ASSUME Inv, NEW x \in Result, InsertDone(x)
  PROVE  pc' = "idle" /\ op' \in Op /\ (op'.inserting \/ op'.kind = "update" => op'.key \in Key /\ op'.val \in Val)
<1>1. \E y \in Result : Answer(y)
  BY DEF InsertDone, Result
<1> QED BY <1>1, Results

(* A step that leaves files and iterators alone and goes on elsewhere. *)
LEMMA Goes ==
  ASSUME Inv, op' \in Op, Args', CopyInv', Pointers', LogInv', pc' \in PC, present,
         UNCHANGED <<present, file, temp, heads, tempHeads>>, held' \subseteq Offset, heldHere' \in BOOLEAN,
         shown' \subseteq Key \X Val
  PROVE  Inv'
<1>1. TypeOK'
  BY DEF Inv, TypeOK
<1> QED BY <1>1 DEF Inv, HasFile

-----------------------------------------------------------------------------
(* The calls.                                                                *)

Calls == {"insert", "update", "delete", "select", "selectAll", "dismiss"}

Begun(b, kd, k, v) ==
  /\ b \in Op /\ b.pos = 0 /\ b.hit = Cap /\ b.kind = kd /\ b.key = k /\ b.val = v
  /\ b.inserting <=> kd = "insert"
  /\ \A r \in Result : [b EXCEPT !.result = r] \in Op

LEMMA Beginning ==
  ASSUME NEW kd \in Calls, NEW k \in Key \cup {NoKey}, NEW v \in Val \cup {NoVal}
  PROVE  Begun(Begin(kd, k, v), kd, k, v)
<1> DEFINE b == Begin(kd, k, v)
<1>1. Records \subseteq Key \X Val
  BY DEF Records
<1>2. kd \in Kind
  BY DEF Calls, Kind
<1>3. b = [NoOp EXCEPT !.kind = kd, !.key = k, !.val = v, !.inserting = (kd = "insert"), !.was = Records]
  BY DEF Begin
<1>4. NoOp \in Op /\ NoOp.pos = 0 /\ NoOp.hit = Cap /\ (kd = "insert") \in BOOLEAN
  BY NoOpTyped DEF NoOp
<1> HIDE DEF b
<1>5. b \in Op
  BY <1>1, <1>2, <1>3, <1>4 DEF Op
<1>6. \A r \in Result : [b EXCEPT !.result = r] \in Op
  BY <1>5 DEF Op
<1>7. b.pos = 0 /\ b.hit = Cap /\ b.kind = kd /\ b.key = k /\ b.val = v
  BY <1>3, <1>4 DEF Op
<1>8. b.inserting <=> kd = "insert"
  BY <1>3, <1>4 DEF Op
<1>9. Begun(b, kd, k, v)
  BY <1>5, <1>6, <1>7, <1>8 DEF Begun
<1> QED BY <1>9 DEF b

LEMMA StillTyped == TypeOK => StillShown \subseteq Key \X Val
  BY DEF TypeOK, StillShown

(* A walk begins at the first place of the row. *)
LEMMA Starts ==
  ASSUME Inv, present, pc' = "scan", op' \in Op, op'.pos = 0, op'.hit = Cap,
         op'.inserting \/ op'.kind = "update" => op'.key \in Key /\ op'.val \in Val,
         UNCHANGED <<present, file, temp, heads, tempHeads>>, held' \subseteq Offset, heldHere' \in BOOLEAN,
         heldHere' => held' \subseteq heads, shown' \subseteq Key \X Val
  PROVE  Inv'
<1>1. LogInv'
  <2>1. PICK e, s : LogAt(e, s)
    BY DEF Inv, LogInv
  <2>2. 0 \in heads \cup {e}
    BY <2>1 DEF LogAt, Row
  <2>3. LogAt(e, s)'
    BY <2>1, <2>2 DEF LogAt
  <2> QED BY <2>3 DEF LogInv
<1>2. Args' /\ CopyInv' /\ Pointers' /\ pc' \in PC
  BY DEF Args, CopyInv, Pointers, Writing, Collecting, PC
<1> QED BY <1>1, <1>2, Goes

LEMMA CallKeeps ==
  ASSUME Inv, Call
  PROVE  Inv'
<1>0. /\ TypeOK /\ (heldHere => held \subseteq heads) /\ held \subseteq Offset /\ heldHere \in BOOLEAN
      /\ StillShown \subseteq Key \X Val /\ shown \subseteq Key \X Val /\ Records \subseteq Key \X Val
      /\ heads # {} => present
  BY Typed, StillTyped DEF Inv, Pointers, Records, HasFile
<1>1. ASSUME NEW k \in Key, NEW v \in Val, Insert(k, v) PROVE Inv'
  <2> DEFINE b == Begin("insert", k, v)
  <2>0. Begun(b, "insert", k, v)
    BY Beginning DEF Calls
  <2>1. shown' = StillShown /\ UNCHANGED <<temp, tempHeads, held, heldHere>>
    BY <1>1 DEF Insert, copy
  <2> HIDE DEF b
  <2>2. CASE present /\ pc' = "scan" /\ op' = b /\ UNCHANGED flash
    BY <1>0, <2>0, <2>1, <2>2, Starts DEF flash, Begun
  <2>3. CASE ~present /\ pc' = "scan" /\ op' = b /\ CreateFile
    <3>1. Row(file', heads', 0, [p \in Pos |-> 0]) /\ file' \in Files /\ heads' = {} /\ present' = TRUE
      BY <2>3, Emptiness DEF CreateFile
    <3>2. LogInv'
      <4>1. LogAt(0, [p \in Pos |-> 0])'
        BY <2>0, <2>3, <3>1 DEF LogAt, Begun
      <4> QED BY <4>1 DEF LogInv
    <3>3. TypeOK'
      BY <1>0, <2>0, <2>1, <2>3, <3>1 DEF TypeOK, PC, Files, Begun
    <3>4. heldHere' => held' = {}
      BY <1>0, <2>1, <2>3
    <3>5. Args' /\ CopyInv' /\ Pointers' /\ HasFile'
      BY <2>0, <2>3, <3>1, <3>4 DEF Args, CopyInv, Pointers, HasFile, Writing, Collecting, Begun
    <3> QED BY <3>2, <3>3, <3>5 DEF Inv
  <2>4. CASE pc' = "idle" /\ op' = [b EXCEPT !.result = "DatabaseFull"] /\ UNCHANGED flash
    <3>1. op' \in Op /\ op'.key \in Key /\ op'.val \in Val
      BY <2>0, <2>4 DEF Result, Op, Begun
    <3> QED BY <1>0, <2>1, <2>4, <3>1, Ends DEF flash
  <2> QED BY <1>1, <2>2, <2>3, <2>4 DEF Insert, Goto, b
<1>2. ASSUME NEW kd \in {"update", "delete", "select"}, NEW k \in Key, NEW v \in Val \cup {NoVal},
             kd = "update" => v \in Val, Lookup(kd, k, v)
      PROVE  Inv'
  <2> DEFINE b == Begin(kd, k, v)
  <2>0. Begun(b, kd, k, v) /\ kd # "insert"
    BY Beginning DEF Calls
  <2>1. shown' = StillShown /\ UNCHANGED <<present, file, heads, temp, tempHeads, held, heldHere>>
    BY <1>2 DEF Lookup, copy, flash
  <2> HIDE DEF b
  <2>2. CASE present /\ pc' = "scan" /\ op' = b
    BY <1>0, <1>2, <2>0, <2>1, <2>2, Starts DEF Begun
  <2>3. CASE pc' = "idle" /\ op' = [b EXCEPT !.result = "InvalidDatabaseID"]
    <3>1. op' \in Op /\ op'.key = k /\ op'.val = v /\ ~op'.inserting /\ op'.kind = kd
      BY <2>0, <2>3 DEF Result, Op, Begun
    <3> QED BY <1>0, <1>2, <2>1, <2>3, <3>1, Ends
  <2> QED BY <1>2, <2>2, <2>3 DEF Lookup, Goto, b
<1>3. CASE SelectAll
  <2> DEFINE b == Begin("selectAll", NoKey, NoVal)
  <2>0. Begun(b, "selectAll", NoKey, NoVal)
    BY Beginning DEF Calls
  <2>1. held' = {} /\ heldHere' = TRUE /\ shown' = Records /\ UNCHANGED <<present, file, heads, temp, tempHeads>>
    BY <1>3 DEF SelectAll, copy, flash
  <2> HIDE DEF b
  <2>2. CASE present /\ pc' = "scan" /\ op' = b
    BY <1>0, <2>0, <2>1, <2>2, Starts DEF Begun
  <2>3. CASE pc' = "idle" /\ op' = [b EXCEPT !.result = "Success"]
    <3>1. op' \in Op /\ ~op'.inserting /\ op'.kind = "selectAll"
      BY <2>0, <2>3 DEF Result, Op, Begun
    <3>2. TypeOK' /\ LogInv'
      <4>1. TypeOK'
        BY <1>0, <2>1, <2>3, <3>1 DEF TypeOK, PC
      <4>2. LogInv'
        BY <2>1, <2>3 DEF Inv, LogInv, LogAt
      <4> QED BY <4>1, <4>2
    <3> QED BY <1>0, <2>1, <2>3, <3>1, <3>2 DEF Inv, Args, CopyInv, Pointers, HasFile, Writing, Collecting
  <2> QED BY <1>3, <2>2, <2>3 DEF SelectAll, Goto, b
<1>4. CASE DismissAll
  <2> DEFINE b == Begin("dismiss", NoKey, NoVal)
  <2>0. Begun(b, "dismiss", NoKey, NoVal)
    BY Beginning DEF Calls
  <2>1. pc' = "dismiss" /\ op' = b /\ UNCHANGED <<present, file, heads, temp, tempHeads, held, heldHere, shown>>
    BY <1>4 DEF DismissAll, copy, flash, list, Goto
  <2> HIDE DEF b
  <2>2. TypeOK'
    BY <1>0, <2>0, <2>1 DEF TypeOK, PC, Begun
  <2>3. LogInv'
    BY <2>1 DEF Inv, LogInv, LogAt
  <2>4. Args' /\ CopyInv' /\ Pointers' /\ HasFile'
    BY <1>0, <2>0, <2>1 DEF Args, CopyInv, Pointers, HasFile, Writing, Collecting, Begun
  <2> QED BY <2>2, <2>3, <2>4 DEF Inv
<1> QED BY <1>1, <1>2, <1>3, <1>4 DEF Call
-----------------------------------------------------------------------------
(* The walk.                                                                 *)

(* Where a walk stops there is a header, or the end. *)
LEMMA Stops ==
  ASSUME NEW f \in Files, NEW H, NEW e, NEW s, Row(f, H, e, s), NEW p \in H \cup {e}
  PROVE  /\ AtEnd(f, p) => p = e
         /\ ~AtEnd(f, p) => p \in H
         /\ p \in H => After(f, p) \in H \cup {e} /\ After(f, p) \in Pos /\ s[After(f, p)] = s[p] + Weight(f, p)
<1>1. e \in Nat /\ Cap \in Nat /\ \A h \in H : h \in Nat /\ h < Cap /\ IsHdr(f, h) /\ After(f, h) \in Pos
  BY RowHeads
<1>2. AtEnd(f, p) => p = e
  BY <1>1, Cells DEF AtEnd, IsHdr
<1>3. ~AtEnd(f, p) => p \in H
  <2> SUFFICES ASSUME p = e, e < Cap PROVE f[e] = Blank
    BY DEF AtEnd
  <2> QED BY <1>1 DEF Row
<1> QED BY <1>1, <1>2, <1>3 DEF Row

SameCall == /\ op'.kind = op.kind /\ op'.key = op.key /\ op'.val = op.val /\ op'.inserting = op.inserting

LEMMA Walks ==
  ASSUME Inv, pc = "scan", ~AtEnd(file, op.pos), pc' = "scan", op' \in Op, op'.pos = After(file, op.pos), SameCall,
         op'.hit \in {op.hit, op.pos}, held' \subseteq held \cup {op.pos},
         UNCHANGED <<present, file, temp, heads, tempHeads, heldHere, shown>>
  PROVE  Inv'
<1>1. PICK e, s : LogAt(e, s)
  BY DEF Inv, LogInv
<1>2. file \in Files /\ held \subseteq Offset /\ heads \subseteq Offset /\ shown \subseteq Key \X Val /\ heldHere \in BOOLEAN
  BY Typed DEF Inv
<1>3. op.pos \in heads \cup {e} /\ Row(file, heads, e, s)
  BY <1>1 DEF LogAt
<1>4. op.pos \in heads /\ After(file, op.pos) \in heads \cup {e}
  BY <1>2, <1>3, Stops
<1>5. LogInv'
  <2>1. LogAt(e, s)'
    BY <1>3, <1>4 DEF LogAt
  <2> QED BY <2>1 DEF LogInv
<1>6. Args' /\ CopyInv' /\ Pointers' /\ pc' \in PC /\ present
  BY <1>4 DEF Inv, Args, CopyInv, Pointers, HasFile, SameCall, PC, Writing, Collecting
<1>7. held' \subseteq Offset
  BY <1>2, <1>4
<1> QED BY <1>2, <1>5, <1>6, <1>7, Goes

(* The place after a header, for the types. *)
LEMMA NextPlace ==
  ASSUME Inv, pc \in {"scan", "gc", "gcCopy"}, ~AtEnd(file, op.pos)
  PROVE  op.pos \in heads /\ After(file, op.pos) \in Pos
<1>1. PICK e, s : LogAt(e, s)
  BY DEF Inv, LogInv
<1> QED BY <1>1, Typed, Stops DEF Inv, LogAt

LEMMA ScanKeeps ==
  ASSUME Inv, ScanSkip \/ ScanHit \/ ScanGather
  PROVE  Inv'
<1>0. op \in Op /\ op.seen \in BOOLEAN /\ op.pos \in Pos
  BY Typed DEF Inv
<1>1. /\ pc = "scan" /\ ~AtEnd(file, op.pos) /\ pc' = "scan"
      /\ UNCHANGED <<present, file, temp, heads, tempHeads, heldHere, shown>>
      /\ held' \subseteq held \cup {op.pos}
  BY DEF ScanSkip, ScanHit, ScanGather, Goto, flash, copy, list
<1>2. op.pos \in heads /\ After(file, op.pos) \in Pos /\ op.pos \in Offset
  BY <1>1, NextPlace, Typed DEF Inv
<1>3. CASE ScanSkip
  <2>1. op' = [op EXCEPT !.pos = After(file, op.pos), !.seen = @ \/ Valid(file, op.pos)]
    BY <1>3 DEF ScanSkip, Goto
  <2>2. op' \in Op /\ op'.pos = After(file, op.pos) /\ SameCall /\ op'.hit = op.hit
    BY <1>0, <1>2, <2>1 DEF Op, SameCall
  <2> QED BY <1>1, <2>2, Walks
<1>4. CASE ScanHit
  <2>1. op' = [op EXCEPT !.pos = After(file, op.pos), !.seen = TRUE, !.hit = IF @ = Cap THEN op.pos ELSE @]
    BY <1>4 DEF ScanHit, Goto
  <2>2. op' \in Op /\ op'.pos = After(file, op.pos) /\ SameCall /\ op'.hit \in {op.hit, op.pos}
    BY <1>0, <1>2, <2>1 DEF Op, SameCall
  <2> QED BY <1>1, <2>2, Walks
<1>5. CASE ScanGather
  <2>1. op' = [op EXCEPT !.pos = After(file, op.pos)]
    BY <1>5 DEF ScanGather, Goto
  <2>2. op' \in Op /\ op'.pos = After(file, op.pos) /\ SameCall /\ op'.hit = op.hit
    BY <1>0, <1>2, <2>1 DEF Op, SameCall
  <2> QED BY <1>1, <2>2, Walks
<1> QED BY <1>3, <1>4, <1>5

LEMMA DuplicateKeeps ==
  ASSUME Inv, ScanDuplicate \/ GcRefuse
  PROVE  Inv'
<1>1. UNCHANGED <<present, file, temp, heads, tempHeads, heldHere, held, shown>> /\ shown \subseteq Key \X Val
  BY Typed DEF Inv, ScanDuplicate, GcRefuse, flash, copy, list
<1>2. \E x \in Result : InsertDone(x)
  BY DEF ScanDuplicate, GcRefuse, Result
<1> QED BY <1>1, <1>2, InsertResults, Ends

LEMMA ScanEndKeeps ==
  ASSUME Inv, ScanEnd
  PROVE  Inv'
<1>0. PICK e, s : LogAt(e, s)
  BY DEF Inv, LogInv
<1>1. /\ pc = "scan" /\ AtEnd(file, op.pos)
      /\ UNCHANGED <<present, file, temp, heads, tempHeads, heldHere, held, shown>>
  BY DEF ScanEnd, flash, copy, list
<1>2. op \in Op /\ file \in Files /\ shown \subseteq Key \X Val /\ held \subseteq Offset /\ heldHere \in BOOLEAN
  BY Typed DEF Inv
<1>3. Row(file, heads, e, s) /\ op.pos = e /\ e \in Pos /\ Cap \in Nat /\ e \in Nat
  BY <1>0, <1>1, <1>2, Stops, RowHeads DEF LogAt
<1>4. present /\ op.hit \in heads \cup {Cap} /\ (heldHere => held \subseteq heads)
      /\ (op.inserting \/ op.kind = "update" => op.key \in Key /\ op.val \in Val)
  BY <1>1 DEF Inv, HasFile, Pointers, Args
<1>5. CASE op.inserting /\ op.pos + Need > Cap
  <2>1. pc' = "gc" /\ op' = [op EXCEPT !.pos = 0, !.used = 0]
    BY <1>5 DEF ScanEnd, Goto
  <2>2. op' \in Op /\ op'.pos = 0 /\ op'.used = 0 /\ SameCall
    BY <1>2, <2>1, NoOpTyped DEF Op, SameCall
  <2>3. LogAt(e, s)'
    BY <1>1, <1>3, <2>1, <2>2 DEF LogAt, Row
  <2>4. Args' /\ CopyInv' /\ Pointers' /\ pc' \in PC
    BY <1>1, <1>4, <1>5, <2>1, <2>2 DEF Args, CopyInv, Pointers, SameCall, PC, Writing, Collecting
  <2> QED BY <1>1, <1>2, <1>4, <2>2, <2>3, <2>4, Goes DEF LogInv
<1>6. CASE op.inserting /\ ~(op.pos + Need > Cap)
  <2>1. pc' = "header" /\ op' = op
    BY <1>6 DEF ScanEnd, Goto
  <2>2. Need \in Nat
    BY <1>4, <1>6, Sizes DEF Need
  <2>3. Need' = Need /\ e + Need <= Cap
    BY <1>3, <1>6, <2>1, <2>2 DEF Need
  <2>4. LogAt(e, s)'
    BY <1>1, <1>3, <2>1, <2>3 DEF LogAt
  <2>5. Args' /\ CopyInv' /\ Pointers' /\ pc' \in PC
    BY <1>1, <1>4, <1>6, <2>1 DEF Args, CopyInv, Pointers, PC, Writing, Collecting
  <2> QED BY <1>1, <1>2, <1>4, <2>1, <2>4, <2>5, Goes DEF LogInv
<1>7. CASE ~op.inserting /\ pc' = "erase"
  <2>1. op' = op /\ op.hit # Cap
    BY <1>7 DEF ScanEnd, Goto, Answer
  <2>2. LogAt(e, s)'
    BY <1>1, <1>3, <1>7, <2>1 DEF LogAt
  <2>3. Args' /\ CopyInv' /\ Pointers' /\ pc' \in PC
    BY <1>1, <1>4, <1>7, <2>1 DEF Args, CopyInv, Pointers, PC, Writing, Collecting
  <2> QED BY <1>1, <1>2, <1>4, <2>1, <2>2, <2>3, Goes DEF LogInv
<1>8. CASE ~op.inserting /\ pc' # "erase"
  <2>1. CASE \E x \in Result : Answer(x)
    BY <1>1, <1>2, <2>1, Results, Ends
  <2>2. CASE op.kind = "select" /\ \E v \in Val : pc' = "idle" /\ op' = [op EXCEPT !.val = v, !.result = "Success"]
    <3>1. op' \in Op /\ ~op'.inserting /\ op'.kind = "select" /\ pc' = "idle"
      BY ZenonT(120), <1>2, <1>8, <2>2 DEF Op, Result
    <3> QED BY <1>1, <1>2, <3>1, Ends
  <2>3. (\E x \in Result : Answer(x))
        \/ (op.kind = "select" /\ \E v \in Val : pc' = "idle" /\ op' = [op EXCEPT !.val = v, !.result = "Success"])
    BY <1>8 DEF ScanEnd, Goto, Result
  <2> QED BY <2>1, <2>2, <2>3
<1> QED BY <1>5, <1>6, <1>7, <1>8
-----------------------------------------------------------------------------
(* Erasing.                                                                  *)

LEMMA Flagging ==
  ASSUME Inv, NEW o \in heads, NEW fl, SetFlag(o, fl)
  PROVE  file' = [file EXCEPT ![o] = Hdr(file[o].len, file[o].flags \cup {fl})]
<1>1. PICK e, s : Row(file, heads, e, s)
  BY DEF Inv, LogInv, LogAt
<1>2. IsHdr(file, o) /\ o \in Offset /\ file \in Files
  BY <1>1, Typed DEF Inv, Row
<1> QED BY <1>2 DEF SetFlag, Files

LEMMA ErasesInRow ==
  ASSUME Inv, NEW o \in heads, EraseAt(o), heads' = heads
  PROVE  file' \in Files /\ \E e, s : Row(file', heads', e, s)
<1>1. PICK e, s : Row(file, heads, e, s)
  BY DEF Inv, LogInv, LogAt
<1>2. file' = [file EXCEPT ![o] = Hdr(file[o].len, file[o].flags \cup {"erased"})]
  BY Flagging DEF EraseAt
<1>3. file \in Files
  BY Typed DEF Inv
<1> QED BY <1>1, <1>2, <1>3, RowErase

LEMMA EraseKeeps ==
  ASSUME Inv, Erase
  PROVE  Inv'
<1>1. /\ pc = "erase" /\ EraseAt(op.hit) /\ UNCHANGED <<present, heads, temp, tempHeads, held, heldHere>>
      /\ shown' \subseteq shown
  BY DEF Erase, copy
<1>2. op.hit \in heads /\ present
  BY <1>1 DEF Inv, Pointers, HasFile
<1>3. PICK e, s : Row(file', heads', e, s)
  BY <1>1, <1>2, ErasesInRow
<1>4. file' \in Files
  BY <1>1, <1>2, ErasesInRow
<1>5. /\ op \in Op /\ TypeOK /\ shown' \subseteq Key \X Val /\ (heldHere => held \subseteq heads)
      /\ (op.inserting \/ op.kind = "update" => op.key \in Key /\ op.val \in Val)
  BY <1>1, Typed DEF Inv, Pointers, Args
<1>6. CASE op.kind = "update"
  <2>1. pc' = "scan" /\ op' = [op EXCEPT !.inserting = TRUE, !.pos = 0]
    BY <1>6 DEF Erase, Goto
  <2>2. op' \in Op /\ op'.pos = 0 /\ op'.hit = op.hit /\ op'.key = op.key /\ op'.val = op.val
    BY <1>5, <2>1, NoOpTyped DEF Op
  <2>3. TypeOK'
    BY <1>1, <1>4, <1>5, <2>1, <2>2 DEF TypeOK, PC, Files
  <2>4. LogAt(e, s)'
    BY <1>3, <2>1, <2>2 DEF LogAt, Row
  <2>5. Args' /\ CopyInv' /\ Pointers' /\ HasFile'
    BY <1>1, <1>2, <1>5, <1>6, <2>1, <2>2 DEF Args, CopyInv, Pointers, HasFile, Writing, Collecting
  <2> QED BY <2>3, <2>4, <2>5 DEF Inv, LogInv
<1>7. CASE op.kind # "update"
  <2>1. Answer("Success")
    BY <1>7 DEF Erase
  <2>2. pc' = "idle" /\ op' \in Op /\ (op'.inserting \/ op'.kind = "update" => op'.key \in Key /\ op'.val \in Val)
    BY <2>1, Results DEF Result
  <2>3. TypeOK'
    BY <1>1, <1>4, <1>5, <2>2 DEF TypeOK, PC, Files
  <2>4. LogAt(e, s)'
    BY <1>3, <2>2 DEF LogAt
  <2>5. Args' /\ CopyInv' /\ Pointers' /\ HasFile'
    BY <1>1, <1>2, <1>5, <2>2 DEF Args, CopyInv, Pointers, HasFile, Writing, Collecting
  <2> QED BY <2>3, <2>4, <2>5 DEF Inv, LogInv
<1> QED BY <1>6, <1>7

LEMMA DismissKeeps ==
  ASSUME Inv, Dismiss
  PROVE  Inv'
<1>1. PICK o \in held : /\ (IF heldHere THEN EraseAt(o) ELSE UNCHANGED file) /\ held' = held \ {o}
  BY DEF Dismiss
<1>2. /\ pc = "dismiss" /\ UNCHANGED <<present, heads, temp, tempHeads, heldHere, shown>>
      /\ (Answer("Success") \/ UNCHANGED <<pc, op>>)
  BY DEF Dismiss, copy
<1>3. TypeOK /\ (heldHere => held \subseteq heads) /\ (heads # {} => present)
      /\ (op.inserting \/ op.kind = "update" => op.key \in Key /\ op.val \in Val)
  BY DEF Inv, Pointers, Args, HasFile
<1>4. file' \in Files /\ \E e, s : Row(file', heads', e, s)
  <2>1. CASE heldHere
    BY <1>1, <1>2, <1>3, <2>1, ErasesInRow
  <2>2. CASE ~heldHere
    <3>1. file' = file /\ heads' = heads /\ file \in Files
      BY <1>1, <1>2, <1>3, <2>2, Typed
    <3>2. \E e, s : Row(file, heads, e, s)
      BY DEF Inv, LogInv, LogAt
    <3> QED BY <3>1, <3>2
  <2> QED BY <2>1, <2>2
<1>5. pc' \in {"idle", "dismiss"} /\ op' \in Op /\ (op'.inserting \/ op'.kind = "update" => op'.key \in Key /\ op'.val \in Val)
  <2>1. CASE Answer("Success")
    BY <2>1, Results DEF Result
  <2>2. CASE UNCHANGED <<pc, op>>
    BY <1>2, <1>3, <2>2, Typed
  <2> QED BY <1>2, <2>1, <2>2
<1>6. TypeOK'
  BY <1>1, <1>2, <1>3, <1>4, <1>5 DEF TypeOK, PC, Files
<1>7. LogInv'
  BY <1>4, <1>5 DEF LogInv, LogAt
<1>8. Args' /\ CopyInv' /\ Pointers' /\ HasFile'
  BY <1>1, <1>2, <1>3, <1>5 DEF Args, CopyInv, Pointers, HasFile, Writing, Collecting
<1> QED BY <1>6, <1>7, <1>8 DEF Inv
-----------------------------------------------------------------------------
(* Writing a record.                                                         *)

(* A step that writes the file, and goes on or is answered. *)
LEMMA Writes ==
  ASSUME Inv, present, op' \in Op, Args', LogInv', pc' \in PC \ Collecting, pc' \notin {"scan", "erase"},
         file' \in Files, heads \subseteq heads', heads' \subseteq Offset,
         UNCHANGED <<present, temp, tempHeads, held, heldHere, shown>>
  PROVE  Inv'
<1>1. TypeOK /\ (heldHere => held \subseteq heads)
  BY DEF Inv, Pointers
<1>2. TypeOK'
  BY <1>1 DEF TypeOK, Files
<1>3. CopyInv' /\ Pointers' /\ HasFile'
  BY <1>1 DEF CopyInv, Pointers, HasFile, Collecting
<1> QED BY <1>2, <1>3 DEF Inv

(* What is known of the record that is written. *)
LEMMA InHand ==
  ASSUME Inv, pc \in Writing
  PROVE  /\ op.val \in Val /\ op.key \in Key /\ op.inserting /\ present
         /\ Size[op.val] \in Nat /\ Need = 2 + Size[op.val] /\ Need \in Nat /\ 1 + Size[op.val] \in Len
         /\ op \in Op /\ file \in Files /\ temp \in Files /\ op.pos \in Nat /\ op.to \in Nat
         /\ op.used \in Nat /\ op.unit \in Nat
         /\ heads \subseteq Offset /\ tempHeads \subseteq Offset /\ Cap \in Nat
<1>1. op.val \in Val /\ op.key \in Key /\ op.inserting /\ present
  BY DEF Inv, Args, HasFile, Writing, Collecting
<1>2. Size[op.val] \in Nat /\ Cap \in Nat
  BY <1>1, Sizes
<1>3. Need = 2 + Size[op.val] /\ 1 + Size[op.val] \in Len
  BY <1>1, Cells DEF Need
<1>4. op.pos \in Nat /\ op.to \in Nat
  BY <1>2, Typed DEF Inv, Pos
<1> QED BY <1>1, <1>2, <1>3, <1>4, Typed DEF Inv

LEMMA WriteHeaderKeeps ==
  ASSUME Inv, WriteHeader
  PROVE  Inv'
<1>1. pc = "header" /\ UNCHANGED <<present, temp, tempHeads, held, heldHere, shown>>
  BY DEF WriteHeader, copy, list
<1>2. PICK e, s : LogAt(e, s)
  BY DEF Inv, LogInv
<1>3. Row(file, heads, e, s) /\ op.pos = e /\ e + Need <= Cap
  BY <1>1, <1>2 DEF LogAt
<1>4. /\ op.val \in Val /\ op.key \in Key /\ op.inserting /\ present /\ Size[op.val] \in Nat /\ Need = 2 + Size[op.val]
      /\ 1 + Size[op.val] \in Len /\ op \in Op /\ file \in Files /\ op.pos \in Nat /\ heads \subseteq Offset /\ Cap \in Nat
  BY <1>1, InHand DEF Writing
<1>5. op.pos < Cap /\ e + 1 + (1 + Size[op.val]) <= Cap
  BY <1>3, <1>4
<1>6. /\ Put(op.pos, Hdr(1 + Size[op.val], {})) /\ heads' = heads \cup {e} /\ pc' = "headerFlag" /\ op' = op
  BY <1>3, <1>5 DEF WriteHeader, Goto
<1>7. file[e] = Blank /\ e \in Offset
  BY <1>3, <1>4, <1>5 DEF Row, Offset
<1>8. file' = [file EXCEPT ![e] = Hdr(1 + Size[op.val], {})]
  BY <1>3, <1>4, <1>6, <1>7 DEF Put, Files
<1>9. (\E t : Row(file', heads', e + 1, t)) /\ file' \in Files
  BY <1>3, <1>4, <1>5, <1>6, <1>8, RowNew
<1>10. file'[op.pos] = Hdr(1 + Size[op.val], {})
  BY <1>3, <1>4, <1>7, <1>8 DEF Files
<1>11. LogInv'
  <2>1. PICK t : Row(file', heads', e + 1, t)
    BY <1>9
  <2>2. Need' = Need /\ op.pos + Need <= Cap
    BY <1>3, <1>6 DEF Need
  <2>3. LogAt(e + 1, t)'
    BY <1>3, <1>6, <1>10, <2>1, <2>2 DEF LogAt
  <2> QED BY <2>3 DEF LogInv
<1>12. Args' /\ pc' \in PC \ Collecting
  BY <1>4, <1>6 DEF Args, PC, Collecting
<1> QED BY <1>1, <1>4, <1>6, <1>7, <1>9, <1>11, <1>12, Writes

LEMMA WriteHeaderFlagKeeps ==
  ASSUME Inv, WriteHeaderFlag
  PROVE  Inv'
<1>1. /\ pc = "headerFlag" /\ SetFlag(op.pos, "header") /\ pc' = "payload" /\ op' = [op EXCEPT !.unit = 1]
      /\ UNCHANGED <<present, heads, temp, tempHeads, held, heldHere, shown>>
  BY DEF WriteHeaderFlag, copy, list, Goto
<1>2. PICK e, s : LogAt(e, s)
  BY DEF Inv, LogInv
<1>3. /\ Row(file, heads, e, s) /\ op.pos \in heads /\ e = op.pos + 1 /\ op.pos + Need <= Cap
      /\ file[op.pos] = Hdr(1 + Size[op.val], {})
  BY <1>1, <1>2 DEF LogAt
<1>4. /\ op.val \in Val /\ op.key \in Key /\ op.inserting /\ present /\ Size[op.val] \in Nat /\ Need = 2 + Size[op.val]
      /\ 1 + Size[op.val] \in Len /\ op \in Op /\ file \in Files /\ op.pos \in Nat /\ heads \subseteq Offset /\ Cap \in Nat
  BY <1>1, InHand DEF Writing
<1>5. file[op.pos].len = 1 + Size[op.val] /\ file[op.pos].flags = {}
  BY <1>3, Cells
<1>6. file' = [file EXCEPT ![op.pos] = Hdr(file[op.pos].len, {"header"})]
  <2>1. file' = [file EXCEPT ![op.pos] = Hdr(file[op.pos].len, file[op.pos].flags \cup {"header"})]
    BY <1>1, <1>3, Flagging
  <2>2. file[op.pos].flags \cup {"header"} = {"header"}
    BY <1>5
  <2> QED BY <2>1, <2>2
<1>7. (\E t : Row(file', heads, op.pos + 1 + file[op.pos].len, t)) /\ file' \in Files
  BY ZenonT(120), <1>3, <1>4, <1>5, <1>6, RowFlag
<1>8. op.pos + 1 + file[op.pos].len = op.pos + Need
  BY <1>4, <1>5
<1>9. op' \in Op /\ op'.unit = 1 /\ op'.pos = op.pos /\ SameCall /\ Need' = Need
  BY <1>1, <1>4 DEF Op, SameCall, Need
<1>10. file'[op.pos] = Hdr(1 + Size[op.val], {"header"})
  BY <1>3, <1>4, <1>5, <1>6 DEF Files
<1>11. LogInv'
  <2>1. PICK t : Row(file', heads, op.pos + Need, t)
    BY <1>7, <1>8
  <2>2. LogAt(op.pos + Need, t)'
    BY <1>1, <1>3, <1>9, <1>10, <2>1 DEF LogAt, SameCall
  <2> QED BY <2>2 DEF LogInv
<1>12. Args' /\ pc' \in PC \ Collecting
  BY <1>1, <1>4, <1>9 DEF Args, PC, Collecting, SameCall
<1> QED BY <1>1, <1>4, <1>7, <1>9, <1>11, <1>12, Writes

LEMMA WritePayloadKeeps ==
  ASSUME Inv, WritePayload
  PROVE  Inv'
<1>1. pc = "payload" /\ UNCHANGED <<present, heads, temp, tempHeads, held, heldHere, shown>>
  BY DEF WritePayload, copy, list
<1>2. PICK e, s : LogAt(e, s)
  BY DEF Inv, LogInv
<1>3. /\ Row(file, heads, e, s) /\ op.pos \in heads /\ e = op.pos + Need
      /\ file[op.pos] = Hdr(1 + Size[op.val], {"header"})
  BY <1>1, <1>2 DEF LogAt
<1>4. /\ op.val \in Val /\ op.key \in Key /\ op.inserting /\ present /\ Size[op.val] \in Nat /\ Need = 2 + Size[op.val]
      /\ op \in Op /\ file \in Files /\ op.pos \in Nat /\ heads \subseteq Offset /\ Cap \in Nat
  BY <1>1, InHand DEF Writing
<1>5. op.unit \in 1 .. 1 + Size[op.val] /\ op.unit \in Nat /\ op.unit > 0
  BY <1>1, <1>4 DEF Inv, Args
<1>6. e \in Nat /\ e <= Cap /\ op.pos + op.unit < e /\ op.pos + op.unit \in Offset /\ op.pos < op.pos + op.unit
  <2>1. e \in Nat /\ e <= Cap
    BY <1>3, <1>4, RowHeads
  <2> QED BY <1>3, <1>4, <1>5, <2>1 DEF Offset
<1>7. After(file, op.pos) = e
  <2>1. file[op.pos].len = 1 + Size[op.val] /\ file[op.pos].flags = {"header"}
    BY <1>3, Cells
  <2>2. {"header", "written"} \cap file[op.pos].flags # {}
    BY <2>1
  <2>3. After(file, op.pos) = op.pos + 1 + file[op.pos].len
    BY <1>3, <1>4, <2>2, RowHeads
  <2> QED BY <1>3, <1>4, <2>1, <2>3
<1>8. /\ Put(op.pos + op.unit, Payload(op.key, op.val, op.unit))
      /\ IF op.unit <= Size[op.val] THEN pc' = "payload" /\ op' = [op EXCEPT !.unit = @ + 1]
                                    ELSE pc' = "writtenFlag" /\ op' = op
  <2>1. op.pos + op.unit < Cap
    BY <1>4, <1>5, <1>6
  <2> QED BY <2>1 DEF WritePayload, Goto
<1>9. \E c \in Cell : file' = [file EXCEPT ![op.pos + op.unit] = c]
  <2>1. Payload(op.key, op.val, op.unit) \in Cell /\ Ruined \in Cell
    <3>1. CASE op.unit = 1
      BY <1>4, <3>1, Cells DEF Payload
    <3>2. CASE op.unit # 1
      <4>1. op.unit - 1 \in 1 .. Size[op.val]
        BY <1>4, <1>5, <3>2
      <4> QED BY <1>4, <3>2, <4>1, Cells DEF Payload
    <3> QED BY <3>1, <3>2, Cells
  <2>2. file' = [file EXCEPT ![op.pos + op.unit] =
                   IF file[op.pos + op.unit] = Blank THEN Payload(op.key, op.val, op.unit) ELSE Ruined]
    BY <1>4, <1>6, <1>8 DEF Put, Files
  <2> QED BY <2>1, <2>2
<1>10. Row(file', heads, e, s) /\ file' \in Files /\ file'[op.pos] = file[op.pos]
  <2> DEFINE o == op.pos + op.unit  h == op.pos
  <2>1. PICK c \in Cell : file' = [file EXCEPT ![o] = c]
    BY <1>9
  <2>2. o \in Offset /\ h \in heads /\ h < o /\ o < After(file, h)
    BY <1>3, <1>6, <1>7
  <2> HIDE DEF o, h
  <2>3. file' \in Files /\ \A p \in Offset : p # o => file'[p] = file[p]
    BY <1>4, <2>1, <2>2 DEF Files
  <2>4. Row(file', heads, e, s) /\ file'[h] = file[h]
    BY <1>3, <1>4, <2>2, <2>3, RowPut
  <2> QED BY <2>3, <2>4 DEF h
<1>11. /\ op' \in Op /\ op'.pos = op.pos /\ SameCall /\ Need' = Need /\ pc' \in {"payload", "writtenFlag"}
       /\ pc' = "payload" => op'.unit \in 1 .. 1 + Size[op.val]
  <2>1. CASE op.unit <= Size[op.val]
    <3>1. op' \in Op /\ op'.pos = op.pos /\ SameCall /\ op'.unit = op.unit + 1 /\ pc' = "payload"
      <4>1. pc' = "payload" /\ op' = [op EXCEPT !.unit = @ + 1]
        BY <1>8, <2>1
      <4>2. op.unit + 1 \in Nat
        BY <1>5
      <4> QED BY <1>4, <4>1, <4>2 DEF Op, SameCall
    <3>2. op'.unit \in 1 .. 1 + Size[op.val]
      BY <1>4, <1>5, <2>1, <3>1
    <3> QED BY <3>1, <3>2 DEF SameCall, Need
  <2>2. CASE ~(op.unit <= Size[op.val])
    BY <1>4, <1>8, <2>2 DEF SameCall, Need
  <2> QED BY <2>1, <2>2
<1>12. LogInv'
  <2>1. LogAt(e, s)'
    BY <1>1, <1>3, <1>10, <1>11 DEF LogAt, SameCall
  <2> QED BY <2>1 DEF LogInv
<1>13. Args' /\ pc' \in PC \ Collecting
  BY <1>4, <1>11 DEF Args, PC, Collecting, SameCall
<1> QED BY <1>1, <1>4, <1>10, <1>11, <1>12, <1>13, Writes

LEMMA WriteFlagKeeps ==
  ASSUME Inv, WriteFlag
  PROVE  Inv'
<1>1. /\ pc = "writtenFlag" /\ SetFlag(op.pos, "written") /\ InsertDone("Success")
      /\ UNCHANGED <<present, heads, temp, tempHeads, held, heldHere, shown>>
  BY DEF WriteFlag, copy, list
<1>2. PICK e, s : LogAt(e, s)
  BY DEF Inv, LogInv
<1>3. /\ Row(file, heads, e, s) /\ op.pos \in heads /\ e = op.pos + Need
      /\ file[op.pos] = Hdr(1 + Size[op.val], {"header"})
  BY <1>1, <1>2 DEF LogAt
<1>4. /\ present /\ Size[op.val] \in Nat /\ Need = 2 + Size[op.val]
      /\ file \in Files /\ op.pos \in Nat /\ heads \subseteq Offset /\ Cap \in Nat
  BY <1>1, InHand DEF Writing
<1>5. file[op.pos].len = 1 + Size[op.val] /\ file[op.pos].flags = {"header"}
  BY <1>3, Cells
<1>6. After(file, op.pos) = e
  <2>1. {"header", "written"} \cap file[op.pos].flags # {}
    BY <1>5
  <2>2. After(file, op.pos) = op.pos + 1 + file[op.pos].len
    BY <1>3, <1>4, <2>1, RowHeads
  <2> QED BY <1>3, <1>4, <1>5, <2>2
<1>7. file' = [file EXCEPT ![op.pos] = Hdr(file[op.pos].len, {"header", "written"})]
  <2>1. file' = [file EXCEPT ![op.pos] = Hdr(file[op.pos].len, file[op.pos].flags \cup {"written"})]
    BY <1>1, <1>3, Flagging
  <2>2. file[op.pos].flags \cup {"written"} = {"header", "written"}
    BY <1>5
  <2> QED BY <2>1, <2>2
<1>8. (\E t : Row(file', heads, e, t)) /\ file' \in Files
  BY <1>3, <1>4, <1>5, <1>6, <1>7, RowWritten
<1>9. pc' = "idle" /\ op' \in Op /\ (op'.inserting \/ op'.kind = "update" => op'.key \in Key /\ op'.val \in Val)
  BY <1>1, InsertResults DEF Result
<1>10. LogInv'
  BY <1>1, <1>8, <1>9 DEF LogInv, LogAt
<1>11. Args' /\ pc' \in PC \ Collecting
  BY <1>9 DEF Args, PC, Collecting, Writing
<1> QED BY <1>1, <1>4, <1>8, <1>9, <1>10, <1>11, Writes
-----------------------------------------------------------------------------
(* Garbage collection.                                                       *)

(* A step that leaves the file alone and may write the other one. *)
LEMMA Copies ==
  ASSUME Inv, present, op' \in Op, Args', LogInv', CopyInv', pc' \in {"gc", "gcCopy", "gcOld", "gcNew"},
         temp' \in Files, tempHeads' \subseteq Offset,
         UNCHANGED <<present, file, heads, held, heldHere, shown>>
  PROVE  Inv'
<1>1. TypeOK'
  BY DEF Inv, TypeOK, Files, PC
<1>2. Pointers' /\ HasFile'
  BY DEF Inv, Pointers, HasFile
<1> QED BY <1>1, <1>2 DEF Inv

LEMMA GcCountKeeps ==
  ASSUME Inv, GcCount
  PROVE  Inv'
<1>1. /\ pc = "gc" /\ ~AtEnd(file, op.pos) /\ pc' = "gc"
      /\ op' = [op EXCEPT !.pos = After(file, op.pos), !.used = @ + Weight(file, op.pos)]
      /\ UNCHANGED <<present, file, heads, temp, tempHeads, held, heldHere, shown>>
  BY DEF GcCount, Goto, flash, copy, list, Weight
<1>2. PICK e, s : LogAt(e, s)
  BY DEF Inv, LogInv
<1>3. Row(file, heads, e, s) /\ op.pos \in heads \cup {e} /\ op.used = s[op.pos]
  BY <1>1, <1>2 DEF LogAt
<1>4. /\ op.val \in Val /\ op.key \in Key /\ op.inserting /\ present /\ op \in Op /\ op.used \in Nat
      /\ file \in Files /\ temp \in Files /\ tempHeads \subseteq Offset
  BY <1>1, InHand DEF Writing
<1>5. /\ op.pos \in heads /\ After(file, op.pos) \in heads \cup {e} /\ After(file, op.pos) \in Pos
      /\ s[After(file, op.pos)] = s[op.pos] + Weight(file, op.pos)
  BY <1>1, <1>3, <1>4, Stops
<1>6. Weight(file, op.pos) \in Nat
  BY <1>3, <1>4, <1>5, RowHeads
<1>7. op' \in Op /\ SameCall /\ op'.pos = After(file, op.pos) /\ op'.used = op.used + Weight(file, op.pos)
  <2>1. op.used + Weight(file, op.pos) \in Nat
    BY <1>4, <1>6
  <2> QED BY <1>1, <1>4, <1>5, <2>1 DEF Op, SameCall
<1>8. LogInv'
  <2>1. LogAt(e, s)'
    BY <1>1, <1>3, <1>5, <1>7 DEF LogAt
  <2> QED BY <2>1 DEF LogInv
<1>9. Args' /\ CopyInv'
  BY <1>1, <1>4, <1>7 DEF Args, CopyInv, SameCall, Collecting
<1> QED BY <1>1, <1>4, <1>7, <1>8, <1>9, Copies

LEMMA GcCreateKeeps ==
  ASSUME Inv, GcCreate
  PROVE  Inv'
<1>1. /\ pc = "gc" /\ AtEnd(file, op.pos) /\ Need < Cap - op.used
      /\ UNCHANGED <<present, file, heads, held, heldHere, shown>>
  BY DEF GcCreate, flash, list
<1>2. PICK e, s : LogAt(e, s)
  BY DEF Inv, LogInv
<1>3. Row(file, heads, e, s) /\ op.pos \in heads \cup {e} /\ op.used = s[op.pos]
  BY <1>1, <1>2 DEF LogAt
<1>4. /\ op.val \in Val /\ op.key \in Key /\ op.inserting /\ present /\ op \in Op /\ op.used \in Nat
      /\ file \in Files /\ Need \in Nat /\ Cap \in Nat
  BY <1>1, InHand DEF Writing
<1>5. op.pos = e
  BY <1>1, <1>3, <1>4, Stops
<1>6. CASE temp' = BlankFile /\ tempHeads' = {} /\ pc' = "gcCopy" /\ op' = [op EXCEPT !.pos = 0, !.to = 0]
  <2>1. op' \in Op /\ SameCall /\ op'.pos = 0 /\ op'.to = 0 /\ op'.used = op.used /\ Need' = Need
    BY <1>4, <1>6, NoOpTyped DEF Op, SameCall, Need
  <2>2. 0 \in heads \cup {e} /\ s[0] = 0
    BY <1>3 DEF Row
  <2>3. LogInv'
    <3>1. LogAt(e, s)'
      BY <1>1, <1>3, <1>5, <1>6, <2>1, <2>2 DEF LogAt
    <3> QED BY <3>1 DEF LogInv
  <2>4. CopyInv'
    <3>1. op.used + Need < Cap
      BY <1>1, <1>4
    <3>2. \E r : Row(temp', tempHeads', op'.to, r)
      BY <1>6, <2>1, Emptiness
    <3> QED BY <1>6, <2>1, <3>1, <3>2 DEF CopyInv, Collecting
  <2>5. Args'
    BY <1>4, <1>6, <2>1 DEF Args, SameCall
  <2> QED BY <1>1, <1>4, <1>6, <2>1, <2>3, <2>4, <2>5, Emptiness, Copies
<1>7. CASE InsertDone("DatabaseFull") /\ UNCHANGED copy
  <2>1. UNCHANGED <<temp, tempHeads>> /\ shown' \subseteq Key \X Val
    BY <1>1, <1>7, Typed DEF copy, Inv
  <2> QED BY <1>1, <1>7, <2>1, InsertResults, Ends DEF Result
<1> QED BY <1>6, <1>7 DEF GcCreate, Goto

LEMMA GcSkipKeeps ==
  ASSUME Inv, GcSkip
  PROVE  Inv'
<1>1. /\ pc = "gcCopy" /\ ~AtEnd(file, op.pos) /\ ~Valid(file, op.pos) /\ pc' = "gcCopy"
      /\ op' = [op EXCEPT !.pos = After(file, op.pos)]
      /\ UNCHANGED <<present, file, heads, temp, tempHeads, held, heldHere, shown>>
  BY DEF GcSkip, Goto, flash, copy, list
<1>2. PICK e, s : LogAt(e, s)
  BY DEF Inv, LogInv
<1>3. Row(file, heads, e, s) /\ op.pos \in heads \cup {e} /\ op.to = s[op.pos] /\ op.used = s[e]
  BY <1>1, <1>2 DEF LogAt
<1>4. /\ op.val \in Val /\ op.key \in Key /\ op.inserting /\ present /\ op \in Op /\ op.to \in Nat
      /\ file \in Files /\ temp \in Files /\ tempHeads \subseteq Offset
  BY <1>1, InHand DEF Writing, Collecting
<1>5. /\ op.pos \in heads /\ After(file, op.pos) \in heads \cup {e} /\ After(file, op.pos) \in Pos
      /\ s[After(file, op.pos)] = s[op.pos] + Weight(file, op.pos)
  BY <1>1, <1>3, <1>4, Stops
<1>6. s[After(file, op.pos)] = op.to
  BY <1>1, <1>3, <1>4, <1>5 DEF Weight
<1>7. op' \in Op /\ SameCall /\ op'.pos = After(file, op.pos) /\ op'.used = op.used /\ op'.to = op.to /\ Need' = Need
  BY <1>1, <1>4, <1>5 DEF Op, SameCall, Need
<1>8. LogInv'
  <2>1. LogAt(e, s)'
    BY <1>1, <1>3, <1>5, <1>6, <1>7 DEF LogAt
  <2> QED BY <2>1 DEF LogInv
<1>9. Args' /\ CopyInv'
  BY <1>1, <1>4, <1>7 DEF Inv, Args, CopyInv, SameCall, Collecting
<1> QED BY <1>1, <1>4, <1>7, <1>8, <1>9, Copies

LEMMA GcCopyKeeps ==
  ASSUME Inv, GcCopy
  PROVE  Inv'
<1> DEFINE n == 1 + file[op.pos].len
<1>1. /\ pc = "gcCopy" /\ ~AtEnd(file, op.pos) /\ Valid(file, op.pos)
      /\ UNCHANGED <<present, file, heads, held, heldHere, shown>>
  BY DEF GcCopy, flash, list
<1>2. PICK e, s : LogAt(e, s)
  BY DEF Inv, LogInv
<1>3. Row(file, heads, e, s) /\ op.pos \in heads \cup {e} /\ op.to = s[op.pos] /\ op.used = s[e]
  BY <1>1, <1>2 DEF LogAt
<1>4. /\ op.val \in Val /\ op.key \in Key /\ op.inserting /\ present /\ op \in Op /\ op.to \in Nat /\ Cap \in Nat
      /\ file \in Files /\ temp \in Files /\ tempHeads \subseteq Offset
  BY <1>1, InHand DEF Writing, Collecting
<1>5. /\ op.pos \in heads /\ After(file, op.pos) \in heads \cup {e} /\ After(file, op.pos) \in Pos
      /\ s[After(file, op.pos)] = s[op.pos] + Weight(file, op.pos)
  BY <1>1, <1>3, <1>4, Stops
<1>6. n \in Nat /\ n > 1 /\ Weight(file, op.pos) = n
  <2>1. file[op.pos].len \in Nat /\ file[op.pos].len > 0
    BY <1>3, <1>4, <1>5, RowHeads
  <2> QED BY <1>1, <2>1 DEF Weight
<1>7. op.used + Need < Cap /\ \E r : Row(temp, tempHeads, op.to, r)
  BY <1>1 DEF Inv, CopyInv, Collecting
<1>8. CASE InsertDone("DatabaseFull") /\ UNCHANGED copy
  <2>1. UNCHANGED <<temp, tempHeads>> /\ shown' \subseteq Key \X Val
    BY <1>1, <1>8, Typed DEF copy, Inv
  <2> QED BY <1>1, <1>8, <2>1, InsertResults, Ends DEF Result
<1>9. CASE /\ op.to + n <= Cap
           /\ temp' = [o \in Offset |-> IF op.to <= o /\ o < op.to + n
                                        THEN file[op.pos + (o - op.to)] ELSE temp[o]]
           /\ tempHeads' = tempHeads \cup {op.to}
           /\ Goto("gcCopy", [op EXCEPT !.pos = After(file, op.pos), !.to = @ + n])
  <2>1. op.to + n \in Pos /\ op.to \in Offset
    BY <1>4, <1>6, <1>9 DEF Pos, Offset
  <2> DEFINE to == op.to  h == op.pos
  <2>2. h \in Nat /\ h + n <= Cap /\ to \in Nat /\ to \in Offset /\ to + n <= Cap
    <3>1. h + 1 + file[h].len <= Cap /\ h \in Nat /\ file[h].len \in Nat
      BY <1>3, <1>4, <1>5, RowHeads
    <3> QED BY <1>4, <1>9, <2>1, <3>1
  <2>3. temp' = [o \in Offset |-> IF to <= o /\ o < to + n THEN file[h + (o - to)] ELSE temp[o]]
    BY <1>9
  <2>4. (\E t : Row(temp', tempHeads', op.to + n, t)) /\ temp' \in Files
    <3> HIDE DEF n, to, h
    <3>1. ASSUME NEW o \in Offset, to <= o, o < to + n PROVE h + (o - to) \in Offset
      <4>1. o \in Nat /\ o - to \in Nat /\ o - to < n
        BY <1>4, <1>6, <2>2, <3>1 DEF Offset
      <4>2. \A i \in Nat : i < n => h + i \in 0 .. Cap - 1
        BY <1>4, <1>6, <2>2
      <4> QED BY <4>1, <4>2 DEF Offset
    <3>2. temp' \in Files
      BY <1>4, <2>3, <3>1 DEF Files
    <3>3. temp'[to] = file[h] /\ \A o \in Offset : o < to \/ to + n <= o => temp'[o] = temp[o]
      <4>1. to <= to /\ to < to + n /\ h + (to - to) = h
        BY <1>6, <2>2
      <4>2. \A o \in Offset : o < to \/ to + n <= o => ~(to <= o /\ o < to + n)
        BY <1>4, <1>6, <2>2 DEF Offset
      <4> QED BY <2>2, <2>3, <4>1, <4>2
    <3>4. PICK r : Row(temp, tempHeads, to, r)
      BY <1>7 DEF to
    <3>5. h \in heads /\ Valid(file, h) /\ n = 1 + file[h].len /\ to + n <= Cap
      BY <1>1, <1>5, <2>2 DEF h, n
    <3>6. \E t : Row(temp', tempHeads \cup {to}, to + n, t)
      BY <1>3, <1>4, <3>2, <3>3, <3>4, <3>5, RowCopy
    <3> QED BY <1>9, <3>2, <3>6 DEF to
  <2> HIDE DEF n
  <2>5. pc' = "gcCopy" /\ op' = [op EXCEPT !.pos = After(file, op.pos), !.to = op.to + n]
    BY <1>9 DEF Goto
  <2>6. /\ op' \in Op /\ SameCall /\ op'.pos = After(file, op.pos) /\ op'.to = op.to + n /\ op'.used = op.used
        /\ Need' = Need
    BY <1>4, <1>5, <2>1, <2>5 DEF Op, SameCall, Need
  <2>7. LogInv'
    <3>1. LogAt(e, s)'
      BY <1>1, <1>3, <1>5, <1>6, <2>5, <2>6 DEF LogAt
    <3> QED BY <3>1 DEF LogInv
  <2>8. Args' /\ CopyInv'
    BY <1>4, <1>7, <2>4, <2>5, <2>6 DEF Args, CopyInv, SameCall, Collecting
  <2> QED BY <1>1, <1>4, <1>9, <2>4, <2>1, <2>5, <2>6, <2>7, <2>8, Copies
<1>10. op.to \in Nat /\ n \in Nat /\ Cap \in Nat
  BY <1>4, <1>6
<1> QED
  <2>1. \/ InsertDone("DatabaseFull") /\ UNCHANGED copy
        \/ /\ ~(op.to + n > Cap)
           /\ temp' = [o \in Offset |-> IF op.to <= o /\ o < op.to + n
                                        THEN file[op.pos + (o - op.to)] ELSE temp[o]]
           /\ tempHeads' = tempHeads \cup {op.to}
           /\ Goto("gcCopy", [op EXCEPT !.pos = After(file, op.pos), !.to = @ + n])
    BY DEF GcCopy
  <2>2. ~(op.to + n > Cap) => op.to + n <= Cap
    BY <1>10
  <2> QED BY <1>8, <1>9, <2>1, <2>2

LEMMA GcCopiedKeeps ==
  ASSUME Inv, GcCopied \/ GcOld
  PROVE  Inv'
<1>1. /\ pc \in {"gcCopy", "gcOld"} /\ op' = op /\ pc' = (IF pc = "gcCopy" THEN "gcOld" ELSE "gcNew")
      /\ pc = "gcCopy" => AtEnd(file, op.pos)
      /\ UNCHANGED <<present, file, heads, temp, tempHeads, held, heldHere, shown>>
  BY DEF GcCopied, GcOld, Goto, flash, copy, list
<1>2. PICK e, s : LogAt(e, s)
  BY DEF Inv, LogInv
<1>3. /\ op.val \in Val /\ op.key \in Key /\ op.inserting /\ present /\ op \in Op
      /\ file \in Files /\ temp \in Files /\ tempHeads \subseteq Offset
  BY <1>1, InHand DEF Writing, Collecting
<1>4. pc = "gcCopy" => op.to = op.used
  <2> SUFFICES ASSUME pc = "gcCopy" PROVE op.to = op.used
    OBVIOUS
  <2>1. Row(file, heads, e, s) /\ op.pos \in heads \cup {e} /\ op.to = s[op.pos] /\ op.used = s[e]
    BY <1>2 DEF LogAt
  <2>2. op.pos = e
    BY <1>1, <1>3, <2>1, Stops
  <2> QED BY <2>1, <2>2
<1>5. LogInv'
  <2>1. LogAt(e, s)'
    BY <1>1, <1>2 DEF LogAt
  <2> QED BY <2>1 DEF LogInv
<1>6. Need' = Need
  BY <1>1 DEF Need
<1>7. Args' /\ CopyInv'
  BY <1>1, <1>3, <1>4, <1>6 DEF Inv, Args, CopyInv, Collecting
<1> QED BY <1>1, <1>3, <1>5, <1>7, Copies

LEMMA GcNewKeeps ==
  ASSUME Inv, GcNew
  PROVE  Inv'
<1>1. /\ pc = "gcNew" /\ file' = temp /\ heads' = tempHeads /\ temp' = BlankFile /\ tempHeads' = {}
      /\ heldHere' = (held = {}) /\ pc' = "header" /\ op' = [op EXCEPT !.pos = op.to]
      /\ UNCHANGED <<present, held, shown>>
  BY DEF GcNew, Goto
<1>2. /\ op.val \in Val /\ op.key \in Key /\ op.inserting /\ present /\ op \in Op /\ Need \in Nat /\ Cap \in Nat
      /\ op.to \in Nat /\ op.used \in Nat
      /\ temp \in Files /\ tempHeads \subseteq Offset
  BY <1>1, InHand DEF Writing, Collecting
<1>3. op.used + Need < Cap /\ op.to = op.used
  BY <1>1 DEF Inv, CopyInv, Collecting
<1>4. PICK r : Row(temp, tempHeads, op.to, r)
  BY <1>1 DEF Inv, CopyInv, Collecting
<1>5. op' \in Op /\ SameCall /\ op'.pos = op.to /\ Need' = Need
  <2>1. op.to \in Pos
    BY Typed DEF Inv
  <2> QED BY <1>1, <1>2, <2>1 DEF Op, SameCall, Need
<1>6. op.to + Need <= Cap
  BY <1>2, <1>3
<1>7. LogInv'
  <2>1. LogAt(op.to, r)'
    BY <1>1, <1>4, <1>5, <1>6 DEF LogAt
  <2> QED BY <2>1 DEF LogInv
<1>8. TypeOK'
  BY <1>1, <1>2, <1>5, Emptiness DEF Inv, TypeOK, PC, Files
<1>9. Args' /\ CopyInv' /\ Pointers' /\ HasFile'
  BY <1>1, <1>2, <1>5 DEF Args, CopyInv, Pointers, HasFile, SameCall, Collecting
<1> QED BY <1>7, <1>8, <1>9 DEF Inv
-----------------------------------------------------------------------------
LEMMA CrashKeeps ==
  ASSUME Inv, Crash
  PROVE  Inv'
<1>1. /\ temp' = BlankFile /\ tempHeads' = {} /\ held' = {} /\ heldHere' = TRUE /\ shown' = {}
      /\ pc' = "idle" /\ op' = NoOp
  BY DEF Crash, Goto
<1>2. CASE present' = FALSE /\ file' = BlankFile /\ heads' = {}
  <2>1. LogAt(0, [p \in Pos |-> 0])'
    BY <1>1, <1>2, Emptiness DEF LogAt
  <2>2. TypeOK'
    BY <1>1, <1>2, Emptiness, NoOpTyped DEF TypeOK, PC, Files
  <2> QED BY <1>1, <1>2, <2>1, <2>2, NoOpTyped
          DEF Inv, LogInv, Args, CopyInv, Pointers, HasFile, Writing, Collecting
<1>3. CASE UNCHANGED <<present, file, heads>>
  <2>1. LogInv'
    <3>1. PICK e, s : LogAt(e, s)
      BY DEF Inv, LogInv
    <3>2. LogAt(e, s)'
      BY <1>1, <1>3, <3>1 DEF LogAt
    <3> QED BY <3>2 DEF LogInv
  <2>2. TypeOK'
    BY <1>1, <1>3, Emptiness, NoOpTyped DEF Inv, TypeOK, PC, Files
  <2> QED BY <1>1, <1>3, <2>1, <2>2, NoOpTyped
          DEF Inv, Args, CopyInv, Pointers, HasFile, Writing, Collecting
<1> QED BY <1>2, <1>3 DEF Crash, flash

LEMMA InvNext == Inv /\ [Next]_vars => Inv'
<1> SUFFICES ASSUME Inv, [Next]_vars PROVE Inv'
  OBVIOUS
<1>1. CASE Call
  BY <1>1, CallKeeps
<1>2. CASE Run
  BY <1>2, ScanKeeps, DuplicateKeeps, ScanEndKeeps, EraseKeeps, DismissKeeps, WriteHeaderKeeps, WriteHeaderFlagKeeps,
     WritePayloadKeeps, WriteFlagKeeps, GcCountKeeps, GcCreateKeeps, GcSkipKeeps, GcCopyKeeps, GcCopiedKeeps,
     GcNewKeeps DEF Run
<1>3. CASE Crash
  BY <1>3, CrashKeeps
<1>4. CASE UNCHANGED vars
  <2>1. UNCHANGED <<present, file, temp, pc, op, held, heldHere, heads, tempHeads, shown>>
    BY <1>4 DEF vars
  <2>2. TypeOK' /\ Args' /\ CopyInv' /\ Pointers' /\ HasFile' /\ LogInv'
    <3>1. TypeOK' /\ Args' /\ Pointers' /\ HasFile'
      BY <2>1 DEF Inv, TypeOK, Args, Pointers, HasFile
    <3>2. CopyInv' /\ LogInv'
      BY <2>1 DEF Inv, CopyInv, LogInv, LogAt, Need
    <3> QED BY <3>1, <3>2
  <2> QED BY <2>2 DEF Inv
<1> QED BY <1>1, <1>2, <1>3, <1>4 DEF Next

(* What the invariant says of reading and writing the log. *)
LEMMA Readable == Inv => LogIsReadable
<1> SUFFICES ASSUME Inv PROVE LogIsReadable
  OBVIOUS
<1>1. PICK e, s : LogAt(e, s)
  BY DEF Inv, LogInv
<1>2. Row(file, heads, e, s) /\ file \in Files /\ e \in Nat /\ e <= Cap /\ Cap \in Nat
  BY <1>1, Typed, RowHeads DEF Inv, LogAt
<1>3. LogInSync
  <2> SUFFICES ASSUME pc \in {"scan", "gc", "gcCopy"}, op.pos \notin heads
               PROVE  op.pos = Cap \/ file[op.pos] = Blank
    BY DEF LogInSync
  <2>1. op.pos = e
    BY <1>1 DEF LogAt
  <2> QED BY <1>2, <2>1 DEF Row
<1>4. SafeToWrite
  <2> SUFFICES ASSUME pc = "header"
               PROVE  /\ op.pos + 2 + Size[op.val] <= Cap
                      /\ \A o \in op.pos .. Cap - 1 : file[o] = Blank
    BY DEF SafeToWrite
  <2>1. op.pos = e /\ e + Need <= Cap /\ Need = 2 + Size[op.val] /\ Size[op.val] \in Nat
    BY <1>1, InHand DEF LogAt, Writing
  <2> QED BY <1>2, <2>1 DEF Row
<1> QED BY <1>3, <1>4 DEF LogIsReadable
-----------------------------------------------------------------------------
(* The types of the variables, whatever call is made and whenever the power   *)
(* fails.                                                                     *)
THEOREM TypeCorrect == Spec => []TypeOK
<1>1. Inv => TypeOK
  BY DEF Inv
<1> QED BY <1>1, InvInit, InvNext, PTL DEF Spec

(* A walk over the log stops at headers only, and where an insert writes all   *)
(* is blank up to the end of the file and the whole record fits: for every     *)
(* size of file, every set of keys and every size of data, after any writes    *)
(* that were interrupted, any erasures and any number of garbage collections.  *)
THEOREM LogAlwaysReadable == Spec => []LogIsReadable
BY InvInit, InvNext, Readable, PTL DEF Spec
-----------------------------------------------------------------------------
(* The records of the log.                                                   *)

(* The records that the headers before p hold. *)
UpTo(f, H, p) == {r \in Key \X Val : \E o \in H : o < p /\ Holds(f, o, r[1], r[2])}

(* Every valid header holds a record, and no two of them hold the same key. *)
Good(f, H) ==
  /\ \A h \in H : Valid(f, h) => \E k \in Key, v \in Val : Holds(f, h, k, v)
  /\ \A g, h \in H, k \in Key, v, w \in Val : Holds(f, g, k, v) /\ Holds(f, h, k, w) => g = h

None(R, k) == \A r \in R : r[1] # k

LEMMA AllRecords ==
  ASSUME NEW f, NEW H, H \subseteq Offset
  PROVE  /\ {r \in Key \X Val : \E o \in H : Holds(f, o, r[1], r[2])} = UpTo(f, H, Cap)
         /\ UpTo(f, H, 0) = {}
<1>1. \A o \in H : o < Cap /\ ~(o < 0)
  BY Sizes DEF Offset
<1> QED BY <1>1 DEF UpTo

LEMMA Held ==
  ASSUME NEW f, NEW h \in Offset, NEW k \in Key, NEW v \in Val, Holds(f, h, k, v)
  PROVE  /\ Valid(f, h) /\ IsHdr(f, h) /\ f[h].len = 1 + Size[v] /\ Size[v] \in Nat
         /\ h + 1 < Cap /\ f[h + 1] = KeyCell(k)
<1>1. Size[v] \in Nat /\ h \in Nat /\ Cap \in Nat
  BY Sizes DEF Offset
<1>2. h + 1 + Size[v] < Cap /\ \A i \in 1 .. 1 + Size[v] : f[h + i] = Payload(k, v, i)
  BY DEF Holds
<1>3. 1 \in 1 .. 1 + Size[v] /\ h + 1 < Cap
  BY <1>1, <1>2
<1>4. f[h + 1] = KeyCell(k)
  BY <1>2, <1>3 DEF Payload
<1> QED BY <1>1, <1>3, <1>4 DEF Holds, Valid

LEMMA KeyCells == \A k, l : KeyCell(k) = KeyCell(l) => k = l
<1> SUFFICES ASSUME NEW k, NEW l, KeyCell(k) = KeyCell(l) PROVE k = l
  OBVIOUS
<1>1. \A x : KeyCell(x).key = x
  BY DEF KeyCell
<1>2. KeyCell(k).key = KeyCell(l).key
  OBVIOUS
<1> QED BY <1>1, <1>2

(* A header holds one record. *)
LEMMA OneRecord ==
  ASSUME NEW f, NEW h \in Offset, NEW k \in Key, NEW v \in Val, NEW l \in Key, NEW w \in Val,
         Holds(f, h, k, v), Holds(f, h, l, w)
  PROVE  k = l /\ v = w
<1>1. /\ f[h + 1] = KeyCell(k) /\ f[h + 1] = KeyCell(l)
      /\ f[h].len = 1 + Size[v] /\ f[h].len = 1 + Size[w] /\ Size[v] \in Nat /\ Size[w] \in Nat
  BY Held
<1>2. k = l /\ Size[v] = Size[w]
  <2>1. KeyCell(k) = KeyCell(l)
    BY <1>1
  <2>2. k = l
    BY <2>1, KeyCells
  <2> QED BY <1>1, <2>2
<1>3. CASE Size[v] = 0
  BY <1>2, <1>3, EmptyAssumption
<1>4. CASE Size[v] # 0
  <2>1. 2 \in 1 .. 1 + Size[v]
    BY <1>1, <1>4
  <2>2. Payload(k, v, 2) = Payload(l, w, 2)
    BY <1>2, <2>1 DEF Holds
  <2>3. Payload(k, v, 2) = DataCell(v, 1) /\ Payload(l, w, 2) = DataCell(w, 1)
    BY DEF Payload
  <2>4. DataCell(v, 1).val = v /\ DataCell(w, 1).val = w
    BY DEF DataCell
  <2> QED BY <1>2, <2>2, <2>3, <2>4
<1> QED BY <1>2, <1>3, <1>4

(* A record is left as it was, or there was none and is none. *)
Same(f, g, h) == /\ Valid(f, h) /\ g[h] = f[h]
                 /\ \A i \in 1 .. f[h].len : g[h + i] = f[h + i]
Kept(f, g, h) == Same(f, g, h) \/ (~Valid(f, h) /\ ~Valid(g, h))

LEMMA KeptRecord ==
  ASSUME NEW f, NEW g, NEW h, Kept(f, g, h)
  PROVE  /\ Valid(f, h) <=> Valid(g, h)
         /\ \A k \in Key, v \in Val : Holds(g, h, k, v) <=> Holds(f, h, k, v)
<1>1. CASE Same(f, g, h)
  <2>1. Valid(g, h) /\ Valid(f, h) /\ g[h] = f[h]
    BY <1>1 DEF Same, Valid, IsHdr
  <2>2. ASSUME NEW k \in Key, NEW v \in Val, f[h].len = 1 + Size[v]
        PROVE  \A i \in 1 .. 1 + Size[v] : g[h + i] = f[h + i]
    BY <1>1, <2>2 DEF Same
  <2>3. ASSUME NEW k \in Key, NEW v \in Val
        PROVE  Holds(g, h, k, v) <=> Holds(f, h, k, v)
    <3>1. CASE f[h].len = 1 + Size[v]
      <4>1. \A i \in 1 .. 1 + Size[v] : g[h + i] = f[h + i]
        BY <2>2, <3>1
      <4> QED BY <2>1, <4>1 DEF Holds
    <3>2. CASE f[h].len # 1 + Size[v]
      BY <2>1, <3>2 DEF Holds
    <3> QED BY <3>1, <3>2
  <2> QED BY <2>1, <2>3
<1>2. CASE ~Valid(f, h) /\ ~Valid(g, h)
  BY <1>2 DEF Holds
<1> QED BY <1>1, <1>2 DEF Kept

LEMMA KeptRecords ==
  ASSUME NEW f, NEW g, NEW H, \A h \in H : Kept(f, g, h)
  PROVE  /\ Good(f, H) => Good(g, H)
         /\ \A p : UpTo(g, H, p) = UpTo(f, H, p)
<1>1. \A h \in H : /\ Valid(f, h) <=> Valid(g, h)
                   /\ \A k \in Key, v \in Val : Holds(g, h, k, v) <=> Holds(f, h, k, v)
  BY KeptRecord
<1>2. Good(f, H) => Good(g, H)
  BY <1>1 DEF Good
<1>3. ASSUME NEW p PROVE UpTo(g, H, p) = UpTo(f, H, p)
  <2>1. \A r \in Key \X Val : r[1] \in Key /\ r[2] \in Val
    OBVIOUS
  <2> QED BY <1>1, <2>1 DEF UpTo
<1> QED BY <1>2, <1>3

(* A header that is not valid adds nothing. *)
LEMMA EmptyHeader ==
  ASSUME NEW f, NEW H, NEW h, ~Valid(f, h)
  PROVE  /\ Good(f, H) => Good(f, H \cup {h})
         /\ \A p : UpTo(f, H \cup {h}, p) = UpTo(f, H, p)
<1>1. \A k, v : ~Holds(f, h, k, v)
  BY DEF Holds
<1> QED BY <1>1 DEF Good, UpTo

(* A header becomes valid, and holds a key that no other held. *)
LEMMA Added ==
  ASSUME NEW f, NEW g, NEW H, NEW h \in H, H \subseteq Offset, \A o \in H \ {h} : Kept(f, g, o), ~Valid(f, h),
         NEW k \in Key, NEW v \in Val, Holds(g, h, k, v), Good(f, H), None(UpTo(f, H, Cap), k)
  PROVE  Good(g, H) /\ UpTo(g, H, Cap) = UpTo(f, H, Cap) \cup {<<k, v>>}
<1>1. \A o \in H \ {h} : /\ Valid(f, o) <=> Valid(g, o)
                         /\ \A l \in Key, w \in Val : Holds(g, o, l, w) <=> Holds(f, o, l, w)
  BY KeptRecord
<1>2. \A l \in Key, w \in Val : Holds(g, h, l, w) => l = k /\ w = v
  BY OneRecord
<1>3. \A l, w : ~Holds(f, h, l, w)
  BY DEF Holds
<1>4. \A o \in H : o < Cap
  BY Sizes DEF Offset
<1>5. \A o \in H, l \in Key, w \in Val : Holds(f, o, l, w) => l # k
  <2> SUFFICES ASSUME NEW o \in H, NEW l \in Key, NEW w \in Val, Holds(f, o, l, w) PROVE l # k
    OBVIOUS
  <2>1. <<l, w>> \in UpTo(f, H, Cap)
    BY <1>4 DEF UpTo
  <2> QED BY <2>1 DEF None
<1>6. Good(g, H)
  <2>1. \A o \in H : Valid(g, o) => \E l \in Key, w \in Val : Holds(g, o, l, w)
    BY <1>1 DEF Good
  <2>2. ASSUME NEW o \in H, NEW p \in H, NEW l \in Key, NEW w \in Val, NEW x \in Val,
               Holds(g, o, l, w), Holds(g, p, l, x)
        PROVE  o = p
    <3>1. CASE o = h
      BY <1>1, <1>2, <1>5, <2>2, <3>1
    <3>2. CASE p = h
      BY <1>1, <1>2, <1>5, <2>2, <3>2
    <3>3. CASE o # h /\ p # h
      <4>1. Holds(f, o, l, w) /\ Holds(f, p, l, x)
        BY <1>1, <2>2, <3>3
      <4> QED BY <4>1 DEF Good
    <3> QED BY <3>1, <3>2, <3>3
  <2> QED BY <2>1, <2>2 DEF Good
<1>7. ASSUME NEW r \in Key \X Val
      PROVE  r \in UpTo(g, H, Cap) <=> r \in UpTo(f, H, Cap) \cup {<<k, v>>}
  <2>1. r[1] \in Key /\ r[2] \in Val /\ r = <<r[1], r[2]>>
    OBVIOUS
  <2>2. (\E o \in H : o < Cap /\ Holds(g, o, r[1], r[2])) <=>
        (\E o \in H : o < Cap /\ Holds(f, o, r[1], r[2])) \/ r = <<k, v>>
    <3>1. r = <<k, v>> => Holds(g, h, r[1], r[2])
      OBVIOUS
    <3>2. Holds(g, h, r[1], r[2]) => r = <<k, v>>
      BY <1>2, <2>1
    <3> QED BY <1>1, <1>3, <1>4, <2>1, <3>1, <3>2
  <2> QED BY <2>2 DEF UpTo
<1>8. <<k, v>> \in Key \X Val /\ UpTo(g, H, Cap) \subseteq Key \X Val /\ UpTo(f, H, Cap) \subseteq Key \X Val
  BY DEF UpTo
<1> QED BY <1>6, <1>7, <1>8

(* A header is not valid any more. *)
LEMMA Removed ==
  ASSUME NEW f, NEW g, NEW H, NEW h \in H, \A o \in H \ {h} : Kept(f, g, o), ~Valid(g, h), Good(f, H)
  PROVE  Good(g, H) /\ \A p : UpTo(g, H, p) = {r \in UpTo(f, H, p) : ~Holds(f, h, r[1], r[2])}
<1>1. \A o \in H \ {h} : /\ Valid(f, o) <=> Valid(g, o)
                         /\ \A l \in Key, w \in Val : Holds(g, o, l, w) <=> Holds(f, o, l, w)
  BY KeptRecord
<1>2. \A l, w : ~Holds(g, h, l, w)
  BY DEF Holds
<1>3. Good(g, H)
  BY <1>1, <1>2 DEF Good
<1>4. ASSUME NEW p, NEW r \in Key \X Val
      PROVE  r \in UpTo(g, H, p) <=> r \in UpTo(f, H, p) /\ ~Holds(f, h, r[1], r[2])
  <2>1. r[1] \in Key /\ r[2] \in Val
    OBVIOUS
  <2>2. \A o \in H : Holds(f, o, r[1], r[2]) /\ Holds(f, h, r[1], r[2]) => o = h
    BY <2>1 DEF Good
  <2> QED BY <1>1, <1>2, <2>1, <2>2 DEF UpTo
<1>5. \A p : UpTo(g, H, p) \subseteq Key \X Val /\ UpTo(f, H, p) \subseteq Key \X Val
  BY DEF UpTo
<1> QED BY <1>3, <1>4, <1>5

(* A walk that goes on to the next place has one more header behind it. *)
LEMMA Walked ==
  ASSUME NEW f \in Files, NEW H, NEW e, NEW s, Row(f, H, e, s), NEW h \in H
  PROVE  UpTo(f, H, After(f, h)) = UpTo(f, H, h) \cup {r \in Key \X Val : Holds(f, h, r[1], r[2])}
<1>1. \A o \in H : o \in Nat /\ After(f, h) \in Nat /\ After(f, h) > h
  BY RowHeads
<1>2. \A o \in H : o > h => o >= After(f, h)
  BY DEF Row
<1>3. \A o \in H : o < After(f, h) <=> o < h \/ o = h
  BY <1>1, <1>2
<1> QED BY <1>3 DEF UpTo

LEMMA WalkedAll ==
  ASSUME NEW f \in Files, NEW H, NEW e, NEW s, Row(f, H, e, s)
  PROVE  UpTo(f, H, e) = UpTo(f, H, Cap)
<1>1. \A o \in H : o < e /\ o < Cap
  BY RowHeads
<1> QED BY <1>1 DEF UpTo

(* The next record is copied behind those that were copied before. *)
LEMMA CopiedOne ==
  ASSUME NEW f \in Files, NEW H, NEW e, NEW s, Row(f, H, e, s), NEW h \in H, Valid(f, h), Good(f, H),
         NEW b, NEW g, NEW J, J \subseteq Offset, Good(b, J), UpTo(b, J, Cap) = UpTo(f, H, h),
         NEW to \in Offset, \A j \in J : Kept(b, g, j) /\ j # to, Valid(g, to),
         \A k \in Key, v \in Val : Holds(g, to, k, v) <=> Holds(f, h, k, v)
  PROVE  Good(g, J \cup {to}) /\ UpTo(g, J \cup {to}, Cap) = UpTo(f, H, After(f, h))
<1> DEFINE K == J \cup {to}
<1>1. \A j \in J : /\ Valid(b, j) <=> Valid(g, j)
                   /\ \A k \in Key, v \in Val : Holds(g, j, k, v) <=> Holds(b, j, k, v)
  BY KeptRecord
<1>2. \A j \in K : j < Cap
  <2>1. \A o \in Offset : o < Cap
    BY Sizes DEF Offset
  <2>2. K \subseteq Offset
    OBVIOUS
  <2> HIDE DEF K
  <2> QED BY <2>1, <2>2
<1>3. ASSUME NEW j \in J, NEW k \in Key, NEW v \in Val, NEW w \in Val, Holds(g, j, k, v), Holds(g, to, k, w)
      PROVE  FALSE
  <2>1. <<k, v>> \in UpTo(b, J, Cap)
    BY <1>1, <1>2, <1>3 DEF UpTo
  <2>2. PICK o \in H : o < h /\ Holds(f, o, k, v)
    BY <2>1 DEF UpTo
  <2>3. Holds(f, h, k, w)
    BY <1>3
  <2>4. o = h
    BY <2>2, <2>3 DEF Good
  <2>5. h \in Nat
    BY RowHeads
  <2> QED BY <2>2, <2>4, <2>5
<1>4. Good(g, K)
  <2>1. \A j \in K : Valid(g, j) => \E k \in Key, v \in Val : Holds(g, j, k, v)
    BY <1>1 DEF Good
  <2>2. ASSUME NEW i \in K, NEW j \in K, NEW k \in Key, NEW v \in Val, NEW w \in Val,
               Holds(g, i, k, v), Holds(g, j, k, w)
        PROVE  i = j
    <3>1. CASE i \in J /\ j \in J
      <4>1. Holds(b, i, k, v) /\ Holds(b, j, k, w)
        BY <1>1, <2>2, <3>1
      <4> QED BY <3>1, <4>1 DEF Good
    <3> QED BY <1>3, <2>2, <3>1
  <2> HIDE DEF K
  <2> QED BY <2>1, <2>2 DEF Good
<1>5. UpTo(g, K, Cap) = UpTo(b, J, Cap) \cup {r \in Key \X Val : Holds(f, h, r[1], r[2])}
  <2>1. \A r \in Key \X Val : r[1] \in Key /\ r[2] \in Val
    OBVIOUS
  <2> QED BY <1>1, <1>2, <2>1 DEF UpTo
<1>6. UpTo(f, H, After(f, h)) = UpTo(f, H, h) \cup {r \in Key \X Val : Holds(f, h, r[1], r[2])}
  BY Walked
<1>7. UpTo(g, K, Cap) = UpTo(f, H, After(f, h))
  BY <1>5, <1>6
<1> QED BY <1>4, <1>7
-----------------------------------------------------------------------------
(* What a write leaves of the records.                                       *)

(* A write inside a record, or of its header, leaves the others alone. *)
LEMMA OthersKept ==
  ASSUME NEW f \in Files, NEW H, NEW e, NEW s, Row(f, H, e, s), NEW d \in H,
         NEW o \in Offset, d <= o, o < After(f, d), NEW g, \A p \in Offset : p # o => g[p] = f[p]
  PROVE  \A h \in H \ {d} : Kept(f, g, h)
<1> SUFFICES ASSUME NEW h \in H, h # d PROVE Kept(f, g, h)
  OBVIOUS
<1>1. /\ h \in Nat /\ d \in Nat /\ o \in Nat /\ Cap \in Nat /\ After(f, d) \in Nat /\ h \in Offset /\ After(f, h) \in Nat
      /\ f[h].len \in Nat /\ h + 1 + f[h].len <= Cap
  BY RowHeads DEF Offset
<1>2. (h > d => h >= After(f, d)) /\ (d > h => d >= After(f, h))
  BY DEF Row
<1>3. g[h] = f[h]
  BY <1>1, <1>2
<1>4. CASE Valid(f, h)
  <2>1. After(f, h) = h + 1 + f[h].len
    <3>1. {"header", "written"} \cap f[h].flags # {}
      BY <1>4 DEF Valid
    <3> QED BY <3>1, RowHeads
  <2>2. ASSUME NEW i \in 1 .. f[h].len PROVE g[h + i] = f[h + i]
    <3>1. h + i \in Offset /\ h + i # o
      BY <1>1, <1>2, <2>1 DEF Offset
    <3> QED BY <3>1
  <2> QED BY <1>3, <1>4, <2>2 DEF Kept, Same
<1>5. CASE ~Valid(f, h)
  BY <1>3, <1>5 DEF Kept, Valid, IsHdr
<1> QED BY <1>4, <1>5

(* So does a write behind the last of them. *)
LEMMA AllKept ==
  ASSUME NEW f \in Files, NEW H, NEW e, NEW s, Row(f, H, e, s), NEW g,
         \A p \in Offset : p < e => g[p] = f[p]
  PROVE  \A h \in H : Kept(f, g, h)
<1> SUFFICES ASSUME NEW h \in H PROVE Kept(f, g, h)
  OBVIOUS
<1>1. /\ h \in Nat /\ Cap \in Nat /\ h \in Offset /\ h < e /\ e \in Nat /\ After(f, h) <= e
      /\ f[h].len \in Nat /\ h + 1 + f[h].len <= Cap
  BY RowHeads DEF Offset
<1>2. g[h] = f[h]
  BY <1>1
<1>3. CASE Valid(f, h)
  <2>1. After(f, h) = h + 1 + f[h].len
    <3>1. {"header", "written"} \cap f[h].flags # {}
      BY <1>3 DEF Valid
    <3> QED BY <3>1, RowHeads
  <2>2. ASSUME NEW i \in 1 .. f[h].len PROVE g[h + i] = f[h + i]
    <3>1. h + i \in Offset /\ h + i < e
      BY <1>1, <2>1 DEF Offset
    <3> QED BY <3>1
  <2> QED BY <1>2, <1>3, <2>2 DEF Kept, Same
<1>4. CASE ~Valid(f, h)
  BY <1>2, <1>4 DEF Kept, Valid, IsHdr
<1> QED BY <1>3, <1>4
-----------------------------------------------------------------------------
(* The inductive invariant of the records, on top of Inv.                    *)

(* Which calls get where. *)
Kinds == /\ pc \in {"scan", "erase"} \cup Writing => op.kind \in {"insert", "update", "delete", "select", "selectAll"}
         /\ pc \notin {"idle", "dismiss"} => /\ op.kind = "insert" => op.inserting
                                             /\ op.inserting => op.kind \in {"insert", "update"}
         /\ pc = "erase" => op.kind \in {"update", "delete"} /\ ~op.inserting
         /\ pc = "dismiss" => op.kind = "dismiss"

(* What is written of the record in hand, and that the rest of it is blank. *)
Unfinished ==
  pc \in {"payload", "writtenFlag"} =>
    \A i \in 1 .. 1 + Size[op.val] :
      file[op.pos + i] = IF pc = "payload" /\ i >= op.unit THEN Blank ELSE Payload(op.key, op.val, i)

(* An insert that writes has seen that the key is new; a walk has seen it of *)
(* the records behind it.                                                    *)
Fresh == /\ pc \in Writing => None(Records, op.key)
         /\ pc = "scan" /\ op.kind # "selectAll" /\ (op.inserting \/ op.hit = Cap) =>
              None(UpTo(file, heads, op.pos), op.key)

Hits == /\ pc \in {"scan", "erase"} /\ ~op.inserting /\ op.hit # Cap =>
             /\ op.hit \in heads /\ Valid(file, op.hit) /\ file[op.hit + 1] = KeyCell(op.key)
             /\ op.seen
        /\ pc = "erase" => op.hit # Cap

(* The new file holds what was copied. *)
Copied == /\ pc = "gcCopy" => UpTo(temp, tempHeads, Cap) = UpTo(file, heads, op.pos)
          /\ pc \in {"gcOld", "gcNew"} => UpTo(temp, tempHeads, Cap) = Records
          /\ pc \in Collecting => Good(temp, tempHeads)

(* Until a call is answered it changed nothing. *)
Was == /\ pc \notin {"idle", "dismiss"} /\ op.kind # "update" => Records = op.was
       /\ pc = "scan" /\ op.kind = "selectAll" => Records \subseteq shown
       /\ pc = "dismiss" => op.was \ shown \subseteq Records

(* What an iterator of the list points to was shown in it. *)
Listed == heldHere => \A o \in held : /\ "written" \in file[o].flags
                                      /\ \A r \in Key \X Val : Holds(file, o, r[1], r[2]) => r \in shown

Tells == /\ Inv /\ Kinds /\ Good(file, heads) /\ Unfinished /\ Fresh /\ Hits /\ Copied /\ Was /\ Listed
         /\ AnswersAreTrue

LEMMA TellsInit == Init => Tells
<1> SUFFICES ASSUME Init PROVE Tells
  OBVIOUS
<1>1. heads = {} /\ held = {} /\ pc = "idle" /\ op = NoOp
  BY DEF Init
<1>2. Inv
  BY InvInit
<1>3. Good(file, heads)
  BY <1>1 DEF Good
<1>4. AnswersAreTrue
  BY <1>1 DEF AnswersAreTrue, NoOp
<1> QED BY <1>1, <1>2, <1>3, <1>4 DEF Tells, Kinds, Unfinished, Fresh, Hits, Copied, Was, Listed, Writing, Collecting

LEMMA RecordsOfFile ==
  ASSUME Tells
  PROVE  /\ Records = UpTo(file, heads, Cap) /\ heads \subseteq Offset /\ file \in Files /\ Good(file, heads)
         /\ (heads = {} => Records = {}) /\ Records \subseteq Key \X Val
<1>1. heads \subseteq Offset /\ file \in Files
  BY Typed DEF Tells, Inv
<1> QED BY <1>1, AllRecords DEF Tells, Records

(* A file that is left alone holds the same records. *)
LEMMA SameFile ==
  ASSUME Tells, UNCHANGED <<file, heads>>
  PROVE  Records' = Records /\ Good(file, heads)' /\ Good(file', heads')
  BY DEF Tells, Records, Good, Holds, Valid, IsHdr
-----------------------------------------------------------------------------
(* The calls.                                                                *)

LEMMA BegunWith ==
  ASSUME NEW kd \in Calls, NEW k \in Key \cup {NoKey}, NEW v \in Val \cup {NoVal}
  PROVE  /\ Begun(Begin(kd, k, v), kd, k, v) /\ Begin(kd, k, v).was = Records
         /\ \A r \in Result : /\ [Begin(kd, k, v) EXCEPT !.result = r].was = Records
                              /\ [Begin(kd, k, v) EXCEPT !.result = r].result = r
                              /\ [Begin(kd, k, v) EXCEPT !.result = r].kind = kd
<1>1. Begin(kd, k, v) = [NoOp EXCEPT !.kind = kd, !.key = k, !.val = v, !.inserting = (kd = "insert"), !.was = Records]
  BY DEF Begin
<1>2. Begin(kd, k, v).was = Records
  BY <1>1 DEF NoOp
<1>3. Begun(Begin(kd, k, v), kd, k, v)
  BY Beginning
<1>4. Begin(kd, k, v) \in Op /\ Begin(kd, k, v).kind = kd
  BY <1>3 DEF Begun
<1>5. \A b \in Op, r \in Result : /\ [b EXCEPT !.result = r].was = b.was /\ [b EXCEPT !.result = r].result = r
                                  /\ [b EXCEPT !.result = r].kind = b.kind
  BY DEF Op
<1> QED BY <1>2, <1>3, <1>4, <1>5

(* A walk begins with nothing behind it. *)
LEMMA StartsToTell ==
  ASSUME Tells, Inv', pc' = "scan", op'.pos = 0, op'.hit = Cap, op'.was = Records,
         op'.kind \in {"insert", "update", "delete", "select", "selectAll"}, op'.inserting <=> op'.kind = "insert",
         Records' = Records, Good(file', heads'), heads' \subseteq Offset, Listed',
         op'.kind = "selectAll" => Records \subseteq shown'
  PROVE  Tells'
<1>1. UpTo(file', heads', 0) = {}
  BY AllRecords
<1>2. Kinds' /\ Unfinished' /\ Hits' /\ AnswersAreTrue' /\ Was'
  BY DEF Kinds, Unfinished, Hits, AnswersAreTrue, Was, Writing, Collecting
<1>3. Fresh'
  BY <1>1 DEF Fresh, None, Writing, Collecting
<1>4. Copied' /\ Good(file, heads)'
  BY DEF Copied, Collecting, Good, Holds, Valid, IsHdr
<1> QED BY <1>2, <1>3, <1>4 DEF Tells

(* A call is answered. *)
LEMMA EndsToTell ==
  ASSUME Tells, Inv', pc' = "idle", Good(file', heads'), Listed', AnswersAreTrue'
  PROVE  Tells'
<1>1. Kinds' /\ Unfinished' /\ Hits' /\ Was' /\ Fresh'
  BY DEF Kinds, Unfinished, Hits, Was, Fresh, Writing, Collecting
<1>2. Copied' /\ Good(file, heads)'
  BY DEF Copied, Collecting, Good, Holds, Valid, IsHdr
<1> QED BY <1>1, <1>2 DEF Tells

(* The list is as it was, or a used up one shows nothing any more. *)
LEMMA StillListed ==
  ASSUME Tells, UNCHANGED <<file, held, heldHere>>, shown' \in {shown, StillShown}
  PROVE  Listed'
<1>1. held # {} => shown' = shown
  BY DEF StillShown
<1> QED BY <1>1 DEF Tells, Listed, Holds, Valid, IsHdr

LEMMA CallTells ==
  ASSUME Tells, Call, Inv'
  PROVE  Tells'
<1>0. /\ (heads = {} => Records = {}) /\ heads \subseteq Offset /\ Good(file, heads) /\ (heads # {} => present)
      /\ Records \subseteq Key \X Val
  BY RecordsOfFile DEF Tells, Inv, HasFile
<1>1. ASSUME NEW k \in Key, NEW v \in Val, Insert(k, v) PROVE Tells'
  <2> DEFINE b == Begin("insert", k, v)
  <2>0. Begun(b, "insert", k, v) /\ b.was = Records
    BY BegunWith DEF Calls
  <2>1. shown' = StillShown /\ UNCHANGED <<held, heldHere>>
    BY <1>1 DEF Insert, copy
  <2>2. \A r \in Result : /\ [b EXCEPT !.result = r].was = Records
                          /\ [b EXCEPT !.result = r].result = r
                          /\ [b EXCEPT !.result = r].kind = "insert"
    BY BegunWith DEF Calls
  <2> HIDE DEF b
  <2>3. CASE present /\ pc' = "scan" /\ op' = b /\ UNCHANGED flash
    <3>1. Records' = Records /\ Good(file', heads') /\ Listed' /\ heads' \subseteq Offset
      BY <1>0, <2>1, <2>3, SameFile, StillListed DEF flash
    <3> QED BY <2>0, <2>3, <3>1, StartsToTell DEF Begun
  <2>4. CASE ~present /\ pc' = "scan" /\ op' = b /\ CreateFile
    <3>1. heads = {} /\ heads' = {} /\ Records = {}
      BY <1>0, <2>4 DEF CreateFile
    <3>2. Records' = {} /\ Good(file', heads')
      BY <3>1 DEF Records, Good
    <3>3. heldHere => held = {}
      BY <3>1 DEF Tells, Inv, Pointers
    <3>4. Listed'
      BY <2>1, <3>3 DEF Listed
    <3> QED BY <2>0, <2>4, <3>1, <3>2, <3>4, StartsToTell DEF Begun
  <2>5. CASE ~present /\ pc' = "idle" /\ op' = [b EXCEPT !.result = "DatabaseFull"] /\ UNCHANGED flash
    <3>1. Records' = Records /\ Good(file', heads') /\ Listed' /\ Records = {}
      BY <1>0, <2>1, <2>5, SameFile, StillListed DEF flash
    <3>2. op'.was = {} /\ op'.result = "DatabaseFull" /\ op'.kind = "insert"
      BY <2>2, <2>5, <3>1 DEF Result
    <3>3. AnswersAreTrue'
      BY <3>1, <3>2 DEF AnswersAreTrue, InsertAnswer
    <3> QED BY <2>5, <3>1, <3>3, EndsToTell
  <2> QED BY <1>1, <2>3, <2>4, <2>5 DEF Insert, Goto, b
<1>2. ASSUME NEW kd \in {"update", "delete", "select"}, NEW k \in Key, NEW v \in Val \cup {NoVal}, Lookup(kd, k, v)
      PROVE  Tells'
  <2> DEFINE b == Begin(kd, k, v)
  <2>0. Begun(b, kd, k, v) /\ b.was = Records /\ kd # "insert"
    BY BegunWith DEF Calls
  <2>1. shown' = StillShown /\ UNCHANGED <<file, heads, held, heldHere>>
    BY <1>2 DEF Lookup, copy, flash
  <2>2. \A r \in Result : /\ [b EXCEPT !.result = r].was = Records
                          /\ [b EXCEPT !.result = r].result = r
                          /\ [b EXCEPT !.result = r].kind = kd
    BY BegunWith DEF Calls
  <2> HIDE DEF b
  <2>3. Records' = Records /\ Good(file', heads') /\ Listed' /\ heads' \subseteq Offset
    BY <1>0, <2>1, SameFile, StillListed
  <2>4. CASE present /\ pc' = "scan" /\ op' = b
    BY <2>0, <2>3, <2>4, StartsToTell DEF Begun
  <2>5. CASE ~present /\ pc' = "idle" /\ op' = [b EXCEPT !.result = "InvalidDatabaseID"]
    <3>1. Records = {} /\ op'.was = {} /\ op'.result = "InvalidDatabaseID" /\ op'.kind = kd
      BY <1>0, <2>2, <2>5 DEF Result
    <3>2. DeleteAnswer' /\ SelectAnswer'
      BY <2>3, <3>1 DEF DeleteAnswer, SelectAnswer
    <3>3. AnswersAreTrue'
      BY <2>0, <3>1, <3>2 DEF AnswersAreTrue
    <3> QED BY <2>3, <2>5, <3>3, EndsToTell
  <2> QED BY <1>2, <2>4, <2>5 DEF Lookup, Goto, b
<1>3. CASE SelectAll
  <2> DEFINE b == Begin("selectAll", NoKey, NoVal)
  <2>0. Begun(b, "selectAll", NoKey, NoVal) /\ b.was = Records
    BY BegunWith DEF Calls
  <2>1. held' = {} /\ heldHere' = TRUE /\ shown' = Records /\ UNCHANGED <<present, file, heads>>
    BY <1>3 DEF SelectAll, flash
  <2>2. [b EXCEPT !.result = "Success"].kind = "selectAll"
    BY BegunWith DEF Calls, Result
  <2> HIDE DEF b
  <2>3. Records' = Records /\ Good(file', heads') /\ Listed' /\ heads' \subseteq Offset
    BY <1>0, <2>1, SameFile DEF Listed
  <2>4. CASE present /\ pc' = "scan" /\ op' = b
    BY <2>0, <2>1, <2>3, <2>4, StartsToTell DEF Begun
  <2>5. CASE pc' = "idle" /\ op' = [b EXCEPT !.result = "Success"]
    BY <2>2, <2>3, <2>5, EndsToTell DEF AnswersAreTrue
  <2> QED BY <1>3, <2>4, <2>5 DEF SelectAll, Goto, b
<1>4. CASE DismissAll
  <2> DEFINE b == Begin("dismiss", NoKey, NoVal)
  <2>0. Begun(b, "dismiss", NoKey, NoVal) /\ b.was = Records
    BY BegunWith DEF Calls
  <2>1. pc' = "dismiss" /\ op' = b /\ UNCHANGED <<present, file, heads, temp, tempHeads, held, heldHere, shown>>
    BY <1>4 DEF DismissAll, copy, flash, list, Goto
  <2> HIDE DEF b
  <2>2. Records' = Records /\ Good(file, heads)' /\ Listed'
    BY <2>1, SameFile, StillListed
  <2>3. Was' /\ Kinds'
    BY <2>0, <2>1, <2>2 DEF Was, Kinds, Writing, Collecting, Begun
  <2>4. Unfinished' /\ Fresh' /\ Hits' /\ Copied' /\ AnswersAreTrue'
    BY <2>1 DEF Unfinished, Fresh, Hits, Copied, AnswersAreTrue, Writing, Collecting
  <2> QED BY <2>2, <2>3, <2>4 DEF Tells
<1> QED BY <1>1, <1>2, <1>3, <1>4 DEF Call
-----------------------------------------------------------------------------
(* The walk.                                                                 *)

SameArgs == SameCall /\ op'.was = op.was

(* What a header that has the key, or has it not, holds. *)
LEMMA KeyAt ==
  ASSUME NEW h \in Offset, NEW k \in Key, NEW v \in Val, Holds(file, h, k, v), NEW l
  PROVE  HasKey(h, l) <=> l = k
<1>1. h + 1 < Cap /\ file[h + 1] = KeyCell(k)
  BY Held
<1> QED BY <1>1, KeyCells DEF HasKey

LEMMA WalksToTell ==
  ASSUME Tells, Inv', pc = "scan", ~AtEnd(file, op.pos), pc' = "scan", op'.pos = After(file, op.pos), SameArgs,
         op'.hit = Cap => op.hit = Cap, Hits', Listed',
         \/ ~Valid(file, op.pos)
         \/ op.kind = "selectAll"
         \/ ~HasKey(op.pos, op.key)
         \/ ~op.inserting /\ op'.hit # Cap,
         UNCHANGED <<file, heads, shown>>
  PROVE  Tells'
<1>1. PICK e, s : LogAt(e, s)
  BY DEF Tells, Inv, LogInv
<1>2. Row(file, heads, e, s) /\ file \in Files /\ heads \subseteq Offset
  BY <1>1, RecordsOfFile DEF LogAt
<1>3. op.pos \in heads
  BY NextPlace DEF Tells
<1>4. Records' = Records /\ Good(file, heads)'
  BY SameFile
<1>5. Kinds' /\ Unfinished' /\ Copied' /\ AnswersAreTrue'
  BY DEF Tells, Kinds, Unfinished, Copied, AnswersAreTrue, SameArgs, SameCall, Writing, Collecting
<1>6. Was'
  BY <1>4 DEF Tells, Was, SameArgs, SameCall
<1>7. ASSUME op.kind # "selectAll", op.inserting \/ op'.hit = Cap
      PROVE  None(UpTo(file, heads, After(file, op.pos)), op.key)
  <2>1. None(UpTo(file, heads, op.pos), op.key)
    BY <1>7 DEF Tells, Fresh
  <2>2. ASSUME NEW r \in Key \X Val, Holds(file, op.pos, r[1], r[2]) PROVE r[1] # op.key
    <3>1. r[1] \in Key /\ r[2] \in Val /\ op.pos \in Offset
      BY <1>2, <1>3
    <3>2. Valid(file, op.pos)
      BY <2>2 DEF Holds
    <3>3. ~HasKey(op.pos, op.key)
      BY <1>7, <3>2
    <3> QED BY <2>2, <3>1, <3>3, KeyAt
  <2>3. UpTo(file, heads, After(file, op.pos)) =
        UpTo(file, heads, op.pos) \cup {r \in Key \X Val : Holds(file, op.pos, r[1], r[2])}
    BY <1>2, <1>3, Walked
  <2> QED BY <2>1, <2>2, <2>3 DEF None
<1>8. Fresh'
  <2>1. UpTo(file, heads, op.pos)' = UpTo(file, heads, After(file, op.pos))
    OBVIOUS
  <2>2. pc' \notin Writing
    BY DEF Writing, Collecting
  <2>3. op'.key = op.key /\ op'.kind = op.kind /\ op'.inserting = op.inserting
    BY DEF SameArgs, SameCall
  <2> QED BY <1>7, <2>1, <2>2, <2>3 DEF Fresh, None
<1> QED BY <1>4, <1>5, <1>6, <1>8 DEF Tells

LEMMA ScanTells ==
  ASSUME Tells, ScanSkip \/ ScanHit \/ ScanGather, Inv'
  PROVE  Tells'
<1>0. op \in Op /\ op.seen \in BOOLEAN /\ op.pos \in Pos /\ file \in Files
  BY Typed DEF Tells, Inv
<1>1. /\ pc = "scan" /\ ~AtEnd(file, op.pos) /\ pc' = "scan" /\ UNCHANGED <<file, heads, shown, heldHere>>
  BY DEF ScanSkip, ScanHit, ScanGather, Goto, flash, list
<1>2. op.pos \in heads /\ After(file, op.pos) \in Pos /\ op.pos \in Offset /\ op.pos # Cap
  <2>1. op.pos \in heads /\ op.pos \in Offset /\ After(file, op.pos) \in Pos
    BY <1>1, NextPlace, RecordsOfFile DEF Tells
  <2> QED BY <2>1, Sizes DEF Offset
<1>3. CASE ScanSkip
  <2>1. op' = [op EXCEPT !.pos = After(file, op.pos), !.seen = @ \/ Valid(file, op.pos)]
    BY <1>3 DEF ScanSkip, Goto
  <2>2. op'.pos = After(file, op.pos) /\ SameArgs /\ op'.hit = op.hit /\ (op.seen => op'.seen)
    BY <1>0, <2>1 DEF Op, SameCall, SameArgs
  <2>3. UNCHANGED held
    BY <1>3 DEF ScanSkip, list
  <2>4. Hits'
    BY <1>1, <2>2 DEF Tells, Hits, Valid, IsHdr, SameArgs, SameCall
  <2>5. Listed'
    BY <1>1, <2>3, StillListed
  <2>6. \/ ~Valid(file, op.pos)
        \/ ~HasKey(op.pos, op.key)
    BY <1>3 DEF ScanSkip
  <2> QED BY <1>1, <2>2, <2>4, <2>5, <2>6, WalksToTell
<1>4. CASE ScanHit
  <2>0. Valid(file, op.pos) /\ HasKey(op.pos, op.key) /\ ~op.inserting
    BY <1>4 DEF ScanHit
  <2>1. op' = [op EXCEPT !.pos = After(file, op.pos), !.seen = TRUE, !.hit = IF @ = Cap THEN op.pos ELSE @]
    BY <1>4 DEF ScanHit, Goto
  <2>2. /\ op'.pos = After(file, op.pos) /\ SameArgs /\ op'.hit = (IF op.hit = Cap THEN op.pos ELSE op.hit)
        /\ op'.seen = TRUE
    BY <1>0, <2>1 DEF Op, SameCall, SameArgs
  <2>3. UNCHANGED held
    BY <1>4 DEF ScanHit, list
  <2>4. Hits'
    <3>1. op'.hit \in heads /\ Valid(file, op'.hit) /\ file[op'.hit + 1] = KeyCell(op.key)
      <4>1. CASE op.hit = Cap
        BY <1>2, <2>0, <2>2, <4>1 DEF HasKey
      <4>2. CASE op.hit # Cap
        BY <1>1, <2>0, <2>2, <4>2 DEF Tells, Hits
      <4> QED BY <4>1, <4>2
    <3> QED BY <1>1, <2>2, <3>1 DEF Hits, SameArgs, SameCall, Valid, IsHdr
  <2>5. Listed'
    BY <1>1, <2>3, StillListed
  <2>6. op'.hit # Cap
    BY <1>2, <2>2
  <2> QED BY <1>1, <2>0, <2>2, <2>4, <2>5, <2>6, WalksToTell
<1>5. CASE ScanGather
  <2>0. Valid(file, op.pos) /\ op.kind = "selectAll" /\ held' = held \cup {op.pos}
    BY <1>5 DEF ScanGather
  <2>1. op' = [op EXCEPT !.pos = After(file, op.pos)]
    BY <1>5 DEF ScanGather, Goto
  <2>2. op'.pos = After(file, op.pos) /\ SameArgs /\ op'.hit = op.hit /\ op'.seen = op.seen
    BY <1>0, <2>1 DEF Op, SameCall, SameArgs
  <2>3. Hits'
    BY <1>1, <2>2 DEF Tells, Hits, Valid, IsHdr, SameArgs, SameCall
  <2>4. Listed'
    <3>1. Records \subseteq shown
      BY <1>1, <2>0 DEF Tells, Was
    <3>2. \A r \in Key \X Val : Holds(file, op.pos, r[1], r[2]) => r \in shown
      BY <1>2, <3>1 DEF Records
    <3>3. "written" \in file[op.pos].flags
      BY <2>0 DEF Valid
    <3> QED BY <1>1, <2>0, <3>2, <3>3 DEF Tells, Listed, Holds, Valid, IsHdr
  <2> QED BY <1>1, <2>0, <2>2, <2>3, <2>4, WalksToTell
<1> QED BY <1>3, <1>4, <1>5

(* An insert is answered and has written nothing. *)
LEMMA RefusesToTell ==
  ASSUME Tells, Inv', op.inserting, pc \notin {"idle", "dismiss"}, NEW x \in {"InvalidData", "DatabaseFull"},
         InsertDone(x),
         x = "InvalidData" => \E r \in Records : r[1] = op.key,
         x = "DatabaseFull" => None(Records, op.key),
         UNCHANGED <<file, heads, held, heldHere, shown>>
  PROVE  Tells'
<1>1. PICK y \in {x, "Success"} : pc' = "idle" /\ op' = [op EXCEPT !.result = y] /\ (y # x => op.kind = "update")
  BY DEF InsertDone, Answer, Goto
<1>2. op \in Op
  BY Typed DEF Tells, Inv
<1>3. SameArgs /\ op'.result = y
  BY <1>1, <1>2 DEF Op, SameArgs, SameCall
<1>4. Records' = Records /\ Good(file', heads') /\ Listed'
  BY SameFile, StillListed
<1>5. op.kind \in {"insert", "update"} /\ (op.kind = "insert" => Records = op.was)
  BY DEF Tells, Kinds, Was
<1>6. op.kind = "insert" => InsertAnswer'
  BY <1>1, <1>3, <1>4, <1>5 DEF InsertAnswer, None, SameArgs, SameCall
<1>7. AnswersAreTrue'
  BY <1>1, <1>3, <1>5, <1>6 DEF AnswersAreTrue, SameArgs, SameCall
<1> QED BY <1>1, <1>4, <1>7, EndsToTell

LEMMA DuplicateTells ==
  ASSUME Tells, ScanDuplicate, Inv'
  PROVE  Tells'
<1>1. /\ pc = "scan" /\ op.inserting /\ ~AtEnd(file, op.pos) /\ Valid(file, op.pos) /\ HasKey(op.pos, op.key)
      /\ InsertDone("InvalidData") /\ UNCHANGED <<file, heads, held, heldHere, shown>>
  BY DEF ScanDuplicate, flash, list
<1>2. op.pos \in heads /\ op.pos \in Offset
  BY <1>1, NextPlace, RecordsOfFile DEF Tells
<1>3. PICK k \in Key, v \in Val : Holds(file, op.pos, k, v)
  BY <1>1, <1>2 DEF Tells, Good
<1>4. k = op.key
  BY <1>1, <1>2, <1>3, KeyAt
<1>5. <<k, v>> \in Records
  BY <1>2, <1>3 DEF Records
<1>6. \E r \in Records : r[1] = op.key
  BY <1>4, <1>5
<1> QED BY <1>1, <1>6, RefusesToTell

LEMMA ScanEndTells ==
  ASSUME Tells, ScanEnd, Inv'
  PROVE  Tells'
<1>0. PICK e, s : LogAt(e, s)
  BY DEF Tells, Inv, LogInv
<1>1. pc = "scan" /\ AtEnd(file, op.pos) /\ UNCHANGED <<file, heads, heldHere, held, shown>>
  BY DEF ScanEnd, flash, list
<1>2. op \in Op /\ file \in Files /\ heads \subseteq Offset /\ Records = UpTo(file, heads, Cap)
  BY Typed, RecordsOfFile DEF Tells, Inv
<1>3. Row(file, heads, e, s) /\ op.pos = e
  BY <1>0, <1>1, <1>2, Stops DEF LogAt
<1>4. UpTo(file, heads, op.pos) = Records
  BY <1>2, <1>3, WalkedAll
<1>5. op.kind # "selectAll" /\ (op.inserting \/ op.hit = Cap) => None(Records, op.key)
  BY <1>1, <1>4 DEF Tells, Fresh
<1>6. Records' = Records /\ Good(file', heads') /\ Good(file, heads)' /\ Listed'
  BY <1>1, SameFile, StillListed
<1>7. CASE op.inserting
  <2>1. pc' \in {"gc", "header"} /\ SameArgs
    <3>1. (pc' = "gc" /\ op' = [op EXCEPT !.pos = 0, !.used = 0]) \/ (pc' = "header" /\ op' = op)
      BY <1>7 DEF ScanEnd, Goto
    <3>2. CASE op' = op
      BY <3>1, <3>2 DEF SameArgs, SameCall
    <3> QED BY <1>2, <3>1, <3>2 DEF Op, SameArgs, SameCall
  <2>2. Fresh'
    <3>1. op.kind \in {"insert", "update"}
      BY <1>1, <1>7 DEF Tells, Kinds
    <3>2. None(Records, op.key)
      BY <1>5, <1>7, <3>1
    <3> QED BY <1>6, <2>1, <3>2 DEF Fresh, None, SameArgs, SameCall
  <2>3. Kinds' /\ Unfinished' /\ Hits' /\ Copied' /\ AnswersAreTrue'
    BY <1>1, <2>1 DEF Tells, Kinds, Unfinished, Hits, Copied, AnswersAreTrue, SameArgs, SameCall, Writing, Collecting
  <2>4. Was'
    BY <1>1, <1>6, <2>1 DEF Tells, Was, SameArgs, SameCall
  <2> QED BY <1>6, <2>2, <2>3, <2>4 DEF Tells
<1>8. CASE ~op.inserting /\ pc' = "erase"
  <2>1. op' = op /\ op.hit # Cap /\ op.kind \notin {"select", "selectAll", "insert"}
    BY <1>1, <1>8 DEF ScanEnd, Goto, Answer, Tells, Kinds
  <2>2. Kinds' /\ Unfinished' /\ Copied' /\ AnswersAreTrue' /\ Fresh'
    BY <1>1, <1>8, <2>1 DEF Tells, Kinds, Unfinished, Fresh, Copied, AnswersAreTrue, Writing, Collecting
  <2>3. Was' /\ Hits'
    BY <1>1, <1>6, <1>8, <2>1 DEF Tells, Was, Hits, Valid, IsHdr
  <2> QED BY <1>6, <2>2, <2>3 DEF Tells
<1>9. CASE ~op.inserting /\ pc' # "erase"
  <2>1. pc' = "idle" /\ op'.kind = op.kind /\ op'.was = op.was /\ op'.key = op.key
    <3>1. pc' = "idle" /\ \E v \in Val \cup {op.val}, x \in Result : op' = [op EXCEPT !.val = v, !.result = x]
      <4>1. CASE \E x \in Result : Answer(x)
        <5>1. PICK x \in Result : op' = [op EXCEPT !.result = x] /\ pc' = "idle"
          BY <4>1 DEF Answer, Goto
        <5>2. op' = [op EXCEPT !.val = op.val, !.result = x]
          BY <1>2, <5>1 DEF Op
        <5> QED BY <5>1, <5>2
      <4>2. CASE \E v \in Val : pc' = "idle" /\ op' = [op EXCEPT !.val = v, !.result = "Success"]
        BY <4>2 DEF Result
      <4>3. (\E x \in Result : Answer(x))
            \/ (\E v \in Val : pc' = "idle" /\ op' = [op EXCEPT !.val = v, !.result = "Success"])
        BY <1>9 DEF ScanEnd, Goto, Result
      <4> QED BY <4>1, <4>2, <4>3
    <3> QED BY <1>2, <3>1 DEF Op
  <2>2. op.kind # "insert" /\ op.kind # "dismiss"
    BY <1>1, <1>9 DEF Tells, Kinds
  <2>3. op.kind # "update" => Records = op.was
    BY <1>1 DEF Tells, Was
  <2>4. op.hit = Cap \/ op.seen
    BY <1>1, <1>9 DEF Tells, Hits
  <2>5. CASE op.kind = "selectAll"
    <3>1. AnswersAreTrue'
      BY <2>1, <2>5 DEF AnswersAreTrue
    <3> QED BY <1>6, <2>1, <3>1, EndsToTell
  <2>6. CASE op.kind # "selectAll" /\ op.hit = Cap
    <3>1. op'.result # "Success"
      <4>1. Answer("InvalidDatabaseID") \/ Answer("KeyDoesNotExist")
        BY <1>9, <2>6 DEF ScanEnd
      <4> QED BY <1>2, <4>1 DEF Answer, Goto, Op, Result
    <3>2. None(Records, op.key)
      BY <1>5, <2>6
    <3>3. op.kind = "delete" => DeleteAnswer'
      BY <1>6, <2>1, <2>3, <3>1, <3>2 DEF DeleteAnswer, None
    <3>4. op.kind = "select" => SelectAnswer'
      BY <1>6, <2>1, <2>3, <3>1, <3>2 DEF SelectAnswer, None
    <3>5. AnswersAreTrue'
      BY <2>1, <2>2, <3>3, <3>4 DEF AnswersAreTrue
    <3> QED BY <1>6, <2>1, <3>5, EndsToTell
  <2>7. CASE op.kind # "selectAll" /\ op.hit # Cap
    <3>1. op.kind = "select" /\ \E v \in Val : /\ Holds(file, op.hit, op.key, v)
                                               /\ op' = [op EXCEPT !.val = v, !.result = "Success"]
      BY <1>9, <2>4, <2>7 DEF ScanEnd, Goto
    <3>2. PICK v \in Val : Holds(file, op.hit, op.key, v) /\ op'.val = v /\ op'.result = "Success"
      BY <1>2, <3>1 DEF Op, Result
    <3>3. op.hit \in heads /\ op.hit \in Offset
      BY <1>1, <1>2, <1>9, <2>7 DEF Tells, Hits
    <3>4. <<op.key, v>> \in Records
      <4>1. op.key \in Key
        <5>1. Valid(file, op.hit)
          BY <3>2 DEF Holds
        <5>2. PICK k \in Key, w \in Val : Holds(file, op.hit, k, w)
          BY <3>3, <5>1 DEF Tells, Good
        <5>3. file[op.hit + 1] = KeyCell(k)
          BY <3>3, <5>2, Held
        <5>4. file[op.hit + 1] = KeyCell(op.key)
          BY <1>1, <1>9, <2>7 DEF Tells, Hits
        <5> QED BY <5>2, <5>3, <5>4, KeyCells
      <4> QED BY <3>2, <3>3, <4>1 DEF Records
    <3>5. SelectAnswer'
      BY <1>6, <2>1, <2>3, <3>1, <3>2, <3>4 DEF SelectAnswer
    <3>6. AnswersAreTrue'
      BY <2>1, <3>1, <3>5 DEF AnswersAreTrue
    <3> QED BY <1>6, <2>1, <3>6, EndsToTell
  <2> QED BY <2>5, <2>6, <2>7
<1> QED BY <1>7, <1>8, <1>9
-----------------------------------------------------------------------------
(* Erasing.                                                                  *)

(* A flag is set in a header: the other records stay as they are. *)
LEMMA FlagKeeps ==
  ASSUME Tells, NEW o \in heads, NEW fl, SetFlag(o, fl)
  PROVE  /\ \A h \in heads \ {o} : Kept(file, file', h)
         /\ \A h \in Offset : h # o => file'[h] = file[h]
         /\ IsHdr(file', o) /\ file'[o].len = file[o].len /\ file'[o].flags = file[o].flags \cup {fl}
<1>1. PICK e, s : LogAt(e, s)
  BY DEF Tells, Inv, LogInv
<1>2. Row(file, heads, e, s) /\ file \in Files /\ o \in Offset
  BY <1>1, RecordsOfFile DEF LogAt
<1>3. file' = [file EXCEPT ![o] = Hdr(file[o].len, file[o].flags \cup {fl})]
  BY Flagging DEF Tells
<1>4. file'[o] = Hdr(file[o].len, file[o].flags \cup {fl}) /\ \A h \in Offset : h # o => file'[h] = file[h]
  BY <1>2, <1>3 DEF Files
<1>5. o <= o /\ o < After(file, o)
  BY <1>2, RowHeads
<1>6. \A h \in heads \ {o} : Kept(file, file', h)
  BY <1>2, <1>4, <1>5, OthersKept
<1>7. IsHdr(file', o) /\ file'[o].len = file[o].len /\ file'[o].flags = file[o].flags \cup {fl}
  BY <1>4, Cells DEF IsHdr
<1> QED BY <1>4, <1>6, <1>7

LEMMA ErasesRecord ==
  ASSUME Tells, NEW o \in heads, EraseAt(o), heads' = heads
  PROVE  /\ Good(file', heads') /\ Good(file, heads)'
         /\ Records' = {r \in Records : ~Holds(file, o, r[1], r[2])}
         /\ \A h \in heads, r \in Key \X Val : Holds(file', h, r[1], r[2]) =>
                                                 h # o /\ Holds(file, h, r[1], r[2])
         /\ \A h \in heads : "written" \in file[h].flags => "written" \in file'[h].flags
<1>1. /\ \A h \in heads \ {o} : Kept(file, file', h)
      /\ \A h \in Offset : h # o => file'[h] = file[h]
      /\ IsHdr(file', o) /\ file'[o].len = file[o].len /\ file'[o].flags = file[o].flags \cup {"erased"}
  BY FlagKeeps DEF EraseAt
<1>2. ~Valid(file', o)
  BY <1>1 DEF Valid
<1>3. Records = UpTo(file, heads, Cap) /\ heads \subseteq Offset /\ Good(file, heads)
  BY RecordsOfFile
<1>4. Good(file', heads) /\ UpTo(file', heads, Cap) = {r \in UpTo(file, heads, Cap) : ~Holds(file, o, r[1], r[2])}
  BY <1>1, <1>2, <1>3, Removed
<1>5. Records' = UpTo(file', heads, Cap)
  BY <1>3, AllRecords DEF Records
<1>6. ASSUME NEW h \in heads, NEW r \in Key \X Val, Holds(file', h, r[1], r[2])
      PROVE  h # o /\ Holds(file, h, r[1], r[2])
  <2>1. h # o
    BY <1>2, <1>6 DEF Holds
  <2>2. r[1] \in Key /\ r[2] \in Val
    OBVIOUS
  <2> QED BY <1>1, <1>6, <2>1, <2>2, KeptRecord
<1>7. \A h \in heads : "written" \in file[h].flags => "written" \in file'[h].flags
  BY <1>1, <1>3
<1>8. Good(file, heads)'
  BY <1>4 DEF Good, Holds, Valid, IsHdr
<1> QED BY <1>3, <1>4, <1>5, <1>6, <1>7, <1>8

LEMMA EraseTells ==
  ASSUME Tells, Erase, Inv'
  PROVE  /\ Tells'
         /\ \E r \in Records : Records' = Records \ {r}
<1>1. /\ pc = "erase" /\ EraseAt(op.hit) /\ UNCHANGED <<heads, held, heldHere>>
      /\ shown' = {r \in shown : r[1] # op.key}
      /\ IF op.kind = "update" THEN pc' = "scan" /\ op' = [op EXCEPT !.inserting = TRUE, !.pos = 0]
                               ELSE pc' = "idle" /\ op' = [op EXCEPT !.result = "Success"]
  BY DEF Erase, Goto, Answer
<1>2. /\ op.hit \in heads /\ Valid(file, op.hit) /\ file[op.hit + 1] = KeyCell(op.key) /\ op.hit # Cap
      /\ op.kind \in {"update", "delete"} /\ ~op.inserting
  BY <1>1 DEF Tells, Hits, Kinds
<1>3. heads \subseteq Offset /\ Good(file, heads) /\ Records \subseteq Key \X Val /\ op \in Op
  BY RecordsOfFile, Typed DEF Tells, Inv
<1>4. PICK k \in Key, v \in Val : Holds(file, op.hit, k, v)
  BY <1>2 DEF Tells, Good
<1>5. k = op.key /\ op.hit \in Offset
  <2>1. op.hit \in Offset
    BY <1>2, <1>3
  <2>2. file[op.hit + 1] = KeyCell(k)
    BY <1>4, <2>1, Held
  <2> QED BY <1>2, <2>1, <2>2, KeyCells
<1>6. /\ Good(file', heads') /\ Good(file, heads)'
      /\ Records' = {r \in Records : ~Holds(file, op.hit, r[1], r[2])}
      /\ \A h \in heads, r \in Key \X Val : Holds(file', h, r[1], r[2]) =>
                                              h # op.hit /\ Holds(file, h, r[1], r[2])
      /\ \A h \in heads : "written" \in file[h].flags => "written" \in file'[h].flags
  BY <1>1, <1>2, ErasesRecord
<1>7. <<k, v>> \in Records
  BY <1>2, <1>3, <1>4 DEF Records
<1>8. \A r \in Records : Holds(file, op.hit, r[1], r[2]) <=> r = <<k, v>>
  <2> SUFFICES ASSUME NEW r \in Records PROVE Holds(file, op.hit, r[1], r[2]) <=> r = <<k, v>>
    OBVIOUS
  <2>1. r[1] \in Key /\ r[2] \in Val /\ r = <<r[1], r[2]>>
    BY <1>3
  <2>2. Holds(file, op.hit, r[1], r[2]) => r[1] = k /\ r[2] = v
    BY <1>4, <1>5, <2>1, OneRecord
  <2> QED BY <1>4, <2>1, <2>2
<1>9. \A r \in Records : r[1] = op.key <=> r = <<k, v>>
  <2> SUFFICES ASSUME NEW r \in Records, r[1] = op.key PROVE r = <<k, v>>
    BY <1>5
  <2>1. r[1] \in Key /\ r[2] \in Val /\ r = <<r[1], r[2]>> /\ r[1] = k
    BY <1>3, <1>5
  <2>2. PICK o \in heads : Holds(file, o, k, r[2])
    BY <2>1 DEF Records
  <2>3. o = op.hit
    BY <1>2, <1>3, <1>4, <2>1, <2>2 DEF Good
  <2>4. r[2] = v
    BY <1>4, <1>5, <2>1, <2>2, <2>3, OneRecord
  <2> QED BY <2>1, <2>4
<1>10. Records' = Records \ {<<k, v>>} /\ Records' = {r \in Records : r[1] # op.key}
  BY <1>6, <1>8, <1>9
<1>11. Listed'
  <2> SUFFICES ASSUME heldHere, NEW o \in held
      PROVE  /\ "written" \in file'[o].flags
             /\ \A r \in Key \X Val : Holds(file', o, r[1], r[2]) => r \in shown'
    BY <1>1 DEF Listed, Holds, Valid, IsHdr
  <2>1. o \in heads /\ "written" \in file[o].flags /\ \A r \in Key \X Val : Holds(file, o, r[1], r[2]) => r \in shown
    BY DEF Tells, Inv, Pointers, Listed
  <2>2. ASSUME NEW r \in Key \X Val, Holds(file', o, r[1], r[2]) PROVE r \in shown'
    <3>1. o # op.hit /\ Holds(file, o, r[1], r[2]) /\ r[1] \in Key /\ r[2] \in Val
      BY <1>6, <2>1, <2>2
    <3>2. r[1] # op.key
      <4> SUFFICES ASSUME r[1] = k PROVE FALSE
        BY <1>5
      <4>1. Holds(file, o, k, r[2])
        BY <3>1
      <4> QED BY <1>2, <1>3, <1>4, <2>1, <3>1, <4>1 DEF Good
    <3> QED BY <1>1, <2>1, <3>1, <3>2
  <2> QED BY <1>6, <2>1, <2>2
<1>12. CASE op.kind = "update"
  <2>1. /\ pc' = "scan" /\ op'.inserting /\ op'.pos = 0 /\ op'.kind = "update" /\ op'.key = op.key
    BY <1>1, <1>3, <1>12 DEF Op
  <2>2. UpTo(file', heads', 0) = {}
    BY <1>1, <1>3, AllRecords
  <2>3. Fresh'
    BY <2>1, <2>2 DEF Fresh, None, Writing, Collecting
  <2>4. Kinds' /\ Unfinished' /\ Hits' /\ Copied' /\ AnswersAreTrue' /\ Was'
    BY <2>1 DEF Kinds, Unfinished, Hits, Copied, AnswersAreTrue, Was, Writing, Collecting
  <2>5. Tells'
    BY <1>6, <1>11, <2>3, <2>4 DEF Tells
  <2> QED BY <1>7, <1>10, <2>5
<1>13. CASE op.kind # "update"
  <2>1. pc' = "idle" /\ op'.kind = "delete" /\ op'.was = op.was /\ op'.key = op.key /\ op'.result = "Success"
    BY <1>1, <1>2, <1>3, <1>13 DEF Op, Result
  <2>2. Records = op.was
    BY <1>1, <1>13 DEF Tells, Was
  <2>3. DeleteAnswer'
    BY <1>7, <1>10, <2>1, <2>2 DEF DeleteAnswer
  <2>4. AnswersAreTrue'
    BY <2>1, <2>3 DEF AnswersAreTrue
  <2>5. Tells'
    BY <1>6, <1>11, <2>1, <2>4, EndsToTell
  <2> QED BY <1>7, <1>10, <2>5
<1> QED BY <1>12, <1>13

LEMMA DismissTells ==
  ASSUME Tells, Dismiss, Inv'
  PROVE  /\ Tells'
         /\ Records' = Records \/ \E r \in Records : Records' = Records \ {r}
<1>1. PICK o \in held : /\ (IF heldHere THEN EraseAt(o) ELSE UNCHANGED file) /\ held' = held \ {o}
  BY DEF Dismiss
<1>2. /\ pc = "dismiss" /\ UNCHANGED <<heads, heldHere, shown>>
      /\ (Answer("Success") \/ UNCHANGED <<pc, op>>)
  BY DEF Dismiss
<1>3. heads \subseteq Offset /\ Good(file, heads) /\ Records \subseteq Key \X Val /\ op \in Op
  BY RecordsOfFile, Typed DEF Tells, Inv
<1>4. op.kind = "dismiss" /\ op.was \ shown \subseteq Records
  BY <1>2 DEF Tells, Kinds, Was
<1>5. pc' \in {"idle", "dismiss"} /\ op'.kind = "dismiss" /\ op'.was = op.was
  <2>1. CASE Answer("Success")
    BY <1>3, <1>4, <2>1 DEF Answer, Goto, Op, Result
  <2>2. CASE UNCHANGED <<pc, op>>
    BY <1>2, <1>4, <2>2
  <2> QED BY <1>2, <2>1, <2>2
<1>6. /\ Good(file', heads') /\ Good(file, heads)' /\ Listed' /\ op.was \ shown \subseteq Records'
      /\ Records' = Records \/ \E r \in Records : Records' = Records \ {r}
  <2>1. CASE ~heldHere
    <3>1. UNCHANGED <<file, heads>>
      BY <1>1, <1>2, <2>1
    <3>2. Listed'
      BY <1>2, <2>1 DEF Listed
    <3> QED BY <1>4, <3>1, <3>2, SameFile
  <2>2. CASE heldHere
    <3>1. held \subseteq heads /\ o \in heads
      BY <1>1, <2>2 DEF Tells, Inv, Pointers
    <3>2. /\ Good(file', heads') /\ Good(file, heads)'
          /\ Records' = {r \in Records : ~Holds(file, o, r[1], r[2])}
          /\ \A h \in heads, r \in Key \X Val : Holds(file', h, r[1], r[2]) => Holds(file, h, r[1], r[2])
          /\ \A h \in heads : "written" \in file[h].flags => "written" \in file'[h].flags
      BY <1>1, <1>2, <2>2, <3>1, ErasesRecord
    <3>3. Listed'
      <4> SUFFICES ASSUME NEW h \in held
          PROVE  /\ "written" \in file'[h].flags
                 /\ \A r \in Key \X Val : Holds(file', h, r[1], r[2]) => r \in shown
        BY <1>1, <1>2 DEF Listed, Holds, Valid, IsHdr
      <4>1. h \in heads /\ "written" \in file[h].flags /\ \A r \in Key \X Val : Holds(file, h, r[1], r[2]) => r \in shown
        BY <2>2, <3>1 DEF Tells, Listed
      <4> QED BY <3>2, <4>1
    <3>4. \A r \in Key \X Val : Holds(file, o, r[1], r[2]) => r \in shown
      BY <1>1, <2>2 DEF Tells, Listed
    <3>5. op.was \ shown \subseteq Records'
      BY <1>3, <1>4, <3>2, <3>4
    <3>6. Records' = Records \/ \E r \in Records : Records' = Records \ {r}
      <4>1. CASE \A r \in Records : ~Holds(file, o, r[1], r[2])
        BY <3>2, <4>1
      <4>2. ASSUME NEW r \in Records, Holds(file, o, r[1], r[2])
            PROVE  Records' = Records \ {r}
        <5>1. \A q \in Records : Holds(file, o, q[1], q[2]) => q = r
          <6> SUFFICES ASSUME NEW q \in Records, Holds(file, o, q[1], q[2]) PROVE q = r
            OBVIOUS
          <6>1. /\ q[1] \in Key /\ q[2] \in Val /\ q = <<q[1], q[2]>> /\ r[1] \in Key /\ r[2] \in Val
                /\ r = <<r[1], r[2]>> /\ o \in Offset
            BY <1>3, <3>1
          <6>2. q[1] = r[1] /\ q[2] = r[2]
            BY <4>2, <6>1, OneRecord
          <6> QED BY <6>1, <6>2
        <5> QED BY <3>2, <4>2, <5>1
      <4> QED BY <4>1, <4>2
    <3> QED BY <3>2, <3>3, <3>5, <3>6
  <2> QED BY <2>1, <2>2
<1>7. Tells'
  <2>1. CASE pc' = "idle"
    <3>1. AnswersAreTrue'
      BY <1>2, <1>5, <1>6 DEF AnswersAreTrue, DismissAnswer
    <3> QED BY <1>6, <2>1, <3>1, EndsToTell
  <2>2. CASE pc' = "dismiss"
    <3>1. Kinds' /\ Unfinished' /\ Fresh' /\ Hits' /\ Copied' /\ AnswersAreTrue'
      BY <1>5, <2>2 DEF Kinds, Unfinished, Fresh, Hits, Copied, AnswersAreTrue, Writing, Collecting
    <3>2. Was'
      BY <1>2, <1>5, <1>6, <2>2 DEF Was
    <3> QED BY <1>6, <3>1, <3>2 DEF Tells
  <2> QED BY <1>5, <2>1, <2>2
<1> QED BY <1>6, <1>7
-----------------------------------------------------------------------------
(* Writing a record.                                                         *)

(* A write that leaves every record alone, also when it begins a new header. *)
LEMMA RecordsStay ==
  ASSUME Tells, \A h \in heads : Kept(file, file', h) /\ ("written" \in file[h].flags => "written" \in file'[h].flags),
         heads' = heads \/ \E n \in Offset : heads' = heads \cup {n} /\ ~Valid(file', n),
         UNCHANGED <<held, heldHere, shown>>
  PROVE  Records' = Records /\ Good(file', heads') /\ Good(file, heads)' /\ Listed'
<1>1. Records = UpTo(file, heads, Cap) /\ heads \subseteq Offset /\ Good(file, heads)
  BY RecordsOfFile
<1>2. Good(file', heads) /\ UpTo(file', heads, Cap) = Records
  BY <1>1, KeptRecords
<1>3. Good(file', heads') /\ UpTo(file', heads', Cap) = Records /\ heads' \subseteq Offset
  <2>1. CASE heads' = heads
    BY <1>1, <1>2, <2>1
  <2>2. ASSUME NEW n \in Offset, heads' = heads \cup {n}, ~Valid(file', n)
        PROVE  Good(file', heads') /\ UpTo(file', heads', Cap) = Records /\ heads' \subseteq Offset
    <3>1. Good(file', heads \cup {n}) /\ UpTo(file', heads \cup {n}, Cap) = UpTo(file', heads, Cap)
      BY <1>2, <2>2, EmptyHeader
    <3> QED BY <1>1, <1>2, <2>2, <3>1
  <2> QED BY <2>1, <2>2
<1>4. Records' = Records
  BY <1>3, AllRecords DEF Records
<1>5. Good(file, heads)'
  BY <1>3 DEF Good, Holds, Valid, IsHdr
<1>6. Listed'
  <2> SUFFICES ASSUME heldHere, NEW h \in held
      PROVE  /\ "written" \in file'[h].flags
             /\ \A r \in Key \X Val : Holds(file', h, r[1], r[2]) => r \in shown
    BY DEF Listed, Holds, Valid, IsHdr
  <2>1. h \in heads /\ "written" \in file[h].flags /\ \A r \in Key \X Val : Holds(file, h, r[1], r[2]) => r \in shown
    BY DEF Tells, Inv, Pointers, Listed
  <2>2. \A k \in Key, v \in Val : Holds(file', h, k, v) <=> Holds(file, h, k, v)
    BY <2>1, KeptRecord
  <2>3. \A r \in Key \X Val : r[1] \in Key /\ r[2] \in Val
    OBVIOUS
  <2> QED BY <2>1, <2>2, <2>3
<1> QED BY <1>3, <1>4, <1>5, <1>6

(* An insert that writes goes on with the next write. *)
LEMMA WritesOn ==
  ASSUME Tells, pc \in {"header", "headerFlag", "payload", "writtenFlag"},
         pc' \in {"header", "headerFlag", "payload", "writtenFlag"}, SameArgs,
         Records' = Records, Good(file, heads)', Listed', Unfinished', Inv'
  PROVE  Tells'
<1>1. Kinds' /\ Was'
  BY DEF Tells, Kinds, Was, SameArgs, SameCall, Writing, Collecting
<1>2. Hits' /\ Copied' /\ AnswersAreTrue'
  BY DEF Hits, Copied, AnswersAreTrue, Collecting
<1>3. None(Records, op.key)
  BY DEF Tells, Fresh, Writing
<1>4. Fresh'
  BY <1>3 DEF Fresh, None, SameArgs, SameCall
<1> QED BY <1>1, <1>2, <1>4 DEF Tells

LEMMA WriteHeaderTells ==
  ASSUME Tells, WriteHeader, Inv'
  PROVE  Tells' /\ Records' = Records
<1>1. pc = "header" /\ UNCHANGED <<held, heldHere, shown>>
  BY DEF WriteHeader, list
<1>2. PICK e, s : LogAt(e, s)
  BY DEF Tells, Inv, LogInv
<1>3. Row(file, heads, e, s) /\ op.pos = e /\ e + Need <= Cap
  BY <1>1, <1>2 DEF LogAt
<1>4. /\ op.val \in Val /\ Size[op.val] \in Nat /\ Need = 2 + Size[op.val] /\ 1 + Size[op.val] \in Len /\ op \in Op
      /\ file \in Files /\ op.pos \in Nat /\ heads \subseteq Offset /\ Cap \in Nat
  BY <1>1, InHand DEF Writing, Tells
<1>5. op.pos < Cap /\ op.pos \in Offset /\ file[e] = Blank
  <2>1. e < Cap
    BY <1>3, <1>4
  <2> QED BY <1>3, <1>4, <2>1 DEF Row, Offset
<1>6. /\ Put(op.pos, Hdr(1 + Size[op.val], {})) /\ heads' = heads \cup {e} /\ pc' = "headerFlag" /\ op' = op
  BY <1>3, <1>5 DEF WriteHeader, Goto
<1>7. file'[e] = Hdr(1 + Size[op.val], {}) /\ \A o \in Offset : o # e => file'[o] = file[o]
  BY <1>3, <1>4, <1>5, <1>6 DEF Put, Files
<1>8. ~Valid(file', e)
  BY <1>7, Cells DEF Valid
<1>9. \A o \in Offset : o < e => file'[o] = file[o]
  BY <1>3, <1>4, <1>7 DEF Offset
<1>10. \A h \in heads : Kept(file, file', h)
  BY <1>3, <1>4, <1>9, AllKept
<1>11. \A h \in heads : file'[h] = file[h]
  BY <1>3, <1>4, <1>9, RowHeads
<1>12. Records' = Records /\ Good(file, heads)' /\ Listed'
  BY <1>1, <1>3, <1>5, <1>6, <1>8, <1>10, <1>11, RecordsStay
<1>13. Unfinished' /\ SameArgs
  BY <1>6 DEF Unfinished, SameArgs, SameCall
<1> QED BY <1>1, <1>6, <1>12, <1>13, WritesOn

LEMMA WriteHeaderFlagTells ==
  ASSUME Tells, WriteHeaderFlag, Inv'
  PROVE  Tells' /\ Records' = Records
<1>1. /\ pc = "headerFlag" /\ SetFlag(op.pos, "header") /\ pc' = "payload" /\ op' = [op EXCEPT !.unit = 1]
      /\ UNCHANGED <<heads, held, heldHere, shown>>
  BY DEF WriteHeaderFlag, list, Goto
<1>2. PICK e, s : LogAt(e, s)
  BY DEF Tells, Inv, LogInv
<1>3. /\ Row(file, heads, e, s) /\ op.pos \in heads /\ e = op.pos + 1 /\ op.pos + Need <= Cap
      /\ file[op.pos] = Hdr(1 + Size[op.val], {})
  BY <1>1, <1>2 DEF LogAt
<1>4. /\ op.val \in Val /\ Size[op.val] \in Nat /\ Need = 2 + Size[op.val] /\ op \in Op
      /\ file \in Files /\ op.pos \in Nat /\ heads \subseteq Offset /\ Cap \in Nat
  BY <1>1, InHand DEF Writing, Tells
<1>5. file[op.pos].flags = {}
  BY <1>3, Cells
<1>6. /\ \A h \in heads \ {op.pos} : Kept(file, file', h)
      /\ \A h \in Offset : h # op.pos => file'[h] = file[h]
      /\ file'[op.pos].flags = {"header"}
  BY <1>1, <1>3, <1>5, FlagKeeps
<1>7. ~Valid(file, op.pos) /\ ~Valid(file', op.pos)
  BY <1>5, <1>6 DEF Valid
<1>8. \A h \in heads : Kept(file, file', h) /\ ("written" \in file[h].flags => "written" \in file'[h].flags)
  BY <1>4, <1>5, <1>6, <1>7 DEF Kept
<1>9. Records' = Records /\ Good(file, heads)' /\ Listed'
  BY <1>1, <1>8, RecordsStay
<1>10. SameArgs /\ op'.pos = op.pos /\ op'.unit = 1
  BY <1>1, <1>4 DEF Op, SameArgs, SameCall
<1>11. Unfinished'
  <2>1. ASSUME NEW i \in 1 .. 1 + Size[op.val] PROVE file'[op.pos + i] = Blank /\ i >= 1
    <3>1. op.pos + i \in e .. Cap - 1 /\ op.pos + i \in Offset /\ op.pos + i # op.pos /\ i >= 1
      BY <1>3, <1>4 DEF Offset
    <3> QED BY <1>3, <1>6, <3>1 DEF Row
  <2> QED BY <1>1, <1>10, <2>1 DEF Unfinished, SameArgs, SameCall
<1> QED BY <1>1, <1>9, <1>10, <1>11, WritesOn

LEMMA WritePayloadTells ==
  ASSUME Tells, WritePayload, Inv'
  PROVE  Tells' /\ Records' = Records
<1>1. pc = "payload" /\ UNCHANGED <<heads, held, heldHere, shown>>
  BY DEF WritePayload, list
<1>2. PICK e, s : LogAt(e, s)
  BY DEF Tells, Inv, LogInv
<1>3. /\ Row(file, heads, e, s) /\ op.pos \in heads /\ e = op.pos + Need
      /\ file[op.pos] = Hdr(1 + Size[op.val], {"header"})
  BY <1>1, <1>2 DEF LogAt
<1>4. /\ op.val \in Val /\ Size[op.val] \in Nat /\ Need = 2 + Size[op.val] /\ op \in Op
      /\ file \in Files /\ op.pos \in Nat /\ heads \subseteq Offset /\ Cap \in Nat
  BY <1>1, InHand DEF Writing, Tells
<1>5. op.unit \in 1 .. 1 + Size[op.val] /\ op.unit \in Nat /\ op.unit > 0
  BY <1>1, <1>4 DEF Tells, Inv, Args
<1>6. file[op.pos].len = 1 + Size[op.val] /\ file[op.pos].flags = {"header"}
  BY <1>3, Cells
<1>7. e \in Nat /\ e <= Cap /\ After(file, op.pos) = e
  <2>1. {"header", "written"} \cap file[op.pos].flags # {}
    BY <1>6
  <2>2. After(file, op.pos) = op.pos + 1 + file[op.pos].len /\ e \in Nat /\ e <= Cap
    BY <1>3, <1>4, <2>1, RowHeads
  <2> QED BY <1>3, <1>4, <1>6, <2>2
<1>8. op.pos + op.unit < e /\ op.pos + op.unit \in Offset /\ op.pos <= op.pos + op.unit /\ op.pos + op.unit < Cap
  BY <1>3, <1>4, <1>5, <1>7 DEF Offset
<1>9. /\ Put(op.pos + op.unit, Payload(op.key, op.val, op.unit))
      /\ IF op.unit <= Size[op.val] THEN pc' = "payload" /\ op' = [op EXCEPT !.unit = @ + 1]
                                    ELSE pc' = "writtenFlag" /\ op' = op
  BY <1>8 DEF WritePayload, Goto
<1>10. file[op.pos + op.unit] = Blank
  <2>1. op.unit >= op.unit
    BY <1>5
  <2> QED BY <1>1, <1>5, <2>1 DEF Tells, Unfinished
<1>11. /\ file'[op.pos + op.unit] = Payload(op.key, op.val, op.unit)
       /\ \A o \in Offset : o # op.pos + op.unit => file'[o] = file[o]
  BY <1>4, <1>8, <1>9, <1>10 DEF Put, Files
<1>12. \A h \in heads \ {op.pos} : Kept(file, file', h)
  BY <1>3, <1>4, <1>7, <1>8, <1>11, OthersKept
<1>13. \A h \in heads : file'[h] = file[h]
  <2> SUFFICES ASSUME NEW h \in heads PROVE h # op.pos + op.unit
    BY <1>4, <1>11
  <2>1. h > op.pos => h >= e
    BY <1>3, <1>7 DEF Row
  <2> QED BY <1>4, <1>5, <1>7, <1>8, <2>1
<1>14. ~Valid(file, op.pos) /\ ~Valid(file', op.pos)
  BY <1>3, <1>6, <1>13 DEF Valid
<1>15. \A h \in heads : Kept(file, file', h) /\ ("written" \in file[h].flags => "written" \in file'[h].flags)
  BY <1>12, <1>13, <1>14 DEF Kept
<1>16. Records' = Records /\ Good(file, heads)' /\ Listed'
  BY <1>1, <1>15, RecordsStay
<1>17. /\ SameArgs /\ op'.pos = op.pos /\ pc' \in {"payload", "writtenFlag"}
       /\ pc' = "payload" => op'.unit = op.unit + 1
       /\ pc' = "writtenFlag" => op.unit = 1 + Size[op.val]
  <2>1. CASE op.unit <= Size[op.val]
    <3>1. pc' = "payload" /\ op' = [op EXCEPT !.unit = @ + 1]
      BY <1>9, <2>1
    <3> QED BY <1>4, <3>1 DEF Op, SameArgs, SameCall
  <2>2. CASE ~(op.unit <= Size[op.val])
    <3>1. pc' = "writtenFlag" /\ op' = op /\ op.unit = 1 + Size[op.val]
      BY <1>4, <1>5, <1>9, <2>2
    <3> QED BY <3>1 DEF SameArgs, SameCall
  <2> QED BY <2>1, <2>2
<1>18. Unfinished'
  <2>1. ASSUME NEW i \in 1 .. 1 + Size[op.val]
        PROVE  file'[op.pos + i] = IF pc' = "payload" /\ i >= op.unit + 1 THEN Blank ELSE Payload(op.key, op.val, i)
    <3>1. op.pos + i \in Offset
      BY <1>3, <1>4, <1>7 DEF Offset
    <3>2. file[op.pos + i] = IF i >= op.unit THEN Blank ELSE Payload(op.key, op.val, i)
      BY <1>1 DEF Tells, Unfinished
    <3>3. CASE i = op.unit
      <4>1. ~(i >= op.unit + 1)
        BY <1>5, <3>3
      <4> QED BY <1>11, <3>3, <4>1
    <3>4. CASE i # op.unit
      <4>1. op.pos + i # op.pos + op.unit
        BY <1>4, <1>5, <3>4
      <4>2. file'[op.pos + i] = file[op.pos + i]
        BY <1>11, <3>1, <4>1
      <4>3. i >= op.unit <=> i >= op.unit + 1
        BY <1>5, <3>4
      <4>4. pc' = "payload" \/ ~(i >= op.unit)
        BY <1>4, <1>17, <3>4
      <4> QED BY <3>2, <4>2, <4>3, <4>4
    <3> QED BY <3>3, <3>4
  <2> QED BY <1>17, <2>1 DEF Unfinished, SameArgs, SameCall
<1> QED BY <1>1, <1>16, <1>17, <1>18, WritesOn

LEMMA WriteFlagTells ==
  ASSUME Tells, WriteFlag, Inv'
  PROVE  /\ Tells' /\ pc' = "idle"
         /\ \E k \in Key, v \in Val : None(Records, k) /\ Records' = Records \cup {<<k, v>>}
<1>1. /\ pc = "writtenFlag" /\ SetFlag(op.pos, "written") /\ InsertDone("Success")
      /\ UNCHANGED <<heads, held, heldHere, shown>>
  BY DEF WriteFlag, list
<1>2. PICK e, s : LogAt(e, s)
  BY DEF Tells, Inv, LogInv
<1>3. /\ Row(file, heads, e, s) /\ op.pos \in heads /\ e = op.pos + Need
      /\ file[op.pos] = Hdr(1 + Size[op.val], {"header"})
  BY <1>1, <1>2 DEF LogAt
<1>4. /\ op.val \in Val /\ op.key \in Key /\ Size[op.val] \in Nat /\ Need = 2 + Size[op.val] /\ op.inserting
      /\ op \in Op /\ file \in Files /\ op.pos \in Nat /\ heads \subseteq Offset /\ Cap \in Nat
  BY <1>1, InHand DEF Writing, Tells
<1>5. file[op.pos].len = 1 + Size[op.val] /\ file[op.pos].flags = {"header"}
  BY <1>3, Cells
<1>6. /\ \A h \in heads \ {op.pos} : Kept(file, file', h)
      /\ \A h \in Offset : h # op.pos => file'[h] = file[h]
      /\ IsHdr(file', op.pos) /\ file'[op.pos].len = 1 + Size[op.val] /\ file'[op.pos].flags = {"header", "written"}
  <2>1. {"header"} \cup {"written"} = {"header", "written"}
    OBVIOUS
  <2> QED BY <1>1, <1>3, <1>5, <2>1, FlagKeeps
<1>7. ~Valid(file, op.pos) /\ Valid(file', op.pos)
  BY <1>5, <1>6 DEF Valid
<1>8. op.pos + 1 + Size[op.val] < Cap
  <2>1. e \in Nat /\ e <= Cap
    BY <1>3, <1>4, RowHeads
  <2> QED BY <1>3, <1>4, <2>1
<1>9. \A i \in 1 .. 1 + Size[op.val] : file'[op.pos + i] = Payload(op.key, op.val, i)
  <2> SUFFICES ASSUME NEW i \in 1 .. 1 + Size[op.val] PROVE file'[op.pos + i] = Payload(op.key, op.val, i)
    OBVIOUS
  <2>1. op.pos + i \in Offset /\ op.pos + i # op.pos
    BY <1>4, <1>8 DEF Offset
  <2>2. file[op.pos + i] = Payload(op.key, op.val, i)
    BY <1>1 DEF Tells, Unfinished
  <2> QED BY <1>6, <2>1, <2>2
<1>10. Holds(file', op.pos, op.key, op.val)
  BY <1>6, <1>7, <1>8, <1>9 DEF Holds
<1>11. Records = UpTo(file, heads, Cap) /\ Good(file, heads) /\ None(Records, op.key) /\ Records \subseteq Key \X Val
  BY <1>1, RecordsOfFile DEF Tells, Fresh, Writing
<1>12. Good(file', heads) /\ UpTo(file', heads, Cap) = Records \cup {<<op.key, op.val>>}
  <2> DEFINE h == op.pos  k == op.key  v == op.val
  <2>1. /\ h \in heads /\ heads \subseteq Offset /\ ~Valid(file, h) /\ k \in Key /\ v \in Val
        /\ Holds(file', h, k, v) /\ \A o \in heads \ {h} : Kept(file, file', o)
    BY <1>3, <1>4, <1>6, <1>7, <1>10
  <2>2. None(UpTo(file, heads, Cap), k) /\ Good(file, heads)
    BY <1>11
  <2> HIDE DEF h, k, v
  <2>3. Good(file', heads) /\ UpTo(file', heads, Cap) = UpTo(file, heads, Cap) \cup {<<k, v>>}
    BY <2>1, <2>2, Added
  <2> QED BY <1>11, <2>3 DEF k, v
<1>13. Records' = Records \cup {<<op.key, op.val>>} /\ Good(file', heads')
  <2>1. Records' = UpTo(file', heads, Cap)
    BY <1>1, <1>4, AllRecords DEF Records
  <2> QED BY <1>1, <1>12, <2>1
<1>14. Listed'
  <2> SUFFICES ASSUME heldHere, NEW h \in held
      PROVE  /\ "written" \in file'[h].flags
             /\ \A r \in Key \X Val : Holds(file', h, r[1], r[2]) => r \in shown
    BY <1>1 DEF Listed, Holds, Valid, IsHdr
  <2>1. h \in heads /\ "written" \in file[h].flags /\ \A r \in Key \X Val : Holds(file, h, r[1], r[2]) => r \in shown
    BY DEF Tells, Inv, Pointers, Listed
  <2>2. h # op.pos
    BY <1>5, <2>1
  <2>3. file'[h] = file[h] /\ \A k \in Key, v \in Val : Holds(file', h, k, v) <=> Holds(file, h, k, v)
    BY <1>4, <1>6, <2>1, <2>2, KeptRecord
  <2>4. \A r \in Key \X Val : r[1] \in Key /\ r[2] \in Val
    OBVIOUS
  <2> QED BY <2>1, <2>3, <2>4
<1>15. pc' = "idle" /\ op'.result = "Success" /\ SameArgs
  <2>1. pc' = "idle" /\ op' = [op EXCEPT !.result = "Success"]
    BY <1>1 DEF InsertDone, Answer, Goto
  <2> QED BY <1>4, <2>1 DEF Op, SameArgs, SameCall, Result
<1>16. op.kind \in {"insert", "update"} /\ (op.kind = "insert" => Records = op.was)
  BY <1>1, <1>4 DEF Tells, Kinds, Was
<1>17. op.kind = "insert" => InsertAnswer'
  BY <1>11, <1>13, <1>15, <1>16 DEF InsertAnswer, None, SameArgs, SameCall
<1>18. AnswersAreTrue'
  BY <1>15, <1>16, <1>17 DEF AnswersAreTrue, SameArgs, SameCall
<1>19. Tells'
  BY <1>13, <1>14, <1>15, <1>18, EndsToTell
<1> QED BY <1>4, <1>11, <1>13, <1>15, <1>19
-----------------------------------------------------------------------------
(* Garbage collection.                                                       *)

LEMMA CollectsOn ==
  ASSUME Tells, Inv', pc \in {"gc"} \cup Collecting, pc' \in {"gc"} \cup Collecting, SameArgs,
         UNCHANGED <<file, heads, held, heldHere, shown>>, Copied'
  PROVE  Tells' /\ Records' = Records
<1>1. Records' = Records /\ Good(file, heads)' /\ Listed'
  BY SameFile, StillListed
<1>2. pc \in Writing /\ pc' \in Writing
  BY DEF Writing
<1>3. Kinds'
  <2>1. op.kind \in {"insert", "update", "delete", "select", "selectAll"}
    BY <1>2 DEF Tells, Kinds
  <2>2. pc \notin {"idle", "dismiss", "scan", "erase"} /\ pc' \notin {"idle", "dismiss", "scan", "erase"}
    BY DEF Collecting
  <2> QED BY <2>1, <2>2 DEF Tells, Kinds, SameArgs, SameCall
<1>4. Was'
  <2>1. pc \notin {"idle", "dismiss", "scan"} /\ pc' \notin {"idle", "dismiss", "scan"}
    BY DEF Collecting
  <2> QED BY <1>1, <2>1 DEF Tells, Was, SameArgs, SameCall
<1>5. Unfinished' /\ Hits' /\ AnswersAreTrue'
  BY DEF Unfinished, Hits, AnswersAreTrue, Collecting
<1>6. None(Records, op.key)
  BY <1>2 DEF Tells, Fresh
<1>7. Fresh'
  <2>1. pc' # "scan"
    BY DEF Collecting
  <2> QED BY <1>1, <1>6, <2>1 DEF Fresh, None, SameArgs, SameCall
<1> QED BY <1>1, <1>3, <1>4, <1>5, <1>7 DEF Tells

LEMMA GcCountTells ==
  ASSUME Tells, GcCount, Inv'
  PROVE  Tells' /\ Records' = Records
<1>1. /\ pc = "gc" /\ pc' = "gc" /\ UNCHANGED <<file, heads, held, heldHere, shown>>
      /\ op' = [op EXCEPT !.pos = After(file, op.pos),
                          !.used = @ + IF Valid(file, op.pos) THEN 1 + file[op.pos].len ELSE 0]
  BY DEF GcCount, Goto, flash, list
<1>2. SameArgs
  <2>1. op \in Op
    BY Typed DEF Tells, Inv
  <2> QED BY <1>1, <2>1 DEF Op, SameArgs, SameCall
<1>3. Copied'
  BY <1>1 DEF Copied, Collecting
<1> QED BY <1>1, <1>2, <1>3, CollectsOn

LEMMA GcRefuseTells ==
  ASSUME Tells, GcRefuse, Inv'
  PROVE  Tells' /\ Records' = Records
<1>1. pc = "gc" /\ InsertDone("DatabaseFull") /\ UNCHANGED <<file, heads, held, heldHere, shown>>
  BY DEF GcRefuse, flash, list
<1>2. op.inserting /\ None(Records, op.key)
  BY <1>1, InHand DEF Tells, Fresh, Writing
<1> QED BY <1>1, <1>2, RefusesToTell, SameFile

LEMMA GcCreateTells ==
  ASSUME Tells, GcCreate, Inv'
  PROVE  Tells' /\ Records' = Records
<1>1. pc = "gc" /\ UNCHANGED <<file, heads, held, heldHere, shown>>
  BY DEF GcCreate, flash, list
<1>2. op \in Op /\ op.inserting /\ None(Records, op.key) /\ heads \subseteq Offset
  BY <1>1, InHand DEF Tells, Fresh, Writing
<1>3. CASE InsertDone("DatabaseFull")
  BY <1>1, <1>2, <1>3, RefusesToTell, SameFile
<1>4. CASE temp' = BlankFile /\ tempHeads' = {} /\ pc' = "gcCopy" /\ op' = [op EXCEPT !.pos = 0, !.to = 0]
  <2>1. SameArgs /\ op'.pos = 0
    BY <1>2, <1>4, NoOpTyped DEF Op, SameArgs, SameCall
  <2>2. UpTo(temp', {}, Cap) = {} /\ UpTo(file, heads, 0) = {} /\ Good(temp', {})
    BY <1>2, AllRecords DEF UpTo, Good
  <2>3. Good(temp, tempHeads)'
    BY <1>4, <2>2 DEF Good
  <2>4. Copied'
    BY <1>1, <1>4, <2>1, <2>2, <2>3 DEF Copied
  <2> QED BY <1>1, <1>4, <2>1, <2>4, CollectsOn DEF Collecting
<1> QED BY <1>3, <1>4 DEF GcCreate, Goto

LEMMA GcSkipTells ==
  ASSUME Tells, GcSkip, Inv'
  PROVE  Tells' /\ Records' = Records
<1>1. /\ pc = "gcCopy" /\ ~AtEnd(file, op.pos) /\ ~Valid(file, op.pos) /\ pc' = "gcCopy"
      /\ op' = [op EXCEPT !.pos = After(file, op.pos)]
      /\ UNCHANGED <<file, heads, temp, tempHeads, held, heldHere, shown>>
  BY DEF GcSkip, Goto, flash, copy, list
<1>2. PICK e, s : LogAt(e, s)
  BY DEF Tells, Inv, LogInv
<1>3. Row(file, heads, e, s) /\ file \in Files /\ op.pos \in heads /\ After(file, op.pos) \in Pos /\ op \in Op
  BY <1>1, <1>2, NextPlace, Typed DEF LogAt, Tells, Inv
<1>4. SameArgs /\ op'.pos = After(file, op.pos)
  BY <1>1, <1>3 DEF Op, SameArgs, SameCall
<1>5. UpTo(file, heads, After(file, op.pos)) = UpTo(file, heads, op.pos)
  <2>1. \A r \in Key \X Val : ~Holds(file, op.pos, r[1], r[2])
    BY <1>1 DEF Holds
  <2>2. UpTo(file, heads, After(file, op.pos)) =
        UpTo(file, heads, op.pos) \cup {r \in Key \X Val : Holds(file, op.pos, r[1], r[2])}
    BY <1>3, Walked
  <2> QED BY <2>1, <2>2
<1>6. Copied'
  <2>1. UpTo(temp, tempHeads, Cap) = UpTo(file, heads, op.pos) /\ Good(temp, tempHeads)
    BY <1>1 DEF Tells, Copied, Collecting
  <2>2. Good(temp, tempHeads)'
    BY <1>1, <2>1 DEF Good, Holds, Valid, IsHdr
  <2>3. UpTo(temp', tempHeads', Cap) = UpTo(file', heads', op'.pos)
    BY <1>1, <1>4, <1>5, <2>1
  <2> QED BY <1>1, <2>2, <2>3 DEF Copied
<1> QED BY <1>1, <1>4, <1>6, CollectsOn DEF Collecting

LEMMA GcCopyTells ==
  ASSUME Tells, GcCopy, Inv'
  PROVE  Tells' /\ Records' = Records
<1> DEFINE n == 1 + file[op.pos].len
           to == op.to
           h == op.pos
<1>1. /\ pc = "gcCopy" /\ ~AtEnd(file, h) /\ Valid(file, h)
      /\ UNCHANGED <<file, heads, held, heldHere, shown>>
  BY DEF GcCopy, flash, list
<1>2. PICK e, s : LogAt(e, s)
  BY DEF Tells, Inv, LogInv
<1>3. /\ Row(file, heads, e, s) /\ file \in Files /\ h \in heads /\ After(file, h) \in Pos /\ op \in Op
      /\ op.inserting /\ None(Records, op.key) /\ to \in Nat /\ to \in Pos /\ Cap \in Nat
      /\ heads \subseteq Offset /\ tempHeads \subseteq Offset /\ temp \in Files
  BY <1>1, <1>2, NextPlace, Typed, InHand DEF LogAt, Tells, Inv, Fresh, Writing, Collecting
<1>4. n \in Nat /\ n > 1 /\ h \in Nat /\ h + n <= Cap /\ file[h].len \in Nat
  <2>1. file[h].len \in Nat /\ file[h].len > 0 /\ h \in Nat /\ h + 1 + file[h].len <= Cap
    BY <1>3, RowHeads
  <2> QED BY <2>1
<1>5. CASE InsertDone("DatabaseFull")
  BY <1>1, <1>3, <1>5, RefusesToTell, SameFile
<1>6. CASE /\ ~(to + n > Cap)
           /\ temp' = [o \in Offset |-> IF to <= o /\ o < to + n THEN file[h + (o - to)] ELSE temp[o]]
           /\ tempHeads' = tempHeads \cup {to}
           /\ Goto("gcCopy", [op EXCEPT !.pos = After(file, h), !.to = @ + n])
  <2>1. pc' = "gcCopy" /\ SameArgs /\ op'.pos = After(file, h)
    BY <1>3, <1>6 DEF Goto, Op, SameArgs, SameCall
  <2>2. PICK r : Row(temp, tempHeads, to, r)
    BY <1>1 DEF Tells, Inv, CopyInv, Collecting
  <2>3. UpTo(temp, tempHeads, Cap) = UpTo(file, heads, h) /\ Good(temp, tempHeads) /\ Good(file, heads)
    BY <1>1 DEF Tells, Copied, Collecting
  <2>0. n = 1 + file[h].len
    OBVIOUS
  <2> HIDE DEF n, to, h
  <2>4. to \in Offset /\ to + n <= Cap
    <3>1. ~(to + n > Cap)
      BY <1>6
    <3> QED BY <1>3, <1>4, <3>1 DEF Offset
  <2>5. ASSUME NEW i \in 0 .. file[h].len
        PROVE  to + i \in Offset /\ temp'[to + i] = file[h + i]
    <3>1. to + i \in Offset /\ to <= to + i /\ to + i < to + n /\ h + ((to + i) - to) = h + i
      BY <1>3, <1>4, <2>0, <2>4 DEF Offset
    <3> QED BY <1>6, <3>1
  <2>6. \A o \in Offset : o < to => temp'[o] = temp[o]
    <3>1. \A o \in Offset : o < to => ~(to <= o)
      BY <1>3 DEF Offset
    <3> QED BY <1>6, <3>1
  <2>7. \A j \in tempHeads : Kept(temp, temp', j)
    BY <1>3, <2>2, <2>6, AllKept
  <2>8. \A j \in tempHeads : j # to
    BY <1>3, <2>2, RowHeads
  <2>9. temp'[to] = file[h] /\ \A i \in 1 .. file[h].len : temp'[to + i] = file[h + i]
    <3>1. 0 \in 0 .. file[h].len /\ to + 0 = to /\ h + 0 = h
      BY <1>3, <1>4
    <3>2. temp'[to + 0] = file[h + 0]
      BY <2>5, <3>1
    <3>3. \A i \in 1 .. file[h].len : i \in 0 .. file[h].len
      BY <1>4
    <3> QED BY <2>5, <3>1, <3>2, <3>3
  <2>10. Valid(temp', to)
    BY <1>1, <2>9 DEF Valid, IsHdr
  <2>11. ASSUME NEW k \in Key, NEW v \in Val
         PROVE  Holds(temp', to, k, v) <=> Holds(file, h, k, v)
    <3>1. Size[v] \in Nat
      BY Sizes
    <3>2. CASE file[h].len = 1 + Size[v]
      <4>1. h + 1 + Size[v] < Cap /\ to + 1 + Size[v] < Cap
        BY <1>3, <1>4, <2>0, <2>4, <3>1, <3>2
      <4>2. \A i \in 1 .. 1 + Size[v] : temp'[to + i] = file[h + i]
        BY <2>9, <3>2
      <4> QED BY <1>1, <2>9, <2>10, <4>1, <4>2 DEF Holds
    <3>3. CASE file[h].len # 1 + Size[v]
      BY <2>9, <3>3 DEF Holds
    <3> QED BY <3>2, <3>3
  <2>12. Good(temp', tempHeads \cup {to}) /\ UpTo(temp', tempHeads \cup {to}, Cap) = UpTo(file, heads, After(file, h))
    <3>1. \A j \in tempHeads : Kept(temp, temp', j) /\ j # to
      BY <2>7, <2>8
    <3>2. Valid(file, h) /\ h \in heads /\ tempHeads \subseteq Offset /\ file \in Files /\ Row(file, heads, e, s)
      BY <1>1, <1>3
    <3> QED BY <2>3, <2>4, <2>10, <2>11, <3>1, <3>2, CopiedOne
  <2>13. Copied'
    <3>1. Good(temp, tempHeads)'
      BY <1>6, <2>12 DEF Good, Holds, Valid, IsHdr
    <3>2. UpTo(temp', tempHeads', Cap) = UpTo(file', heads', op'.pos)
      BY <1>1, <1>6, <2>1, <2>12
    <3> QED BY <2>1, <3>1, <3>2 DEF Copied
  <2> QED BY <1>1, <2>1, <2>13, CollectsOn DEF Collecting
<1> QED BY <1>4, <1>5, <1>6 DEF GcCopy

LEMMA GcCopiedTells ==
  ASSUME Tells, GcCopied \/ GcOld, Inv'
  PROVE  Tells' /\ Records' = Records
<1>1. /\ pc \in {"gcCopy", "gcOld"} /\ op' = op /\ pc' = (IF pc = "gcCopy" THEN "gcOld" ELSE "gcNew")
      /\ pc = "gcCopy" => AtEnd(file, op.pos)
      /\ UNCHANGED <<file, heads, temp, tempHeads, held, heldHere, shown>>
  BY DEF GcCopied, GcOld, Goto, flash, copy, list
<1>2. PICK e, s : LogAt(e, s)
  BY DEF Tells, Inv, LogInv
<1>3. Row(file, heads, e, s) /\ file \in Files /\ Records = UpTo(file, heads, Cap)
  BY <1>2, RecordsOfFile DEF LogAt
<1>4. UpTo(temp, tempHeads, Cap) = Records
  <2>1. CASE pc = "gcCopy"
    <3>1. op.pos \in heads \cup {e}
      BY <1>2, <2>1 DEF LogAt
    <3>2. op.pos = e
      BY <1>1, <1>3, <2>1, <3>1, Stops
    <3>3. UpTo(file, heads, e) = Records
      BY <1>3, WalkedAll
    <3> QED BY <2>1, <3>2, <3>3 DEF Tells, Copied
  <2>2. CASE pc = "gcOld"
    BY <2>2 DEF Tells, Copied
  <2> QED BY <1>1, <2>1, <2>2
<1>5. Records' = Records
  BY <1>1, SameFile
<1>6. Copied'
  <2>1. Good(temp, tempHeads)
    BY <1>1 DEF Tells, Copied, Collecting
  <2>2. Good(temp, tempHeads)'
    BY <1>1, <2>1 DEF Good, Holds, Valid, IsHdr
  <2>3. UpTo(temp', tempHeads', Cap) = Records' /\ pc' # "gcCopy"
    BY <1>1, <1>4, <1>5
  <2> QED BY <2>2, <2>3 DEF Copied
<1> QED BY <1>1, <1>6, CollectsOn DEF Collecting, SameArgs, SameCall

LEMMA GcNewTells ==
  ASSUME Tells, GcNew, Inv'
  PROVE  Tells' /\ Records' = Records
<1>1. /\ pc = "gcNew" /\ file' = temp /\ heads' = tempHeads /\ heldHere' = (held = {}) /\ held' = held
      /\ pc' = "header" /\ op' = [op EXCEPT !.pos = op.to] /\ shown' = shown
  BY DEF GcNew, Goto
<1>2. op \in Op /\ tempHeads \subseteq Offset
  BY Typed DEF Tells, Inv
<1>3. SameArgs
  BY <1>1, <1>2 DEF Op, SameArgs, SameCall
<1>4. UpTo(temp, tempHeads, Cap) = Records /\ Good(temp, tempHeads)
  BY <1>1 DEF Tells, Copied, Collecting
<1>5. Records' = Records
  BY <1>1, <1>2, <1>4, AllRecords DEF Records
<1>6. Good(file, heads)'
  BY <1>1, <1>4 DEF Good, Holds, Valid, IsHdr
<1>7. Listed'
  BY <1>1 DEF Listed
<1>8. Kinds' /\ Was'
  BY <1>1, <1>3, <1>5 DEF Tells, Kinds, Was, SameArgs, SameCall, Writing, Collecting
<1>9. Unfinished' /\ Hits' /\ Copied' /\ AnswersAreTrue'
  BY <1>1 DEF Unfinished, Hits, Copied, AnswersAreTrue, Collecting
<1>10. Fresh'
  <2>1. None(Records, op.key)
    BY <1>1 DEF Tells, Fresh, Writing, Collecting
  <2> QED BY <1>1, <1>3, <1>5, <2>1 DEF Fresh, None, SameArgs, SameCall
<1> QED BY <1>5, <1>6, <1>7, <1>8, <1>9, <1>10 DEF Tells

LEMMA CrashTells ==
  ASSUME Tells, Crash, Inv'
  PROVE  /\ Tells' /\ pc' = "idle"
         /\ IF pc = "gcNew" THEN Records' = {} ELSE Records' = Records
<1>1. held' = {} /\ pc' = "idle" /\ op' = NoOp
  BY DEF Crash, Goto
<1>2. Good(file', heads') /\ IF pc = "gcNew" THEN Records' = {} ELSE Records' = Records
  <2>1. CASE pc = "gcNew"
    <3>1. heads' = {}
      BY <2>1 DEF Crash
    <3> QED BY <2>1, <3>1 DEF Good, Records
  <2>2. CASE pc # "gcNew"
    <3>1. UNCHANGED <<file, heads>>
      BY <2>2 DEF Crash, flash
    <3> QED BY <2>2, <3>1, SameFile
  <2> QED BY <2>1, <2>2
<1>3. Listed' /\ AnswersAreTrue'
  BY <1>1 DEF Listed, AnswersAreTrue, NoOp
<1> QED BY <1>1, <1>2, <1>3, EndsToTell
-----------------------------------------------------------------------------
LEMMA TellsNext == Tells /\ [Next]_vars => Tells'
<1> SUFFICES ASSUME Tells, [Next]_vars PROVE Tells'
  OBVIOUS
<1>0. Inv'
  BY InvNext DEF Tells
<1>1. CASE Call
  BY <1>0, <1>1, CallTells
<1>2. CASE Run
  BY <1>0, <1>2, ScanTells, DuplicateTells, ScanEndTells, EraseTells, DismissTells, WriteHeaderTells,
     WriteHeaderFlagTells, WritePayloadTells, WriteFlagTells, GcCountTells, GcRefuseTells, GcCreateTells,
     GcSkipTells, GcCopyTells, GcCopiedTells, GcNewTells DEF Run
<1>3. CASE Crash
  BY <1>0, <1>3, CrashTells
<1>4. CASE UNCHANGED vars
  <2>1. UNCHANGED <<present, file, temp, pc, op, held, heldHere, heads, tempHeads, shown>>
    BY <1>4 DEF vars
  <2>2. Records' = Records /\ Good(file, heads)' /\ Listed'
    BY <2>1, SameFile, StillListed
  <2>3. Kinds' /\ Unfinished' /\ Hits' /\ Was'
    BY <2>1, <2>2 DEF Tells, Kinds, Unfinished, Hits, Was, Valid, IsHdr
  <2>4. Fresh'
    BY <2>1, <2>2 DEF Tells, Fresh, None, UpTo, Holds, Valid, IsHdr
  <2>5. Copied'
    BY <2>1, <2>2 DEF Tells, Copied, Good, UpTo, Holds, Valid, IsHdr
  <2>6. AnswersAreTrue'
    BY <2>1, <2>2 DEF Tells, AnswersAreTrue, InsertAnswer, DeleteAnswer, SelectAnswer, DismissAnswer
  <2> QED BY <1>0, <2>2, <2>3, <2>4, <2>5, <2>6 DEF Tells
<1> QED BY <1>1, <1>2, <1>3, <1>4 DEF Next

(* A call that is only made changes no record. *)
LEMMA CallRecords ==
  ASSUME Tells, Call
  PROVE  Records' = Records /\ pc = "idle" /\ pc' \in {"idle", "scan", "dismiss"}
<1>1. (heads = {} => Records = {}) /\ (heads # {} => present)
  BY RecordsOfFile DEF Tells, Inv, HasFile
<1>2. pc = "idle" /\ pc' \in {"idle", "scan", "dismiss"}
  BY DEF Call, Insert, Lookup, SelectAll, DismissAll, Goto
<1>3. UNCHANGED flash \/ (~present /\ CreateFile)
  BY DEF Call, Insert, Lookup, SelectAll, DismissAll
<1>4. CASE UNCHANGED flash
  BY <1>2, <1>4, SameFile DEF flash
<1>5. CASE ~present /\ CreateFile
  BY <1>1, <1>2, <1>5 DEF CreateFile, Records
<1> QED BY <1>3, <1>4, <1>5

(* Every step is one of the store, or none. *)
LEMMA StoreStep ==
  ASSUME Tells, [Next]_vars
  PROVE  [Store!Next]_<<Records, Phase>>
<1>0. Tells'
  BY TellsNext
<1>1. ASSUME Records' = Records, pc \notin {"idle", "gcNew"} PROVE [Store!Next]_<<Records, Phase>>
  BY <1>1 DEF Store!Next, Store!End, Store!StartMove, Phase
<1>2. CASE Call
  BY <1>2, CallRecords DEF Store!Next, Store!Start, Phase
<1>3. CASE ScanSkip \/ ScanDuplicate \/ ScanHit \/ ScanGather \/ ScanEnd
  <2>1. pc = "scan" /\ UNCHANGED <<file, heads>>
    BY <1>3 DEF ScanSkip, ScanDuplicate, ScanHit, ScanGather, ScanEnd, flash
  <2> QED BY <1>1, <2>1, SameFile
<1>4. CASE Erase
  <2>1. pc = "erase" /\ pc' \in {"idle", "scan"}
    BY <1>4 DEF Erase, Goto, Answer
  <2>2. \E r \in Records : Records' = Records \ {r}
    BY <1>0, <1>4, EraseTells DEF Tells
  <2> QED BY <2>1, <2>2 DEF Store!Next, Store!Erase, Phase
<1>5. CASE Dismiss
  <2>1. pc = "dismiss" /\ pc' \in {"idle", "dismiss"}
    BY <1>5 DEF Dismiss, Goto, Answer
  <2>2. Records' = Records \/ \E r \in Records : Records' = Records \ {r}
    BY <1>0, <1>5, DismissTells DEF Tells
  <2>3. CASE \E r \in Records : Records' = Records \ {r}
    BY <2>1, <2>3 DEF Store!Next, Store!Erase, Phase
  <2> QED BY <1>1, <2>1, <2>2, <2>3
<1>6. CASE WriteFlag
  <2>1. pc = "writtenFlag"
    BY <1>6 DEF WriteFlag
  <2>2. pc' = "idle" /\ \E k \in Key, v \in Val : None(Records, k) /\ Records' = Records \cup {<<k, v>>}
    BY <1>0, <1>6, WriteFlagTells DEF Tells
  <2> QED BY <2>1, <2>2 DEF Store!Next, Store!Insert, Phase, None
<1>7. CASE WriteHeader \/ WriteHeaderFlag \/ WritePayload
  <2>1. pc \in {"header", "headerFlag", "payload"}
    BY <1>7 DEF WriteHeader, WriteHeaderFlag, WritePayload
  <2>2. Records' = Records
    BY <1>0, <1>7, WriteHeaderTells, WriteHeaderFlagTells, WritePayloadTells DEF Tells
  <2> QED BY <1>1, <2>1, <2>2
<1>8. CASE GcCount \/ GcRefuse \/ GcCreate \/ GcSkip \/ GcCopy \/ GcCopied \/ GcOld
  <2>1. pc \in {"gc", "gcCopy", "gcOld"} /\ UNCHANGED <<file, heads>>
    BY <1>8 DEF GcCount, GcRefuse, GcCreate, GcSkip, GcCopy, GcCopied, GcOld, flash
  <2> QED BY <1>1, <2>1, SameFile
<1>9. CASE GcNew
  <2>1. pc = "gcNew" /\ pc' = "header"
    BY <1>9 DEF GcNew, Goto
  <2>2. Records' = Records
    BY <1>0, <1>9, GcNewTells DEF Tells
  <2> QED BY <2>1, <2>2 DEF Store!Next, Store!EndMove, Phase
<1>10. CASE Crash
  <2>1. pc' = "idle" /\ IF pc = "gcNew" THEN Records' = {} ELSE Records' = Records
    BY <1>0, <1>10, CrashTells DEF Tells
  <2>2. CASE pc = "gcNew"
    BY <2>1, <2>2 DEF Store!Next, Store!LoseAll, Phase
  <2>3. CASE pc = "idle"
    BY <2>1, <2>3 DEF Phase
  <2> QED BY <1>1, <2>1, <2>2, <2>3
<1>11. CASE UNCHANGED vars
  BY <1>11, SameFile DEF vars, Phase
<1> QED BY <1>2, <1>3, <1>4, <1>5, <1>6, <1>7, <1>8, <1>9, <1>10, <1>11 DEF Next, Run

(* What a call answers is what became of the records, for every size of file, *)
(* every set of keys and every size of data: a refused insert left all as it  *)
(* was, an accepted one added its record and nothing else, a selection read   *)
(* the value that was stored, a deletion took the record it was asked to, and *)
(* Clear All took nothing that its list had not shown.                        *)
THEOREM AnswersAlwaysTrue == Spec => []AnswersAreTrue
<1>1. Tells => AnswersAreTrue
  BY DEF Tells
<1> QED BY <1>1, TellsInit, TellsNext, PTL DEF Spec

(* The log on the flash, written cell by cell, walked, erased in place and     *)
(* moved to a new file, with a power loss after any of its writes, implements  *)
(* the set of records with distinct keys that RecordStore promises.            *)
THEOREM StoreIsKept == Spec => ImplementsStore
<1>1. Init => Store!Init
  BY DEF Init, Store!Init, Records, Phase
<1>2. Tells /\ [Next]_vars => [Store!Next]_<<Records, Phase>>
  BY StoreStep
<1> QED BY <1>1, <1>2, TellsInit, TellsNext, PTL DEF Spec, ImplementsStore, Store!Spec
=============================================================================
