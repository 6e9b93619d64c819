------------------------- MODULE ProtocolLinkProofs -------------------------
(***************************************************************************)
(* What holds of ProtocolLink for every size of buffer and queues, every   *)
(* length of the conversation and all surroundings: the types; that the    *)
(* mutex is with the rx task exactly while a transfer is under way; that   *)
(* the stream is read in order and whole; that an application is only      *)
(* announced when its file is marked as written; and that nothing fails    *)
(* while no party is late or slow.                                         *)
(***************************************************************************)
EXTENDS ProtocolLink, TLAPS

(* What the provers need to be told of sequences: a piece is taken off, the  *)
(* first element, one element is added, a message of two pieces is.          *)
LEMMA Splitting ==
  ASSUME NEW S, NEW q \in Seq(S), NEW n \in 0 .. Len(q)
  PROVE  /\ SubSeq(q, 1, n) \in Seq(S) /\ Len(SubSeq(q, 1, n)) = n
         /\ \A i \in 1 .. n : SubSeq(q, 1, n)[i] = q[i]
         /\ SubSeq(q, n + 1, Len(q)) \in Seq(S) /\ Len(SubSeq(q, n + 1, Len(q))) = Len(q) - n
         /\ \A i \in 1 .. Len(q) - n : SubSeq(q, n + 1, Len(q))[i] = q[n + i]
  OBVIOUS

LEMMA Taking ==
  ASSUME NEW S, NEW q \in Seq(S), q # <<>>
  PROVE  /\ Len(q) > 0 /\ Head(q) = q[1] /\ Head(q) \in S
         /\ Tail(q) \in Seq(S) /\ Len(Tail(q)) = Len(q) - 1
         /\ \A i \in 1 .. Len(q) - 1 : Tail(q)[i] = q[i + 1]
  OBVIOUS

LEMMA Adding ==
  ASSUME NEW S, NEW q \in Seq(S), NEW e \in S
  PROVE  /\ Append(q, e) \in Seq(S) /\ Len(Append(q, e)) = Len(q) + 1
         /\ \A i \in 1 .. Len(q) : Append(q, e)[i] = q[i]
         /\ Append(q, e)[Len(q) + 1] = e
  OBVIOUS

LEMMA Joining ==
  ASSUME NEW S, NEW q \in Seq(S), NEW d \in S, NEW e \in S
  PROVE  /\ q \o <<d, e>> \in Seq(S) /\ Len(q \o <<d, e>>) = Len(q) + 2
         /\ \A i \in 1 .. Len(q) : (q \o <<d, e>>)[i] = q[i]
         /\ (q \o <<d, e>>)[Len(q) + 1] = d /\ (q \o <<d, e>>)[Len(q) + 2] = e
  OBVIOUS
-----------------------------------------------------------------------------
(* The type invariant in parts, with what the bluetooth task knows of the     *)
(* room left: it was tested before the lock, and only less is used since.     *)
PhoneType ==
  /\ out \in Seq(Piece) /\ Len(out) <= 3
  /\ step \in Put \cup {"idle"}
  /\ acks \in Seq({"ack", "nack"}) /\ sent \in 0 .. MaxMessages[env]

BufferType ==
  /\ cells \in [1 .. Cap -> Piece] /\ used \in 0 .. Cap
  /\ aged \in BOOLEAN /\ rxLock \in BOOLEAN /\ rxq \in 0 .. RxQueue
  /\ bpc \in {"idle", "append", "kick"} /\ chunk \in Seq(Piece) /\ Len(chunk) <= 2
  /\ bpc = "append" => used + Len(chunk) <= Cap
  /\ bpc # "append" => chunk = <<>>

ReaderType ==
  /\ rpc \in {"wait", "read", "test", "lock", "handle", "consume"}
  /\ seen \in Header /\ hdr \in Header /\ done \in 0 .. MaxMessages[env]

TransType ==
  /\ txnLock \in {"none", "rx", "tx"}
  /\ txn \in [on : BOOLEAN, got : {0, 1}, good : BOOLEAN]
  /\ timer \in {"off", "on", "over"}
  /\ file \in BOOLEAN /\ told \in BOOLEAN

SenderType ==
  /\ txq \in Seq({"packet", "junk"}) /\ Len(txq) <= TxQueue
  /\ tpc \in {"wait", "lock", "send"} /\ item \in {"packet", "junk"}
  /\ packets \in 0 .. MaxPackets /\ up \in BOOLEAN
  /\ harm \in BOOLEAN /\ env \in Envs

TypeInv == PhoneType /\ BufferType /\ ReaderType /\ TransType /\ SenderType

LEMMA TypeParts == TypeInv => TypeOK
  BY DEF TypeInv, PhoneType, BufferType, ReaderType, TransType, SenderType, TypeOK

(* The constants, and the sets that depend on the surroundings.              *)
LEMMA Sizes ==
  /\ Cap \in Nat /\ Cap > 1 /\ RxQueue \in Nat /\ RxQueue > 0 /\ TxQueue \in Nat /\ TxQueue > 0
  /\ MaxPackets \in Nat
  BY SizeAssumption DEF SizeAssumption

LEMMA MostIsNat ==
  env \in Envs =>
    MaxMessages[env] \in Nat /\ Length \subseteq Nat /\ {0, 1} \subseteq Length /\ JunkLen[env] \subseteq Length
  BY SizeAssumption DEF SizeAssumption, Length

LEMMA EnvStays == [Next]_vars => env' = env
<1>1. Phone => env' = env
  BY DEF Phone, StartPut, SendOther, TakeAnswer, GiveUp, Lose, OnlyPhone
<1>2. Bt => env' = env
  BY DEF Bt, BtData, BtAppend, BtTimeout, BtKick
<1>3. Rx => env' = env
  BY DEF Rx, RxReceive, RxRead, RxTest, RxLock, HandleOther, RxConsume, PutTimeout, PutInit,
         PutTransfer, PutCommit, PutInstall, PutAbort, PutBad, Handling, Handled
<1>4. QueuePacket \/ Tx \/ Ages \/ TimerOver => env' = env
  BY DEF QueuePacket, Tx, TxReceive, TxRequeue, TxLock, TxSend, OnlySender, Ages, TimerOver
<1> QED BY <1>1, <1>2, <1>3, <1>4 DEF Next, vars

LEMMA TypesStay ==
  ASSUME env' = env
  PROVE  Piece' = Piece /\ Header' = Header /\ MaxMessages[env]' = MaxMessages[env]
  BY DEF Piece, Header, Length

LEMMA Pieces ==
  ASSUME env \in Envs
  PROVE  /\ Zero \in Piece /\ NoHeader \in Header
         /\ \A n \in 0 .. MaxMessages[env], c \in Command :
               /\ [n |-> n, part |-> "head", cmd |-> c] \in Piece
               /\ [n |-> n, part |-> "body", cmd |-> c] \in Piece
         /\ \A p \in Piece : HeaderAt(p) \subseteq Header
  BY Sizes, MostIsNat DEF Piece, Zero, Header, NoHeader, Command, HeaderAt, Length

LEMMA TypeInit == Init => TypeInv
<1> SUFFICES ASSUME Init PROVE TypeInv
  OBVIOUS
<1>0. env \in Envs /\ Zero \in Piece /\ NoHeader \in Header /\ MaxMessages[env] \in Nat
  BY MostIsNat, Pieces DEF Init
<1>1. PhoneType
  BY <1>0 DEF Init, PhoneType
<1>2. BufferType
  <2>1. cells \in [1 .. Cap -> Piece] /\ chunk \in Seq(Piece) /\ Len(chunk) = 0
    BY <1>0 DEF Init
  <2>2. used \in 0 .. Cap /\ rxq \in 0 .. RxQueue
    BY Sizes DEF Init
  <2>3. chunk = <<>> /\ bpc = "idle" /\ aged = FALSE /\ rxLock = FALSE
    BY DEF Init
  <2>4. chunk \in Seq(Piece) /\ Len(chunk) <= 2
    BY <2>3
  <2>5. (bpc = "append" => used + Len(chunk) <= Cap) /\ (bpc # "append" => chunk = <<>>)
    BY <2>3
  <2>6. aged \in BOOLEAN /\ rxLock \in BOOLEAN /\ bpc \in {"idle", "append", "kick"}
    BY <2>3
  <2> QED BY <2>1, <2>2, <2>4, <2>5, <2>6 DEF BufferType
<1>3. ReaderType
  BY <1>0 DEF Init, ReaderType
<1>4. TransType
  BY DEF Init, TransType, NoTxn
<1>5. SenderType
  <2>1. packets \in 0 .. MaxPackets
    BY Sizes DEF Init
  <2>2. txq \in Seq({"packet", "junk"}) /\ Len(txq) <= TxQueue
    BY Sizes DEF Init
  <2> QED BY <1>0, <2>1, <2>2 DEF Init, SenderType
<1> QED BY <1>1, <1>2, <1>3, <1>4, <1>5 DEF TypeInv

(* What a step leaves alone keeps its type. *)
LEMMA PhoneFrame ==
  ASSUME PhoneType, env' = env, UNCHANGED phone
  PROVE  PhoneType'
  BY TypesStay DEF PhoneType, phone
LEMMA BufferFrame ==
  ASSUME BufferType, env' = env, UNCHANGED <<buffer, rxLock, rxq, btTask>>
  PROVE  BufferType'
  BY TypesStay DEF BufferType, buffer, btTask
LEMMA ReaderFrame ==
  ASSUME ReaderType, env' = env, UNCHANGED <<reader, done>>
  PROVE  ReaderType'
  BY TypesStay DEF ReaderType, reader
LEMMA TransFrame ==
  ASSUME TransType, UNCHANGED <<txnLock, trans>>
  PROVE  TransType'
  BY DEF TransType, trans
LEMMA SenderFrame ==
  ASSUME SenderType, env' = env, UNCHANGED sender, up' \in BOOLEAN, harm' \in BOOLEAN
  PROVE  SenderType'
  BY DEF SenderType, sender

LEMMA Sending ==
  ASSUME TypeInv, NEW c \in Command, Send(c)
  PROVE  /\ out' \in Seq(Piece) /\ Len(out') = Len(out) + 2 /\ Len(out) <= 1
         /\ sent' = sent + 1 /\ sent' \in 0 .. MaxMessages[env]
         /\ \A i \in 1 .. Len(out) : out'[i] = out[i]
         /\ out'[Len(out) + 1] = [n |-> sent + 1, part |-> "head", cmd |-> c]
         /\ out'[Len(out) + 2] = [n |-> sent + 1, part |-> "body", cmd |-> c]
<1>1. out \in Seq(Piece) /\ sent + 1 \in 0 .. MaxMessages[env] /\ env \in Envs
  BY MostIsNat DEF TypeInv, PhoneType, SenderType, Send, MaySend
<1>2. /\ [n |-> sent + 1, part |-> "head", cmd |-> c] \in Piece
      /\ [n |-> sent + 1, part |-> "body", cmd |-> c] \in Piece
  BY <1>1, Pieces
<1> QED BY <1>1, <1>2, Joining DEF Send, MaySend, Message

LEMMA PhoneKeepsType ==
  ASSUME TypeInv, Phone
  PROVE  TypeInv'
<1>1. env' = env /\ UNCHANGED <<buffer, rxLock, rxq, btTask, reader, done, txnLock, trans, sender, up>>
  BY DEF Phone, StartPut, SendOther, TakeAnswer, GiveUp, Lose, OnlyPhone
<1>0. Piece' = Piece /\ MaxMessages[env]' = MaxMessages[env]
  BY <1>1, TypesStay
<1>2. harm' \in BOOLEAN
  BY DEF Phone, StartPut, SendOther, TakeAnswer, GiveUp, Lose, TypeInv, SenderType
<1>3. PhoneType'
  <2> USE <1>1, <1>0 DEF TypeInv, PhoneType
  <2>1. CASE StartPut
    BY <2>1, Sending DEF StartPut, Put, Command
  <2>2. CASE SendOther
    <3>1. Send("other") /\ "other" \in Command /\ UNCHANGED <<step, acks>>
      BY <2>2 DEF SendOther, Command
    <3>2. out' \in Seq(Piece) /\ Len(out') = Len(out) + 2 /\ Len(out) <= 1
          /\ sent' \in 0 .. MaxMessages[env]
      BY <3>1, Sending
    <3>3. step' = step /\ acks' = acks
      BY <3>1
    <3> QED BY <3>2, <3>3
  <2>3. CASE TakeAnswer
    <3>1. acks' \in Seq({"ack", "nack"})
      BY <2>3, Taking DEF TakeAnswer
    <3>2. CASE Send(After(step)) /\ step' = After(step) /\ step \in {"init", "transfer", "commit"}
      BY <3>1, <3>2, Sending DEF After, Put, Command
    <3>3. CASE step' = "idle" /\ UNCHANGED <<out, sent>>
      BY <3>1, <3>3
    <3> QED BY <2>3, <3>2, <3>3 DEF TakeAnswer
  <2>4. CASE GiveUp
    <3>1. CASE Send("abort") /\ step' = "abort"
      BY <2>4, <3>1, Sending DEF GiveUp, Put, Command
    <3>2. CASE step' = "idle" /\ UNCHANGED <<out, sent>>
      BY <2>4, <3>2 DEF GiveUp
    <3> QED BY <2>4, <3>1, <3>2 DEF GiveUp
  <2>5. CASE Lose
    BY <2>5, Taking DEF Lose
  <2> QED BY <2>1, <2>2, <2>3, <2>4, <2>5 DEF Phone
<1> QED BY <1>1, <1>2, <1>3, BufferFrame, ReaderFrame, TransFrame, SenderFrame DEF TypeInv, SenderType

LEMMA GivesType ==
  ASSUME NEW who, GiveTxn(who)
  PROVE  up' \in BOOLEAN /\ txnLock' = "none"
  BY DEF GiveTxn

LEMMA BtKeepsType ==
  ASSUME TypeInv, Bt
  PROVE  TypeInv'
<1>1. /\ env' = env /\ UNCHANGED <<step, acks, sent, rxLock, reader, done, trans, sender>>
      /\ harm' \in BOOLEAN /\ up' \in BOOLEAN /\ txnLock' \in {"none", "rx", "tx"}
  <2> USE DEF TypeInv, SenderType, TransType
  <2>1. CASE BtData
    <3>1. env' = env /\ UNCHANGED <<step, acks, sent, rxLock, reader, done, trans, sender>>
      BY <2>1 DEF BtData
    <3>2. harm' \in BOOLEAN
      BY <2>1 DEF BtData
    <3>3. GiveTxn("bt") \/ UNCHANGED <<txnLock, up>>
      BY <2>1 DEF BtData
    <3>4. up' \in BOOLEAN /\ txnLock' \in {"none", "rx", "tx"}
      BY <3>3, GivesType
    <3> QED BY <3>1, <3>2, <3>4
  <2>2. CASE BtAppend \/ BtTimeout \/ BtKick
    BY <2>2 DEF BtAppend, BtTimeout, BtKick, phone
  <2> QED BY <2>1, <2>2 DEF Bt
<1>0. Piece' = Piece /\ MaxMessages[env]' = MaxMessages[env]
  BY <1>1, TypesStay
<1>2. PhoneType' /\ BufferType'
  <2> USE <1>1, <1>0 DEF TypeInv, PhoneType, BufferType
  <2>1. CASE BtData
    <3>1. PICK len \in 1 .. 2 :
            /\ len <= Len(out) /\ out' = SubSeq(out, len + 1, Len(out))
            /\ \/ UNCHANGED <<chunk, bpc, buffer>>
               \/ /\ used + len <= Cap /\ chunk' = SubSeq(out, 1, len) /\ bpc' = "append"
                  /\ aged' = FALSE /\ UNCHANGED cells /\ used' \in {0, used}
      BY <2>1 DEF BtData
    <3>2. len \in 0 .. Len(out) /\ UNCHANGED rxq
      BY <2>1, <3>1 DEF BtData
    <3>3. /\ out' \in Seq(Piece) /\ Len(out') = Len(out) - len
          /\ SubSeq(out, 1, len) \in Seq(Piece) /\ Len(SubSeq(out, 1, len)) = len
      BY <3>1, <3>2, Splitting
    <3>4. PhoneType'
      BY <3>3
    <3>5. CASE UNCHANGED <<chunk, bpc, buffer>>
      BY <3>2, <3>4, <3>5 DEF buffer
    <3>6. CASE /\ used + len <= Cap /\ chunk' = SubSeq(out, 1, len) /\ bpc' = "append"
               /\ aged' = FALSE /\ UNCHANGED cells /\ used' \in {0, used}
      <4>1. chunk' \in Seq(Piece) /\ Len(chunk') = len
        BY <3>3, <3>6
      <4>2. used' \in 0 .. Cap /\ used' + Len(chunk') <= Cap /\ Len(chunk') <= 2
        <5>1. len <= 2 /\ used + len <= Cap /\ used' \in {0, used} /\ used \in 0 .. Cap /\ len \in Nat
          BY <3>1, <3>6
        <5>2. Len(chunk') = len /\ Cap \in Nat
          BY <4>1, Sizes
        <5>3. CASE used' = 0
          BY <5>1, <5>2, <5>3
        <5>4. CASE used' = used
          BY <5>1, <5>2, <5>4
        <5> QED BY <5>1, <5>3, <5>4
      <4>3. /\ UNCHANGED <<cells, rxq, rxLock>> /\ aged' \in BOOLEAN
            /\ bpc' \in {"idle", "append", "kick"} /\ bpc' = "append"
        BY <3>2, <3>6
      <4>4. BufferType'
        BY <4>1, <4>2, <4>3
      <4> QED BY <3>4, <4>4
    <3> QED BY <3>1, <3>5, <3>6
  <2>2. CASE BtAppend
    <3>1. \A i \in 1 .. Cap : i \in used + 1 .. used + Len(chunk) => chunk[i - used] \in Piece
      OBVIOUS
    <3>2. cells' \in [1 .. Cap -> Piece]
      BY <2>2, <3>1 DEF BtAppend
    <3>3. used + Len(chunk) \in 0 .. Cap /\ UNCHANGED <<out, aged, rxq>> /\ chunk' = <<>>
          /\ bpc' = "kick" /\ used' = used + Len(chunk)
      BY <2>2, Sizes DEF BtAppend, phone
    <3>4. chunk' \in Seq(Piece) /\ Len(chunk') <= 2
      BY <3>3
    <3>5. PhoneType'
      BY <3>3
    <3>6. (bpc' = "append" => used' + Len(chunk') <= Cap) /\ (bpc' # "append" => chunk' = <<>>)
      BY <3>3
    <3>7. aged' \in BOOLEAN /\ rxLock' \in BOOLEAN /\ bpc' \in {"idle", "append", "kick"} /\ used' \in 0 .. Cap
          /\ rxq' \in 0 .. RxQueue
      BY <3>3
    <3>8. BufferType'
      BY <3>2, <3>4, <3>6, <3>7
    <3> QED BY <3>5, <3>8
  <2>3. CASE BtTimeout
    BY <2>3 DEF BtTimeout, phone, buffer, btTask
  <2>4. CASE BtKick
    BY <2>4, Sizes DEF BtKick, phone, buffer
  <2> QED BY <2>1, <2>2, <2>3, <2>4 DEF Bt
<1>3. TransType'
  BY <1>1 DEF TypeInv, TransType, trans
<1> QED BY <1>1, <1>2, <1>3, ReaderFrame, SenderFrame DEF TypeInv

(* The sender leaves the other parts alone, apart from the mutex. *)
LEMMA SenderKeepsType ==
  ASSUME TypeInv, QueuePacket \/ Tx
  PROVE  TypeInv'
<1>1. env' = env /\ UNCHANGED <<phone, buffer, rxLock, rxq, btTask, reader, trans, done, harm>>
  BY DEF QueuePacket, Tx, TxReceive, TxRequeue, TxLock, TxSend, OnlySender
<1>2. SenderType' /\ txnLock' \in {"none", "rx", "tx"}
  <2> USE <1>1, Sizes DEF TypeInv, SenderType, TransType
  <2>1. CASE QueuePacket
    <3>1. txq' \in Seq({"packet", "junk"}) /\ Len(txq') <= TxQueue /\ UNCHANGED <<tpc, item, txnLock, up>>
      BY <2>1, Adding DEF QueuePacket
    <3>2. packets' \in 0 .. MaxPackets
      BY <2>1 DEF QueuePacket
    <3> QED BY <3>1, <3>2
  <2>2. CASE TxReceive
    <3>1. txq' \in Seq({"packet", "junk"}) /\ Len(txq') <= TxQueue /\ item' \in {"packet", "junk"}
      BY <2>2, Taking DEF TxReceive
    <3> QED BY <2>2, <3>1 DEF TxReceive
  <2>3. CASE TxRequeue
    <3>1. /\ <<"junk">> \o txq \in Seq({"packet", "junk"})
          /\ Len(<<"junk">> \o txq) = Len(txq) + 1
      OBVIOUS
    <3>2. txq' \in Seq({"packet", "junk"}) /\ Len(txq') <= TxQueue
      <4> DEFINE again == <<"junk">> \o txq
      <4>1. again \in Seq({"packet", "junk"}) /\ Len(again) = Len(txq) + 1
        BY <3>1
      <4>2. (txq' = again /\ Len(txq) < TxQueue) \/ txq' = txq
        BY <2>3 DEF TxRequeue
      <4> HIDE DEF again
      <4> QED BY <4>1, <4>2
    <3> QED BY <2>3, <3>2 DEF TxRequeue
  <2>4. CASE TxLock
    BY <2>4 DEF TxLock
  <2>5. CASE TxSend
    <3>1. up' \in BOOLEAN /\ txnLock' \in {"none", "rx", "tx"}
      <4>1. CASE up' = FALSE /\ UNCHANGED txnLock
        BY <4>1
      <4>2. CASE GiveTxn("tx")
        BY <4>2, GivesType
      <4> QED BY <2>5, <4>1, <4>2 DEF TxSend
    <3> QED BY <2>5, <3>1 DEF TxSend
  <2> QED BY <2>1, <2>2, <2>3, <2>4, <2>5 DEF QueuePacket, Tx
<1>3. TransType'
  BY <1>1, <1>2 DEF TypeInv, TransType, trans
<1> QED BY <1>1, <1>2, <1>3, PhoneFrame, BufferFrame, ReaderFrame DEF TypeInv

LEMMA TimeKeepsType ==
  ASSUME TypeInv, Ages \/ TimerOver
  PROVE  TypeInv'
<1>1. /\ env' = env /\ UNCHANGED <<phone, rxLock, rxq, btTask, cells, used, reader, done, txnLock, sender, up, harm>>
      /\ UNCHANGED <<txn, file, told>> /\ aged' \in BOOLEAN /\ timer' \in {"off", "on", "over"}
  BY DEF Ages, TimerOver, trans, buffer, TypeInv, BufferType, TransType
<1>2. BufferType'
  BY <1>1, TypesStay DEF TypeInv, BufferType, btTask
<1>3. TransType'
  BY <1>1 DEF TypeInv, TransType
<1> QED BY <1>1, <1>2, <1>3, PhoneFrame, ReaderFrame, SenderFrame DEF TypeInv, SenderType

(* The rx task: the packet, what its handler does, and the rest. *)
LEMMA ReadKeepsType ==
  ASSUME TypeInv, RxReceive \/ RxRead \/ RxTest \/ RxLock \/ RxConsume
  PROVE  TypeInv'
<1>1. env' = env /\ UNCHANGED <<phone, btTask, txnLock, trans, sender, up, done, harm>>
  BY DEF RxReceive, RxRead, RxTest, RxLock, RxConsume, Rest
<1>0. Piece' = Piece /\ Header' = Header /\ MaxMessages[env]' = MaxMessages[env]
  BY <1>1, TypesStay
<1>2. BufferType' /\ ReaderType'
  <2> USE <1>0, <1>1, Sizes DEF TypeInv, BufferType, ReaderType
  <2>1. CASE RxReceive
    BY <2>1 DEF RxReceive, buffer, btTask
  <2>2. CASE RxRead
    <3>1. cells[1] \in Piece /\ env \in Envs
      BY DEF SenderType
    <3>2. seen' \in Header
      BY <2>2, <3>1, Pieces DEF RxRead
    <3> QED BY <2>2, <3>2 DEF RxRead, Rest, buffer, btTask
  <2>3. CASE RxTest
    <3>1. NoHeader \in Header /\ \A l \in Length : [NoHeader EXCEPT !.len = l] \in Header
      <4>1. 0 \in 0 .. MaxMessages[env] /\ 0 \in Length
        BY MostIsNat DEF SenderType
      <4> QED BY <4>1 DEF NoHeader, Header
    <3>2. hdr' \in Header /\ seen' \in Header /\ rpc' \in {"wait", "lock"} /\ used' \in {0, used}
      BY <2>3, <3>1 DEF RxTest
    <3> QED BY <2>3, <3>2 DEF RxTest, Rest, btTask
  <2>4. CASE RxLock
    BY <2>4 DEF RxLock, buffer, btTask
  <2>5. CASE RxConsume
    <3>1. hdr.len \in Nat
      BY MostIsNat DEF SenderType, Header
    <3> DEFINE mv == IF used - (1 + hdr.len) < 0 THEN used ELSE 1 + hdr.len
    <3>2. /\ cells' = [i \in 1 .. Cap |-> IF i <= used - mv THEN cells[i + mv] ELSE cells[i]]
          /\ used' = used - mv
      BY <2>5 DEF RxConsume
    <3>5. mv \in 0 .. used
      BY <3>1
    <3> HIDE DEF mv
    <3>3. cells' \in [1 .. Cap -> Piece] /\ used' \in 0 .. Cap /\ used' <= used
      BY <3>2, <3>5
    <3>4. aged' \in BOOLEAN /\ rpc' = "read" /\ UNCHANGED <<rxLock, rxq, seen, hdr, bpc, chunk>>
      BY <2>5 DEF RxConsume, Rest, btTask
    <3> QED BY <3>3, <3>4
  <2> QED BY <2>1, <2>2, <2>3, <2>4, <2>5
<1> QED BY <1>1, <1>2, PhoneFrame, TransFrame, SenderFrame DEF TypeInv, SenderType

LEMMA TerminateType ==
  ASSUME TypeInv, Terminate
  PROVE  TransType' /\ up' \in BOOLEAN /\ acks' \in Seq({"ack", "nack"})
<1>1. up' \in BOOLEAN /\ txnLock' = "none"
  BY GivesType DEF Terminate
<1>2. acks' \in Seq({"ack", "nack"})
  BY Adding DEF Terminate, Answer, TypeInv, PhoneType
<1> QED BY <1>1, <1>2 DEF Terminate, NoTxn, TypeInv, TransType

LEMMA AnswerType ==
  ASSUME TypeInv, NEW a \in {"ack", "nack"}, Answer(a)
  PROVE  acks' \in Seq({"ack", "nack"})
  BY Adding DEF Answer, TypeInv, PhoneType

LEMMA FaultType ==
  ASSUME TypeInv, Fault
  PROVE  TransType' /\ up' \in BOOLEAN /\ acks' \in Seq({"ack", "nack"})
  BY TransFrame DEF Fault, TypeInv, PhoneType

LEMMA HandledType ==
  ASSUME TypeInv, Handled, TransType', up' \in BOOLEAN, acks' \in Seq({"ack", "nack"})
  PROVE  TypeInv'
<1>1. env' = env /\ UNCHANGED <<out, step, sent, buffer, rxq, btTask, seen, hdr, sender, harm>>
      /\ rpc' = "consume" /\ rxLock' = FALSE /\ done' = hdr.n
  BY DEF Handled
<1>0. Piece' = Piece /\ Header' = Header /\ MaxMessages[env]' = MaxMessages[env]
  BY <1>1, TypesStay
<1>2. PhoneType'
  BY <1>0, <1>1 DEF TypeInv, PhoneType
<1>3. BufferType'
  BY <1>0, <1>1 DEF TypeInv, BufferType, buffer, btTask
<1>4. ReaderType'
  <2>1. hdr.n \in 0 .. MaxMessages[env]
    BY DEF TypeInv, ReaderType, Header
  <2> QED BY <1>0, <1>1, <2>1 DEF TypeInv, ReaderType
<1> QED BY <1>1, <1>2, <1>3, <1>4, SenderFrame DEF TypeInv, SenderType

LEMMA PutKeepsType ==
  ASSUME TypeInv, HandleOther \/ PutInit \/ PutTransfer \/ PutCommit \/ PutInstall \/ PutAbort \/ PutBad
  PROVE  TypeInv'
<1>1. Handled
  BY DEF HandleOther, PutInit, PutTransfer, PutCommit, PutInstall, PutAbort, PutBad, Handling
<1>2. TransType' /\ up' \in BOOLEAN /\ acks' \in Seq({"ack", "nack"})
  <2>1. CASE Terminate
    BY <2>1, TerminateType
  <2>2. CASE Fault
    BY <2>2, FaultType
  <2>3. CASE HandleOther
    BY <2>3, TransFrame DEF HandleOther, TypeInv, PhoneType, SenderType
  <2>4. CASE PutInit /\ ~Terminate /\ ~Fault
    <3>1. \/ /\ txnLock' = "rx" /\ txn' = [NoTxn EXCEPT !.on = TRUE] /\ timer' = "on"
             /\ Answer("ack") /\ UNCHANGED <<file, told, up>>
          \/ Answer("nack") /\ UNCHANGED <<txnLock, trans, up>>
      BY <2>4 DEF PutInit
    <3>2. acks' \in Seq({"ack", "nack"}) /\ UNCHANGED up
      BY <3>1, AnswerType
    <3> QED BY <3>1, <3>2 DEF TypeInv, TransType, SenderType, NoTxn, trans
  <2>5. CASE PutTransfer /\ ~Terminate /\ ~Fault
    <3>1. /\ txn' = [txn EXCEPT !.got = 1, !.good = cells[2].part = "body" /\ cells[2].cmd = "transfer"]
          /\ timer' = "on" /\ Answer("ack")
          /\ UNCHANGED <<txnLock, file, told, up>>
      BY <2>5 DEF PutTransfer, NoTransaction
    <3>2. acks' \in Seq({"ack", "nack"})
      BY <3>1, AnswerType
    <3>3. txn' \in [on : BOOLEAN, got : {0, 1}, good : BOOLEAN]
      BY <3>1 DEF TypeInv, TransType
    <3> QED BY <3>1, <3>2, <3>3 DEF TypeInv, TransType, SenderType
  <2>6. CASE PutCommit /\ ~Terminate /\ ~Fault
    <3>1. file' = TRUE /\ timer' = "on" /\ Answer("ack") /\ UNCHANGED <<txnLock, txn, told, up>>
      BY <2>6 DEF PutCommit, NoTransaction
    <3>2. acks' \in Seq({"ack", "nack"})
      BY <3>1, AnswerType
    <3> QED BY <3>1, <3>2 DEF TypeInv, TransType, SenderType
  <2>7. CASE PutInstall /\ ~Fault
    <3>1. /\ told' \in BOOLEAN /\ Answer("ack") /\ GiveTxn("rx")
          /\ txn' = NoTxn /\ timer' = "off" /\ UNCHANGED file
      BY <2>7 DEF PutInstall
    <3>2. acks' \in Seq({"ack", "nack"}) /\ up' \in BOOLEAN /\ txnLock' = "none"
      BY <3>1, AnswerType, GivesType
    <3> QED BY <3>1, <3>2 DEF TypeInv, TransType, NoTxn
  <2> QED BY <2>1, <2>2, <2>3, <2>4, <2>5, <2>6, <2>7 DEF PutAbort, PutBad
<1> QED BY <1>1, <1>2, HandledType

LEMMA TypeNext ==
  ASSUME TypeInv, [Next]_vars
  PROVE  TypeInv'
<1>1. CASE PutTimeout
  <2>1. TransType' /\ up' \in BOOLEAN /\ acks' \in Seq({"ack", "nack"})
    BY <1>1, TerminateType DEF PutTimeout
  <2>2. env' = env /\ UNCHANGED <<out, step, sent, buffer, rxLock, rxq, btTask, reader, sender, done, harm>>
    BY <1>1 DEF PutTimeout
  <2>3. PhoneType'
    BY <2>1, <2>2, TypesStay DEF TypeInv, PhoneType
  <2> QED BY <2>1, <2>2, <2>3, BufferFrame, ReaderFrame, SenderFrame DEF TypeInv, SenderType
<1>2. CASE UNCHANGED vars
  <2>1. env' = env /\ UNCHANGED <<phone, buffer, rxLock, rxq, btTask, reader, txnLock, trans, sender, up, done, harm>>
    BY <1>2 DEF vars
  <2> QED BY <2>1, PhoneFrame, BufferFrame, ReaderFrame, TransFrame, SenderFrame DEF TypeInv, SenderType
<1> QED BY <1>1, <1>2, PhoneKeepsType, BtKeepsType, ReadKeepsType, PutKeepsType, SenderKeepsType, TimeKeepsType
        DEF Next, Rx

(* Nothing the tasks do, and nothing the phone sends, takes the buffer, the   *)
(* queues or the transaction out of their ranges: what is appended fits, and  *)
(* what is consumed was there (protocol.c:60-200).                           *)
THEOREM TypeCorrect == Spec => []TypeOK
<1> QED BY TypeInit, TypeNext, TypeParts, PTL DEF Spec
-----------------------------------------------------------------------------
(* What a step must know of the transaction: whether it is there, and who    *)
(* may have its mutex.                                                       *)
LockInv ==
  /\ txnLock \in {"none", "rx", "tx"}
  /\ txn \in [on : BOOLEAN, got : {0, 1}, good : BOOLEAN]
  /\ LockMatchesTransfer

LEMMA LockInit == Init => LockInv
  BY DEF Init, LockInv, LockMatchesTransfer, NoTxn

(* Whoever gives the mutex back, a behaviour that goes on has no transfer    *)
(* that needs it.                                                            *)
LEMMA GivingBack ==
  ASSUME LockInv, up, NEW who \in {"rx", "tx", "bt"}, GiveTxn(who)
  PROVE  txnLock' = "none" /\ (up' /\ who # "rx" => ~txn.on)
  BY DEF LockInv, LockMatchesTransfer, GiveTxn

(* The end of a transfer, whether there was one or not. *)
LEMMA Terminating ==
  ASSUME LockInv, up, Terminate
  PROVE  LockInv'
  BY DEF LockInv, LockMatchesTransfer, Terminate, GiveTxn, NoTxn

LEMMA Faulting ==
  ASSUME LockInv, Fault
  PROVE  LockInv'
  BY DEF LockInv, LockMatchesTransfer, Fault, trans

LEMMA LockNext ==
  ASSUME LockInv, [Next]_vars
  PROVE  LockInv'
<1>1. CASE UNCHANGED <<txnLock, txn, up>>
  BY <1>1 DEF LockInv, LockMatchesTransfer
<1>2. CASE up /\ Phone
  BY <1>1, <1>2 DEF Phone, StartPut, SendOther, TakeAnswer, GiveUp, Lose, OnlyPhone, trans
<1>3. CASE up /\ Bt
  <2>1. CASE BtData
    <3>1. UNCHANGED txn
      BY <2>1 DEF BtData, trans
    <3>2. CASE UNCHANGED <<txnLock, up>>
      BY <1>1, <3>1, <3>2
    <3>3. CASE GiveTxn("bt")
      <4>1. txnLock' = "none" /\ (up' => ~txn.on)
        BY <1>3, <3>3, GivingBack
      <4> QED BY <3>1, <4>1 DEF LockInv, LockMatchesTransfer
    <3> QED BY <2>1, <3>2, <3>3 DEF BtData
  <2>2. CASE BtAppend
    BY <1>1, <2>2 DEF BtAppend, trans
  <2>3. CASE BtTimeout
    BY <2>3 DEF BtTimeout, trans, LockInv, LockMatchesTransfer
  <2>4. CASE BtKick
    BY <1>1, <2>4 DEF BtKick, trans
  <2> QED BY <1>3, <2>1, <2>2, <2>3, <2>4 DEF Bt
<1>4. CASE up /\ Rx
  <2>1. CASE RxReceive \/ RxRead \/ RxTest \/ RxLock \/ HandleOther \/ RxConsume
    BY <1>1, <2>1 DEF RxReceive, RxRead, RxTest, RxLock, HandleOther, RxConsume, Rest, trans
  <2>2. CASE PutTimeout \/ PutAbort
    BY <1>4, <2>2, Terminating DEF PutTimeout, PutAbort
  <2>3. CASE PutBad
    BY <2>3, Faulting DEF PutBad
  <2>4. CASE PutInit
    <3>1. CASE Terminate
      BY <1>4, <3>1, Terminating
    <3>2. CASE Fault
      BY <3>2, Faulting
    <3>3. CASE UNCHANGED <<txnLock, trans, up>>
      BY <1>1, <3>3 DEF trans
    <3>4. CASE txnLock' = "rx" /\ txn' = [NoTxn EXCEPT !.on = TRUE]
      BY <3>4 DEF LockInv, LockMatchesTransfer, NoTxn
    <3> QED BY <2>4, <3>1, <3>2, <3>3, <3>4 DEF PutInit
  <2>5. CASE PutTransfer
    <3>1. CASE Terminate
      BY <1>4, <3>1, Terminating
    <3>2. CASE Fault
      BY <3>2, Faulting
    <3>3. CASE /\ txn' = [txn EXCEPT !.got = 1,
                            !.good = cells[2].part = "body" /\ cells[2].cmd = "transfer"]
               /\ UNCHANGED <<txnLock, up>>
      BY <3>3 DEF LockInv, LockMatchesTransfer
    <3> QED BY <2>5, <3>1, <3>2, <3>3 DEF PutTransfer, NoTransaction
  <2>6. CASE PutCommit
    <3>1. CASE Terminate
      BY <1>4, <3>1, Terminating
    <3>2. CASE Fault
      BY <3>2, Faulting
    <3>3. CASE UNCHANGED <<txnLock, txn, up>>
      BY <1>1, <3>3
    <3> QED BY <2>6, <3>1, <3>2, <3>3 DEF PutCommit, NoTransaction
  <2>7. CASE PutInstall
    <3>1. CASE Fault
      BY <3>1, Faulting
    <3>2. CASE GiveTxn("rx") /\ txn' = NoTxn
      BY <3>2 DEF GiveTxn, LockInv, LockMatchesTransfer, NoTxn
    <3> QED BY <2>7, <3>1, <3>2 DEF PutInstall
  <2> QED BY <1>4, <2>1, <2>2, <2>3, <2>4, <2>5, <2>6, <2>7 DEF Rx
<1>5. CASE up /\ (QueuePacket \/ Tx)
  <2>1. UNCHANGED txn
    BY <1>5 DEF QueuePacket, Tx, TxReceive, TxRequeue, TxLock, TxSend, OnlySender, trans
  <2>2. CASE QueuePacket \/ TxReceive \/ TxRequeue
    BY <1>1, <2>1, <2>2 DEF QueuePacket, TxReceive, TxRequeue
  <2>3. CASE TxLock
    BY <1>5, <2>1, <2>3 DEF TxLock, LockInv, LockMatchesTransfer
  <2>4. CASE TxSend
    <3>1. CASE up' = FALSE /\ UNCHANGED txnLock
      BY <2>1, <3>1 DEF LockInv, LockMatchesTransfer
    <3>2. CASE GiveTxn("tx")
      <4>1. txnLock' = "none" /\ (up' => ~txn.on)
        BY <1>5, <3>2, GivingBack
      <4> QED BY <2>1, <4>1 DEF LockInv, LockMatchesTransfer
    <3> QED BY <2>4, <3>1, <3>2 DEF TxSend
  <2> QED BY <1>5, <2>2, <2>3, <2>4 DEF Tx
<1>6. CASE up /\ (Ages \/ TimerOver)
  BY <1>1, <1>6 DEF Ages, TimerOver, trans
<1>7. CASE UNCHANGED vars
  BY <1>1, <1>7 DEF vars, trans
<1> QED BY <1>2, <1>3, <1>4, <1>5, <1>6, <1>7 DEF Next

(* No path of a transfer, its timeout, the expiry of the buffer or the       *)
(* sending of other packets leaves the mutex taken without a transfer, or a  *)
(* transfer without the mutex (protocol_transfer.c:133-304).                 *)
THEOREM LockIsHeldDuringTransfers == Spec => []LockMatchesTransfer
<1>1. LockInv => LockMatchesTransfer
  BY DEF LockInv
<1> QED BY <1>1, LockInit, LockNext, PTL DEF Spec
-----------------------------------------------------------------------------
(* What the phone has sent and the watch has not consumed: in the buffer, in  *)
(* the hands of the bluetooth task, and on its way.                           *)
At(i) == IF i <= used THEN cells[i]
         ELSE IF i <= used + Len(chunk) THEN chunk[i - used] ELSE out[i - used - Len(chunk)]

Total == used + Len(chunk) + Len(out)

(* The messages it is of; one is handled before it is consumed. *)
Unread == (sent - done) + (IF rpc = "consume" THEN 1 ELSE 0)

Pair(k) ==
  /\ At(2 * k - 1).part = "head" /\ At(2 * k).part = "body"
  /\ At(2 * k - 1).n = (sent - Unread) + k /\ At(2 * k).n = At(2 * k - 1).n
  /\ At(2 * k).cmd = At(2 * k - 1).cmd

Pairs == Unread \in Nat /\ Total = 2 * Unread /\ \A k \in 1 .. Unread : Pair(k)

(* The header the rx task has read is that of the first message still. *)
Reading ==
  /\ rpc = "test" /\ used > 0 => seen \in HeaderAt(cells[1])
  /\ rpc \in {"lock", "handle", "consume"} => used >= 2 /\ hdr \in HeaderAt(cells[1])

StreamInv == ~harm => Pairs /\ Reading

LEMMA StreamInit == Init => StreamInv
<1> SUFFICES ASSUME Init PROVE Pairs /\ Reading
  BY DEF StreamInv
<1>1. used = 0 /\ Len(chunk) = 0 /\ Len(out) = 0 /\ sent = 0 /\ done = 0 /\ rpc = "wait"
  BY DEF Init
<1>2. Unread = 0 /\ Total = 0
  BY <1>1 DEF Unread, Total
<1>3. Reading
  BY <1>1 DEF Reading
<1> QED BY <1>2, <1>3 DEF Pairs

LEMMA HarmStays == TypeInv /\ [Next]_vars /\ harm => harm'
<1>1. CASE Phone
  BY <1>1 DEF Phone, StartPut, SendOther, TakeAnswer, GiveUp, Lose
<1>2. CASE Bt
  BY <1>2 DEF Bt, BtData, BtAppend, BtTimeout, BtKick
<1>3. CASE Rx
  BY <1>3 DEF Rx, RxReceive, RxRead, RxTest, RxLock, HandleOther, RxConsume, PutTimeout, PutInit,
         PutTransfer, PutCommit, PutInstall, PutAbort, PutBad, Handling, Handled, Rest
<1>4. CASE QueuePacket \/ Tx \/ Ages \/ TimerOver \/ UNCHANGED vars
  BY <1>4 DEF QueuePacket, Tx, TxReceive, TxRequeue, TxLock, TxSend, OnlySender, Ages, TimerOver, vars
<1> QED BY <1>1, <1>2, <1>3, <1>4 DEF Next

LEMMA Lengths ==
  ASSUME TypeInv
  PROVE  /\ used \in Nat /\ Len(chunk) \in Nat /\ Len(out) \in Nat /\ Total \in Nat
         /\ sent \in Nat /\ done \in Nat /\ Unread \in Int
<1>1. used \in Nat /\ Len(chunk) \in Nat /\ Len(out) \in Nat
  BY Sizes DEF TypeInv, BufferType, PhoneType
<1>2. sent \in Nat /\ done \in Nat
  BY MostIsNat DEF TypeInv, PhoneType, ReaderType, SenderType
<1> QED BY <1>1, <1>2 DEF Total, Unread

(* The messages stay when no piece of them goes. *)
Kept == UNCHANGED <<Unread, Total>> /\ \A i \in 1 .. Total : At(i)' = At(i)

LEMMA PairsStay ==
  ASSUME TypeInv, Pairs, UNCHANGED sent, Kept
  PROVE  Pairs'
<1> USE DEF Kept
<1> SUFFICES ASSUME NEW k \in 1 .. Unread PROVE Pair(k)'
  BY DEF Pairs
<1>1. Pair(k) /\ 2 * k \in 1 .. Total /\ 2 * k - 1 \in 1 .. Total
  BY DEF Pairs
<1>2. At(2 * k)' = At(2 * k) /\ At(2 * k - 1)' = At(2 * k - 1)
  BY <1>1
<1> QED BY <1>1, <1>2 DEF Pair

LEMMA PairsFrame ==
  ASSUME TypeInv, Pairs, UNCHANGED <<sent, done, used, chunk, out, cells>>, rpc' = "consume" <=> rpc = "consume"
  PROVE  Pairs' /\ Kept
<1>1. Kept
  BY DEF Unread, Total, At, Kept
<1> QED BY <1>1, PairsStay

(* The first message, when its header, or all of it, is in the buffer. *)
LEMMA FirstMessage ==
  ASSUME TypeInv, Pairs, used > 0, NEW h \in HeaderAt(cells[1])
  PROVE  /\ Unread > 0 /\ cells[1] \in Piece /\ cells[1].part = "head"
         /\ cells[1].n = (sent - Unread) + 1
         /\ h = [ep |-> IF cells[1].cmd \in Put THEN "put" ELSE "other", len |-> 1, n |-> cells[1].n]
         /\ used >= 2 => /\ cells[2] \in Piece /\ cells[2].part = "body" /\ cells[2].n = cells[1].n
                         /\ cells[2].cmd = cells[1].cmd
<1>1. Total > 0 /\ Unread \in Nat
  BY Lengths DEF Total, Pairs
<1>2. Unread > 0
  BY <1>1 DEF Pairs
<1>3. 1 \in 1 .. Unread /\ Pair(1)
  BY <1>2 DEF Pairs
<1>4. At(1) = cells[1] /\ (used >= 2 => At(2) = cells[2])
  BY Lengths DEF At
<1>5. cells[1] \in Piece /\ (used >= 2 => cells[2] \in Piece)
  BY Sizes DEF TypeInv, BufferType
<1>6. 2 * 1 - 1 = 1 /\ 2 * 1 = 2
  OBVIOUS
<1>7. cells[1].part = "head" /\ cells[1].n = (sent - Unread) + 1
  BY <1>3, <1>4, <1>6 DEF Pair
<1>8. h = [ep |-> IF cells[1].cmd \in Put THEN "put" ELSE "other", len |-> 1, n |-> cells[1].n]
  BY <1>7 DEF HeaderAt
<1> QED BY <1>2, <1>3, <1>4, <1>5, <1>6, <1>7, <1>8 DEF Pair

(* A message the phone sends becomes the last. *)
LEMMA PairsSend ==
  ASSUME TypeInv, Pairs, NEW c \in Command, Send(c), UNCHANGED <<done, used, chunk, cells, rpc>>
  PROVE  /\ Pairs' /\ Unread' = Unread + 1
         /\ \A i \in 1 .. Total : At(i)' = At(i)
         /\ \A k \in 1 .. Unread' : k = Unread' => At(2 * k)'.cmd = c
<1>1. /\ Len(out') = Len(out) + 2 /\ sent' = sent + 1
      /\ \A i \in 1 .. Len(out) : out'[i] = out[i]
      /\ out'[Len(out) + 1] = [n |-> sent + 1, part |-> "head", cmd |-> c]
      /\ out'[Len(out) + 2] = [n |-> sent + 1, part |-> "body", cmd |-> c]
  BY Sending
<1>2. Unread' = Unread + 1 /\ Total' = Total + 2 /\ Unread \in Nat /\ Total = 2 * Unread
  <2>1. Unread \in Nat /\ Total = 2 * Unread
    BY DEF Pairs
  <2>2. Unread' = Unread + 1
    BY SMTT(60), <1>1, Lengths DEF Unread
  <2>3. Total' = Total + 2
    <3>1. used' = used /\ Len(chunk') = Len(chunk) /\ Len(out') = Len(out) + 2
      BY <1>1
    <3>2. used \in Nat /\ Len(chunk) \in Nat /\ Len(out) \in Nat
      BY Lengths
    <3> QED BY <3>1, <3>2 DEF Total
  <2> QED BY <2>1, <2>2, <2>3
<1>3. ASSUME NEW i \in 1 .. Total
      PROVE  At(i)' = At(i)
  <2>1. i <= used + Len(chunk) \/ i - used - Len(chunk) \in 1 .. Len(out)
    BY Lengths DEF Total
  <2> QED BY <1>1, <2>1, Lengths DEF At
<1>4. ASSUME NEW i \in Nat
      PROVE  /\ i = Total + 1 => At(i)' = [n |-> sent + 1, part |-> "head", cmd |-> c]
             /\ i = Total + 2 => At(i)' = [n |-> sent + 1, part |-> "body", cmd |-> c]
  <2>1. CASE i = Total + 1
    <3>1. i - used - Len(chunk) = Len(out) + 1 /\ ~(i <= used) /\ ~(i <= used + Len(chunk)) /\ i # Total + 2
      BY SMTT(60), <2>1, Lengths DEF Total
    <3> QED BY <1>1, <3>1 DEF At
  <2>2. CASE i = Total + 2
    <3>1. i - used - Len(chunk) = Len(out) + 2 /\ ~(i <= used) /\ ~(i <= used + Len(chunk)) /\ i # Total + 1
      BY SMTT(60), <2>2, Lengths DEF Total
    <3> QED BY <1>1, <3>1 DEF At
  <2> QED BY <2>1, <2>2
<1>5. ASSUME NEW k \in 1 .. Unread'
      PROVE  Pair(k)' /\ (k = Unread' => At(2 * k)'.cmd = c)
  <2>1. CASE k = Unread + 1
    <3>1. 2 * k - 1 = Total + 1 /\ 2 * k = Total + 2 /\ 2 * k \in Nat /\ 2 * k - 1 \in Nat
      BY <1>2, <2>1
    <3>2. (sent' - Unread') + k = sent + 1
      BY <1>1, <1>2, <2>1, Lengths
    <3>3. /\ At(2 * k - 1)' = [n |-> sent + 1, part |-> "head", cmd |-> c]
          /\ At(2 * k)' = [n |-> sent + 1, part |-> "body", cmd |-> c]
      BY <1>4, <3>1
    <3> QED BY <3>2, <3>3 DEF Pair
  <2>2. CASE k \in 1 .. Unread
    <3>1. Pair(k) /\ 2 * k \in 1 .. Total /\ 2 * k - 1 \in 1 .. Total
      BY <1>2, <2>2 DEF Pairs
    <3>2. At(2 * k)' = At(2 * k) /\ At(2 * k - 1)' = At(2 * k - 1)
      BY <1>3, <3>1
    <3>3. sent' - Unread' = sent - Unread /\ k # Unread'
      BY <1>1, <1>2, <2>2, Lengths
    <3> QED BY <3>1, <3>2, <3>3 DEF Pair
  <2> QED BY <1>2, <2>1, <2>2
<1> QED BY <1>2, <1>3, <1>5 DEF Pairs

LEMMA StreamPhone ==
  ASSUME TypeInv, StreamInv, Phone, ~harm'
  PROVE  Pairs' /\ Reading'
<1>1. ~harm /\ ~Lose
  BY DEF Phone, StartPut, SendOther, TakeAnswer, GiveUp, Lose, TypeInv, SenderType
<1>2. Pairs /\ Reading
  BY <1>1 DEF StreamInv
<1>3. UNCHANGED <<done, used, chunk, cells, rpc, seen, hdr, env>>
  BY DEF Phone, StartPut, SendOther, TakeAnswer, GiveUp, Lose, OnlyPhone, buffer, btTask, reader
<1>4. (\E c \in Command : Send(c)) \/ UNCHANGED <<out, sent>>
  BY <1>1 DEF Phone, StartPut, SendOther, TakeAnswer, GiveUp, After, Command, Put
<1>5. Pairs'
  <2>1. CASE \E c \in Command : Send(c)
    BY <1>2, <1>3, <2>1, PairsSend
  <2>2. CASE UNCHANGED <<out, sent>>
    BY <1>2, <1>3, <2>2, PairsFrame
  <2> QED BY <1>4, <2>1, <2>2
<1>6. Reading'
  BY <1>2, <1>3 DEF Reading, HeaderAt
<1> QED BY <1>5, <1>6

LEMMA StreamBt ==
  ASSUME TypeInv, StreamInv, Bt, ~harm'
  PROVE  Pairs' /\ Reading' /\ Kept
<1>1. ~harm /\ UNCHANGED <<sent, done, rpc, seen, hdr, Unread, env>>
  BY DEF Bt, BtData, BtAppend, BtTimeout, BtKick, TypeInv, SenderType, phone, reader, Unread
<1>2. Pairs /\ Reading
  BY <1>1 DEF StreamInv
<1>3. CASE BtData
  <2>1. PICK len \in 1 .. 2 :
          /\ len <= Len(out) /\ out' = SubSeq(out, len + 1, Len(out))
          /\ chunk' = SubSeq(out, 1, len) /\ UNCHANGED <<cells, used>> /\ bpc = "idle"
    BY <1>1, <1>3 DEF BtData
  <2>2. /\ Len(out') = Len(out) - len /\ Len(chunk') = len
        /\ \A i \in 1 .. len : chunk'[i] = out[i]
        /\ \A i \in 1 .. Len(out) - len : out'[i] = out[len + i]
    <3>1. out \in Seq(Piece) /\ len \in 0 .. Len(out)
      BY <2>1 DEF TypeInv, PhoneType
    <3> QED BY <2>1, <3>1, Splitting
  <2>3. chunk = <<>> /\ Len(chunk) = 0
    BY <2>1 DEF TypeInv, BufferType
  <2>4. Total' = Total
    BY SMTT(60), <2>1, <2>2, <2>3, Lengths DEF Total
  <2>5. ASSUME NEW i \in 1 .. Total
        PROVE  At(i)' = At(i)
    <3>1. CASE i <= used
      BY <2>1, <3>1 DEF At
    <3>2. CASE i > used /\ i <= used + len
      <4>1. i - used \in 1 .. len /\ ~(i <= used) /\ ~(i <= used + Len(chunk)) /\ i - used - Len(chunk) = i - used
        BY <2>3, <3>2, Lengths
      <4> QED BY <2>1, <2>2, <3>2, <4>1 DEF At
    <3>3. CASE i > used + len
      <4>1. /\ i - used - len \in 1 .. Len(out) - len /\ ~(i <= used) /\ ~(i <= used + len)
            /\ ~(i <= used + Len(chunk)) /\ i - used - Len(chunk) = len + (i - used - len)
        BY SMTT(60), <2>1, <2>3, <3>3, Lengths DEF Total
      <4> QED BY <2>1, <2>2, <4>1 DEF At
    <3> QED BY <3>1, <3>2, <3>3, Lengths
  <2>6. Pairs' /\ Kept
    BY <1>1, <1>2, <2>4, <2>5, PairsStay DEF Kept
  <2> QED BY <1>1, <1>2, <2>1, <2>6 DEF Reading, HeaderAt
<1>4. CASE BtAppend
  <2>1. /\ cells' = [i \in 1 .. Cap |-> IF i \in used + 1 .. used + Len(chunk)
                                      THEN chunk[i - used] ELSE cells[i]]
        /\ used' = used + Len(chunk) /\ chunk' = <<>> /\ UNCHANGED out /\ rpc # "test" /\ bpc = "append"
    BY <1>1, <1>4 DEF BtAppend, phone
  <2>2. used + Len(chunk) <= Cap /\ Len(chunk') = 0
    BY <2>1 DEF TypeInv, BufferType
  <2>3. Total' = Total
    BY <2>1, <2>2, Lengths DEF Total
  <2>4. ASSUME NEW i \in 1 .. Total
        PROVE  At(i)' = At(i)
    <3>1. CASE i <= used + Len(chunk)
      <4>1. i \in 1 .. Cap /\ i <= used' /\ (i \in used + 1 .. used + Len(chunk) <=> ~(i <= used))
        BY <2>1, <2>2, <3>1, Lengths, Sizes
      <4>2. cells'[i] = IF i <= used THEN cells[i] ELSE chunk[i - used]
        BY <2>1, <4>1
      <4> QED BY <3>1, <4>1, <4>2 DEF At
    <3>2. CASE ~(i <= used + Len(chunk))
      <4>1. ~(i <= used) /\ ~(i <= used') /\ ~(i <= used' + Len(chunk'))
            /\ i - used' - Len(chunk') = i - used - Len(chunk)
        BY SMTT(60), <2>1, <2>2, <3>2, Lengths
      <4> QED BY <2>1, <3>2, <4>1 DEF At
    <3> QED BY <3>1, <3>2
  <2>5. Pairs' /\ Kept
    BY <1>1, <1>2, <2>3, <2>4, PairsStay DEF Kept
  <2>6. ASSUME used >= 2
        PROVE  cells'[1] = cells[1] /\ used' >= 2
    BY <2>1, <2>6, Lengths, Sizes
  <2> QED BY <1>1, <1>2, <2>1, <2>5, <2>6 DEF Reading, HeaderAt
<1>5. CASE BtTimeout \/ BtKick
  <2>1. UNCHANGED <<used, chunk, out, cells>>
    BY <1>5 DEF BtTimeout, BtKick, phone, buffer, btTask
  <2>2. Pairs' /\ Kept
    BY <1>1, <1>2, <2>1, PairsFrame
  <2> QED BY <1>1, <1>2, <2>1, <2>2 DEF Reading, HeaderAt
<1> QED BY <1>3, <1>4, <1>5 DEF Bt

LEMMA StreamRead ==
  ASSUME TypeInv, Pairs, Reading, RxReceive \/ RxRead \/ RxTest \/ RxLock
  PROVE  Pairs' /\ Reading' /\ Kept
<1>1. UNCHANGED <<sent, done, chunk, out, cells, env>> /\ rpc # "consume" /\ rpc' # "consume"
  BY DEF RxReceive, RxRead, RxTest, RxLock, Rest, phone, btTask, buffer
<1>2. CASE RxReceive \/ RxRead \/ RxLock
  <2>1. UNCHANGED used
    BY <1>2 DEF RxReceive, RxRead, RxLock, buffer
  <2>2. Pairs' /\ Kept
    BY <1>1, <2>1, PairsFrame
  <2> QED BY <1>1, <1>2, <2>1, <2>2 DEF RxReceive, RxRead, RxLock, Reading, HeaderAt
<1>3. CASE RxTest
  <2>1. rpc = "test" /\ used \in Nat /\ Cap > 1 /\ Cap \in Nat
    BY <1>3, Lengths, Sizes DEF RxTest
  <2>2. used > 0 => seen \in HeaderAt(cells[1]) /\ seen.len = 1
    BY <2>1, FirstMessage DEF Reading
  <2>3. \/ rpc' = "wait" /\ UNCHANGED used
        \/ rpc' = "lock" /\ UNCHANGED used /\ hdr' = seen /\ used >= 2 /\ seen \in HeaderAt(cells[1])
    <3>1. seen.len \in Nat
      BY MostIsNat DEF TypeInv, ReaderType, SenderType, Header
    <3>2. CASE used >= 1
      BY <1>3, <2>1, <2>2, <3>1, <3>2 DEF RxTest
    <3>3. CASE used = 0
      BY <1>3, <2>1, <3>1, <3>3 DEF RxTest
    <3> QED BY <2>1, <3>2, <3>3
  <2>4. Pairs' /\ Kept
    BY <1>1, <2>3, PairsFrame
  <2> QED BY <1>1, <2>3, <2>4 DEF Reading, HeaderAt
<1> QED BY <1>2, <1>3

(* Handling a message counts it; its pieces go when it is consumed. *)
LEMMA StreamHandle ==
  ASSUME TypeInv, Pairs, Reading, Handled
  PROVE  Pairs' /\ Reading' /\ Kept
<1>1. /\ UNCHANGED <<sent, used, chunk, out, cells, hdr, env>> /\ rpc = "handle" /\ rpc' = "consume" /\ done' = hdr.n
  BY DEF Handled, buffer, btTask
<1>2. hdr.n = (sent - Unread) + 1 /\ used >= 2 /\ hdr \in HeaderAt(cells[1])
  BY <1>1, FirstMessage, Lengths DEF Reading
<1>3. Unread = sent - done /\ Unread' = sent - done' + 1
  BY <1>1, Lengths DEF Unread
<1>4. Unread' = Unread
  BY SMTT(60), <1>1, <1>2, <1>3, Lengths
<1>5. Kept
  BY <1>1, <1>4 DEF Total, At, Kept
<1>6. Pairs'
  BY <1>1, <1>5, PairsStay
<1>7. Reading'
  BY <1>1, <1>2 DEF Reading, HeaderAt
<1> QED BY <1>5, <1>6, <1>7

LEMMA StreamConsume ==
  ASSUME TypeInv, Pairs, Reading, RxConsume
  PROVE  /\ Pairs' /\ Reading' /\ Unread' = Unread - 1
         /\ \A i \in 1 .. Total - 2 : At(i)' = At(i + 2)
<1>1. /\ rpc = "consume" /\ rpc' = "read" /\ UNCHANGED <<sent, done, chunk, out>>
  BY DEF RxConsume, Rest, phone, btTask
<1>2. hdr.len = 1 /\ used >= 2 /\ Unread > 0
  BY <1>1, FirstMessage, Lengths DEF Reading
<1>3. /\ used' = used - 2
      /\ \A i \in 1 .. Cap : i <= used - 2 => cells'[i] = cells[i + 2]
  BY <1>2, Lengths DEF RxConsume
<1>4. Unread' = Unread - 1
  BY <1>1, Lengths DEF Unread
<1>5. Total' = Total - 2
  <2>1. used' = used - 2 /\ Len(chunk') = Len(chunk) /\ Len(out') = Len(out)
    BY <1>1, <1>3
  <2> QED BY SMTT(60), <2>1, Lengths DEF Total
<1>6. ASSUME NEW i \in 1 .. Total - 2
      PROVE  At(i)' = At(i + 2)
  <2>1. CASE i <= used - 2
    <3>1. i <= used' /\ i + 2 <= used /\ i \in 1 .. Cap
      BY <1>3, <2>1, Lengths, Sizes DEF TypeInv, BufferType
    <3> QED BY <1>3, <2>1, <3>1 DEF At
  <2>2. CASE ~(i <= used - 2)
    <3> DEFINE c == Len(chunk)
    <3>1. i \in Int /\ used \in Int /\ c \in Int /\ used' = used - 2 /\ chunk' = chunk /\ out' = out /\ Len(chunk') = c
      BY <1>1, <1>3, Lengths
    <3>2. At(i)' = IF i <= used - 2 + c THEN chunk[i - (used - 2)] ELSE out[i - (used - 2) - c]
      BY <2>2, <3>1 DEF At
    <3> HIDE DEF c
    <3>3. /\ ~(i + 2 <= used) /\ (i <= used - 2 + c <=> i + 2 <= used + c)
          /\ i - (used - 2) = (i + 2) - used /\ i - (used - 2) - c = (i + 2) - used - c
      BY <2>2, <3>1
    <3>4. At(i + 2) = IF i + 2 <= used + c THEN chunk[(i + 2) - used] ELSE out[(i + 2) - used - c]
      BY <3>3 DEF At, c
    <3> QED BY <3>2, <3>3, <3>4
  <2> QED BY <2>1, <2>2
<1>7. ASSUME NEW k \in 1 .. Unread'
      PROVE  Pair(k)'
  <2>1. k + 1 \in 1 .. Unread /\ Pair(k + 1) /\ Total = 2 * Unread
    BY <1>4 DEF Pairs
  <2>2. /\ 2 * k \in 1 .. Total - 2 /\ 2 * k - 1 \in 1 .. Total - 2
        /\ 2 * (k + 1) = 2 * k + 2 /\ 2 * (k + 1) - 1 = (2 * k - 1) + 2
    <3>1. k \in Nat /\ k >= 1 /\ Unread \in Nat /\ k + 1 <= Unread
      BY <1>2, <2>1, Lengths
    <3> QED BY <2>1, <3>1
  <2>3. At(2 * k)' = At(2 * (k + 1)) /\ At(2 * k - 1)' = At(2 * (k + 1) - 1)
    BY <1>6, <2>2
  <2>4. (sent' - Unread') + k = (sent - Unread) + (k + 1)
    BY SMTT(60), <1>1, <1>4, Lengths
  <2> QED BY <2>1, <2>3, <2>4 DEF Pair
<1>8. Pairs'
  BY <1>2, <1>4, <1>5, <1>7 DEF Pairs
<1>9. Reading'
  BY <1>1 DEF Reading
<1> QED BY <1>4, <1>6, <1>8, <1>9

LEMMA StreamOthers ==
  ASSUME TypeInv, Pairs, Reading, PutTimeout \/ QueuePacket \/ Tx \/ Ages \/ TimerOver \/ UNCHANGED vars
  PROVE  Pairs' /\ Reading' /\ Kept
<1>1. UNCHANGED <<sent, done, used, chunk, out, cells, rpc, seen, hdr, env>>
  BY DEF PutTimeout, QueuePacket, Tx, TxReceive, TxRequeue, TxLock, TxSend, OnlySender, Ages, TimerOver, vars,
         phone, buffer, btTask, reader
<1>2. Pairs' /\ Kept
  BY <1>1, PairsFrame
<1> QED BY <1>1, <1>2 DEF Reading, HeaderAt

LEMMA StreamNext ==
  ASSUME TypeInv, StreamInv, [Next]_vars
  PROVE  StreamInv'
<1> SUFFICES ASSUME ~harm' PROVE Pairs' /\ Reading'
  BY DEF StreamInv
<1>1. ~harm /\ Pairs /\ Reading
  BY HarmStays DEF StreamInv
<1>2. CASE Handled
  BY <1>1, <1>2, StreamHandle
<1> QED BY <1>1, <1>2, StreamPhone, StreamBt, StreamRead, StreamConsume, StreamOthers
        DEF Next, Rx, HandleOther, PutInit, PutTransfer, PutCommit, PutInstall, PutAbort, PutBad, Handling

(* The rx task parses in place what the bluetooth task appends, reads the     *)
(* header before it takes the lock, and moves the rest down when it is done   *)
(* (protocol.c:60-200): it handles every message once, in order and whole.    *)
THEOREM StreamIsReadInOrder == Spec => []StreamIsRead
<1>1. TypeInv /\ StreamInv => StreamIsRead
  <2> SUFFICES ASSUME TypeInv, StreamInv, ~harm, rpc = "handle"
               PROVE  /\ cells[1].part = "head" /\ cells[1].n = done + 1 /\ hdr \in HeaderAt(cells[1])
                      /\ cells[2] = [cells[1] EXCEPT !.part = "body"]
    BY DEF StreamIsRead
  <2>1. Pairs /\ used >= 2 /\ hdr \in HeaderAt(cells[1])
    BY DEF StreamInv, Reading
  <2>2. /\ cells[1] \in Piece /\ cells[1].part = "head" /\ cells[1].n = (sent - Unread) + 1
        /\ cells[2] \in Piece /\ cells[2].part = "body" /\ cells[2].n = cells[1].n
        /\ cells[2].cmd = cells[1].cmd
    BY <2>1, FirstMessage, Lengths
  <2>3. sent - Unread = done
    BY Lengths DEF Unread
  <2>4. cells[2] = [cells[1] EXCEPT !.part = "body"]
    BY <2>2 DEF Piece
  <2> QED BY <2>1, <2>2, <2>3, <2>4
<1>2. Init => TypeInv /\ StreamInv
  BY TypeInit, StreamInit
<1>3. TypeInv /\ StreamInv /\ [Next]_vars => (TypeInv /\ StreamInv)'
  BY TypeNext, StreamNext
<1> QED BY <1>1, <1>2, <1>3, PTL DEF Spec
-----------------------------------------------------------------------------
(* The answers that lead to where the phone is, and those on their way to it. *)
Taken   == CASE step = "transfer" -> 1 [] step = "commit" -> 2 [] OTHER -> 0
Answers == Taken + Len(acks)
Nack(i) == i > Taken /\ acks[i - Taken] = "nack"

(* The answers that the transaction, as it stands, has been acknowledged with. *)
Run == IF txn.on THEN 1 + txn.got ELSE 0

(* Three acknowledgements in a row come of a commit alone, whichever commands *)
(* the phone takes them for: it cannot ask for an installation before.       *)
Rows ==
  /\ \A i \in 1 .. Answers - 2 : \E j \in i .. i + 2 : Nack(j)
  /\ \E p \in 0 .. Answers : (p > 0 => Nack(p)) /\ Answers - p <= Run

NoInstall == \A k \in 1 .. Unread : At(2 * k).cmd # "install"

NotYet == step # "install" /\ NoInstall /\ Rows

FileInv == DownloadIsWhole /\ (up /\ ~harm /\ ~file => NotYet)

LEMMA FileInit == Init => FileInv
<1> SUFFICES ASSUME Init PROVE FileInv
  OBVIOUS
<1>1. Unread = 0 /\ Taken = 0 /\ Len(acks) = 0
  BY DEF Init, Unread, Taken
<1>2. Answers = 0 /\ Run = 0
  BY <1>1 DEF Init, Answers, Run, NoTxn
<1>3. step # "install" /\ \A k \in 1 .. Unread : At(2 * k).cmd # "install"
  BY <1>1 DEF Init
<1>4. \A i \in 1 .. Answers - 2 : \E j \in i .. i + 2 : Nack(j)
  BY <1>2
<1>5. \E p \in 0 .. Answers : (p > 0 => Nack(p)) /\ Answers - p <= Run
  BY <1>2
<1> QED BY <1>3, <1>4, <1>5 DEF Init, FileInv, DownloadIsWhole, NotYet, NoInstall, Rows

LEMMA AnswerCounts ==
  ASSUME TypeInv
  PROVE  /\ Taken \in {0, 1, 2} /\ acks \in Seq({"ack", "nack"}) /\ Len(acks) \in Nat /\ Answers \in Nat
         /\ Answers >= Taken /\ Run \in {0, 1, 2}
<1>1. Taken \in {0, 1, 2}
  BY DEF Taken
<1>2. acks \in Seq({"ack", "nack"}) /\ Len(acks) \in Nat
  BY DEF TypeInv, PhoneType
<1>3. Run \in {0, 1, 2}
  BY DEF TypeInv, TransType, Run
<1> QED BY <1>1, <1>2, <1>3 DEF Answers

(* The phone forgets the first answers. *)
LEMMA RowsDrop ==
  ASSUME TypeInv, Rows, NEW d \in 0 .. Answers, Answers' = Answers - d, UNCHANGED Run,
         \A i \in 1 .. Answers - d : Nack(i + d) => Nack(i)'
  PROVE  Rows'
<1>1. Answers \in Nat /\ Run \in Nat
  BY AnswerCounts
<1>2. ASSUME NEW i \in 1 .. Answers' - 2
      PROVE  \E j \in i .. i + 2 : Nack(j)'
  <2>0. i + d \in 1 .. Answers - 2 /\ (i + d) + 2 = i + d + 2
    BY <1>1
  <2>1. PICK j \in i + d .. i + d + 2 : Nack(j)
    BY <2>0 DEF Rows
  <2>2. j - d \in i .. i + 2 /\ j - d \in 1 .. Answers - d /\ (j - d) + d = j
    BY <1>1
  <2> QED BY <2>1, <2>2
<1>3. \E p \in 0 .. Answers' : (p > 0 => Nack(p)') /\ Answers' - p <= Run'
  <2>1. PICK p \in 0 .. Answers : (p > 0 => Nack(p)) /\ Answers - p <= Run
    BY DEF Rows
  <2>2. CASE p <= d
    <3>1. 0 \in 0 .. Answers' /\ Answers' - 0 <= Run'
      BY <1>1, <2>1, <2>2
    <3> QED BY <3>1
  <2>3. CASE p > d
    <3>1. p - d \in 1 .. Answers - d /\ (p - d) + d = p /\ Answers' - (p - d) <= Run' /\ p - d \in 0 .. Answers'
      BY <1>1, <2>1, <2>3
    <3>2. Nack(p - d)'
      BY <2>1, <2>3, <3>1
    <3> QED BY <3>1, <3>2
  <2> QED BY <2>2, <2>3
<1> QED BY <1>2, <1>3 DEF Rows

(* The watch answers. *)
LEMMA Answering ==
  ASSUME TypeInv, NEW a \in {"ack", "nack"}, Answer(a), UNCHANGED step
  PROVE  /\ Answers' = Answers + 1 /\ UNCHANGED Taken
         /\ \A i \in 1 .. Answers : Nack(i) => Nack(i)'
         /\ \A i \in 1 .. Answers + 1 : i = Answers + 1 /\ a = "nack" => Nack(i)'
<1>1. /\ Len(acks') = Len(acks) + 1 /\ \A i \in 1 .. Len(acks) : acks'[i] = acks[i]
      /\ acks'[Len(acks) + 1] = a
  BY AnswerCounts, Adding DEF Answer
<1>2. Taken' = Taken /\ Answers' = Answers + 1
  BY <1>1, AnswerCounts DEF Taken, Answers
<1>3. ASSUME NEW i \in 1 .. Answers, Nack(i)
      PROVE  Nack(i)'
  <2>1. i - Taken \in 1 .. Len(acks)
    BY <1>3, AnswerCounts DEF Nack, Answers
  <2> QED BY <1>1, <1>2, <1>3, <2>1 DEF Nack
<1>4. ASSUME NEW i \in 1 .. Answers + 1, i = Answers + 1, a = "nack"
      PROVE  Nack(i)'
  <2>1. i - Taken = Len(acks) + 1 /\ i > Taken
    BY <1>4, AnswerCounts DEF Answers
  <2> QED BY <1>1, <1>2, <1>4, <2>1 DEF Nack
<1> QED BY <1>2, <1>3, <1>4

LEMMA RowsNack ==
  ASSUME TypeInv, TypeInv', Rows, Answer("nack"), UNCHANGED step
  PROVE  Rows'
<1>1. Answers \in Nat /\ Run' \in Nat
  BY AnswerCounts DEF TypeInv, TransType, Run
<1> DEFINE n == Answers + 1
<1>2. Answers' = n /\ n \in 1 .. n /\ \A i \in 1 .. Answers : Nack(i) => Nack(i)'
  BY <1>1, Answering
<1>3. ASSUME NEW i \in 1 .. n, i = n
      PROVE  Nack(i)'
  BY <1>3, Answering
<1>4. ASSUME NEW i \in 1 .. n - 2
      PROVE  \E j \in i .. i + 2 : Nack(j)'
  <2>1. CASE i + 2 = n
    BY <1>1, <1>2, <1>3, <2>1
  <2>2. CASE i + 2 < n
    <3>1. i \in 1 .. Answers - 2
      BY <1>1, <2>2
    <3>2. PICK j \in i .. i + 2 : Nack(j)
      BY <3>1 DEF Rows
    <3> QED BY <1>1, <1>2, <2>2, <3>2
  <2> QED BY <1>1, <2>1, <2>2
<1>5. \E p \in 0 .. n : (p > 0 => Nack(p)') /\ n - p <= Run'
  <2>1. \E p \in 1 .. n : p = n
    BY <1>2
  <2>2. PICK p \in 1 .. n : p = n
    BY <2>1
  <2>3. Nack(p)' /\ p \in 0 .. n /\ n - p <= Run'
    BY <1>1, <1>3, <2>2
  <2> QED BY <2>3
<1> QED BY <1>2, <1>4, <1>5 DEF Rows

LEMMA RowsAck ==
  ASSUME TypeInv, Rows, Answer("ack"), UNCHANGED step, Run < 2, Run' = Run + 1
  PROVE  Rows'
<1>1. Answers \in Nat /\ Run \in {0, 1}
  BY AnswerCounts
<1>2. Answers' = Answers + 1 /\ \A i \in 1 .. Answers : Nack(i) => Nack(i)'
  BY Answering
<1>3. PICK p \in 0 .. Answers : (p > 0 => Nack(p)) /\ Answers - p <= Run
  BY DEF Rows
<1>4. ASSUME NEW i \in 1 .. Answers' - 2
      PROVE  \E j \in i .. i + 2 : Nack(j)'
  <2>1. CASE i + 2 = Answers'
    <3>1. p \in i .. i + 2 /\ p \in 1 .. Answers /\ p > 0
      BY <1>1, <1>2, <1>3, <2>1
    <3> QED BY <1>2, <1>3, <3>1
  <2>2. CASE i + 2 < Answers'
    <3>1. PICK j \in i .. i + 2 : Nack(j)
      BY <1>1, <1>2, <2>2 DEF Rows
    <3> QED BY <1>1, <1>2, <2>2, <3>1
  <2> QED BY <1>1, <1>2, <2>1, <2>2
<1>5. \E q \in 0 .. Answers' : (q > 0 => Nack(q)') /\ Answers' - q <= Run'
  <2>1. p \in 0 .. Answers' /\ Answers' - p <= Run' /\ (p > 0 => p \in 1 .. Answers)
    BY <1>1, <1>2, <1>3
  <2> QED BY <1>2, <1>3, <2>1
<1> QED BY <1>4, <1>5 DEF Rows

(* What is handled is what the phone sent. *)
LEMMA HandledCommand ==
  ASSUME TypeInv, Pairs, Reading, NEW cmd \in Put \cup {"bad"}, Handling(cmd)
  PROVE  /\ Unread > 0 /\ cmd \in Put /\ At(2).cmd = cmd /\ cells[2].part = "body" /\ cells[2].cmd = cmd
<1>1. rpc = "handle" /\ hdr.ep = "put" /\ cmd \in CommandAt(cells[2])
  BY DEF Handling, Handled
<1>2. used >= 2 /\ hdr \in HeaderAt(cells[1])
  BY <1>1 DEF Reading
<1>3. /\ Unread > 0 /\ cells[2].part = "body" /\ cells[2].cmd = cells[1].cmd
      /\ hdr = [ep |-> IF cells[1].cmd \in Put THEN "put" ELSE "other", len |-> 1, n |-> cells[1].n]
  BY <1>2, FirstMessage, Lengths
<1>4. cells[2].cmd \in Put
  BY <1>1, <1>3
<1>5. cmd = cells[2].cmd
  BY <1>1, <1>3, <1>4 DEF CommandAt
<1>6. At(2) = cells[2]
  BY <1>2, Lengths DEF At
<1> QED BY <1>3, <1>4, <1>5, <1>6

LEMMA NoInstallKept ==
  ASSUME TypeInv, Pairs, NoInstall, Kept
  PROVE  NoInstall'
<1> SUFFICES ASSUME NEW k \in 1 .. Unread PROVE At(2 * k)'.cmd # "install"
  BY DEF NoInstall, Kept
<1>1. 2 * k \in 1 .. Total /\ At(2 * k).cmd # "install"
  BY DEF Pairs, NoInstall
<1> QED BY <1>1 DEF Kept

LEMMA NoInstallConsume ==
  ASSUME TypeInv, Pairs, Reading, NoInstall, RxConsume
  PROVE  NoInstall'
<1>1. Unread' = Unread - 1 /\ \A i \in 1 .. Total - 2 : At(i)' = At(i + 2)
  BY StreamConsume
<1> SUFFICES ASSUME NEW k \in 1 .. Unread' PROVE At(2 * k)'.cmd # "install"
  BY DEF NoInstall
<1>2. k + 1 \in 1 .. Unread /\ 2 * k \in 1 .. Total - 2 /\ 2 * k + 2 = 2 * (k + 1)
  BY <1>1 DEF Pairs
<1> QED BY <1>1, <1>2 DEF NoInstall

LEMMA NoInstallSend ==
  ASSUME TypeInv, Pairs, NoInstall, NEW c \in Command, c # "install", Send(c),
         UNCHANGED <<done, used, chunk, cells, rpc>>
  PROVE  NoInstall'
<1>1. /\ Unread' = Unread + 1 /\ \A i \in 1 .. Total : At(i)' = At(i)
      /\ \A k \in 1 .. Unread' : k = Unread' => At(2 * k)'.cmd = c
  BY PairsSend
<1> SUFFICES ASSUME NEW k \in 1 .. Unread' PROVE At(2 * k)'.cmd # "install"
  BY DEF NoInstall
<1>2. CASE k = Unread'
  BY <1>1, <1>2
<1>3. CASE k # Unread'
  <2>1. k \in 1 .. Unread /\ 2 * k \in 1 .. Total
    BY <1>1, <1>3 DEF Pairs
  <2> QED BY <1>1, <2>1 DEF NoInstall
<1> QED BY <1>2, <1>3

LEMMA RowsStay ==
  ASSUME TypeInv, Rows, UNCHANGED <<step, acks, txn>>
  PROVE  Rows'
  BY DEF Rows, Answers, Taken, Nack, Run

(* Whatever the phone takes an answer for, the row of acknowledgements that    *)
(* leads to where it is has not become longer.                               *)
LEMMA RowsPhone ==
  ASSUME TypeInv, NotYet, Phone
  PROVE  Rows' /\ step' # "install"
<1>1. UNCHANGED <<txn, Run>> /\ Rows
  BY DEF Phone, StartPut, SendOther, TakeAnswer, GiveUp, Lose, OnlyPhone, trans, Run, NotYet
<1>2. CASE StartPut
  <2>1. step' = "init" /\ Taken' = Taken /\ UNCHANGED acks
    BY <1>2 DEF StartPut, Taken
  <2>2. Answers' = Answers - 0 /\ 0 \in 0 .. Answers /\ \A i \in 1 .. Answers - 0 : Nack(i + 0) => Nack(i)'
    BY <2>1, AnswerCounts DEF Answers, Nack
  <2> QED BY <1>1, <2>1, <2>2, RowsDrop
<1>3. CASE SendOther \/ Lose
  <2>1. UNCHANGED <<step, acks, txn>>
    BY <1>1, <1>3 DEF SendOther, Lose
  <2> QED BY <1>1, <2>1, RowsStay DEF NotYet
<1>4. CASE TakeAnswer
  <2>1. /\ acks # <<>> /\ acks' = Tail(acks) /\ Len(acks) > 0 /\ Head(acks) = acks[1]
        /\ Len(acks') = Len(acks) - 1 /\ \A i \in 1 .. Len(acks) - 1 : acks'[i] = acks[i + 1]
    BY <1>4, AnswerCounts, Taking DEF TakeAnswer
  <2>2. CASE step' = "idle"
    <3>1. Taken' = 0
      BY <2>2 DEF Taken
    <3> DEFINE d == Taken + 1
    <3>2. d \in 0 .. Answers /\ Answers' = Answers - d
      BY <2>1, <3>1, AnswerCounts DEF Answers
    <3>3. ASSUME NEW i \in 1 .. Answers - d, Nack(i + d)
          PROVE  Nack(i)'
      <4>1. i \in 1 .. Len(acks) - 1 /\ (i + d) - Taken = i + 1 /\ i - Taken' = i /\ i > Taken'
        BY <3>1, AnswerCounts DEF Answers
      <4> QED BY <2>1, <3>3, <4>1 DEF Nack
    <3> HIDE DEF d
    <3> QED BY <1>1, <2>2, <3>2, <3>3, RowsDrop
  <2>3. CASE Head(acks) = "ack" /\ step \in {"init", "transfer", "commit"} /\ step' = After(step)
    <3>1. step # "commit"
      <4> SUFFICES ASSUME step = "commit" PROVE FALSE
        OBVIOUS
      <4>1. Taken = 2 /\ Answers >= 3
        BY <2>1, AnswerCounts DEF Taken, Answers
      <4>2. PICK j \in 1 .. 3 : Nack(j)
        <5>1. 1 \in 1 .. Answers - 2 /\ 1 + 2 = 3
          BY <4>1, AnswerCounts
        <5>2. \E j \in 1 .. 1 + 2 : Nack(j)
          BY <1>1, <5>1 DEF Rows
        <5> QED BY <5>1, <5>2
      <4>3. j = 3 /\ j - Taken = 1 /\ acks[1] = "nack"
        BY <4>1, <4>2 DEF Nack
      <4> QED BY <2>1, <2>3, <4>3
    <3>2. Taken' = Taken + 1 /\ step' \in {"transfer", "commit"}
      BY <2>3, <3>1 DEF Taken, After
    <3>3. Answers' = Answers - 0 /\ 0 \in 0 .. Answers
      BY <2>1, <3>2, AnswerCounts DEF Answers
    <3>4. ASSUME NEW i \in 1 .. Answers - 0, Nack(i + 0)
          PROVE  Nack(i)'
      <4>1. i > Taken /\ acks[i - Taken] = "nack" /\ i - Taken # 1
        BY <2>1, <2>3, <3>4, AnswerCounts DEF Nack
      <4>2. (i - Taken) - 1 \in 1 .. Len(acks) - 1 /\ i - Taken' = (i - Taken) - 1 /\ i > Taken'
            /\ ((i - Taken) - 1) + 1 = i - Taken
        BY SMTT(60), <3>2, <4>1, AnswerCounts DEF Answers
      <4> QED BY <2>1, <4>1, <4>2 DEF Nack
    <3> QED BY <1>1, <3>2, <3>3, <3>4, RowsDrop
  <2> QED BY <1>4, <2>2, <2>3 DEF TakeAnswer
<1>5. CASE GiveUp
  <2>1. step' \in {"idle", "abort"} /\ UNCHANGED acks /\ Taken' = 0
    BY <1>5 DEF GiveUp, Taken
  <2>2. Taken \in 0 .. Answers /\ Answers' = Answers - Taken
    BY <2>1, AnswerCounts DEF Answers
  <2>3. ASSUME NEW i \in 1 .. Answers - Taken, Nack(i + Taken)
        PROVE  Nack(i)'
    <3>1. (i + Taken) - Taken = i /\ i - Taken' = i /\ i > Taken'
      BY <2>1, AnswerCounts
    <3> QED BY <2>1, <2>3, <3>1 DEF Nack
  <2> QED BY <1>1, <2>1, <2>2, <2>3, RowsDrop
<1> QED BY <1>2, <1>3, <1>4, <1>5 DEF Phone

(* Before the file is marked as written, every command but a commit leaves    *)
(* the rows what they were, or makes them end anew.                          *)
LEMMA RowsPut ==
  ASSUME TypeInv, TypeInv', Pairs, Reading, NotYet, ~file, ~file', up',
         PutInit \/ PutTransfer \/ PutCommit \/ PutInstall \/ PutAbort \/ PutBad
  PROVE  Rows'
<1>1. UNCHANGED step /\ Rows /\ txn \in [on : BOOLEAN, got : {0, 1}, good : BOOLEAN]
  BY DEF PutInit, PutTransfer, PutCommit, PutInstall, PutAbort, PutBad, Handling, Handled, NotYet,
         TypeInv, TransType
<1>2. CASE Terminate
  BY <1>1, <1>2, RowsNack DEF Terminate
<1>3. ~Fault
  BY DEF Fault
<1>4. CASE PutInit /\ ~Terminate
  <2>1. ~txn.on /\ ((txn' = [NoTxn EXCEPT !.on = TRUE] /\ Answer("ack")) \/ Answer("nack"))
    BY <1>3, <1>4 DEF PutInit
  <2>2. CASE txn' = [NoTxn EXCEPT !.on = TRUE] /\ Answer("ack")
    <3>1. Run = 0 /\ Run' = 1
      BY <2>1, <2>2 DEF Run, NoTxn
    <3> QED BY <1>1, <2>2, <3>1, RowsAck
  <2>3. CASE Answer("nack")
    BY <1>1, <2>3, RowsNack
  <2> QED BY <2>1, <2>2, <2>3
<1>5. CASE PutTransfer /\ ~Terminate
  <2>1. /\ txn.on /\ txn.got = 0 /\ Answer("ack")
        /\ txn' = [txn EXCEPT !.got = 1, !.good = cells[2].part = "body" /\ cells[2].cmd = "transfer"]
    BY <1>3, <1>5 DEF PutTransfer, NoTransaction
  <2>2. Run = 1 /\ Run' = 2
    BY <1>1, <2>1 DEF Run
  <2> QED BY <1>1, <2>1, <2>2, RowsAck
<1>6. CASE PutCommit /\ ~Terminate
  BY <1>3, <1>6 DEF PutCommit, NoTransaction
<1>7. ~PutInstall
  <2>1. PutInstall => Handling("install") /\ "install" \in Put
    BY DEF PutInstall, Put
  <2>2. Handling("install") => Unread > 0 /\ At(2).cmd = "install"
    BY <2>1, HandledCommand DEF Put
  <2>3. Unread > 0 => 1 \in 1 .. Unread /\ 2 * 1 = 2
    BY DEF Pairs
  <2> QED BY <2>1, <2>2, <2>3 DEF NotYet, NoInstall
<1> QED BY <1>2, <1>3, <1>4, <1>5, <1>6, <1>7 DEF PutAbort, PutBad

LEMMA FileNext ==
  ASSUME TypeInv, TypeInv', StreamInv, FileInv, [Next]_vars
  PROVE  FileInv'
<1>1. CASE ~up
  <2>1. UNCHANGED <<told, file, harm, up>>
    BY <1>1 DEF Next, vars, trans
  <2> QED BY <1>1, <2>1 DEF FileInv, DownloadIsWhole
<1>2. CASE harm
  <2>1. harm'
    BY <1>2, HarmStays
  <2> QED BY <2>1 DEF FileInv, DownloadIsWhole
<1>3. CASE UNCHANGED vars
  <2>1. UNCHANGED <<told, file, harm, up, step, acks, txn>> /\ (Pairs /\ Reading => Kept)
    BY <1>3, StreamOthers DEF vars, trans, phone
  <2> QED BY <2>1, NoInstallKept, RowsStay DEF FileInv, DownloadIsWhole, NotYet, StreamInv
<1>4. CASE up /\ ~harm /\ Next
  <2>1. Pairs /\ Reading
    BY <1>4 DEF StreamInv
  <2> DEFINE Puts == PutInit \/ PutTransfer \/ PutCommit \/ PutInstall \/ PutAbort \/ PutBad
             Rest2 == \/ Bt \/ RxReceive \/ RxRead \/ RxTest \/ RxLock \/ HandleOther
                      \/ QueuePacket \/ Tx \/ Ages \/ TimerOver
  <2>2. Phone \/ Puts \/ RxConsume \/ PutTimeout \/ Rest2
    BY <1>4 DEF Next, Rx
  <2>3. CASE Phone /\ ~harm'
    <3>1. UNCHANGED <<file, told, done, used, chunk, cells, rpc>>
      BY <2>3 DEF Phone, StartPut, SendOther, TakeAnswer, GiveUp, Lose, OnlyPhone, trans, buffer, btTask, reader
    <3>2. ASSUME NotYet
          PROVE  NotYet'
      <4>1. Rows' /\ step' # "install"
        BY <2>3, <3>2, RowsPhone
      <4>2. \/ \E c \in Command : c # "install" /\ Send(c)
            \/ UNCHANGED <<out, sent>>
        <5>1. ~Lose
          BY <2>3 DEF Lose
        <5>2. CASE TakeAnswer
          BY <4>1, <5>2 DEF TakeAnswer, After, Command, Put
        <5> QED BY <2>3, <5>1, <5>2 DEF Phone, StartPut, SendOther, GiveUp, Command, Put
      <4>3. NoInstall'
        <5>1. CASE \E c \in Command : c # "install" /\ Send(c)
          BY <2>1, <3>1, <3>2, <5>1, NoInstallSend DEF NotYet
        <5>2. CASE UNCHANGED <<out, sent>>
          BY <2>1, <3>1, <3>2, <5>2, PairsFrame, NoInstallKept DEF NotYet
        <5> QED BY <4>2, <5>1, <5>2
      <4> QED BY <4>1, <4>3 DEF NotYet
    <3> QED BY <1>4, <3>1, <3>2 DEF FileInv, DownloadIsWhole
  <2>4. CASE Puts
    <3>1. Handled
      BY <2>4 DEF PutInit, PutTransfer, PutCommit, PutInstall, PutAbort, PutBad, Handling
    <3>2. file => file'
      BY <2>4 DEF PutInit, PutTransfer, PutCommit, PutInstall, PutAbort, PutBad, Terminate, Fault,
                  NoTransaction, trans
    <3>3. ASSUME NotYet
          PROVE  told' = told /\ NoInstall' /\ (up' /\ ~file /\ ~file' => NotYet')
      <4>1. ~PutInstall
        <5>1. Handling("install") /\ "install" \in Put => Unread > 0 /\ At(2).cmd = "install"
          BY <2>1, HandledCommand
        <5>2. Unread > 0 => 1 \in 1 .. Unread /\ 2 * 1 = 2
          BY <2>1 DEF Pairs
        <5> QED BY <3>3, <5>1, <5>2 DEF PutInstall, NotYet, NoInstall, Put
      <4>2. told' = told
        BY <2>4, <4>1 DEF PutInit, PutTransfer, PutCommit, PutAbort, PutBad, Terminate, Fault,
                          NoTransaction, trans
      <4>3. NoInstall'
        BY <2>1, <3>1, <3>3, StreamHandle, NoInstallKept DEF NotYet
      <4>4. step' = step
        BY <3>1 DEF Handled
      <4> QED BY <2>1, <2>4, <3>3, <4>2, <4>3, <4>4, RowsPut DEF NotYet
    <3>4. harm' = harm
      BY <3>1 DEF Handled
    <3>5. told' => file'
      <4>1. CASE file
        BY <3>2, <4>1
      <4>2. CASE ~file
        BY <1>4, <3>3, <4>2 DEF FileInv, DownloadIsWhole
      <4> QED BY <4>1, <4>2
    <3>6. up' /\ ~file' => NotYet'
      BY <1>4, <3>2, <3>3 DEF FileInv
    <3> QED BY <3>5, <3>6 DEF FileInv, DownloadIsWhole
  <2>5. CASE RxConsume
    <3>1. UNCHANGED <<told, file, harm, up, step, acks, txn>>
      BY <2>5 DEF RxConsume, Rest, trans, phone
    <3>2. NotYet => NotYet'
      BY <2>1, <2>5, <3>1, NoInstallConsume, RowsStay DEF NotYet
    <3> QED BY <3>1, <3>2 DEF FileInv, DownloadIsWhole
  <2>6. CASE PutTimeout
    <3>1. UNCHANGED <<told, file, harm, step>> /\ Answer("nack")
      BY <2>6 DEF PutTimeout, Terminate
    <3>2. NotYet => NotYet'
      BY <2>1, <2>6, <3>1, StreamOthers, NoInstallKept, RowsNack DEF NotYet
    <3> QED BY <1>4, <3>1, <3>2 DEF FileInv, DownloadIsWhole
  <2>7. CASE Rest2 /\ ~harm'
    <3>1. UNCHANGED <<told, file, step, acks, txn>>
      <4>1. CASE Bt
        BY <4>1 DEF Bt, BtData, BtAppend, BtTimeout, BtKick, phone, trans
      <4>2. CASE RxReceive \/ RxRead \/ RxTest \/ RxLock \/ HandleOther
        BY <4>2 DEF RxReceive, RxRead, RxTest, RxLock, HandleOther, Handled, Rest, phone, trans
      <4>3. CASE QueuePacket \/ Tx \/ Ages \/ TimerOver
        BY <4>3 DEF QueuePacket, Tx, TxReceive, TxRequeue, TxLock, TxSend, OnlySender, Ages, TimerOver, phone, trans
      <4> QED BY <2>7, <4>1, <4>2, <4>3
    <3>2. Kept
      <4>1. HandleOther => Handled
        BY DEF HandleOther
      <4> QED BY <2>1, <2>7, <4>1, StreamBt, StreamRead, StreamHandle, StreamOthers
    <3>3. NotYet => NotYet'
      BY <2>1, <3>1, <3>2, NoInstallKept, RowsStay DEF NotYet
    <3> QED BY <1>4, <3>1, <3>3 DEF FileInv, DownloadIsWhole
  <2>8. CASE harm'
    BY <2>8 DEF FileInv, DownloadIsWhole
  <2> QED BY <2>2, <2>3, <2>4, <2>5, <2>6, <2>7, <2>8
<1> QED BY <1>1, <1>2, <1>3, <1>4

(* The installation announces the application without a test of its file      *)
(* (protocol_transfer.c:258-261).  It is the answers that keep it in order:   *)
(* even a phone that takes them for answers to other commands has got three   *)
(* acknowledgements in a row when it asks for the installation, and three in  *)
(* a row are never given before a commit that marked the file.               *)
THEOREM OnlyWholeDownloadsAreTold == Spec => []DownloadIsWhole
<1>1. FileInv => DownloadIsWhole
  BY DEF FileInv
<1>2. Init => TypeInv /\ StreamInv /\ FileInv
  BY TypeInit, StreamInit, FileInit
<1>3. TypeInv /\ StreamInv /\ FileInv /\ [Next]_vars => (TypeInv /\ StreamInv /\ FileInv)'
  BY TypeNext, StreamNext, FileNext
<1> QED BY <1>1, <1>2, <1>3, PTL DEF Spec
-----------------------------------------------------------------------------
(* The messages of a transfer that the watch has still to handle. *)
Pending == {k \in (IF rpc = "consume" THEN 2 ELSE 1) .. Unread : At(2 * k).cmd \in Put}

(* The transaction is where the command that the phone waits for finds it.   *)
Expected ==
  /\ acks = <<>> /\ step \in {"init", "transfer", "commit", "install"}
  /\ (txn.on <=> step # "init")
  /\ step = "transfer" => txn.got = 0
  /\ step \in {"commit", "install"} => txn.got = 1 /\ txn.good

OneAtATime ==
  /\ \A j \in Pending, k \in Pending : j = k
  /\ \A k \in Pending : At(2 * k).cmd = step
  /\ Pending # {} => Expected

(* An answer tells the phone what has become of the transaction. *)
Answered ==
  /\ step # "idle" => Len(acks) <= 1
  /\ step # "idle" /\ acks # <<>> =>
       /\ acks[1] = "nack" => ~txn.on
       /\ acks[1] = "ack" => /\ (txn.on <=> step # "install")
                             /\ step = "init" => txn.got = 0
                             /\ step \in {"transfer", "commit"} => txn.got = 1 /\ txn.good

(* Nothing else of the watch uses the mutex, and the timer only goes off when *)
(* the phone will send nothing more.                                         *)
Quietly ==
  /\ txnLock # "tx" /\ txq = <<>> /\ tpc = "wait"
  /\ timer # "off" => txn.on
  /\ timer = "over" => step = "idle" /\ sent = MaxMessages[env]
  /\ step = "idle" /\ sent < MaxMessages[env] => acks = <<>> /\ ~txn.on
  /\ step # "abort"

Calm == up /\ Quietly /\ OneAtATime /\ Answered

CalmInv == env \subseteq {"chats"} /\ ~harm => Calm

LEMMA CalmInit == Init => CalmInv
<1> SUFFICES ASSUME Init PROVE Calm
  BY DEF CalmInv
<1>1. Unread = 0 /\ rpc = "wait"
  BY DEF Init, Unread
<1>2. Pending = {}
  BY <1>1 DEF Pending
<1>3. OneAtATime
  BY <1>2 DEF OneAtATime
<1> QED BY <1>3 DEF Init, Calm, Quietly, Answered, NoTxn

LEMMA PendingKept ==
  ASSUME TypeInv, Pairs, Kept, rpc = "consume" => rpc' = "consume"
  PROVE  \A k \in Pending' : k \in Pending /\ At(2 * k)' = At(2 * k)
<1> SUFFICES ASSUME NEW k \in (IF rpc' = "consume" THEN 2 ELSE 1) .. Unread, At(2 * k)'.cmd \in Put
             PROVE  k \in Pending /\ At(2 * k)' = At(2 * k)
  BY DEF Pending, Kept
<1>1. Unread \in Nat /\ Total = 2 * Unread
  BY DEF Pairs
<1>2. k \in 1 .. Unread
  BY <1>1
<1>3. 2 * k \in 1 .. Total
  BY <1>1, <1>2
<1>4. At(2 * k)' = At(2 * k)
  BY <1>3 DEF Kept
<1>5. k \in (IF rpc = "consume" THEN 2 ELSE 1) .. Unread
  BY <1>1
<1> QED BY <1>4, <1>5 DEF Pending

(* A step that leaves the conversation and the transaction alone. *)
LEMMA CalmFrame ==
  ASSUME TypeInv, Pairs, Calm, Kept, rpc = "consume" => rpc' = "consume", env' = env,
         UNCHANGED <<step, acks, sent, txn, timer, txq, tpc>>, up', txnLock' # "tx"
  PROVE  Calm'
<1>1. \A k \in Pending' : k \in Pending /\ At(2 * k)' = At(2 * k)
  BY PendingKept
<1>2. Expected' = Expected
  BY DEF Expected
<1>3. OneAtATime'
  <2>1. \A j \in Pending', k \in Pending' : j = k
    BY <1>1 DEF Calm, OneAtATime
  <2>2. ASSUME NEW k \in Pending'
        PROVE  At(2 * k)'.cmd = step'
    BY <1>1 DEF Calm, OneAtATime
  <2>3. Pending' # {} => Expected'
    BY <1>1, <1>2 DEF Calm, OneAtATime
  <2> QED BY <2>1, <2>2, <2>3 DEF OneAtATime
<1> QED BY <1>3 DEF Calm, Quietly, Answered

(* The phone asks, with no answer left and nothing else of it unread. *)
LEMMA PendingSend ==
  ASSUME TypeInv, Pairs, NEW c \in Command, Send(c), UNCHANGED <<done, used, chunk, cells, rpc>>
  PROVE  \A k \in Pending' : /\ (k \in Pending /\ At(2 * k)' = At(2 * k)) \/ (k = Unread' /\ c \in Put)
                             /\ k = Unread' => At(2 * k)'.cmd = c
<1>1. /\ Unread' = Unread + 1 /\ \A i \in 1 .. Total : At(i)' = At(i)
      /\ \A k \in 1 .. Unread' : k = Unread' => At(2 * k)'.cmd = c
  BY PairsSend
<1>2. Unread \in Nat /\ Total = 2 * Unread
  BY DEF Pairs
<1> SUFFICES ASSUME NEW k \in (IF rpc = "consume" THEN 2 ELSE 1) .. Unread', At(2 * k)'.cmd \in Put
             PROVE  /\ (k \in Pending /\ At(2 * k)' = At(2 * k)) \/ (k = Unread' /\ c \in Put)
                    /\ k = Unread' => At(2 * k)'.cmd = c
  BY DEF Pending
<1>3. k \in 1 .. Unread'
  BY <1>1, <1>2
<1>4. CASE k = Unread'
  BY <1>1, <1>3, <1>4
<1>5. CASE k # Unread'
  <2>1. k \in (IF rpc = "consume" THEN 2 ELSE 1) .. Unread /\ 2 * k \in 1 .. Total
    BY <1>1, <1>2, <1>3, <1>5
  <2>2. At(2 * k)' = At(2 * k)
    BY <1>1, <2>1
  <2> QED BY <1>5, <2>1, <2>2 DEF Pending
<1> QED BY <1>4, <1>5

LEMMA CalmAsks ==
  ASSUME TypeInv, Pairs, Calm, env' = env, NEW c \in {"init", "transfer", "commit", "install"}, Send(c),
         UNCHANGED <<done, used, chunk, cells, rpc, txn, timer, txq, tpc, txnLock>>, up',
         step' = c, acks' = <<>>, Pending = {}, timer # "over", Expected'
  PROVE  Calm'
<1>1. \A k \in Pending' : k = Unread' /\ At(2 * k)'.cmd = c
  BY PendingSend DEF Command, Put
<1>2. OneAtATime'
  <2>1. \A j \in Pending', k \in Pending' : j = k
    BY <1>1
  <2>2. ASSUME NEW k \in Pending'
        PROVE  At(2 * k)'.cmd = step'
    BY <1>1
  <2> QED BY <2>1, <2>2 DEF OneAtATime
<1> QED BY <1>2 DEF Calm, Quietly, Answered

LEMMA CalmPhone ==
  ASSUME TypeInv, Pairs, Calm, Phone, env \subseteq {"chats"}
  PROVE  Calm'
<1>1. /\ UNCHANGED <<done, used, chunk, cells, rpc, txn, timer, txq, tpc, txnLock, up>> /\ env' = env
  BY DEF Phone, StartPut, SendOther, TakeAnswer, GiveUp, Lose, OnlyPhone, trans, buffer, btTask, reader, sender
<1>2. ~GiveUp /\ ~Lose
  BY DEF GiveUp, Lose, Quits, Loss
<1>3. sent \in 0 .. MaxMessages[env] /\ MaxMessages[env] \in Nat /\ acks \in Seq({"ack", "nack"})
  BY MostIsNat DEF TypeInv, PhoneType, SenderType
<1>4. CASE StartPut
  <2>1. step = "idle" /\ sent < MaxMessages[env] /\ Send("init") /\ step' = "init" /\ UNCHANGED acks
    BY <1>4 DEF StartPut, Send, MaySend
  <2>2. acks = <<>> /\ ~txn.on /\ timer # "over"
    BY <2>1 DEF Calm, Quietly
  <2>3. Pending = {}
    BY <2>1 DEF Calm, OneAtATime, Expected
  <2>4. Expected'
    BY <1>1, <2>1, <2>2 DEF Expected
  <2>5. up'
    BY <1>1 DEF Calm
  <2> QED BY <1>1, <2>1, <2>2, <2>3, <2>4, <2>5, CalmAsks
<1>5. CASE SendOther
  <2>1. sent < MaxMessages[env] /\ Send("other") /\ UNCHANGED <<step, acks>> /\ sent' = sent + 1
        /\ "other" \in Command /\ "other" \notin Put
    BY <1>5 DEF SendOther, Send, MaySend, Command, Put
  <2>2. timer # "over"
    BY <1>3, <2>1 DEF Calm, Quietly
  <2>3. \A k \in Pending' : k \in Pending /\ At(2 * k)' = At(2 * k)
    BY <1>1, <2>1, PendingSend
  <2>4. OneAtATime'
    <3>1. \A j \in Pending', k \in Pending' : j = k
      BY <2>3 DEF Calm, OneAtATime
    <3>2. ASSUME NEW k \in Pending'
          PROVE  At(2 * k)'.cmd = step'
      BY <2>1, <2>3 DEF Calm, OneAtATime
    <3>3. Expected' = Expected
      BY <1>1, <2>1 DEF Expected
    <3>4. Pending' # {} => Expected'
      BY <2>3, <3>3 DEF Calm, OneAtATime
    <3> QED BY <3>1, <3>2, <3>4 DEF OneAtATime
  <2>5. Quietly'
    BY <1>1, <1>3, <2>1, <2>2 DEF Calm, Quietly
  <2> QED BY <1>1, <2>1, <2>4, <2>5 DEF Calm, Answered
<1>6. CASE TakeAnswer
  <2>1. /\ acks # <<>> /\ acks' = Tail(acks) /\ Head(acks) = acks[1] /\ acks[1] \in {"ack", "nack"}
        /\ Len(acks') = Len(acks) - 1 /\ Len(acks) \in Nat /\ acks' \in Seq({"ack", "nack"})
    BY <1>3, <1>6, Taking DEF TakeAnswer
  <2>2. Pending = {}
    BY <2>1 DEF Calm, OneAtATime, Expected
  <2>3. step # "idle" => acks' = <<>>
    BY <2>1 DEF Calm, Answered
  <2>4. CASE Head(acks) = "ack" /\ step \in {"init", "transfer", "commit"} /\ Send(After(step)) /\ step' = After(step)
    <3>1. /\ timer # "over" /\ acks' = <<>> /\ txn.on /\ (step = "init" => txn.got = 0)
          /\ (step \in {"transfer", "commit"} => txn.got = 1 /\ txn.good)
      BY <2>1, <2>3, <2>4 DEF Calm, Quietly, Answered
    <3> DEFINE c == After(step)
    <3>2. c \in {"transfer", "commit", "install"} /\ (c = "transfer" => step = "init")
          /\ (c \in {"commit", "install"} => step \in {"transfer", "commit"})
      BY <2>4 DEF After
    <3>3. step' = c /\ Send(c)
      BY <2>4
    <3> HIDE DEF c
    <3>4. Expected'
      BY <1>1, <3>1, <3>2, <3>3 DEF Expected
    <3>5. up'
      BY <1>1 DEF Calm
    <3> QED BY <1>1, <2>2, <3>1, <3>2, <3>3, <3>4, <3>5, CalmAsks
  <2>5. CASE /\ Head(acks) = "nack" \/ step \in {"idle", "install", "abort"} \/ sent = MaxMessages[env]
             /\ step' = "idle" /\ UNCHANGED <<out, sent>>
    <3>1. sent < MaxMessages[env] => acks' = <<>> /\ ~txn.on
      BY <1>3, <2>1, <2>3, <2>5 DEF Calm, Quietly, Answered
    <3>2. timer = "over" => sent = MaxMessages[env]
      BY DEF Calm, Quietly
    <3>3. Quietly'
      BY <1>1, <2>5, <3>1, <3>2 DEF Calm, Quietly
    <3>4. Pending' = Pending
      BY <1>1, <2>5 DEF Pending, Unread, At
    <3>5. OneAtATime'
      BY <2>2, <3>4 DEF OneAtATime
    <3> QED BY <1>1, <2>5, <3>3, <3>5 DEF Calm, Answered
  <2> QED BY <1>6, <2>4, <2>5 DEF TakeAnswer
<1> QED BY <1>2, <1>4, <1>5, <1>6 DEF Phone

(* The rx task answers the command that the phone waits for. *)
LEMMA CalmAnswers ==
  ASSUME TypeInv, Pairs, Reading, Calm, env' = env, Handled, NEW a \in {"ack", "nack"}, Answer(a), 1 \in Pending,
         up', txnLock' # "tx",
         timer' # "over", timer' # "off" => txn'.on,
         a = "nack" => ~txn'.on,
         a = "ack" => /\ (txn'.on <=> step # "install")
                      /\ step = "init" => txn'.got = 0
                      /\ step \in {"transfer", "commit"} => txn'.got = 1 /\ txn'.good
  PROVE  Calm'
<1>1. UNCHANGED <<step, sent, txq, tpc>> /\ rpc' = "consume" /\ rpc # "consume"
  BY DEF Handled, sender
<1>2. Expected /\ Len(acks') = 1 /\ acks'[1] = a
  <2>1. Expected
    BY DEF Calm, OneAtATime
  <2> QED BY <2>1 DEF Expected, Answer
<1>3. Pending' = {}
  <2>1. \A k \in Pending' : k \in Pending
    BY <1>1, StreamHandle, PendingKept
  <2>2. \A k \in Pending' : k = 1
    BY <2>1 DEF Calm, OneAtATime
  <2>3. 1 \notin Pending'
    BY <1>1 DEF Pending
  <2> QED BY <2>2, <2>3
<1>4. OneAtATime'
  BY <1>3 DEF OneAtATime
<1>5. step # "idle" /\ step # "abort"
  BY <1>2 DEF Expected
<1>6. Quietly'
  BY <1>1, <1>5 DEF Calm, Quietly
<1>7. Answered'
  BY <1>1, <1>2 DEF Answered
<1> QED BY <1>4, <1>6, <1>7 DEF Calm

LEMMA CalmPut ==
  ASSUME TypeInv, Pairs, Reading, LockInv, Calm, env \subseteq {"chats"}, env' = env,
         PutInit \/ PutTransfer \/ PutCommit \/ PutInstall \/ PutAbort \/ PutBad
  PROVE  Calm'
<1>1. PICK cmd \in Put \cup {"bad"} :
        /\ Handling(cmd)
        /\ \/ cmd = "init" /\ PutInit
           \/ cmd = "transfer" /\ PutTransfer
           \/ cmd = "commit" /\ PutCommit
           \/ cmd = "install" /\ PutInstall
           \/ cmd = "abort" /\ PutAbort
           \/ cmd = "bad" /\ PutBad
  BY DEF PutInit, PutTransfer, PutCommit, PutInstall, PutAbort, PutBad, Put
<1>2. /\ Unread > 0 /\ cmd \in Put /\ At(2).cmd = cmd /\ cells[2].part = "body" /\ cells[2].cmd = cmd
  BY <1>1, HandledCommand
<1>3. Handled /\ rpc = "handle"
  BY <1>1 DEF Handling, Handled
<1>4. 1 \in Pending /\ 2 * 1 = 2
  BY <1>2, <1>3 DEF Pending, Pairs
<1>5. step = cmd /\ Expected
  BY <1>2, <1>4 DEF Calm, OneAtATime
<1>6. up /\ txnLock # "tx" /\ txn \in [on : BOOLEAN, got : {0, 1}, good : BOOLEAN] /\ (txnLock = "rx" <=> txn.on)
      /\ txnLock \in {"none", "rx", "tx"} /\ timer # "over" /\ ~Strict /\ (timer # "off" => txn.on)
  BY <1>5 DEF Calm, Quietly, Expected, LockInv, LockMatchesTransfer, Strict
<1>7. CASE cmd = "init" /\ PutInit
  <2>1. ~txn.on /\ txnLock = "none"
    BY <1>5, <1>6, <1>7 DEF Expected
  <2>2. \/ /\ txnLock' = "rx" /\ txn' = [NoTxn EXCEPT !.on = TRUE] /\ timer' = "on"
           /\ Answer("ack") /\ UNCHANGED <<file, told, up>>
        \/ Answer("nack") /\ UNCHANGED <<txnLock, trans, up>>
    BY <1>6, <1>7, <2>1 DEF PutInit
  <2>3. CASE /\ txnLock' = "rx" /\ txn' = [NoTxn EXCEPT !.on = TRUE] /\ timer' = "on"
             /\ Answer("ack") /\ UNCHANGED <<file, told, up>>
    BY <1>3, <1>4, <1>5, <1>6, <1>7, <2>3, CalmAnswers DEF NoTxn
  <2>4. CASE Answer("nack") /\ UNCHANGED <<txnLock, trans, up>>
    BY <1>3, <1>4, <1>5, <1>6, <1>7, <2>1, <2>4, CalmAnswers DEF trans
  <2> QED BY <2>2, <2>3, <2>4
<1>8. CASE cmd = "transfer" /\ PutTransfer
  <2>1. txn.on /\ txn.got = 0
    BY <1>5, <1>8 DEF Expected
  <2>2. /\ txn' = [txn EXCEPT !.got = 1, !.good = cells[2].part = "body" /\ cells[2].cmd = "transfer"]
        /\ timer' = "on" /\ Answer("ack") /\ UNCHANGED <<txnLock, up>>
    BY <1>8, <2>1 DEF PutTransfer, NoTransaction
  <2>3. txn'.on /\ txn'.got = 1 /\ txn'.good
    BY <1>2, <1>6, <1>8, <2>1, <2>2
  <2> QED BY <1>3, <1>4, <1>5, <1>6, <1>8, <2>2, <2>3, CalmAnswers
<1>9. CASE cmd = "commit" /\ PutCommit
  <2>1. txn.on /\ txn.got = 1 /\ txn.good
    BY <1>5, <1>9 DEF Expected
  <2>2. timer' = "on" /\ Answer("ack") /\ UNCHANGED <<txnLock, txn, told, up>>
    BY <1>9, <2>1 DEF PutCommit, NoTransaction
  <2> QED BY <1>3, <1>4, <1>5, <1>6, <1>9, <2>1, <2>2, CalmAnswers
<1>10. CASE cmd = "install" /\ PutInstall
  <2>1. txn.on /\ txnLock = "rx"
    BY <1>5, <1>6, <1>10 DEF Expected
  <2>2. Answer("ack") /\ GiveTxn("rx") /\ txn' = NoTxn /\ timer' = "off"
    BY <1>10, <2>1 DEF PutInstall
  <2>3. txnLock' = "none" /\ up' /\ ~txn'.on
    BY <2>1, <2>2 DEF GiveTxn, NoTxn
  <2> QED BY <1>3, <1>4, <1>5, <1>10, <2>2, <2>3, CalmAnswers
<1>11. CASE cmd \in {"abort", "bad"}
  BY <1>2, <1>5, <1>11 DEF Expected, Put
<1> QED BY <1>1, <1>7, <1>8, <1>9, <1>10, <1>11

LEMMA CalmConsume ==
  ASSUME TypeInv, Pairs, Reading, Calm, RxConsume
  PROVE  Calm'
<1>1. UNCHANGED <<step, acks, sent, txn, timer, txq, tpc, up, txnLock>> /\ rpc = "consume" /\ rpc' = "read" /\ env' = env
  BY DEF RxConsume, Rest, phone, trans, sender
<1>2. Unread' = Unread - 1 /\ (\A i \in 1 .. Total - 2 : At(i)' = At(i + 2)) /\ Unread \in Nat /\ Total = 2 * Unread
  BY StreamConsume DEF Pairs
<1>3. ASSUME NEW k \in Pending'
      PROVE  k + 1 \in Pending /\ At(2 * k)' = At(2 * (k + 1)) /\ k \in Nat
  <2>1. k \in 1 .. Unread' /\ At(2 * k)'.cmd \in Put
    BY <1>1, <1>3 DEF Pending
  <2>2. 2 * k \in 1 .. Total - 2 /\ 2 * (k + 1) = 2 * k + 2 /\ k + 1 \in 2 .. Unread
    BY <1>2, <2>1
  <2>3. At(2 * k)' = At(2 * (k + 1))
    BY <1>2, <2>2
  <2> QED BY <1>1, <2>1, <2>2, <2>3 DEF Pending
<1>4. OneAtATime'
  <2>1. ASSUME NEW j \in Pending', NEW k \in Pending'
        PROVE  j = k
    <3>1. j + 1 = k + 1 /\ j \in Nat /\ k \in Nat
      BY <1>3 DEF Calm, OneAtATime
    <3> QED BY <3>1
  <2>2. ASSUME NEW k \in Pending'
        PROVE  At(2 * k)'.cmd = step'
    BY <1>1, <1>3 DEF Calm, OneAtATime
  <2>3. Expected' = Expected
    BY <1>1 DEF Expected
  <2>4. Pending' # {} => Expected'
    BY <1>3, <2>3 DEF Calm, OneAtATime
  <2> QED BY <2>1, <2>2, <2>4 DEF OneAtATime
<1> QED BY <1>1, <1>4 DEF Calm, Quietly, Answered

(* The timer can only run out when the phone has nothing more to send. *)
LEMMA CalmOver ==
  ASSUME TypeInv, Pairs, Calm, env \subseteq {"chats"}, ~harm, TimerOver
  PROVE  Calm'
<1>1. /\ timer = "on" /\ timer' = "over" /\ step = "idle" /\ env' = env
      /\ UNCHANGED <<step, acks, sent, txn, txq, tpc, up, txnLock, rpc, used, cells, chunk, out, done>>
  BY DEF TimerOver, Quiet, Late, Slow, phone, buffer, btTask, reader, sender
<1>2. txn.on /\ ~(sent < MaxMessages[env])
  BY <1>1 DEF Calm, Quietly
<1>3. sent = MaxMessages[env]
  BY <1>2, MostIsNat DEF TypeInv, PhoneType, SenderType
<1>4. Pending' = Pending /\ Pending = {}
  <2>1. Pending = {}
    BY <1>1 DEF Calm, OneAtATime, Expected
  <2> QED BY <1>1, <2>1 DEF Pending, Unread, At
<1>5. OneAtATime'
  BY <1>4 DEF OneAtATime
<1> QED BY <1>1, <1>2, <1>3, <1>5 DEF Calm, Quietly, Answered

LEMMA CalmTimeout ==
  ASSUME TypeInv, Pairs, LockInv, Calm, PutTimeout
  PROVE  Calm'
<1>1. /\ timer = "over" /\ env' = env /\ Terminate
      /\ UNCHANGED <<step, sent, txq, tpc, rpc, used, cells, chunk, out, done>>
  BY DEF PutTimeout, buffer, btTask, reader, sender
<1>2. step = "idle" /\ sent = MaxMessages[env] /\ txnLock # "tx"
  BY <1>1 DEF Calm, Quietly
<1>3. up' /\ txnLock' = "none" /\ txn' = NoTxn /\ timer' = "off"
  BY <1>1, <1>2 DEF Terminate, GiveTxn, LockInv
<1>4. Pending' = {}
  <2>1. Pending = {}
    BY <1>2 DEF Calm, OneAtATime, Expected
  <2> QED BY <1>1, <2>1 DEF Pending, Unread, At
<1>5. OneAtATime'
  BY <1>4 DEF OneAtATime
<1>6. MaxMessages[env] \in Nat
  BY MostIsNat DEF TypeInv, SenderType
<1> QED BY <1>1, <1>2, <1>3, <1>5, <1>6 DEF Calm, Quietly, Answered

LEMMA CalmNext ==
  ASSUME TypeInv, LockInv, StreamInv, CalmInv, [Next]_vars
  PROVE  CalmInv'
<1>1. env' = env /\ (harm => harm')
  BY EnvStays, HarmStays
<1> SUFFICES ASSUME env \subseteq {"chats"}, ~harm, ~harm' PROVE Calm'
  BY <1>1 DEF CalmInv
<1>2. Pairs /\ Reading /\ Calm
  BY DEF StreamInv, CalmInv
<1>3. CASE Bt
  <2>1. ~BtTimeout
    BY DEF BtTimeout, Slow
  <2>2. UNCHANGED <<step, acks, sent, txn, timer, txq, tpc, rpc, txnLock, up>>
    BY <1>3, <2>1 DEF Bt, BtData, BtAppend, BtKick, phone, trans, sender, reader
  <2>3. Kept
    BY <1>2, <1>3, StreamBt
  <2>4. up' /\ txnLock' # "tx"
    BY <1>2, <2>2 DEF Calm, Quietly
  <2> QED BY <1>1, <1>2, <2>2, <2>3, <2>4, CalmFrame
<1>4. CASE RxReceive \/ RxRead \/ RxTest \/ RxLock \/ HandleOther
  <2>1. UNCHANGED <<step, acks, sent, txn, timer, txq, tpc, txnLock, up>> /\ rpc # "consume"
    BY <1>4 DEF RxReceive, RxRead, RxTest, RxLock, HandleOther, Handled, Rest, phone, trans, sender
  <2>2. Kept
    BY <1>2, <1>4, StreamRead, StreamHandle DEF HandleOther
  <2>3. up' /\ txnLock' # "tx"
    BY <1>2, <2>1 DEF Calm, Quietly
  <2> QED BY <1>1, <1>2, <2>1, <2>2, <2>3, CalmFrame
<1>5. ~QueuePacket /\ ~Tx /\ ~Ages
  <2>1. ~QueuePacket /\ ~Ages
    BY DEF QueuePacket, Busy, Ages, Late, Slow
  <2>2. ~Tx
    BY <1>2 DEF Tx, TxReceive, TxRequeue, TxLock, TxSend, Calm, Quietly
  <2> QED BY <2>1, <2>2
<1>6. CASE UNCHANGED vars
  <2>1. UNCHANGED <<step, acks, sent, txn, timer, txq, tpc, txnLock, up, rpc>>
    BY <1>6 DEF vars, phone, trans, sender, reader
  <2>2. Kept
    BY <1>2, <1>6, StreamOthers
  <2>3. up' /\ txnLock' # "tx"
    BY <1>2, <2>1 DEF Calm, Quietly
  <2> QED BY <1>1, <1>2, <2>1, <2>2, <2>3, CalmFrame
<1> QED BY <1>1, <1>2, <1>3, <1>4, <1>5, <1>6, CalmPhone, CalmPut, CalmConsume, CalmOver, CalmTimeout DEF Next, Rx

(* What can go wrong when no other task sends, and tasks are not slow: the tx  *)
(* task does nothing, so the mutex is free or with a transfer.               *)
Alone == txq = <<>> /\ tpc = "wait" /\ txnLock # "tx"

AloneInv == env \cap {"slow", "busy"} = {} /\ ~harm => Alone /\ (up \/ FoundNone)

LEMMA AloneInit == Init => AloneInv
  BY DEF Init, AloneInv, Alone

(* A command ends well, unless it finds no transaction. *)
LEMMA AlonePut ==
  ASSUME TypeInv, Pairs, Reading, LockInv, Alone, up,
         PutInit \/ PutTransfer \/ PutCommit \/ PutInstall \/ PutAbort \/ PutBad
  PROVE  Alone' /\ (up' \/ FoundNone')
<1>1. UNCHANGED <<txq, tpc, hdr>> /\ hdr.ep = "put" /\ rpc' = "consume"
  BY DEF PutInit, PutTransfer, PutCommit, PutInstall, PutAbort, PutBad, Handling, Handled, sender
<1>2. ~PutBad
  <2> SUFFICES ASSUME Handling("bad") PROVE FALSE
    BY DEF PutBad
  <2>1. "bad" \in Put
    BY HandledCommand
  <2> QED BY <2>1 DEF Put
<1>3. txnLock \in {"none", "rx"}
  BY DEF Alone, LockInv
<1>4. CASE Terminate \/ GiveTxn("rx")
  <2>1. txnLock' = "none" /\ up'
    BY <1>3, <1>4 DEF Terminate, GiveTxn
  <2> QED BY <1>1, <2>1 DEF Alone
<1>5. CASE Fault /\ ~txn.on
  <2>1. UNCHANGED <<txnLock, txn>>
    BY <1>5 DEF Fault, trans
  <2> QED BY <1>1, <1>5, <2>1 DEF Alone, FoundNone
<1>6. CASE up' = up /\ txnLock' \in {txnLock, "rx"}
  BY <1>1, <1>3, <1>6 DEF Alone
<1>7. CASE PutInit
  BY <1>4, <1>5, <1>6, <1>7 DEF PutInit
<1>8. CASE PutTransfer
  BY <1>4, <1>5, <1>6, <1>8 DEF PutTransfer, NoTransaction
<1>9. CASE PutCommit
  BY <1>4, <1>5, <1>6, <1>9 DEF PutCommit, NoTransaction
<1>10. CASE PutInstall
  BY <1>4, <1>5, <1>10 DEF PutInstall
<1>11. CASE PutAbort
  BY <1>4, <1>11 DEF PutAbort
<1> QED BY <1>2, <1>7, <1>8, <1>9, <1>10, <1>11

LEMMA AloneNext ==
  ASSUME TypeInv, LockInv, StreamInv, AloneInv, [Next]_vars
  PROVE  AloneInv'
<1>1. env' = env /\ (harm => harm')
  BY EnvStays, HarmStays
<1> SUFFICES ASSUME env \cap {"slow", "busy"} = {}, ~harm, ~harm'
             PROVE  Alone' /\ (up' \/ FoundNone')
  BY <1>1 DEF AloneInv
<1>2. Pairs /\ Reading /\ Alone /\ (up \/ FoundNone)
  BY DEF StreamInv, AloneInv
<1>3. CASE UNCHANGED vars
  BY <1>2, <1>3 DEF vars, sender, reader, trans, Alone, FoundNone
<1>4. CASE up /\ UNCHANGED <<sender, txnLock, up>>
  BY <1>2, <1>4 DEF sender, Alone
<1>5. ~BtTimeout /\ ~QueuePacket /\ ~Tx
  <2>1. ~Slow /\ ~Busy
    BY DEF Slow, Busy
  <2> QED BY <1>2, <2>1 DEF BtTimeout, QueuePacket, Tx, TxReceive, TxRequeue, TxLock, TxSend, Alone
<1>6. CASE up /\ (Phone \/ Bt \/ Ages \/ TimerOver)
  <2>1. UNCHANGED <<sender, txnLock, up>>
    BY <1>5, <1>6 DEF Phone, StartPut, SendOther, TakeAnswer, GiveUp, Lose, OnlyPhone,
       Bt, BtData, BtAppend, BtKick, Ages, TimerOver
  <2> QED BY <1>4, <1>6, <2>1
<1>7. CASE up /\ (RxReceive \/ RxRead \/ RxTest \/ RxLock \/ HandleOther \/ RxConsume)
  <2>1. UNCHANGED <<sender, txnLock, up>>
    BY <1>7 DEF RxReceive, RxRead, RxTest, RxLock, HandleOther, Handled, RxConsume, Rest
  <2> QED BY <1>4, <1>7, <2>1
<1>8. CASE up /\ PutTimeout
  <2>1. UNCHANGED sender /\ GiveTxn("rx")
    BY <1>8 DEF PutTimeout, Terminate
  <2>2. txnLock' = "none" /\ up'
    BY <1>2, <2>1 DEF GiveTxn, Alone, LockInv
  <2> QED BY <1>2, <2>1, <2>2 DEF sender, Alone
<1> QED BY <1>2, <1>3, <1>5, <1>6, <1>7, <1>8, AlonePut DEF Next, Rx

(* Through surroundings that are neither late nor slow the handlers of        *)
(* PutBytes find the transaction they go through, and the mutex with the rx   *)
(* task that gives it back: the phone has one command under way, and what it  *)
(* was answered agrees with what the watch keeps (protocol_transfer.c:133-304). *)
(* A phone that pauses or gives up, and a NULL that may not be written        *)
(* through, add one failure: a command that finds no transaction.             *)
THEOREM CalmLinkSurvives == Spec => []LinkSurvives
<1>1. CalmInv /\ AloneInv => LinkSurvives
  BY DEF CalmInv, Calm, AloneInv, LinkSurvives
<1>2. Init => TypeInv /\ LockInv /\ StreamInv /\ CalmInv /\ AloneInv
  BY TypeInit, LockInit, StreamInit, CalmInit, AloneInit
<1>3. TypeInv /\ LockInv /\ StreamInv /\ CalmInv /\ AloneInv /\ [Next]_vars
      => (TypeInv /\ LockInv /\ StreamInv /\ CalmInv /\ AloneInv)'
  BY TypeNext, LockNext, StreamNext, CalmNext, AloneNext
<1> QED BY <1>1, <1>2, <1>3, PTL DEF Spec
=============================================================================
