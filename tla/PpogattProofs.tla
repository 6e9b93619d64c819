--------------------------- MODULE PpogattProofs ---------------------------
(***************************************************************************)
(* Theorems about Ppogatt for all lengths of queues, all numbers of        *)
(* messages and any number of connections: that nobody believes in a       *)
(* connection that is gone, the types, and that both directions are        *)
(* channels that keep the order.                                           *)
(***************************************************************************)
EXTENDS Ppogatt, TLAPS

(* What follows from the place i of the service queue on tells of a lost     *)
(* connection, if it is lost.                                                *)
NewsAfter(i) == link \/ missed \/ \E j \in DOMAIN svc : j > i /\ svc[j] = "disc"

(* A session is open, or about to be, only with the news of its end behind   *)
(* it, and whatever may say that there is a connection needs an open one.    *)
ConnInv ==
  /\ svc \in Seq({"conn", "disc"}) /\ Len(svc) <= SvcLen
  /\ open \in BOOLEAN /\ link \in BOOLEAN /\ missed \in BOOLEAN /\ connected \in BOOLEAN
  /\ connected => open
  /\ rxq # <<>> => open
  /\ open => NewsAfter(0)
  /\ \A i \in DOMAIN svc : svc[i] = "conn" => NewsAfter(i)

LEMMA ConnInit == Init => ConnInv
<1> SUFFICES ASSUME Init PROVE ConnInv
  OBVIOUS
<1>1. svc = <<>> /\ ~open /\ ~link /\ ~missed /\ ~connected /\ rxq = <<>>
  BY DEF Init
<1>2. {open, link, missed, connected} \subseteq BOOLEAN
  BY DEF Init
<1>3. SvcLen \in Nat
  BY QueueAssumption DEF QueueAssumption
<1>4. svc \in Seq({"conn", "disc"}) /\ Len(svc) <= SvcLen /\ DOMAIN svc = {}
  BY <1>1, <1>3
<1> QED BY <1>1, <1>2, <1>4 DEF ConnInv

(* An event of the radio that is submitted, or lost. *)
LEMMA Submitting ==
  ASSUME ConnInv, QueueAssumption, NEW what \in {"conn", "disc"}, Submit(what)
  PROVE  /\ svc' \in Seq({"conn", "disc"}) /\ Len(svc') <= SvcLen /\ missed' \in BOOLEAN
         /\ missed' \/ (Len(svc') = Len(svc) + 1 /\ svc'[Len(svc) + 1] = what)
<1>1. /\ svc \in Seq({"conn", "disc"}) /\ missed \in BOOLEAN /\ SvcLen \in Nat
      /\ Len(svc) <= SvcLen
  BY DEF ConnInv, QueueAssumption
<1>2. missed' \in BOOLEAN
  BY <1>1 DEF Submit
<1>3. CASE Len(svc) < SvcLen
  <2>1. svc' = Append(svc, what)
    BY <1>3 DEF Submit
  <2> QED BY <1>1, <1>2, <1>3, <2>1
<1>4. CASE Len(svc) = SvcLen
  <2>1. svc' = svc
    BY <1>1, <1>4 DEF Submit
  <2>2. missed'
    BY <1>4 DEF Submit
  <2> QED BY <1>1, <1>2, <2>1, <2>2
<1> QED BY <1>1, <1>3, <1>4

(* A callback that runs leaves the news behind it where it was. *)
LEMMA Running ==
  ASSUME ConnInv, svc # <<>>, svc' = Tail(svc), UNCHANGED <<link, missed>>
  PROVE  /\ svc' \in Seq({"conn", "disc"}) /\ Len(svc') <= SvcLen
         /\ \A i \in DOMAIN svc' : svc'[i] = "conn" => NewsAfter(i)'
         /\ svc[1] = "conn" => NewsAfter(0)'
<1>1. svc \in Seq({"conn", "disc"}) /\ Len(svc) <= SvcLen /\ SvcLen \in Nat
  BY QueueAssumption DEF ConnInv, QueueAssumption
<1>2. /\ svc' \in Seq({"conn", "disc"}) /\ Len(svc') = Len(svc) - 1 /\ Len(svc) \in Nat
      /\ DOMAIN svc = 1 .. Len(svc) /\ DOMAIN svc' = 1 .. Len(svc) - 1
  BY <1>1
<1>3. \A i \in DOMAIN svc' : svc'[i] = svc[i + 1]
  BY <1>1
<1>4. \A i \in 0 .. Len(svc) - 1 : NewsAfter(i + 1) => NewsAfter(i)'
  <2> SUFFICES ASSUME NEW i \in 0 .. Len(svc) - 1, NewsAfter(i + 1), ~link, ~missed PROVE NewsAfter(i)'
    BY DEF NewsAfter
  <2>1. PICK j \in DOMAIN svc : j > i + 1 /\ svc[j] = "disc"
    BY DEF NewsAfter
  <2>2. j - 1 \in DOMAIN svc' /\ j - 1 > i /\ svc'[j - 1] = svc[(j - 1) + 1] /\ (j - 1) + 1 = j
    BY <1>2, <1>3, <2>1
  <2> QED BY <2>1, <2>2 DEF NewsAfter
<1>5. \A i \in DOMAIN svc' : svc'[i] = "conn" => NewsAfter(i)'
  <2> SUFFICES ASSUME NEW i \in DOMAIN svc', svc'[i] = "conn" PROVE NewsAfter(i)'
    OBVIOUS
  <2>1. i + 1 \in DOMAIN svc /\ svc[i + 1] = "conn" /\ i \in 0 .. Len(svc) - 1
    BY <1>2, <1>3
  <2>2. NewsAfter(i + 1)
    BY <2>1 DEF ConnInv
  <2> QED BY <1>4, <2>1, <2>2
<1>6. svc[1] = "conn" => NewsAfter(0)'
  <2> SUFFICES ASSUME svc[1] = "conn" PROVE NewsAfter(0)'
    OBVIOUS
  <2>1. 1 \in DOMAIN svc /\ 0 \in 0 .. Len(svc) - 1
    BY <1>1, <1>2
  <2>2. NewsAfter(1)
    BY <2>1 DEF ConnInv
  <2> QED BY <1>4, <2>1, <2>2
<1> QED BY <1>1, <1>2, <1>5, <1>6

LEMMA ConnNext ==
  ASSUME ConnInv, QueueAssumption, [Next]_vars
  PROVE  ConnInv'
<1> USE DEF ConnInv
<1>1. CASE UNCHANGED <<svc, open, link, missed, connected, rxq>>
  BY <1>1 DEF NewsAfter
<1>2. CASE Connect
  BY <1>2 DEF Connect, Report, NewsAfter
<1>3. CASE Ready
  <2>1. link' /\ UNCHANGED <<open, link, connected, rxq>> /\ Submit("conn")
    BY <1>3 DEF Ready, Report, radio
  <2>2. svc' \in Seq({"conn", "disc"}) /\ Len(svc') <= SvcLen /\ missed' \in BOOLEAN
    BY <2>1, Submitting
  <2> QED BY <2>1, <2>2 DEF NewsAfter
<1>4. CASE Disconnect
  <2>1. link' = FALSE /\ UNCHANGED <<open, connected, rxq>> /\ Submit("disc")
    BY <1>4 DEF Disconnect, Report
  <2>2. svc' \in Seq({"conn", "disc"}) /\ Len(svc') <= SvcLen /\ missed' \in BOOLEAN
    BY <2>1, Submitting
  <2>3. missed' \/ (Len(svc') = Len(svc) + 1 /\ svc'[Len(svc) + 1] = "disc")
    BY <2>1, Submitting
  <2>4. \A i \in DOMAIN svc' : svc'[i] = "conn" => NewsAfter(i)'
    <3> SUFFICES ASSUME NEW i \in DOMAIN svc', svc'[i] = "conn" PROVE NewsAfter(i)'
      OBVIOUS
    <3>1. CASE missed'
      BY <3>1 DEF NewsAfter
    <3>2. CASE ~missed'
      <4>1. Len(svc') \in DOMAIN svc' /\ svc'[Len(svc')] = "disc" /\ Len(svc') >= i
        BY SMTT(60), <2>2, <2>3, <3>2
      <4> QED BY <4>1, <2>2 DEF NewsAfter
    <3> QED BY <3>1, <3>2
  <2>5. NewsAfter(0)'
    BY <2>2, <2>3 DEF NewsAfter
  <2> QED BY <2>1, <2>2, <2>4, <2>5
<1>5. CASE Phone
  <2>1. UNCHANGED <<svc, open, link, missed, connected>> /\ (rxq' # <<>> => open)
    BY <1>5 DEF Phone, PhoneResets, PhoneSends, PhoneAcks, Arrive
  <2> QED BY <2>1 DEF NewsAfter
<1>6. CASE SvcConnected
  <2>1. /\ svc # <<>> /\ svc[1] = "conn" /\ svc' = Tail(svc) /\ open' = TRUE /\ rxq' = <<>>
        /\ UNCHANGED <<link, missed, connected>>
    BY <1>6 DEF SvcConnected, Shutdown, radio
  <2> QED BY <2>1, Running
<1>7. CASE SvcDisconnected
  <2>1. /\ svc # <<>> /\ svc' = Tail(svc) /\ open' = FALSE /\ rxq' = <<>> /\ connected' = FALSE
        /\ UNCHANGED <<link, missed>>
    BY <1>7 DEF SvcDisconnected, Shutdown, radio
  <2> QED BY <2>1, Running
<1>8. CASE Rx
  <2>1. UNCHANGED <<svc, open, link, missed>> /\ connected' \in BOOLEAN
    BY <1>8 DEF Rx, RxTake, RxAppend, RxAck, RxIdle, radio
  <2>2. (connected' => connected \/ rxq # <<>>) /\ (rxq' # <<>> => rxq # <<>>)
    BY <1>8 DEF Rx, RxTake, RxAppend, RxAck
  <2> QED BY <2>1, <2>2 DEF NewsAfter
<1>9. CASE Tx
  BY <1>1, <1>9 DEF Tx, TxTake, TxSend, radio
<1>10. CASE Ask \/ Cmd
  BY <1>1, <1>10 DEF Ask, Cmd, CmdTake, CmdFill, CmdNoQueue, CmdBlock, CmdPut, CmdCount, CmdIdle, radio
<1>11. CASE UNCHANGED vars
  BY <1>1, <1>11 DEF vars, radio
<1> QED BY <1>2, <1>3, <1>4, <1>5, <1>6, <1>7, <1>8, <1>9, <1>10, <1>11 DEF Next, Svc

(* bluetooth.c believes in a connection only with queues to send through, and *)
(* while the news of its end, if it ended, is still to come or was lost       *)
(* (ppogatt.c:137-143, 237-280; service.c:39-49).                            *)
THEOREM ConnectionIsTrue == Spec => []ConnectedIsTrue
<1>1. ConnInv => ConnectedIsTrue
  BY DEF ConnInv, NewsAfter, ConnectedIsTrue
<1> QED BY <1>1, ConnInit, ConnNext, QueueAssumption, PTL DEF Spec
-----------------------------------------------------------------------------
(* Types.  Besides TypeOK: packets that carry data carry something, a        *)
(* message in hand has pieces left, and what is queued in a session and what *)
(* is still to be queued is no more than there are pieces to send.           *)
Carries(p, max) == p.cmd = "data" => p.n \in 1 .. max

FlagType ==
  /\ up \in BOOLEAN /\ link \in BOOLEAN /\ greeted \in BOOLEAN /\ owes \in BOOLEAN /\ open \in BOOLEAN
  /\ seen \in BOOLEAN /\ connected \in BOOLEAN /\ torn \in BOOLEAN /\ missed \in BOOLEAN
  /\ txh \in {"none", "live", "stale"} /\ lock \in {"free", "rx", "dead"}

SvcType == svc \in Seq({"conn", "disc"}) /\ Len(svc) <= SvcLen

RxType ==
  /\ rxq \in Seq(Packet) /\ Len(rxq) <= RxLen /\ \A i \in DOMAIN rxq : Carries(rxq[i], Datas)
  /\ rx \in [pc : {"gone", "wait", "append", "ack"}, pkt : Packet]
  /\ rx.pc = "append" => rx.pkt.n \in 1 .. Datas

TxType ==
  /\ txq \in Seq(Packet) /\ Len(txq) <= TxLen /\ \A i \in DOMAIN txq : Carries(txq[i], Bound)
  /\ tx \in [pc : {"gone", "wait", "send"}, pkt : Packet]
  /\ tx.pc = "send" => Carries(tx.pkt, Bound)

CmdType ==
  /\ cmd \in [pc : {"idle", "fill", "put", "blocked", "count", "stuck"}, seq : 0 .. SeqMod - 1, left : 0 .. Chunks]
  /\ cmd.pc \in {"fill", "put", "blocked"} => cmd.left > 0
  /\ want \in 0 .. Asks /\ seq \in 0 .. SeqMod - 1
  /\ put \in Seq(0 .. SeqMod - 1)
  /\ budget \in [asks : 0 .. Asks, datas : 0 .. Datas, reports : 0 .. Reports]
  /\ want + budget.asks <= Asks
  /\ Len(put) + cmd.left + (want + budget.asks) * Chunks <= Asks * Chunks

HistType == said \in Seq(1 .. Datas) /\ taken \in Seq(1 .. Datas) /\ heard \in Seq(1 .. Bound)

TypeInv == FlagType /\ SvcType /\ RxType /\ TxType /\ CmdType /\ HistType

LEMMA TypeParts == TypeInv => TypeOK
  BY DEF TypeInv, FlagType, SvcType, RxType, TxType, CmdType, HistType, TypeOK

(* What the constants are. *)
Sizes ==
  /\ RxLen \in Nat /\ RxLen > 0 /\ TxLen \in Nat /\ TxLen >= 2 /\ SvcLen \in Nat /\ SvcLen > 0
  /\ SeqMod \in Nat /\ SeqMod > 0 /\ Chunks \in Nat /\ Chunks > 0
  /\ Asks \in Nat /\ Datas \in Nat /\ Reports \in Nat

LEMMA SizesHold == Sizes
  BY QueueAssumption DEF QueueAssumption, Sizes

LEMMA Products ==
  ASSUME NEW a \in Nat, NEW c \in Nat
  PROVE  a * c \in Nat /\ (a + 1) * c = a * c + c
  OBVIOUS

LEMMA ProductsGrow ==
  ASSUME NEW a \in Nat, NEW b \in 0 .. a, NEW c \in Nat
  PROVE  b * c \in Nat /\ b * c <= a * c
  OBVIOUS

LEMMA BoundIsNat == Bound \in Nat /\ Bound >= Datas /\ Asks * Chunks \in Nat /\ Bound = Datas + Asks * Chunks
  BY SizesHold, Products DEF Sizes, Bound

LEMMA Packets ==
  /\ \A c \in {"data", "ack", "req", "rack"}, n \in 0 .. Bound, s \in 0 .. SeqMod - 1 :
        Pkt(c, s, n) \in Packet /\ Pkt(c, s, n).cmd = c /\ Pkt(c, s, n).n = n
  /\ 0 \in 0 .. Bound /\ 0 \in 0 .. SeqMod - 1 /\ NoPkt \in Packet /\ NoPkt.cmd = "ack"
  BY SizesHold, BoundIsNat DEF Sizes, Packet, Pkt, NoPkt

LEMMA TypeInit == Init => TypeInv
<1> SUFFICES ASSUME Init PROVE TypeInv
  OBVIOUS
<1> USE SizesHold, BoundIsNat, Packets DEF Init, Sizes
<1>1. FlagType
  BY DEF FlagType
<1>2. SvcType
  BY DEF SvcType
<1>3. RxType
  BY DEF RxType, Gone
<1>4. TxType
  BY DEF TxType, Gone
<1>5. CmdType
  <2>1. /\ budget \in [asks : 0 .. Asks, datas : 0 .. Datas, reports : 0 .. Reports]
        /\ budget.asks \in 0 .. Asks
    BY QueueAssumption
  <2>2. budget.asks * Chunks <= Asks * Chunks
    BY <2>1, ProductsGrow
  <2> QED
    BY <2>1, <2>2 DEF CmdType, Idle
<1>6. HistType
  BY DEF HistType
<1> QED BY <1>1, <1>2, <1>3, <1>4, <1>5, <1>6 DEF TypeInv

(* Queues. *)
LEMMA Taking ==
  ASSUME NEW S, NEW q \in Seq(S), q # <<>>
  PROVE  /\ Head(q) \in S /\ Head(q) = q[1] /\ 1 \in DOMAIN q
         /\ Tail(q) \in Seq(S) /\ Len(Tail(q)) \in Nat /\ Len(Tail(q)) <= Len(q)
         /\ \A i \in DOMAIN Tail(q) : i + 1 \in DOMAIN q /\ Tail(q)[i] = q[i + 1]
  OBVIOUS

LEMMA Adding ==
  ASSUME NEW S, NEW q \in Seq(S), NEW e \in S
  PROVE  /\ Append(q, e) \in Seq(S) /\ Len(Append(q, e)) = Len(q) + 1
         /\ \A i \in DOMAIN Append(q, e) : (i \in DOMAIN q /\ Append(q, e)[i] = q[i]) \/ Append(q, e)[i] = e
  OBVIOUS

(* What a step leaves alone keeps its type. *)
flagVars == <<up, link, greeted, owes, open, seen, connected, torn, missed, txh, lock>>

LEMMA Unchanged ==
  ASSUME TypeInv
  PROVE  /\ UNCHANGED flagVars => FlagType'
         /\ UNCHANGED svc => SvcType'
         /\ UNCHANGED <<rxq, rx>> => RxType'
         /\ UNCHANGED <<txq, tx>> => TxType'
         /\ UNCHANGED <<cmd, want, seq, put, budget>> => CmdType'
         /\ UNCHANGED <<said, taken, heard>> => HistType'
<1>1. UNCHANGED flagVars => FlagType'
  BY DEF TypeInv, flagVars, FlagType
<1>2. UNCHANGED svc => SvcType'
  BY DEF TypeInv, SvcType
<1>3. UNCHANGED <<rxq, rx>> => RxType'
  BY DEF TypeInv, RxType, Carries
<1>4. UNCHANGED <<txq, tx>> => TxType'
  BY DEF TypeInv, TxType, Carries
<1>5. UNCHANGED <<cmd, want, seq, put, budget>> => CmdType'
  BY DEF TypeInv, CmdType
<1>6. UNCHANGED <<said, taken, heard>> => HistType'
  BY DEF TypeInv, HistType
<1> QED BY <1>1, <1>2, <1>3, <1>4, <1>5, <1>6

LEMMA ReportType ==
  ASSUME TypeInv, Connect \/ Ready \/ Disconnect
  PROVE  TypeInv'
<1>1. /\ budget' = [budget EXCEPT !.reports = @ - 1] /\ budget.reports > 0
      /\ UNCHANGED <<up, open, rxq, txq, rx, tx, txh, cmd, want, seq, seen, connected, lock,
                     said, taken, put, heard, torn>>
  BY DEF Connect, Ready, Disconnect, Report, hist
<1>2. CmdType'
  <2> DEFINE Budget == [asks : 0 .. Asks, datas : 0 .. Datas, reports : 0 .. Reports]
  <2>0. budget \in Budget /\ Reports \in Nat
    BY SizesHold DEF TypeInv, CmdType, Sizes
  <2>1. budget' \in Budget
    BY <1>1, <2>0
  <2>2. budget'.asks = budget.asks
    BY <1>1 DEF TypeInv, CmdType
  <2> QED BY <1>1, <2>1, <2>2 DEF TypeInv, CmdType
<1>3. FlagType' /\ SvcType'
  <2>1. CASE Connect
    BY <1>1, <2>1 DEF Connect, TypeInv, FlagType, SvcType
  <2>2. ASSUME NEW what \in {"conn", "disc"}, Submit(what)
        PROVE  missed' \in BOOLEAN /\ SvcType'
    <3>1. missed' \in BOOLEAN
      BY <2>2 DEF TypeInv, FlagType, Submit
    <3>2. CASE Len(svc) < SvcLen
      <4>1. svc' = Append(svc, what)
        BY <2>2, <3>2 DEF Submit
      <4>2. svc \in Seq({"conn", "disc"}) /\ Len(svc) < SvcLen /\ SvcLen \in Nat
        BY <3>2, SizesHold DEF TypeInv, SvcType, Sizes
      <4> QED BY <3>1, <4>1, <4>2 DEF SvcType
    <3>3. CASE ~(Len(svc) < SvcLen)
      BY <2>2, <3>1, <3>3 DEF Submit, TypeInv, SvcType
    <3> QED BY <3>2, <3>3
  <2>3. CASE Ready
    BY <1>1, <2>2, <2>3 DEF Ready, radio, TypeInv, FlagType
  <2>4. CASE Disconnect
    BY <1>1, <2>2, <2>4 DEF Disconnect, TypeInv, FlagType
  <2> QED BY <2>1, <2>3, <2>4
<1> QED BY <1>1, <1>2, <1>3, Unchanged DEF TypeInv

LEMMA PhoneType ==
  ASSUME TypeInv, Phone
  PROVE  TypeInv'
<1>1. /\ UNCHANGED <<link, greeted, svc, open, txq, rx, tx, txh, cmd, want, seq, seen, connected, lock,
                     taken, put, heard, torn, missed>>
      /\ owes' \in BOOLEAN /\ up' \in BOOLEAN
  BY DEF Phone, PhoneResets, PhoneSends, PhoneAcks, Arrive, TypeInv, FlagType
<1>2. FlagType' /\ SvcType' /\ TxType'
  BY <1>1, Unchanged DEF TypeInv, FlagType
<1>3. ASSUME NEW pkt \in Packet, Carries(pkt, Datas), Arrive(pkt)
      PROVE  RxType'
  <2>1. CASE Len(rxq) < RxLen /\ open
    <3>1. rxq' = Append(rxq, pkt)
      BY <1>3, <2>1 DEF Arrive
    <3>2. Len(rxq') <= RxLen
      BY <2>1, <3>1, SizesHold DEF TypeInv, RxType, Sizes
    <3> QED BY <1>1, <1>3, <3>1, <3>2, Adding DEF TypeInv, RxType, Carries
  <2>2. CASE ~(Len(rxq) < RxLen /\ open)
    BY <1>1, <1>3, <2>2, Unchanged DEF Arrive
  <2> QED BY <2>1, <2>2
<1>4. CASE PhoneResets
  BY <1>1, <1>2, <1>3, <1>4, Packets, Unchanged DEF PhoneResets, TypeInv, Carries
<1>5. CASE PhoneAcks
  BY <1>1, <1>2, <1>3, <1>5, Packets, Unchanged DEF PhoneAcks, TypeInv, Carries
<1>6. CASE PhoneSends
  <2> DEFINE n == Datas - budget.datas + 1
  <2> DEFINE Budget == [asks : 0 .. Asks, datas : 0 .. Datas, reports : 0 .. Reports]
  <2>0. budget \in Budget /\ Datas \in Nat /\ SeqMod \in Nat /\ SeqMod > 0 /\ budget.datas > 0
    BY <1>6, SizesHold DEF PhoneSends, TypeInv, CmdType, Sizes
  <2>1. budget.datas \in 1 .. Datas /\ n \in 1 .. Datas /\ n \in 0 .. Bound /\ n % SeqMod \in 0 .. SeqMod - 1
    <3>1. budget.datas \in 1 .. Datas
      BY <2>0
    <3>2. n \in 1 .. Datas
      BY <2>0, <3>1
    <3> HIDE DEF n
    <3> QED BY <2>0, <3>1, <3>2, BoundIsNat
  <2>2. Arrive(Pkt("data", n % SeqMod, n)) /\ said' = Append(said, n) /\ budget' = [budget EXCEPT !.datas = @ - 1]
    BY <1>6 DEF PhoneSends
  <2>3. RxType'
    <3> HIDE DEF n
    <3> QED BY <1>3, <2>1, <2>2, Packets DEF Carries
  <2>4. HistType'
    <3> HIDE DEF n
    <3> QED BY <1>1, <2>1, <2>2 DEF TypeInv, HistType
  <2>5. budget' \in Budget /\ budget'.asks = budget.asks
    BY SMTT(60), <2>0, <2>2
  <2>6. CmdType'
    BY <1>1, <2>5 DEF TypeInv, CmdType
  <2> QED BY <1>2, <2>3, <2>4, <2>6 DEF TypeInv
<1> QED BY <1>4, <1>5, <1>6 DEF Phone

LEMMA ShutdownType ==
  ASSUME TypeInv, Shutdown
  PROVE  /\ up' \in BOOLEAN /\ lock' \in {"free", "rx", "dead"} /\ rxq' = <<>>
         /\ cmd' \in [pc : {"idle", "fill", "put", "blocked", "count", "stuck"}, seq : 0 .. SeqMod - 1, left : 0 .. Chunks]
         /\ cmd'.left = cmd.left /\ (cmd'.pc = cmd.pc \/ cmd'.pc = "stuck")
<1>1. up' \in BOOLEAN /\ lock' \in {"free", "rx", "dead"} /\ rxq' = <<>>
  BY DEF Shutdown, TypeInv, FlagType
<1>2. cmd \in [pc : {"idle", "fill", "put", "blocked", "count", "stuck"}, seq : 0 .. SeqMod - 1, left : 0 .. Chunks]
  BY DEF TypeInv, CmdType
<1>3. cmd' = cmd \/ cmd' = [cmd EXCEPT !.pc = "stuck"]
  BY DEF Shutdown
<1> QED BY <1>1, <1>2, <1>3

LEMMA SvcIsTyped ==
  ASSUME TypeInv, Svc
  PROVE  TypeInv'
<1>0. Shutdown
  BY DEF Svc, SvcConnected, SvcDisconnected
<1>1. SvcType'
  <2>1. svc # <<>> /\ svc' = Tail(svc)
    BY DEF Svc, SvcConnected, SvcDisconnected
  <2>2. svc \in Seq({"conn", "disc"}) /\ Len(svc) <= SvcLen /\ SvcLen \in Nat
    BY SizesHold DEF TypeInv, SvcType, Sizes
  <2> QED BY <2>1, <2>2, Taking DEF SvcType
<1>2. FlagType'
  <2>1. torn' \in BOOLEAN
    BY DEF Svc, SvcConnected, SvcDisconnected, TypeInv, FlagType
  <2> QED BY <1>0, <2>1, ShutdownType DEF Svc, SvcConnected, SvcDisconnected, radio, TypeInv, FlagType
<1>3. RxType'
  <2>1. rx' \in {Gone, Waiting} /\ rxq' = <<>>
    BY <1>0, ShutdownType DEF Svc, SvcConnected, SvcDisconnected
  <2> QED BY <2>1, Packets, SizesHold DEF RxType, Gone, Waiting, Sizes
<1>4. TxType'
  <2>1. tx' \in {Gone, Waiting} /\ txq' \in {<<>>, <<Pkt("req", 0, 0), Pkt("rack", 0, 0)>>}
    BY DEF Svc, SvcConnected, SvcDisconnected
  <2>2. Pkt("req", 0, 0) \in Packet /\ Pkt("rack", 0, 0) \in Packet
        /\ Pkt("req", 0, 0).cmd = "req" /\ Pkt("rack", 0, 0).cmd = "rack"
    BY Packets
  <2>3. \A p, q : <<p, q>>[1] = p /\ <<p, q>>[2] = q /\ DOMAIN <<p, q>> = {1, 2} /\ Len(<<p, q>>) = 2
    OBVIOUS
  <2>4. txq' \in Seq(Packet) /\ Len(txq') <= TxLen
    <3>1. <<>> \in Seq(Packet) /\ Len(<<>>) = 0 /\ \A p, q \in Packet : <<p, q>> \in Seq(Packet)
      OBVIOUS
    <3>2. TxLen \in Nat /\ TxLen >= 2
      BY SizesHold DEF Sizes
    <3>3. CASE txq' = <<>>
      BY <3>1, <3>2, <3>3
    <3>4. CASE txq' = <<Pkt("req", 0, 0), Pkt("rack", 0, 0)>>
      BY <2>2, <2>3, <3>1, <3>2, <3>4
    <3> QED BY <2>1, <3>3, <3>4
  <2>5. \A i \in DOMAIN txq' : Carries(txq'[i], Bound)
    BY <2>1, <2>2, <2>3 DEF Carries
  <2> QED BY <2>1, <2>4, <2>5, Packets DEF TxType, Gone, Waiting
<1>5. CmdType'
  <2>1. UNCHANGED <<want, budget>> /\ seq' \in {seq, 0} /\ put' \in {put, <<>>}
    BY DEF Svc, SvcConnected, SvcDisconnected
  <2>2. /\ want \in Nat /\ budget.asks \in Nat /\ Chunks \in Nat /\ (want + budget.asks) * Chunks \in Nat
        /\ Asks * Chunks \in Nat /\ put \in Seq(0 .. SeqMod - 1) /\ Len(put) \in Nat /\ cmd.left \in Nat
        /\ seq' \in 0 .. SeqMod - 1
    BY SMTT(60), <2>1, SizesHold, Products, Packets DEF TypeInv, CmdType, Sizes
  <2>3. put' \in Seq(0 .. SeqMod - 1) /\ Len(put') \in Nat /\ Len(put') <= Len(put)
    <3>1. CASE put' = put
      BY <2>2, <3>1
    <3>2. CASE put' = <<>>
      <4>1. <<>> \in Seq(0 .. SeqMod - 1) /\ Len(<<>>) = 0
        OBVIOUS
      <4> QED BY <2>2, <3>2, <4>1
    <3> QED BY <2>1, <3>1, <3>2
  <2>4. Len(put') + cmd'.left + (want' + budget'.asks) * Chunks <= Asks * Chunks
    <3> DEFINE rest == (want + budget.asks) * Chunks
               all  == Asks * Chunks
    <3>1. (want' + budget'.asks) * Chunks = rest /\ cmd'.left = cmd.left
      BY <1>0, <2>1, ShutdownType
    <3>2. Len(put) + cmd.left + rest <= all /\ rest \in Nat /\ all \in Nat
      BY <2>2 DEF TypeInv, CmdType
    <3> HIDE DEF rest, all
    <3>3. Len(put') + cmd'.left + rest <= all
      BY <2>2, <2>3, <3>1, <3>2
    <3> QED BY <3>1, <3>3 DEF all
  <2> QED BY <1>0, <2>1, <2>2, <2>3, <2>4, ShutdownType DEF TypeInv, CmdType
<1>6. HistType'
  <2>1. CASE said' = <<>> /\ taken' = <<>> /\ heard' = <<>>
    <3>1. <<>> \in Seq(1 .. Datas) /\ <<>> \in Seq(1 .. Bound)
      OBVIOUS
    <3> QED BY <2>1, <3>1 DEF HistType
  <2>2. CASE UNCHANGED <<said, taken, heard>>
    BY <2>2, Unchanged
  <2> QED BY <2>1, <2>2 DEF Svc, SvcConnected, SvcDisconnected
<1> QED BY <1>1, <1>2, <1>3, <1>4, <1>5, <1>6 DEF TypeInv

LEMMA RxIsTyped ==
  ASSUME TypeInv, Rx
  PROVE  TypeInv'
<1>1. /\ UNCHANGED <<link, greeted, owes, svc, open, tx, txh, cmd, want, seq, said, put, heard, torn, missed, budget>>
      /\ up' \in BOOLEAN
  BY DEF Rx, RxTake, RxAppend, RxAck, RxIdle, radio, TypeInv, FlagType
<1>2. SvcType' /\ CmdType'
  BY <1>1, Unchanged
<1>3. CASE RxTake
  <2>1. rx.pc = "wait" /\ rxq # <<>> /\ rxq' = Tail(rxq) /\ UNCHANGED <<txq, taken>>
    BY <1>3 DEF RxTake
  <2>2. FlagType'
    BY ZenonT(120), <1>1, <1>3 DEF RxTake, TypeInv, FlagType
  <2>3. rxq \in Seq(Packet) /\ Len(rxq) <= RxLen /\ RxLen \in Nat /\ \A i \in DOMAIN rxq : Carries(rxq[i], Datas)
    BY SizesHold DEF TypeInv, RxType, Sizes
  <2>4. rxq' \in Seq(Packet) /\ Len(rxq') <= RxLen /\ \A i \in DOMAIN rxq' : Carries(rxq'[i], Datas)
    BY <2>1, <2>3, Taking
  <2>5. Head(rxq) \in Packet /\ Carries(Head(rxq), Datas)
    BY <2>1, <2>3, Taking
  <2>6. \/ rx' = rx
        \/ Head(rxq).cmd = "data" /\ \E pc \in {"append", "ack"} : rx' = [pc |-> pc, pkt |-> Head(rxq)]
    BY <1>3 DEF RxTake
  <2>7. RxType'
    BY <2>1, <2>4, <2>5, <2>6 DEF TypeInv, RxType, Carries
  <2> QED BY <1>1, <1>2, <2>1, <2>2, <2>7, Unchanged DEF TypeInv
<1>4. CASE RxAppend
  <2>1. /\ rx.pc = "append" /\ rx' = [rx EXCEPT !.pc = "ack"] /\ UNCHANGED <<rxq, txq>>
        /\ taken' = Append(taken, rx.pkt.n)
    BY <1>4 DEF RxAppend
  <2>2. FlagType'
    BY <1>1, <1>4 DEF RxAppend, TypeInv, FlagType
  <2>3. RxType'
    BY <2>1 DEF TypeInv, RxType, Carries
  <2>4. HistType'
    <3>1. rx.pkt.n \in 1 .. Datas /\ taken \in Seq(1 .. Datas)
      BY <2>1 DEF TypeInv, RxType, HistType
    <3>2. taken' \in Seq(1 .. Datas)
      BY ZenonT(120), <2>1, <3>1, Adding
    <3> QED BY <1>1, <3>2, <1>4 DEF TypeInv, HistType, RxAppend, RxIdle
  <2> QED BY <1>1, <1>2, <2>1, <2>2, <2>3, <2>4, Unchanged DEF TypeInv
<1>5. CASE RxAck
  <2>1. /\ Len(txq) < TxLen /\ txq' = Append(txq, Pkt("ack", rx.pkt.seq, 0)) /\ rx' = Waiting
        /\ UNCHANGED <<up, rxq, taken, lock, seen, connected>>
    BY <1>5 DEF RxAck
  <2>2. FlagType' /\ HistType'
    BY <1>1, <2>1, Unchanged DEF flagVars
  <2>3. RxType'
    BY <2>1, Packets DEF TypeInv, RxType, Carries, Waiting
  <2>4. TxType'
    <3>1. rx.pkt.seq \in 0 .. SeqMod - 1
      BY DEF TypeInv, RxType, Packet
    <3>2. Pkt("ack", rx.pkt.seq, 0) \in Packet /\ Pkt("ack", rx.pkt.seq, 0).cmd = "ack"
      BY <3>1, Packets
    <3>3. txq \in Seq(Packet) /\ TxLen \in Nat /\ \A i \in DOMAIN txq : Carries(txq[i], Bound)
      BY SizesHold DEF TypeInv, TxType, Sizes
    <3>4. txq' \in Seq(Packet) /\ Len(txq') <= TxLen
      BY <2>1, <3>2, <3>3, Adding
    <3>5. \A i \in DOMAIN txq' : Carries(txq'[i], Bound)
      BY <2>1, <3>2, <3>3, Adding DEF Carries
    <3> QED BY <1>1, <3>4, <3>5 DEF TypeInv, TxType, Carries
  <2> QED BY <1>2, <2>2, <2>3, <2>4 DEF TypeInv
<1> QED BY <1>3, <1>4, <1>5 DEF Rx

LEMMA TxIsTyped ==
  ASSUME TypeInv, Tx
  PROVE  TypeInv'
<1>1. /\ UNCHANGED <<up, link, svc, open, rxq, rx, txh, cmd, want, seq, seen, connected, lock,
                     said, taken, put, torn, missed, budget>>
      /\ greeted' \in BOOLEAN /\ owes' \in BOOLEAN
  BY DEF Tx, TxTake, TxSend, radio, hist, TypeInv, FlagType
<1>2. FlagType' /\ SvcType' /\ RxType' /\ CmdType'
  BY <1>1, Unchanged DEF TypeInv, FlagType
<1>3. CASE TxTake
  <2>1. /\ txq # <<>> /\ tx' = [pc |-> "send", pkt |-> Head(txq)] /\ txq' = Tail(txq)
        /\ UNCHANGED heard
    BY <1>3 DEF TxTake, hist
  <2>2. txq \in Seq(Packet) /\ Len(txq) <= TxLen /\ TxLen \in Nat /\ \A i \in DOMAIN txq : Carries(txq[i], Bound)
    BY SizesHold DEF TypeInv, TxType, Sizes
  <2>3. txq' \in Seq(Packet) /\ Len(txq') <= TxLen /\ \A i \in DOMAIN txq' : Carries(txq'[i], Bound)
    BY <2>1, <2>2, Taking
  <2>4. Head(txq) \in Packet /\ Carries(Head(txq), Bound)
    BY <2>1, <2>2, Taking
  <2>5. TxType'
    BY <2>1, <2>3, <2>4 DEF TxType
  <2> QED BY <1>1, <1>2, <2>1, <2>5, Unchanged DEF TypeInv
<1>4. CASE TxSend
  <2>1. /\ tx.pc = "send" /\ tx' = Waiting /\ UNCHANGED txq
        /\ heard' = heard \/ (tx.pkt.cmd = "data" /\ heard' = Append(heard, tx.pkt.n))
    BY <1>4 DEF TxSend
  <2>2. TxType'
    BY <2>1, Packets DEF TypeInv, TxType, Carries, Waiting
  <2>3. HistType'
    <3>1. tx.pkt.cmd = "data" => tx.pkt.n \in 1 .. Bound
      BY <2>1 DEF TypeInv, TxType, Carries
    <3>2. heard \in Seq(1 .. Bound)
      BY DEF TypeInv, HistType
    <3>3. heard' \in Seq(1 .. Bound)
      BY <2>1, <3>1, <3>2, Adding
    <3> QED BY <1>1, <3>3 DEF TypeInv, HistType
  <2> QED BY <1>2, <2>2, <2>3 DEF TypeInv
<1> QED BY <1>3, <1>4 DEF Tx

(* The pieces that are queued and to be queued, when the command task goes on *)
(* from what it has in hand.                                                 *)
LEMMA CmdIsTyped ==
  ASSUME TypeInv, Ask \/ Cmd
  PROVE  TypeInv'
<1> DEFINE Where  == [pc : {"idle", "fill", "put", "blocked", "count", "stuck"}, seq : 0 .. SeqMod - 1, left : 0 .. Chunks]
           Budget == [asks : 0 .. Asks, datas : 0 .. Datas, reports : 0 .. Reports]
           all    == Asks * Chunks
<1>0. /\ SeqMod \in Nat /\ SeqMod > 0 /\ Chunks \in Nat /\ Chunks > 0 /\ Asks \in Nat /\ TxLen \in Nat /\ all \in Nat
      /\ cmd \in Where /\ want \in 0 .. Asks /\ seq \in 0 .. SeqMod - 1 /\ put \in Seq(0 .. SeqMod - 1)
      /\ budget \in Budget /\ want + budget.asks <= Asks
      /\ cmd.pc \in {"fill", "put", "blocked"} => cmd.left > 0
      /\ Len(put) + cmd.left + (want + budget.asks) * Chunks <= all
  BY SizesHold, BoundIsNat DEF TypeInv, CmdType, Sizes
<1>1. /\ UNCHANGED <<link, greeted, owes, svc, open, rxq, rx, tx, txh, seen, connected, lock,
                     said, taken, heard, torn, missed>>
      /\ up' \in BOOLEAN
  BY DEF Ask, Cmd, CmdTake, CmdFill, CmdNoQueue, CmdBlock, CmdPut, CmdCount, CmdIdle, radio, hist, TypeInv, FlagType
<1>2. FlagType' /\ SvcType' /\ RxType' /\ HistType'
  BY <1>1, Unchanged DEF TypeInv, FlagType
<1>3. CASE Ask
  <2>1. /\ budget.asks > 0 /\ want' = want + 1 /\ budget' = [budget EXCEPT !.asks = @ - 1]
        /\ UNCHANGED <<txq, cmd, seq, put>>
    BY <1>3 DEF Ask
  <2>2. budget' \in Budget /\ budget'.asks = budget.asks - 1 /\ want' + budget'.asks = want + budget.asks
    <3>1. budget \in Budget /\ budget.asks \in 0 .. Asks /\ want \in Nat /\ Asks \in Nat
      BY <1>0
    <3>2. budget.asks - 1 \in 0 .. Asks /\ want + 1 + (budget.asks - 1) = want + budget.asks
      BY <2>1, <3>1
    <3>3. budget' \in Budget /\ budget'.asks = budget.asks - 1
      BY <2>1, <3>1, <3>2
    <3> QED BY <2>1, <3>2, <3>3
  <2>3. want' \in 0 .. Asks
    <3>1. want \in Nat /\ budget.asks \in Nat /\ Asks \in Nat /\ want + budget.asks <= Asks
      BY <1>0
    <3>2. want + 1 \in 0 .. Asks
      BY <2>1, <3>1
    <3> QED BY <2>1, <3>2
  <2>4. CmdType'
    BY <1>0, <2>1, <2>2, <2>3 DEF CmdType
  <2> QED BY <1>1, <1>2, <2>1, <2>4, Unchanged DEF TypeInv
<1>4. CASE CmdTake
  <2>1. /\ cmd.pc = "idle" /\ want > 0 /\ want' = want - 1 /\ cmd' = [pc |-> "fill", seq |-> 0, left |-> Chunks]
        /\ UNCHANGED <<txq, seq, put, budget>>
    BY <1>4 DEF CmdTake
  <2> DEFINE less == want - 1 + budget.asks
  <2>2. less \in Nat /\ want + budget.asks = less + 1 /\ want' + budget'.asks = less
    BY SMTT(60), <1>0, <2>1
  <2>3. (want + budget.asks) * Chunks = less * Chunks + Chunks /\ less * Chunks \in Nat
    <3> HIDE DEF less
    <3> QED BY <1>0, <2>2, Products
  <2>4. Len(put') + cmd'.left + (want' + budget'.asks) * Chunks <= all
    <3> DEFINE rest == less * Chunks
    <3>1. (want' + budget'.asks) * Chunks = rest /\ cmd'.left = Chunks /\ put' = put
      BY <2>1, <2>2
    <3>2. Len(put) + cmd.left + (rest + Chunks) <= all /\ rest \in Nat
      BY <1>0, <2>3
    <3>3. cmd.left \in Nat /\ Len(put) \in Nat
      BY <1>0
    <3> HIDE DEF rest, all
    <3> QED BY SMTT(60), <1>0, <3>1, <3>2, <3>3
  <2>5. cmd' \in Where /\ cmd'.left > 0 /\ want' \in 0 .. Asks
    BY <1>0, <2>1
  <2>6. want' + budget'.asks <= Asks
    BY SMTT(60), <1>0, <2>1
  <2>7. CmdType'
    BY <1>0, <2>1, <2>4, <2>5, <2>6 DEF CmdType
  <2> QED BY <1>1, <1>2, <2>1, <2>7, Unchanged DEF TypeInv
<1>5. CASE CmdFill \/ CmdBlock
  <2>1. /\ \/ cmd' = [cmd EXCEPT !.pc = "put", !.seq = seq] /\ cmd.pc = "fill"
           \/ cmd' = [cmd EXCEPT !.pc = "blocked"] /\ cmd.pc = "put"
        /\ UNCHANGED <<txq, want, seq, put, budget>>
    BY <1>5 DEF CmdFill, CmdBlock
  <2>2. cmd' \in Where /\ cmd'.left = cmd.left /\ cmd.left > 0
    BY <1>0, <2>1
  <2>3. CmdType'
    BY <1>0, <2>1, <2>2 DEF CmdType
  <2> QED BY <1>1, <1>2, <2>1, <2>3, Unchanged DEF TypeInv
<1>6. CASE CmdNoQueue
  BY <1>1, <1>2, <1>6, Unchanged DEF CmdNoQueue, hist, TypeInv
<1>7. CASE CmdPut
  <2>1. /\ cmd.pc \in {"put", "blocked"} /\ Len(txq) < TxLen
        /\ txq' = Append(txq, Pkt("data", cmd.seq, Len(put) + 1)) /\ put' = Append(put, cmd.seq)
        /\ cmd' = [cmd EXCEPT !.pc = "count", !.left = @ - 1]
        /\ UNCHANGED <<want, seq, budget>>
    BY <1>7 DEF CmdPut
  <2>2. /\ cmd.left > 0 /\ cmd.left \in Nat /\ cmd.seq \in 0 .. SeqMod - 1 /\ Len(put) \in Nat
        /\ (want + budget.asks) * Chunks \in Nat
    BY SMTT(60), <1>0, <2>1, Products
  <2>3. Len(put) + 1 \in 1 .. Bound
    <3> DEFINE rest == (want + budget.asks) * Chunks
    <3>1. rest \in Nat /\ Len(put) + cmd.left + rest <= all
      BY <1>0, <2>2
    <3>2. Bound = Datas + all /\ Datas \in Nat
      BY BoundIsNat, SizesHold DEF Sizes
    <3> HIDE DEF rest, all
    <3> QED BY SMTT(60), <1>0, <2>2, <3>1, <3>2
  <2>4. TxType'
    <3>1. /\ Pkt("data", cmd.seq, Len(put) + 1) \in Packet
          /\ Carries(Pkt("data", cmd.seq, Len(put) + 1), Bound)
      <4>1. Len(put) + 1 \in 0 .. Bound
        BY <2>3
      <4> QED BY <2>2, <2>3, <4>1, Packets DEF Carries
    <3>2. txq \in Seq(Packet) /\ \A i \in DOMAIN txq : Carries(txq[i], Bound)
      BY DEF TypeInv, TxType
    <3>3. txq' \in Seq(Packet) /\ Len(txq') <= TxLen
      BY <1>0, <2>1, <3>1, <3>2, Adding
    <3>4. \A i \in DOMAIN txq' : Carries(txq'[i], Bound)
      BY <2>1, <3>1, <3>2, Adding
    <3> QED BY <1>1, <3>3, <3>4 DEF TypeInv, TxType, Carries
  <2>5. cmd' \in Where /\ cmd'.left = cmd.left - 1 /\ cmd'.pc = "count"
    <3>1. cmd.left \in 0 .. Chunks /\ Chunks \in Nat /\ cmd.left > 0
      BY <1>0, <2>2
    <3>2. cmd.left - 1 \in 0 .. Chunks
      BY <3>1
    <3> QED BY <1>0, <2>1, <3>2
  <2>6. put' \in Seq(0 .. SeqMod - 1) /\ Len(put') = Len(put) + 1
    BY <1>0, <2>1, <2>2, Adding
  <2>7. Len(put') + cmd'.left + (want' + budget'.asks) * Chunks <= all
    <3> DEFINE rest == (want + budget.asks) * Chunks
    <3>1. rest \in Nat /\ Len(put) + cmd.left + rest <= all /\ (want' + budget'.asks) * Chunks = rest
      BY <1>0, <2>1, <2>2
    <3>2. /\ Len(put) \in Nat /\ cmd.left \in Nat /\ all \in Nat
          /\ Len(put') = Len(put) + 1 /\ cmd'.left = cmd.left - 1
      BY <1>0, <2>2, <2>5, <2>6
    <3> HIDE DEF rest, all
    <3>3. Len(put') + cmd'.left + rest <= all
      BY <3>1, <3>2
    <3> QED BY <3>1, <3>3
  <2>8. CmdType'
    BY <1>0, <2>1, <2>5, <2>6, <2>7 DEF CmdType
  <2> QED BY <1>2, <2>4, <2>8 DEF TypeInv
<1>8. CASE CmdCount
  <2>1. /\ seq' = (seq + 1) % SeqMod /\ UNCHANGED <<txq, want, put, budget>>
        /\ cmd' = (IF cmd.left = 0 THEN Idle ELSE [pc |-> "fill", seq |-> 0, left |-> cmd.left])
    BY <1>8 DEF CmdCount
  <2>2. seq' \in 0 .. SeqMod - 1 /\ 0 \in 0 .. SeqMod - 1 /\ cmd.left \in 0 .. Chunks /\ 0 \in 0 .. Chunks
    BY SMTT(60), <1>0, <2>1
  <2>3. cmd' \in Where /\ cmd'.left = cmd.left /\ (cmd'.pc \in {"fill", "put", "blocked"} => cmd'.left > 0)
    <3>1. CASE cmd.left = 0
      BY <2>1, <2>2, <3>1 DEF Idle
    <3>2. CASE cmd.left # 0
      <4>1. cmd' = [pc |-> "fill", seq |-> 0, left |-> cmd.left] /\ cmd.left > 0
        BY <2>1, <2>2, <3>2
      <4> QED BY <2>2, <4>1
    <3> QED BY <3>1, <3>2
  <2>4. CmdType'
    BY <1>0, <2>1, <2>2, <2>3 DEF CmdType
  <2> QED BY <1>1, <1>2, <2>1, <2>4, Unchanged DEF TypeInv
<1> QED BY <1>3, <1>4, <1>5, <1>6, <1>7, <1>8 DEF Cmd

LEMMA TypeNext == TypeInv /\ [Next]_vars => TypeInv'
<1> SUFFICES ASSUME TypeInv, [Next]_vars PROVE TypeInv'
  OBVIOUS
<1>1. CASE UNCHANGED vars
  BY <1>1, Unchanged DEF vars, radio, hist, flagVars, TypeInv
<1> QED BY <1>1, ReportType, PhoneType, SvcIsTyped, RxIsTyped, TxIsTyped, CmdIsTyped DEF Next

(* No queue outgrows its length, and every variable keeps its type, whatever  *)
(* the radio, the phone and the tasks do (ppogatt.c, service.c, bluetooth.c). *)
THEOREM TypeCorrect == Spec => []TypeOK
<1> QED BY TypeInit, TypeNext, TypeParts, PTL DEF Spec
-----------------------------------------------------------------------------
(* Order, to the phone.  What is on its way, from the first piece the phone  *)
(* has not heard to the last that was queued, is in the hand of the tx task  *)
(* and in its queue, in order and without a gap while a session is open.     *)
Sending  == tx.pc = "send" /\ tx.pkt.cmd = "data"
NextOut  == Len(heard) + 1 + (IF Sending THEN 1 ELSE 0)
IsData(p) == p.cmd = "data"

OutInv ==
  /\ open <=> tx.pc # "gone"
  /\ \A i \in DOMAIN heard : heard[i] = i
  /\ NextOut <= Len(put) + 1
  /\ Sending => tx.pkt.n = Len(heard) + 1
  /\ \A i \in DOMAIN txq : IsData(txq[i]) => txq[i].n \in NextOut .. Len(put)
  /\ \A i, j \in DOMAIN txq : IsData(txq[i]) /\ IsData(txq[j]) /\ i < j => txq[i].n < txq[j].n
  /\ open => \A n \in NextOut .. Len(put) : \E i \in DOMAIN txq : IsData(txq[i]) /\ txq[i].n = n

LEMMA OutInit == Init => OutInv /\ Out!Init
<1> SUFFICES ASSUME Init PROVE OutInv /\ Out!Init
  OBVIOUS
<1>1. ~open /\ tx.pc = "gone" /\ heard = <<>> /\ put = <<>> /\ txq = <<>>
  BY DEF Init, Gone
<1>2. ~Sending /\ NextOut = 1
  BY <1>1 DEF Sending, NextOut
<1>3. Out!Init
  BY <1>1 DEF Out!Init
<1> QED BY <1>1, <1>2, <1>3 DEF OutInv

(* The types that the order of the pieces needs. *)
LEMMA OutTypes ==
  ASSUME TypeInv
  PROVE  /\ txq \in Seq(Packet) /\ Len(txq) \in Nat /\ heard \in Seq(1 .. Bound) /\ Len(heard) \in Nat
         /\ put \in Seq(0 .. SeqMod - 1) /\ Len(put) \in Nat /\ tx.pkt \in Packet
         /\ NextOut \in Nat /\ open \in BOOLEAN
<1>1. /\ txq \in Seq(Packet) /\ heard \in Seq(1 .. Bound) /\ put \in Seq(0 .. SeqMod - 1) /\ tx.pkt \in Packet
      /\ open \in BOOLEAN
  BY DEF TypeInv, TxType, HistType, CmdType, FlagType
<1>2. Len(txq) \in Nat /\ Len(heard) \in Nat /\ Len(put) \in Nat
  BY <1>1
<1> QED BY <1>1, <1>2 DEF NextOut

LEMMA PacketNumbers ==
  /\ \A q \in Seq(Packet) : \A i \in DOMAIN q : q[i].n \in Nat
  /\ \A q \in Seq(Packet) : q \in Seq([cmd : {"data", "ack", "req", "rack"}, seq : 0 .. SeqMod - 1, n : Nat])
<1> DEFINE Any == [cmd : {"data", "ack", "req", "rack"}, seq : 0 .. SeqMod - 1, n : Nat]
<1>1. ASSUME NEW p \in Packet PROVE p \in Any /\ p.n \in Nat
  <2>1. \A n \in 0 .. Bound : n \in Nat
    BY BoundIsNat
  <2> QED BY <1>1, <2>1 DEF Packet
<1> HIDE DEF Any
<1>2. \A q \in Seq(Packet) : \A i \in DOMAIN q : q[i] \in Packet
  OBVIOUS
<1>3. ASSUME NEW q \in Seq(Packet) PROVE q \in Seq(Any)
  BY <1>1
<1> QED BY <1>1, <1>2, <1>3 DEF Any

(* What a queue holds after a packet was put into it. *)
LEMMA Added ==
  ASSUME NEW S, NEW q \in Seq(S), NEW e \in S
  PROVE  /\ \A i \in DOMAIN q : i \in DOMAIN Append(q, e) /\ Append(q, e)[i] = q[i] /\ i <= Len(q)
         /\ Len(q) + 1 \in DOMAIN Append(q, e) /\ Append(q, e)[Len(q) + 1] = e
         /\ \A i \in DOMAIN Append(q, e) : i \in DOMAIN q \/ i = Len(q) + 1
         /\ \A i \in DOMAIN Append(q, e) : i \in Nat
  OBVIOUS

LEMMA OutKeeps ==
  ASSUME OutInv, UNCHANGED <<open, tx, txq, put, heard>>
  PROVE  OutInv' /\ UNCHANGED <<put, heard>>
BY DEF OutInv, NextOut, Sending

(* A new session, and the end of one. *)
LEMMA OutSvc ==
  ASSUME TypeInv, OutInv, Svc
  PROVE  OutInv' /\ (Out!Next \/ UNCHANGED <<put, heard>>)
<1>1. CASE SvcConnected
  <2>1. /\ open' = TRUE /\ tx' = Waiting /\ txq' = <<Pkt("req", 0, 0), Pkt("rack", 0, 0)>>
        /\ put' = <<>> /\ heard' = <<>>
    BY <1>1 DEF SvcConnected
  <2>2. tx'.pc = "wait" /\ ~Sending' /\ NextOut' = 1
    BY <2>1 DEF Waiting, Sending, NextOut
  <2>3. \A i \in DOMAIN txq' : ~IsData(txq'[i])
    <3>1. DOMAIN txq' = {1, 2} /\ txq'[1] = Pkt("req", 0, 0) /\ txq'[2] = Pkt("rack", 0, 0)
      BY <2>1
    <3>2. ~IsData(Pkt("req", 0, 0)) /\ ~IsData(Pkt("rack", 0, 0))
      BY DEF IsData, Pkt
    <3> QED BY <3>1, <3>2
  <2>4. OutInv'
    BY <2>1, <2>2, <2>3 DEF OutInv
  <2>5. Out!Next
    BY <2>1 DEF Out!Next, Out!Restart
  <2> QED BY <2>4, <2>5
<1>2. CASE SvcDisconnected
  <2>1. open' = FALSE /\ tx' = Gone /\ txq' = <<>> /\ UNCHANGED <<put, heard>>
    BY <1>2 DEF SvcDisconnected
  <2>2. tx'.pc = "gone" /\ ~Sending' /\ NextOut' = Len(heard) + 1
    BY <2>1 DEF Gone, Sending, NextOut
  <2>3. NextOut' <= Len(put') + 1
    BY <2>1, <2>2, OutTypes DEF OutInv, NextOut
  <2>4. OutInv'
    BY <2>1, <2>2, <2>3 DEF OutInv
  <2> QED BY <2>1, <2>4
<1> QED BY <1>1, <1>2 DEF Svc

(* An acknowledgement goes behind the pieces that wait. *)
LEMMA OutRxAck ==
  ASSUME TypeInv, OutInv, RxAck
  PROVE  OutInv' /\ UNCHANGED <<put, heard>>
<1> DEFINE e == Pkt("ack", rx.pkt.seq, 0)
<1>1. txq' = Append(txq, e) /\ UNCHANGED <<open, tx, put, heard>>
  BY DEF RxAck, RxIdle
<1>2. e \in Packet /\ ~IsData(e)
  <2>1. rx.pkt.seq \in 0 .. SeqMod - 1
    BY DEF TypeInv, RxType, Packet
  <2> QED BY <2>1, Packets DEF IsData
<1>3. txq \in Seq(Packet)
  BY OutTypes
<1> HIDE DEF e
<1>4. \A i \in DOMAIN txq' : IsData(txq'[i]) => i \in DOMAIN txq /\ txq'[i] = txq[i]
  BY <1>1, <1>2, <1>3, Added
<1>5. \A i \in DOMAIN txq : i \in DOMAIN txq' /\ txq'[i] = txq[i]
  BY <1>1, <1>2, <1>3, Added
<1>6. NextOut' = NextOut /\ Sending' = Sending
  BY <1>1 DEF NextOut, Sending
<1>7. \A i \in DOMAIN txq' : IsData(txq'[i]) => txq'[i].n \in NextOut' .. Len(put')
  BY <1>1, <1>4, <1>6 DEF OutInv
<1>8. \A i, j \in DOMAIN txq' : IsData(txq'[i]) /\ IsData(txq'[j]) /\ i < j => txq'[i].n < txq'[j].n
  BY <1>4 DEF OutInv
<1>9. open' => \A n \in NextOut' .. Len(put') : \E i \in DOMAIN txq' : IsData(txq'[i]) /\ txq'[i].n = n
  BY <1>1, <1>5, <1>6 DEF OutInv
<1> QED BY <1>1, <1>6, <1>7, <1>8, <1>9 DEF OutInv, Sending

(* The next piece is the first of those in the queue. *)
LEMMA OutTxTake ==
  ASSUME TypeInv, OutInv, TxTake
  PROVE  OutInv' /\ UNCHANGED <<put, heard>>
<1>1. /\ tx.pc = "wait" /\ txq # <<>> /\ tx' = [pc |-> "send", pkt |-> Head(txq)] /\ txq' = Tail(txq)
      /\ UNCHANGED <<open, put, heard>>
  BY DEF TxTake, hist
<1>2. /\ txq \in Seq(Packet) /\ Head(txq) = txq[1] /\ 1 \in DOMAIN txq /\ txq[1] \in Packet
      /\ \A i \in DOMAIN txq' : i + 1 \in DOMAIN txq /\ txq'[i] = txq[i + 1] /\ i \in Nat /\ i > 0
      /\ \A i \in DOMAIN txq : i \in Nat /\ (i = 1 \/ (i > 1 /\ i - 1 \in DOMAIN txq' /\ txq'[i - 1] = txq[i]))
  BY <1>1, OutTypes
<1>3. ~Sending /\ NextOut = Len(heard) + 1 /\ open
  BY <1>1 DEF Sending, NextOut, OutInv
<1>4. tx'.pc = "send" /\ tx'.pkt = txq[1] /\ Sending' = IsData(txq[1])
  BY <1>1, <1>2 DEF Sending, IsData
<1>5. \A i \in DOMAIN txq : txq[i].n \in Nat
  BY <1>2, PacketNumbers
<1>6. CASE IsData(txq[1])
  <2>1. NextOut' = NextOut + 1 /\ Sending'
    BY <1>1, <1>3, <1>4, <1>6, OutTypes DEF NextOut
  <2>2. txq[1].n \in NextOut .. Len(put)
    BY <1>2, <1>6 DEF OutInv
  <2>3. txq[1].n = NextOut
    <3>1. NextOut \in NextOut .. Len(put)
      BY <1>5, <2>2, OutTypes
    <3>2. PICK i \in DOMAIN txq : IsData(txq[i]) /\ txq[i].n = NextOut
      BY <1>3, <3>1 DEF OutInv
    <3>3. CASE i = 1
      BY <3>2, <3>3
    <3>4. CASE i # 1
      <4>1. txq[1].n < txq[i].n
        BY <1>2, <1>6, <3>2, <3>4 DEF OutInv
      <4> QED BY <1>2, <1>5, <2>2, <3>2, <4>1, OutTypes
    <3> QED BY <3>3, <3>4
  <2>4. NextOut' <= Len(put') + 1
    BY <1>1, <2>1, <2>2, <2>3, OutTypes
  <2>5. \A i \in DOMAIN txq' : IsData(txq'[i]) => txq'[i].n \in NextOut' .. Len(put')
    <3> SUFFICES ASSUME NEW i \in DOMAIN txq', IsData(txq'[i]) PROVE txq'[i].n \in NextOut' .. Len(put')
      OBVIOUS
    <3>1. i + 1 \in DOMAIN txq /\ txq'[i] = txq[i + 1] /\ 1 < i + 1
      BY <1>2
    <3>2. txq[i + 1].n \in NextOut .. Len(put) /\ txq[1].n < txq[i + 1].n
      BY <1>2, <1>6, <3>1 DEF OutInv
    <3> QED BY <1>1, <1>5, <2>1, <2>3, <3>1, <3>2, OutTypes
  <2>6. \A n \in NextOut' .. Len(put') : \E i \in DOMAIN txq' : IsData(txq'[i]) /\ txq'[i].n = n
    <3> SUFFICES ASSUME NEW n \in NextOut' .. Len(put')
                 PROVE  \E i \in DOMAIN txq' : IsData(txq'[i]) /\ txq'[i].n = n
      OBVIOUS
    <3>1. n \in NextOut .. Len(put) /\ n > NextOut
      BY <1>1, <2>1, OutTypes
    <3>2. PICK i \in DOMAIN txq : IsData(txq[i]) /\ txq[i].n = n
      BY <1>3, <3>1 DEF OutInv
    <3>3. i # 1
      BY <2>3, <3>1, <3>2, OutTypes
    <3>4. i - 1 \in DOMAIN txq' /\ txq'[i - 1] = txq[i]
      BY <1>2, <3>3
    <3> QED BY <3>2, <3>4
  <2>7. \A i, j \in DOMAIN txq' : IsData(txq'[i]) /\ IsData(txq'[j]) /\ i < j => txq'[i].n < txq'[j].n
    <3> SUFFICES ASSUME NEW i \in DOMAIN txq', NEW j \in DOMAIN txq', IsData(txq'[i]), IsData(txq'[j]), i < j
                 PROVE  txq'[i].n < txq'[j].n
      OBVIOUS
    <3>1. i + 1 \in DOMAIN txq /\ j + 1 \in DOMAIN txq /\ i + 1 < j + 1 /\ txq'[i] = txq[i + 1] /\ txq'[j] = txq[j + 1]
      BY <1>2
    <3> QED BY <3>1 DEF OutInv
  <2>8. tx'.pkt.n = Len(heard') + 1
    BY <1>1, <1>3, <1>4, <2>3
  <2> QED BY <1>1, <1>3, <1>4, <2>4, <2>5, <2>6, <2>7, <2>8 DEF OutInv
<1>7. CASE ~IsData(txq[1])
  <2>1. NextOut' = NextOut /\ ~Sending'
    BY <1>1, <1>3, <1>4, <1>7, OutTypes DEF NextOut
  <2>2. \A i \in DOMAIN txq' : IsData(txq'[i]) => txq'[i].n \in NextOut' .. Len(put')
    BY <1>1, <1>2, <2>1 DEF OutInv
  <2>3. \A n \in NextOut' .. Len(put') : \E i \in DOMAIN txq' : IsData(txq'[i]) /\ txq'[i].n = n
    <3> SUFFICES ASSUME NEW n \in NextOut .. Len(put)
                 PROVE  \E i \in DOMAIN txq' : IsData(txq'[i]) /\ txq'[i].n = n
      BY <1>1, <2>1
    <3>1. PICK i \in DOMAIN txq : IsData(txq[i]) /\ txq[i].n = n
      BY <1>3 DEF OutInv
    <3>2. i - 1 \in DOMAIN txq' /\ txq'[i - 1] = txq[i]
      BY <1>2, <1>7, <3>1
    <3> QED BY <3>1, <3>2
  <2>4. \A i, j \in DOMAIN txq' : IsData(txq'[i]) /\ IsData(txq'[j]) /\ i < j => txq'[i].n < txq'[j].n
    <3> SUFFICES ASSUME NEW i \in DOMAIN txq', NEW j \in DOMAIN txq', IsData(txq'[i]), IsData(txq'[j]), i < j
                 PROVE  txq'[i].n < txq'[j].n
      OBVIOUS
    <3>1. i + 1 \in DOMAIN txq /\ j + 1 \in DOMAIN txq /\ i + 1 < j + 1 /\ txq'[i] = txq[i + 1] /\ txq'[j] = txq[j + 1]
      BY <1>2
    <3> QED BY <3>1 DEF OutInv
  <2>5. NextOut' <= Len(put') + 1
    BY <1>1, <2>1 DEF OutInv
  <2> QED BY <1>1, <1>3, <1>4, <2>1, <2>2, <2>3, <2>4, <2>5 DEF OutInv
<1> QED BY <1>1, <1>6, <1>7

(* The radio takes what the tx task holds, and that is the next piece. *)
LEMMA OutTxSend ==
  ASSUME TypeInv, OutInv, TxSend
  PROVE  OutInv' /\ (Out!Next \/ UNCHANGED <<put, heard>>)
<1>1. /\ tx.pc = "send" /\ tx' = Waiting /\ UNCHANGED <<open, txq, put>>
      /\ heard' = (IF tx.pkt.cmd = "data" THEN Append(heard, tx.pkt.n) ELSE heard)
  BY DEF TxSend
<1>2. ~Sending' /\ tx'.pc = "wait" /\ NextOut' = Len(heard') + 1
  BY <1>1, OutTypes DEF Sending, NextOut, Waiting
<1>3. CASE IsData(tx.pkt)
  <2>1. Sending /\ tx.pkt.n = Len(heard) + 1 /\ heard' = Append(heard, Len(heard) + 1) /\ NextOut = Len(heard) + 2
    BY <1>1, <1>3, OutTypes DEF Sending, IsData, OutInv, NextOut
  <2>2. /\ Len(heard') = Len(heard) + 1 /\ Len(heard) \in Nat
        /\ \A i \in DOMAIN heard' : heard'[i] = i
    <3>1. \A i \in DOMAIN heard : heard[i] = i
      BY DEF OutInv
    <3>2. heard \in Seq(Nat) /\ Len(heard) \in Nat
      BY OutTypes, BoundIsNat
    <3> QED BY <2>1, <3>1, <3>2
  <2>3. NextOut' = NextOut /\ NextOut' <= Len(put') + 1
    BY <1>1, <1>2, <2>1, <2>2 DEF OutInv
  <2>4. OutInv'
    BY <1>1, <1>2, <2>2, <2>3 DEF OutInv
  <2>5. Out!Last = Len(heard)
    <3>1. \A i \in DOMAIN heard : heard[i] = i
      BY DEF OutInv
    <3>2. heard \in Seq(1 .. Bound)
      BY OutTypes
    <3> QED BY <3>1, <3>2 DEF Out!Last
  <2>6. Len(heard) + 1 \in Out!Last + 1 .. Len(put)
    BY <2>1, <2>2, <2>5, OutTypes DEF OutInv
  <2>7. Out!Receive
    BY <1>1, <2>1, <2>5, <2>6 DEF Out!Receive
  <2> QED BY <2>4, <2>7 DEF Out!Next
<1>4. CASE ~IsData(tx.pkt)
  <2>1. heard' = heard /\ ~Sending
    BY <1>1, <1>4 DEF IsData, Sending
  <2>2. NextOut' = NextOut
    BY <1>2, <2>1, OutTypes DEF NextOut
  <2>3. OutInv'
    BY <1>1, <1>2, <2>1, <2>2 DEF OutInv
  <2> QED BY <1>1, <2>1, <2>3
<1> QED BY <1>3, <1>4

(* A piece that is queued goes behind all others. *)
LEMMA OutCmdPut ==
  ASSUME TypeInv, OutInv, CmdPut
  PROVE  OutInv' /\ Out!Next
<1> DEFINE e == Pkt("data", cmd.seq, Len(put) + 1)
<1>1. txq' = Append(txq, e) /\ put' = Append(put, cmd.seq) /\ UNCHANGED <<open, tx, heard>> /\ open
  BY DEF CmdPut, CmdIdle
<1>2. cmd.seq \in 0 .. SeqMod - 1 /\ put \in Seq(0 .. SeqMod - 1) /\ txq \in Seq(Packet)
  BY OutTypes DEF TypeInv, CmdType
<1>3. e \in [cmd : {"data", "ack", "req", "rack"}, seq : 0 .. SeqMod - 1, n : Nat] /\ e.cmd = "data" /\ e.n = Len(put) + 1
  BY <1>2, OutTypes DEF Pkt
<1>4. txq \in Seq([cmd : {"data", "ack", "req", "rack"}, seq : 0 .. SeqMod - 1, n : Nat])
  BY <1>2, PacketNumbers
<1> HIDE DEF e
<1>5. /\ \A i \in DOMAIN txq : i \in DOMAIN txq' /\ txq'[i] = txq[i] /\ i <= Len(txq)
      /\ Len(txq) + 1 \in DOMAIN txq' /\ txq'[Len(txq) + 1] = e
      /\ \A i \in DOMAIN txq' : i \in DOMAIN txq \/ i = Len(txq) + 1
      /\ \A i \in DOMAIN txq' : i \in Nat
  BY <1>1, <1>3, <1>4, Added
<1>6. Len(put') = Len(put) + 1 /\ SubSeq(put', 1, Len(put) + 1 - 1) = put /\ Len(put) \in Nat
  BY <1>1, <1>2
<1>7. NextOut' = NextOut /\ (Sending' <=> Sending) /\ NextOut \in Nat /\ NextOut <= Len(put) + 1
  BY <1>1, OutTypes DEF NextOut, Sending, OutInv
<1>8. \A i \in DOMAIN txq : IsData(txq[i]) => txq[i].n \in NextOut .. Len(put)
  BY DEF OutInv
<1>9. \A i \in DOMAIN txq' : IsData(txq'[i]) => txq'[i].n \in NextOut' .. Len(put')
  <2> SUFFICES ASSUME NEW i \in DOMAIN txq', IsData(txq'[i]) PROVE txq'[i].n \in NextOut .. Len(put) + 1
    BY <1>6, <1>7
  <2>1. CASE i \in DOMAIN txq
    <3>1. txq[i].n \in NextOut .. Len(put) /\ txq'[i] = txq[i]
      BY <1>5, <1>8, <2>1
    <3> QED BY <1>6, <1>7, <3>1
  <2>2. CASE i = Len(txq) + 1
    <3>1. txq'[i].n = Len(put) + 1
      BY <1>3, <1>5, <2>2
    <3> QED BY <1>6, <1>7, <3>1
  <2> QED BY <1>5, <2>1, <2>2
<1>10. \A i, j \in DOMAIN txq' : IsData(txq'[i]) /\ IsData(txq'[j]) /\ i < j => txq'[i].n < txq'[j].n
  <2> SUFFICES ASSUME NEW i \in DOMAIN txq', NEW j \in DOMAIN txq', IsData(txq'[i]), IsData(txq'[j]), i < j
               PROVE  txq'[i].n < txq'[j].n
    OBVIOUS
  <2>0. i \in Nat /\ j \in Nat /\ Len(txq) \in Nat
    BY <1>5, OutTypes
  <2>1. i \in DOMAIN txq
    BY <1>5, <2>0
  <2>2. CASE j \in DOMAIN txq
    BY <1>5, <2>1, <2>2 DEF OutInv
  <2>3. CASE j = Len(txq) + 1
    <3>1. txq'[j].n = Len(put) + 1 /\ txq[i].n \in NextOut .. Len(put) /\ txq'[i] = txq[i]
      BY <1>3, <1>5, <1>8, <2>1, <2>3
    <3> QED BY <1>6, <1>7, <3>1
  <2> QED BY <1>5, <2>2, <2>3
<1>11. \A n \in NextOut' .. Len(put') : \E i \in DOMAIN txq' : IsData(txq'[i]) /\ txq'[i].n = n
  <2> SUFFICES ASSUME NEW n \in NextOut .. Len(put) + 1
               PROVE  \E i \in DOMAIN txq' : IsData(txq'[i]) /\ txq'[i].n = n
    BY <1>6, <1>7
  <2>1. CASE n \in NextOut .. Len(put)
    <3>1. PICK i \in DOMAIN txq : IsData(txq[i]) /\ txq[i].n = n
      BY <1>1, <2>1 DEF OutInv
    <3> QED BY <1>5, <3>1
  <2>2. CASE n = Len(put) + 1
    <3>1. IsData(txq'[Len(txq) + 1]) /\ txq'[Len(txq) + 1].n = n
      BY <1>3, <1>5, <2>2 DEF IsData
    <3> QED BY <1>5, <3>1
  <2>3. n \in NextOut .. Len(put) \/ n = Len(put) + 1
    BY <1>6, <1>7
  <2> QED BY <2>1, <2>2, <2>3
<1>12. NextOut' <= Len(put') + 1
  BY <1>6, <1>7
<1>13. OutInv'
  BY <1>1, <1>7, <1>9, <1>10, <1>11, <1>12 DEF OutInv, Sending
<1>14. Out!Send
  BY <1>1, <1>6 DEF Out!Send
<1> QED BY <1>13, <1>14 DEF Out!Next

LEMMA OutStep ==
  ASSUME TypeInv, OutInv, [Next]_vars
  PROVE  OutInv' /\ [Out!Next]_<<put, heard>>
<1>1. CASE UNCHANGED <<open, tx, txq, put, heard>>
  BY <1>1, OutKeeps
<1>2. CASE Connect \/ Ready \/ Disconnect \/ Phone
  BY <1>1, <1>2 DEF Connect, Ready, Disconnect, Report, hist, Phone, PhoneResets, PhoneSends, PhoneAcks, Arrive
<1>3. CASE Rx
  BY <1>1, <1>3, OutRxAck DEF Rx, RxTake, RxAppend, RxIdle
<1>4. CASE Tx
  BY <1>4, OutTxTake, OutTxSend DEF Tx
<1>5. CASE Ask \/ Cmd
  <2>1. CASE CmdPut
    BY <2>1, OutCmdPut
  <2>2. CASE ~CmdPut
    BY <1>1, <1>5, <2>2 DEF Ask, Cmd, CmdTake, CmdFill, CmdNoQueue, CmdBlock, CmdCount, CmdIdle, hist
  <2> QED BY <2>1, <2>2
<1>6. CASE Svc
  BY <1>6, OutSvc
<1>7. CASE UNCHANGED vars
  BY <1>1, <1>7 DEF vars, hist
<1> QED BY <1>2, <1>3, <1>4, <1>5, <1>6, <1>7 DEF Next
-----------------------------------------------------------------------------
(* The numbers, unless the session began or ended under the command task:    *)
(* the next is that of the next piece, or of the one that was just queued,   *)
(* and the piece in hand has it.                                             *)
Numbered == IF cmd.pc = "count" THEN Len(put) - 1 ELSE Len(put)

SeqInv ==
  ~torn => /\ Numbered \in Nat /\ seq = Numbered % SeqMod
           /\ cmd.pc \in {"put", "blocked"} => cmd.seq = seq
           /\ SeqsCount

LEMMA NextRemainder ==
  ASSUME NEW n \in Nat, NEW m \in Nat, m > 0
  PROVE  ((n % m) + 1) % m = (n + 1) % m
<1> DEFINE q == n \div m
           r == n % m
<1>1. q \in Nat /\ r \in Nat /\ r < m /\ n = q * m + r
  OBVIOUS
<1> HIDE DEF q, r
<1>2. CASE r + 1 < m
  <2>1. n + 1 = q * m + (r + 1)
    BY <1>1
  <2>2. (n + 1) % m = r + 1 /\ (r + 1) % m = r + 1
    BY <1>1, <1>2, <2>1
  <2> QED BY <2>2 DEF r
<1>3. CASE r + 1 = m
  <2>1. n + 1 = (q + 1) * m
    BY <1>1, <1>3
  <2>2. (n + 1) % m = 0 /\ (r + 1) % m = 0
    BY <1>1, <1>3, <2>1
  <2> QED BY <2>2 DEF r
<1> QED BY <1>1, <1>2, <1>3

LEMMA FromZero == ASSUME NEW m \in Nat, m > 0 PROVE 0 = 0 % m
  OBVIOUS

LEMMA SeqInit == Init => SeqInv
<1> SUFFICES ASSUME Init PROVE SeqInv
  OBVIOUS
<1>1. seq = 0 /\ put = <<>> /\ cmd.pc = "idle" /\ DOMAIN put = {} /\ Len(put) = 0
  BY DEF Init, Idle
<1>2. Numbered = 0 /\ seq = Numbered % SeqMod
  BY <1>1, FromZero, SizesHold DEF Sizes, Numbered
<1> QED BY <1>1, <1>2 DEF SeqInv, SeqsCount

LEMMA SeqStep ==
  ASSUME TypeInv, SeqInv, [Next]_vars
  PROVE  SeqInv'
<1>0. /\ SeqMod \in Nat /\ SeqMod > 0 /\ put \in Seq(0 .. SeqMod - 1) /\ Len(put) \in Nat /\ torn \in BOOLEAN
      /\ cmd.seq \in 0 .. SeqMod - 1
      /\ cmd \in [pc : {"idle", "fill", "put", "blocked", "count", "stuck"}, seq : 0 .. SeqMod - 1, left : 0 .. Chunks]
  BY SizesHold DEF Sizes, TypeInv, CmdType, FlagType
<1>1. CASE UNCHANGED <<seq, put, cmd, torn>>
  BY <1>1 DEF SeqInv, SeqsCount, Numbered
<1>2. CASE Connect \/ Ready \/ Disconnect \/ Phone \/ Rx \/ Tx \/ Ask
  BY <1>1, <1>2 DEF Connect, Ready, Disconnect, Report, hist, Phone, PhoneResets, PhoneSends, PhoneAcks, Arrive,
                    Rx, RxTake, RxAppend, RxAck, RxIdle, Tx, TxTake, TxSend, Ask, CmdIdle
<1>3. CASE Svc
  <2>1. Shutdown
    BY <1>3 DEF Svc, SvcConnected, SvcDisconnected
  <2>2. ~torn' => cmd.pc = "idle" /\ cmd' = cmd
    BY <1>3, <2>1 DEF Shutdown, Svc, SvcConnected, SvcDisconnected
  <2>3. CASE SvcConnected
    <3>1. seq' = 0 /\ put' = <<>>
      BY <2>3 DEF SvcConnected
    <3>2. Len(put') = 0 /\ DOMAIN put' = {} /\ seq' = Len(put') % SeqMod
      BY <1>0, <3>1, FromZero
    <3> QED BY <2>2, <3>2 DEF SeqInv, SeqsCount, Numbered
  <2>4. CASE SvcDisconnected
    <3>1. UNCHANGED <<seq, put>> /\ (~torn' => ~torn)
      BY <2>4 DEF SvcDisconnected
    <3> QED BY <2>2, <3>1 DEF SeqInv, SeqsCount, Numbered
  <2> QED BY <1>3, <2>3, <2>4 DEF Svc
<1>4. CASE CmdTake
  BY <1>4 DEF CmdTake, CmdIdle, SeqInv, SeqsCount, Numbered
<1>5. CASE CmdFill
  <2>1. cmd.pc = "fill" /\ cmd' = [cmd EXCEPT !.pc = "put", !.seq = seq] /\ UNCHANGED <<seq, put, torn>>
    BY <1>5 DEF CmdFill, CmdIdle
  <2>2. cmd'.seq = seq' /\ cmd'.pc = "put"
    BY <1>0, <2>1
  <2> QED BY <2>1, <2>2 DEF SeqInv, SeqsCount, Numbered
<1>6. CASE CmdBlock
  <2>1. cmd.pc = "put" /\ cmd' = [cmd EXCEPT !.pc = "blocked"] /\ UNCHANGED <<seq, put, torn>>
    BY <1>6 DEF CmdBlock, CmdIdle
  <2>2. cmd'.seq = cmd.seq /\ cmd'.pc = "blocked"
    BY <1>0, <2>1
  <2> QED BY <2>1, <2>2 DEF SeqInv, SeqsCount, Numbered
<1>7. CASE CmdNoQueue
  BY <1>1, <1>7 DEF CmdNoQueue, hist
<1>8. CASE CmdPut
  <2>1. /\ cmd.pc \in {"put", "blocked"} /\ put' = Append(put, cmd.seq)
        /\ cmd' = [cmd EXCEPT !.pc = "count", !.left = @ - 1] /\ UNCHANGED <<seq, torn>>
    BY <1>8 DEF CmdPut, CmdIdle
  <2>2. cmd'.pc = "count"
    BY <1>0, <2>1
  <2>3. Len(put') = Len(put) + 1
    BY <1>0, <2>1
  <2>4. Numbered = Len(put) /\ Numbered' = Len(put)
    BY <1>0, <2>1, <2>2, <2>3 DEF Numbered
  <2>5. SeqsCount' \/ torn
    <3> SUFFICES ASSUME ~torn, NEW i \in DOMAIN put' PROVE put'[i] = (i - 1) % SeqMod
      BY <2>1 DEF SeqsCount
    <3>1. \A j \in DOMAIN put : put[j] = (j - 1) % SeqMod
      BY DEF SeqInv, SeqsCount
    <3>2. cmd.seq = Len(put) % SeqMod
      BY <2>1, <2>4 DEF SeqInv
    <3>3. CASE i \in DOMAIN put
      BY <1>0, <2>1, <3>1, <3>3
    <3>4. CASE i = Len(put) + 1
      <4>1. put'[i] = cmd.seq /\ i - 1 = Len(put)
        BY <1>0, <2>1, <3>4
      <4> QED BY <3>2, <4>1
    <3> QED BY <1>0, <2>1, <3>3, <3>4
  <2> QED BY <1>0, <2>1, <2>2, <2>4, <2>5 DEF SeqInv
<1>9. CASE CmdCount
  <2>1. /\ cmd.pc = "count" /\ seq' = (seq + 1) % SeqMod /\ UNCHANGED <<put, torn>>
        /\ cmd' = (IF cmd.left = 0 THEN Idle ELSE [pc |-> "fill", seq |-> 0, left |-> cmd.left])
    BY <1>9 DEF CmdCount, CmdIdle
  <2>2. cmd'.pc \in {"idle", "fill"}
    BY <2>1 DEF Idle
  <2>3. Numbered = Len(put) - 1 /\ Numbered' = Len(put) /\ Numbered + 1 = Len(put)
    BY <1>0, <2>1, <2>2 DEF Numbered
  <2>4. ~torn => seq' = Len(put) % SeqMod
    <3> SUFFICES ASSUME ~torn PROVE seq' = Len(put) % SeqMod
      OBVIOUS
    <3>1. seq = Numbered % SeqMod /\ Numbered \in Nat
      BY DEF SeqInv
    <3>2. seq' = (Numbered + 1) % SeqMod
      BY <1>0, <2>1, <3>1, NextRemainder
    <3> QED BY <2>3, <3>2
  <2> QED BY <1>0, <2>1, <2>2, <2>3, <2>4 DEF SeqInv, SeqsCount
<1>10. CASE UNCHANGED vars
  BY <1>1, <1>10 DEF vars, hist
<1> QED BY <1>2, <1>3, <1>4, <1>5, <1>6, <1>7, <1>8, <1>9, <1>10 DEF Next, Cmd
-----------------------------------------------------------------------------
(* Order, from the phone.  What it said in the session, by number, and where *)
(* that is unless it was lost: with the protocol, with the rx task, or in    *)
(* its queue, in that order.                                                 *)
Within(s, n) == s # <<>> /\ n >= s[1] /\ n < s[1] + Len(s)
LastTaken    == IF taken = <<>> THEN 0 ELSE taken[Len(taken)]

InInv ==
  /\ \A i \in DOMAIN said : said[i] = said[1] + i - 1
  /\ said # <<>> => said[1] + Len(said) - 1 = Datas - budget.datas
  /\ \A i \in DOMAIN taken : Within(said, taken[i])
  /\ rx.pc = "append" => Within(said, rx.pkt.n) /\ rx.pkt.n > LastTaken
  /\ \A i \in DOMAIN rxq : IsData(rxq[i]) =>
       Within(said, rxq[i].n) /\ rxq[i].n > LastTaken /\ (rx.pc = "append" => rxq[i].n > rx.pkt.n)
  /\ \A i, j \in DOMAIN rxq : IsData(rxq[i]) /\ IsData(rxq[j]) /\ i < j => rxq[i].n < rxq[j].n

LEMMA InInit == Init => InInv /\ In!Init
<1> SUFFICES ASSUME Init PROVE InInv /\ In!Init
  OBVIOUS
<1>1. said = <<>> /\ taken = <<>> /\ rx.pc = "gone" /\ rxq = <<>>
  BY DEF Init, Gone
<1>2. InPlace = <<>>
  BY <1>1 DEF InPlace
<1> QED BY <1>1, <1>2 DEF InInv, In!Init

LEMMA InTypes ==
  ASSUME TypeInv
  PROVE  /\ said \in Seq(1 .. Datas) /\ taken \in Seq(1 .. Datas) /\ rxq \in Seq(Packet) /\ rx.pkt \in Packet
         /\ Len(said) \in Nat /\ Len(taken) \in Nat /\ Datas \in Nat /\ budget.datas \in 0 .. Datas
         /\ said # <<>> => said[1] \in Nat
         /\ LastTaken \in Nat
<1>1. /\ said \in Seq(1 .. Datas) /\ taken \in Seq(1 .. Datas) /\ rxq \in Seq(Packet) /\ rx.pkt \in Packet
      /\ Datas \in Nat /\ budget.datas \in 0 .. Datas
  BY SizesHold DEF TypeInv, HistType, RxType, CmdType, Sizes
<1>2. Len(said) \in Nat /\ Len(taken) \in Nat /\ (said # <<>> => said[1] \in Nat)
  BY <1>1
<1>3. LastTaken \in Nat
  BY <1>1 DEF LastTaken
<1> QED BY <1>1, <1>2, <1>3

LEMMA InKeeps ==
  ASSUME InInv, UNCHANGED <<said, taken, rx, rxq>>, budget'.datas = budget.datas
  PROVE  InInv' /\ UNCHANGED <<said, InPlace>>
<1>1. InPlace' = InPlace
  BY DEF InPlace
<1>2. LastTaken' = LastTaken /\ \A n : Within(said', n) <=> Within(said, n)
  BY DEF LastTaken, Within
<1> QED BY <1>1, <1>2 DEF InInv

(* A packet that is no data, in the queue or lost. *)
LEMMA InArrives ==
  ASSUME TypeInv, InInv, NEW pkt \in Packet, ~IsData(pkt), Arrive(pkt), UNCHANGED <<said, budget>>
  PROVE  InInv' /\ UNCHANGED <<said, InPlace>>
<1>1. UNCHANGED <<said, taken, rx, budget>> /\ (rxq' = rxq \/ rxq' = Append(rxq, pkt))
  BY DEF Arrive
<1>2. InPlace' = InPlace
  BY <1>1 DEF InPlace
<1>3. LastTaken' = LastTaken /\ \A n : Within(said', n) <=> Within(said, n)
  BY <1>1 DEF LastTaken, Within
<1>4. \A i \in DOMAIN rxq' : IsData(rxq'[i]) => i \in DOMAIN rxq /\ rxq'[i] = rxq[i]
  <2>1. rxq \in Seq(Packet)
    BY InTypes
  <2> QED BY <1>1, <2>1, Added
<1>5. \A i \in DOMAIN rxq' : IsData(rxq'[i]) =>
        Within(said', rxq'[i].n) /\ rxq'[i].n > LastTaken' /\ (rx'.pc = "append" => rxq'[i].n > rx'.pkt.n)
  BY <1>1, <1>3, <1>4 DEF InInv
<1>6. \A i, j \in DOMAIN rxq' : IsData(rxq'[i]) /\ IsData(rxq'[j]) /\ i < j => rxq'[i].n < rxq'[j].n
  BY <1>4 DEF InInv
<1>7. \A i \in DOMAIN taken' : Within(said', taken'[i])
  BY <1>1, <1>3 DEF InInv
<1>8. rx'.pc = "append" => Within(said', rx'.pkt.n) /\ rx'.pkt.n > LastTaken'
  BY <1>1, <1>3 DEF InInv
<1> QED BY <1>1, <1>2, <1>5, <1>6, <1>7, <1>8 DEF InInv

(* The phone says the next number, which is above all others. *)
LEMMA InSends ==
  ASSUME TypeInv, InInv, PhoneSends
  PROVE  InInv' /\ In!Next
<1> DEFINE n == Datas - budget.datas + 1
           e == Pkt("data", n % SeqMod, n)
<1>0. /\ budget.datas \in 1 .. Datas /\ Datas \in Nat /\ n \in Nat /\ n > 0 /\ n \in 1 .. Datas
      /\ said \in Seq(Nat) /\ Len(said) \in Nat /\ taken \in Seq(1 .. Datas) /\ Len(taken) \in Nat
      /\ rxq \in Seq(Packet) /\ LastTaken \in Nat /\ (said # <<>> => said[1] \in Nat)
  <2>1. budget.datas > 0 /\ budget.datas \in 0 .. Datas /\ Datas \in Nat
    BY InTypes DEF PhoneSends
  <2>2. n \in 1 .. Datas
    BY <2>1
  <2> QED BY <2>1, <2>2, InTypes
<1>1. Arrive(e) /\ said' = Append(said, n) /\ budget' = [budget EXCEPT !.datas = @ - 1]
  BY DEF PhoneSends
<1>2. UNCHANGED <<taken, rx>> /\ (rxq' = rxq \/ rxq' = Append(rxq, e))
  BY <1>1 DEF Arrive
<1>3. e \in Packet /\ IsData(e) /\ e.n = n
  <2>1. SeqMod \in Nat /\ SeqMod > 0 /\ Bound \in Nat /\ Bound >= Datas
    BY SizesHold, BoundIsNat DEF Sizes
  <2>2. n % SeqMod \in 0 .. SeqMod - 1 /\ n \in 0 .. Bound
    <3> HIDE DEF n
    <3> QED BY <1>0, <2>1
  <2> HIDE DEF n
  <2> QED BY <2>2, Packets DEF IsData
<1>4. budget'.datas = budget.datas - 1
  <2>1. budget \in [asks : 0 .. Asks, datas : 0 .. Datas, reports : 0 .. Reports]
    BY DEF TypeInv, CmdType
  <2> QED BY <1>1, <2>1
<1>5. Datas - budget'.datas = n
  BY <1>0, <1>4
<1>6. said # <<>> => n = said[1] + Len(said)
  <2>1. said # <<>> => said[1] + Len(said) - 1 = Datas - budget.datas
    BY DEF InInv
  <2> QED BY <1>0, <2>1
<1> HIDE DEF n, e
<1>7. /\ said' # <<>> /\ Len(said') = Len(said) + 1 /\ said'[Len(said) + 1] = n
      /\ (said # <<>> => said'[1] = said[1]) /\ (said = <<>> => said'[1] = n /\ Len(said) = 0)
      /\ \A i \in DOMAIN said : said'[i] = said[i] /\ i \in Nat
      /\ \A i \in DOMAIN said' : i \in DOMAIN said \/ i = Len(said) + 1
      /\ SubSeq(said', 1, Len(said) + 1 - 1) = said
  <2>1. said' # <<>> /\ Len(said') = Len(said) + 1 /\ said'[Len(said) + 1] = n
    <3>1. Len(said') = Len(said) + 1
      BY <1>0, <1>1, Adding
    <3>2. Len(said) + 1 \in DOMAIN said' /\ said'[Len(said) + 1] = n
      BY <1>0, <1>1, Added
    <3> QED BY <3>1, <3>2
  <2>2. \A i \in DOMAIN said : said'[i] = said[i] /\ i \in Nat
    BY SMTT(60), <1>0, <1>1
  <2>3. \A i \in DOMAIN said' : i \in DOMAIN said \/ i = Len(said) + 1
    BY <1>0, <1>1, Added
  <2>4. SubSeq(said', 1, Len(said) + 1 - 1) = said
    BY SMTT(60), <1>0, <1>1
  <2>5. said # <<>> => 1 \in DOMAIN said
    BY <1>0
  <2>6. said = <<>> => Len(said) = 0
    OBVIOUS
  <2> QED BY <2>1, <2>2, <2>3, <2>4, <2>5, <2>6
<1>8. said'[1] \in Nat /\ said'[1] + Len(said') - 1 = n
  BY <1>0, <1>6, <1>7
<1>9. \A i \in DOMAIN said' : said'[i] = said'[1] + i - 1
  <2> SUFFICES ASSUME NEW i \in DOMAIN said' PROVE said'[i] = said'[1] + i - 1
    OBVIOUS
  <2>1. CASE i \in DOMAIN said
    <3>1. said # <<>>
      BY <2>1
    <3> QED BY <1>7, <2>1, <3>1 DEF InInv
  <2>2. CASE i = Len(said) + 1
    BY <1>0, <1>7, <1>8, <2>2
  <2> QED BY <1>7, <2>1, <2>2
<1>10. \A k \in Nat : Within(said, k) => Within(said', k) /\ k < n
  BY <1>0, <1>6, <1>7, <1>8 DEF Within
<1>11. Within(said', n)
  BY <1>0, <1>7, <1>8 DEF Within
<1>12. LastTaken' = LastTaken /\ LastTaken < n
  <2>1. LastTaken' = LastTaken
    BY <1>2 DEF LastTaken
  <2>2. CASE taken = <<>>
    BY <1>0, <2>1, <2>2 DEF LastTaken
  <2>3. CASE taken # <<>>
    <3>1. Len(taken) \in DOMAIN taken /\ taken[Len(taken)] \in Nat
      BY <1>0, <2>3
    <3>2. Within(said, taken[Len(taken)])
      BY <3>1 DEF InInv
    <3> QED BY <1>10, <2>1, <2>3, <3>1, <3>2 DEF LastTaken
  <2> QED BY <2>2, <2>3
<1>13. \A i \in DOMAIN taken' : Within(said', taken'[i])
  <2>1. \A i \in DOMAIN taken : taken[i] \in Nat
    BY <1>0
  <2> QED BY <1>2, <1>10, <2>1 DEF InInv
<1>14. rx.pkt.n \in Nat
  BY InTypes, BoundIsNat DEF Packet
<1>15. rx'.pc = "append" => Within(said', rx'.pkt.n) /\ rx'.pkt.n > LastTaken' /\ rx'.pkt.n < n
  BY <1>2, <1>10, <1>12, <1>14 DEF InInv
<1>16. \A i \in DOMAIN rxq' : i \in Nat /\ (i \in DOMAIN rxq => rxq'[i] = rxq[i] /\ i <= Len(rxq))
                              /\ (i \in DOMAIN rxq \/ (i = Len(rxq) + 1 /\ rxq'[i] = e))
  <2>1. CASE rxq' = rxq
    <3>1. \A i \in DOMAIN rxq : i \in Nat /\ i <= Len(rxq)
      BY <1>0
    <3> QED BY <2>1, <3>1
  <2>2. CASE rxq' = Append(rxq, e)
    BY <1>0, <1>3, <2>2, Added
  <2> QED BY <1>2, <2>1, <2>2
<1>17. \A i \in DOMAIN rxq : rxq[i].n \in Nat
  BY <1>0, PacketNumbers
<1>18. \A i \in DOMAIN rxq : IsData(rxq[i]) => Within(said', rxq[i].n) /\ rxq[i].n < n
  BY <1>10, <1>17 DEF InInv
<1>19. \A i \in DOMAIN rxq' : IsData(rxq'[i]) =>
         Within(said', rxq'[i].n) /\ rxq'[i].n > LastTaken' /\ (rx'.pc = "append" => rxq'[i].n > rx'.pkt.n)
  <2> SUFFICES ASSUME NEW i \in DOMAIN rxq', IsData(rxq'[i])
               PROVE  Within(said', rxq'[i].n) /\ rxq'[i].n > LastTaken' /\ (rx'.pc = "append" => rxq'[i].n > rx'.pkt.n)
    OBVIOUS
  <2>1. CASE i \in DOMAIN rxq
    <3>1. rxq'[i] = rxq[i]
      BY <1>16, <2>1
    <3>2. rxq[i].n > LastTaken /\ (rx.pc = "append" => rxq[i].n > rx.pkt.n)
      BY <2>1, <3>1 DEF InInv
    <3>3. Within(said', rxq[i].n)
      BY <1>18, <2>1, <3>1
    <3> QED BY <1>2, <1>12, <3>1, <3>2, <3>3
  <2>2. CASE rxq'[i] = e
    <3>1. rxq'[i].n = n /\ LastTaken' < n
      BY <1>3, <1>12, <2>2
    <3> QED BY <1>0, <1>11, <1>12, <1>15, <3>1, <1>14, <1>2
  <2> QED BY <1>16, <2>1, <2>2
<1>20. \A i, j \in DOMAIN rxq' : IsData(rxq'[i]) /\ IsData(rxq'[j]) /\ i < j => rxq'[i].n < rxq'[j].n
  <2> SUFFICES ASSUME NEW i \in DOMAIN rxq', NEW j \in DOMAIN rxq', IsData(rxq'[i]), IsData(rxq'[j]), i < j
               PROVE  rxq'[i].n < rxq'[j].n
    OBVIOUS
  <2>1. i \in DOMAIN rxq /\ rxq'[i] = rxq[i]
    <3>1. Len(rxq) \in Nat
      BY <1>0
    <3> QED BY <1>16, <3>1
  <2>2. CASE j \in DOMAIN rxq
    <3>1. rxq'[j] = rxq[j]
      BY <1>16, <2>2
    <3> QED BY <2>1, <2>2, <3>1 DEF InInv
  <2>3. CASE rxq'[j] = e
    BY <1>3, <1>18, <2>1, <2>3
  <2> QED BY <1>16, <2>2, <2>3
<1>21. InInv'
  BY <1>5, <1>8, <1>9, <1>13, <1>15, <1>19, <1>20 DEF InInv
<1>22. InPlace' = InPlace
  <2>1. CASE taken = <<>>
    BY <1>2, <2>1 DEF InPlace
  <2>2. CASE taken # <<>>
    <3>1. 1 \in DOMAIN taken
      BY <1>0, <2>2
    <3>2. said # <<>>
      BY <3>1 DEF InInv, Within
    <3> QED BY <1>2, <1>7, <3>2 DEF InPlace
  <2> QED BY <2>1, <2>2
<1>23. In!Send
  BY <1>7, <1>22 DEF In!Send
<1> QED BY <1>21, <1>23 DEF In!Next

LEMMA InPhone ==
  ASSUME TypeInv, InInv, Phone
  PROVE  InInv' /\ (In!Next \/ UNCHANGED <<said, InPlace>>)
<1>1. CASE PhoneResets
  <2>1. Pkt("rack", 0, 0) \in Packet /\ ~IsData(Pkt("rack", 0, 0))
    BY Packets DEF IsData
  <2> QED BY <1>1, <2>1, InArrives DEF PhoneResets
<1>2. CASE PhoneAcks
  <2>1. Pkt("ack", 0, 0) \in Packet /\ ~IsData(Pkt("ack", 0, 0))
    BY Packets DEF IsData
  <2> QED BY <1>2, <2>1, InArrives DEF PhoneAcks
<1> QED BY <1>1, <1>2, InSends DEF Phone

LEMMA InSvc ==
  ASSUME TypeInv, InInv, Svc
  PROVE  InInv' /\ (In!Next \/ UNCHANGED <<said, InPlace>>)
<1>1. rxq' = <<>> /\ rx' \in {Gone, Waiting} /\ UNCHANGED budget
  BY DEF Svc, SvcConnected, SvcDisconnected, Shutdown
<1>2. rx'.pc # "append" /\ DOMAIN rxq' = {}
  BY <1>1 DEF Gone, Waiting
<1>3. CASE SvcConnected
  <2>1. said' = <<>> /\ taken' = <<>>
    BY <1>3 DEF SvcConnected
  <2>2. InPlace' = <<>>
    BY <2>1 DEF InPlace
  <2>3. InInv'
    BY <1>2, <2>1 DEF InInv
  <2> QED BY <2>1, <2>2, <2>3 DEF In!Next, In!Restart
<1>4. CASE SvcDisconnected
  <2>1. UNCHANGED <<said, taken>>
    BY <1>4 DEF SvcDisconnected
  <2>2. InPlace' = InPlace /\ \A n : Within(said', n) <=> Within(said, n)
    BY <2>1 DEF InPlace, Within
  <2>3. InInv'
    BY <1>1, <1>2, <2>1, <2>2 DEF InInv
  <2> QED BY <2>1, <2>2, <2>3
<1> QED BY <1>3, <1>4 DEF Svc

LEMMA InRxTake ==
  ASSUME TypeInv, InInv, RxTake
  PROVE  InInv' /\ UNCHANGED <<said, InPlace>>
<1>1. /\ rx.pc = "wait" /\ rxq # <<>> /\ rxq' = Tail(rxq) /\ UNCHANGED <<said, taken, budget>>
      /\ \/ rx' = rx
         \/ IsData(Head(rxq)) /\ \E pc \in {"append", "ack"} : rx' = [pc |-> pc, pkt |-> Head(rxq)]
  BY DEF RxTake, RxIdle, IsData
<1>2. /\ Head(rxq) = rxq[1] /\ 1 \in DOMAIN rxq
      /\ \A i \in DOMAIN rxq' : i + 1 \in DOMAIN rxq /\ rxq'[i] = rxq[i + 1] /\ i \in Nat /\ 1 < i + 1
  BY <1>1, InTypes
<1>3. InPlace' = InPlace /\ LastTaken' = LastTaken /\ \A n : Within(said', n) <=> Within(said, n)
  BY <1>1 DEF InPlace, LastTaken, Within
<1>4. rx'.pc = "append" => IsData(rxq[1]) /\ rx'.pkt = rxq[1]
  BY <1>1, <1>2
<1>5. rx'.pc = "append" => Within(said', rx'.pkt.n) /\ rx'.pkt.n > LastTaken'
  BY <1>2, <1>3, <1>4 DEF InInv
<1>6. \A i \in DOMAIN rxq' : IsData(rxq'[i]) =>
        Within(said', rxq'[i].n) /\ rxq'[i].n > LastTaken' /\ (rx'.pc = "append" => rxq'[i].n > rx'.pkt.n)
  <2> SUFFICES ASSUME NEW i \in DOMAIN rxq', IsData(rxq'[i])
               PROVE  Within(said', rxq'[i].n) /\ rxq'[i].n > LastTaken' /\ (rx'.pc = "append" => rxq'[i].n > rx'.pkt.n)
    OBVIOUS
  <2>1. i + 1 \in DOMAIN rxq /\ rxq'[i] = rxq[i + 1] /\ 1 < i + 1
    BY <1>2
  <2>2. Within(said, rxq[i + 1].n) /\ rxq[i + 1].n > LastTaken
    BY <2>1 DEF InInv
  <2>3. IsData(rxq[1]) => rxq[1].n < rxq[i + 1].n
    BY <1>2, <2>1 DEF InInv
  <2>4. rxq[1].n \in Nat /\ rxq[i + 1].n \in Nat
    BY <1>2, <2>1, InTypes, PacketNumbers
  <2> QED BY <1>3, <1>4, <2>1, <2>2, <2>3, <2>4
<1>7. \A i, j \in DOMAIN rxq' : IsData(rxq'[i]) /\ IsData(rxq'[j]) /\ i < j => rxq'[i].n < rxq'[j].n
  <2> SUFFICES ASSUME NEW i \in DOMAIN rxq', NEW j \in DOMAIN rxq', IsData(rxq'[i]), IsData(rxq'[j]), i < j
               PROVE  rxq'[i].n < rxq'[j].n
    OBVIOUS
  <2>1. /\ i + 1 \in DOMAIN rxq /\ j + 1 \in DOMAIN rxq /\ i + 1 < j + 1
        /\ rxq'[i] = rxq[i + 1] /\ rxq'[j] = rxq[j + 1]
    BY <1>2
  <2> QED BY <2>1 DEF InInv
<1>8. \A i \in DOMAIN taken' : Within(said', taken'[i])
  BY <1>1, <1>3 DEF InInv
<1> QED BY <1>1, <1>3, <1>5, <1>6, <1>7, <1>8 DEF InInv

(* The protocol takes what the rx task holds. *)
LEMMA InRxAppend ==
  ASSUME TypeInv, InInv, RxAppend
  PROVE  InInv' /\ In!Next
<1> DEFINE n == rx.pkt.n
<1>1. /\ rx.pc = "append" /\ rx' = [rx EXCEPT !.pc = "ack"] /\ UNCHANGED <<said, rxq, budget>>
      /\ taken' = Append(taken, n)
  BY DEF RxAppend, RxIdle
<1>2. rx'.pc = "ack"
  <2>1. rx \in [pc : {"gone", "wait", "append", "ack"}, pkt : Packet]
    BY DEF TypeInv, RxType
  <2> QED BY <1>1, <2>1
<1>3. /\ n \in Nat /\ Within(said, n) /\ n > LastTaken /\ taken \in Seq(Nat) /\ Len(taken) \in Nat /\ LastTaken \in Nat
      /\ said # <<>> /\ said[1] \in Nat /\ Len(said) \in Nat
  <2>1. Within(said, n) /\ n > LastTaken
    BY <1>1 DEF InInv
  <2>2. n \in Nat
    BY InTypes, BoundIsNat DEF Packet
  <2>3. taken \in Seq(Nat)
    BY InTypes
  <2> QED BY <2>1, <2>2, <2>3, InTypes DEF Within
<1>4. \A k : Within(said', k) <=> Within(said, k)
  BY <1>1 DEF Within
<1>5. \A i \in DOMAIN rxq : rxq[i].n \in Nat
  BY InTypes, PacketNumbers
<1> HIDE DEF n
<1>6. /\ taken' # <<>> /\ taken'[Len(taken')] = n
      /\ \A i \in DOMAIN taken' : (i \in DOMAIN taken /\ taken'[i] = taken[i]) \/ taken'[i] = n
  BY <1>1, <1>3
<1>7. LastTaken' = n
  BY <1>6 DEF LastTaken
<1>8. \A i \in DOMAIN taken' : Within(said', taken'[i])
  BY <1>3, <1>4, <1>6 DEF InInv
<1>9. \A i \in DOMAIN rxq : IsData(rxq[i]) => Within(said, rxq[i].n) /\ rxq[i].n > n
  BY <1>1 DEF InInv, n
<1>10. InInv'
  BY <1>1, <1>2, <1>4, <1>7, <1>8, <1>9 DEF InInv
<1> DEFINE at == n - said[1] + 1
<1>11. InPlace' = Append(InPlace, at)
  BY <1>1, <1>3 DEF InPlace
<1>12. \A i \in DOMAIN taken : taken[i] \in Nat /\ taken[i] >= said[1]
  <2>1. \A i \in DOMAIN taken : taken[i] \in Nat
    BY <1>3
  <2> QED BY <2>1 DEF InInv, Within
<1>13. In!Last = (IF taken = <<>> THEN 0 ELSE taken[Len(taken)] - said[1] + 1)
  <2>1. CASE taken = <<>>
    <3>1. InPlace = <<>>
      BY <2>1 DEF InPlace
    <3> QED BY <2>1, <3>1 DEF In!Last
  <2>2. CASE taken # <<>>
    <3>1. InPlace \in Seq(Nat) /\ Len(InPlace) = Len(taken) /\ Len(taken) \in DOMAIN taken
      <4>1. \A i \in DOMAIN taken : taken[i] - said[1] + 1 \in Nat
        BY <1>3, <1>12
      <4>2. DOMAIN taken = 1 .. Len(taken) /\ Len(taken) \in DOMAIN taken
        BY <1>3, <2>2
      <4> QED BY <1>3, <4>1, <4>2 DEF InPlace
    <3>2. InPlace # <<>> /\ InPlace[Len(InPlace)] = taken[Len(taken)] - said[1] + 1
      BY <1>3, <2>2, <3>1 DEF InPlace
    <3> QED BY <2>2, <3>2 DEF In!Last
  <2> QED BY <2>1, <2>2
<1>14. at \in In!Last + 1 .. Len(said)
  <2>1. at \in Nat /\ at >= 1 /\ at <= Len(said)
    BY <1>3 DEF Within
  <2>2. CASE taken = <<>>
    BY <1>3, <1>13, <2>1, <2>2
  <2>3. CASE taken # <<>>
    <3>1. Len(taken) \in DOMAIN taken /\ taken[Len(taken)] \in Nat /\ taken[Len(taken)] < n
      BY <1>3, <1>12, <2>3 DEF LastTaken
    <3> QED BY <1>3, <1>12, <1>13, <2>1, <2>3, <3>1
  <2> QED BY <2>2, <2>3
<1> HIDE DEF at
<1>15. In!Receive
  BY <1>1, <1>11, <1>14 DEF In!Receive
<1> QED BY <1>10, <1>15 DEF In!Next

LEMMA InRxAck ==
  ASSUME TypeInv, InInv, RxAck
  PROVE  InInv' /\ UNCHANGED <<said, InPlace>>
<1>1. rx' = Waiting /\ UNCHANGED <<said, taken, rxq, budget>>
  BY DEF RxAck, RxIdle
<1>2. rx'.pc # "append" /\ InPlace' = InPlace /\ LastTaken' = LastTaken /\ \A n : Within(said', n) <=> Within(said, n)
  BY <1>1 DEF Waiting, InPlace, LastTaken, Within
<1> QED BY <1>1, <1>2 DEF InInv

LEMMA InStep ==
  ASSUME TypeInv, InInv, [Next]_vars
  PROVE  InInv' /\ [In!Next]_<<said, InPlace>>
<1>0. budget \in [asks : 0 .. Asks, datas : 0 .. Datas, reports : 0 .. Reports]
  BY DEF TypeInv, CmdType
<1>1. CASE UNCHANGED <<said, taken, rx, rxq>> /\ budget'.datas = budget.datas
  BY <1>1, InKeeps
<1>2. CASE Connect \/ Ready \/ Disconnect
  <2>1. UNCHANGED <<said, taken, rx, rxq>> /\ budget' = [budget EXCEPT !.reports = @ - 1]
    BY <1>2 DEF Connect, Ready, Disconnect, Report, hist
  <2> QED BY <1>0, <1>1, <2>1
<1>3. CASE Tx
  BY <1>1, <1>3 DEF Tx, TxTake, TxSend, hist
<1>4. CASE Ask
  <2>1. UNCHANGED <<said, taken, rx, rxq>> /\ budget' = [budget EXCEPT !.asks = @ - 1]
    BY <1>4 DEF Ask, CmdIdle
  <2> QED BY <1>0, <1>1, <2>1
<1>5. CASE Cmd
  BY <1>1, <1>5 DEF Cmd, CmdTake, CmdFill, CmdNoQueue, CmdBlock, CmdPut, CmdCount, CmdIdle, hist
<1>6. CASE Rx
  BY <1>6, InRxTake, InRxAppend, InRxAck DEF Rx
<1>7. CASE UNCHANGED vars
  BY <1>1, <1>7 DEF vars, hist
<1> QED BY <1>2, <1>3, <1>4, <1>5, <1>6, <1>7, InPhone, InSvc DEF Next

(* The link carries both ways what it promises: the phone hears everything   *)
(* that is queued, the protocol hears what the phone says though not all,    *)
(* each in order and once, and the numbers to the phone count from 0         *)
(* (ppogatt.c:100-182, 195-280, 297-324).  Each step of the     *)
(* tasks is a step of one of the two channels, or of none.                   *)
THEOREM OrderIsKept == Spec => KeepsOrder
<1>1. TypeInv /\ OutInv /\ [Next]_vars => OutInv' /\ [Out!Next]_<<put, heard>>
  BY OutStep
<1>2. TypeInv /\ InInv /\ [Next]_vars => InInv' /\ [In!Next]_<<said, InPlace>>
  BY InStep
<1>3. TypeInv /\ SeqInv /\ [Next]_vars => SeqInv'
  BY SeqStep
<1>4. SeqInv => SeqsCount
  BY DEF SeqInv, SeqsCount
<1>5. Spec => Out!Spec
  BY <1>1, TypeInit, TypeNext, OutInit, PTL DEF Spec, Out!Spec
<1>6. Spec => In!Spec
  BY <1>2, TypeInit, TypeNext, InInit, PTL DEF Spec, In!Spec
<1>7. Spec => []SeqsCount
  BY <1>3, <1>4, TypeInit, TypeNext, SeqInit, PTL DEF Spec
<1> QED BY <1>5, <1>6, <1>7 DEF KeepsOrder
=============================================================================
