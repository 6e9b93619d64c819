---------------------------- MODULE ProtocolLink ----------------------------
(***************************************************************************)
(* How the watch reads what the phone sends (rcore/protocol/protocol.c and *)
(* rcore/service/protocol_service.c), and the PutBytes transfers that run  *)
(* over it (rcore/protocol/protocol_transfer.c).  The bluetooth task       *)
(* appends pieces of the stream to one receive buffer and wakes the rx     *)
(* task, which parses and handles packets in place; the tx task sends what *)
(* other tasks queue.  A transfer keeps the mutex `txn' from the first of  *)
(* its packets to the last.                                                *)
(*                                                                         *)
(* A message is a header, four bytes, and a body; the buffer is counted in *)
(* units that hold either.  The rx task answers without the tx queue, and  *)
(* the allocator always has a packet to give.                              *)
(***************************************************************************)
EXTENDS Integers, Sequences

CONSTANTS
  Cap,          \* RX_BUFFER_SIZE, in units
  RxQueue,      \* length of the queue that wakes the rx task
  TxQueue,      \* length of the queue of the tx task
  MaxMessages,  \* bound on the messages of the phone, for each of Envs
  MaxPackets,   \* bound on the packets of other tasks
  JunkLen,      \* lengths the bytes of a body may have, read as a header, likewise
  Envs          \* the surroundings a behaviour may have, see `env'

ASSUME SizeAssumption ==
  /\ {Cap, RxQueue, TxQueue, MaxPackets} \subseteq Nat /\ MaxMessages \in [Envs -> Nat]
  /\ Cap > 1 /\ RxQueue > 0 /\ TxQueue > 0
  /\ JunkLen \in [Envs -> SUBSET Nat]
  /\ Envs \subseteq SUBSET {"chats", "late", "quits", "slow", "loss", "busy", "strict"}

VARIABLES
  out,     \* pieces the phone has sent and the watch has not taken yet
  step,    \* the PutBytes command the phone has no answer to, or "idle"
  acks,    \* answers on their way to the phone
  sent,    \* number of messages the phone has sent
  cells,   \* _rx_buffer
  used,    \* _buf_ptr
  aged,    \* _last_rx is more than 500 ms ago
  rxLock,  \* the rx task has the mutex rx_buf
  rxq,     \* number of messages in the queue rx
  bpc,     \* where the bluetooth task is
  chunk,   \* what it appends
  rpc,     \* where the rx task is
  seen,    \* pkt_length and pkt_endpoint, as read
  hdr,     \* the packet header to handle
  txnLock, \* who has the mutex txn
  txn,     \* _txn: what arrived of the transfer, or NoTxn
  timer,   \* its timer: not running, running, or over
  file,    \* the file of the application is marked as written
  told,    \* the application manager was told that it can be loaded
  txq,     \* the queue tx
  tpc,     \* where the tx task is
  item,    \* what it took from the queue
  packets, \* packets other tasks may still send
  up,      \* neither a failed assertion nor a fault
  done,    \* history: the last message handled
  harm,    \* history: bytes were lost, or read with a header that was not theirs
  env      \* what this behaviour's surroundings may do, chosen at boot

phone  == <<out, step, acks, sent>>
buffer == <<cells, used, aged>>
btTask == <<bpc, chunk>>
reader == <<rpc, seen, hdr>>
trans  == <<txn, timer, file, told>>
sender == <<txq, tpc, item, packets>>
vars   == <<phone, buffer, rxLock, rxq, btTask, reader, txnLock, trans, sender, up, done, harm, env>>

Put      == {"init", "transfer", "commit", "install", "abort"}
Command  == Put \cup {"other"}
Piece    == [n : 0 .. MaxMessages[env], part : {"head", "body", "zero"}, cmd : Command]
Zero     == [n |-> 0, part |-> "zero", cmd |-> "other"]
Length   == {0, 1} \cup JunkLen[env]
Header   == [ep : {"put", "other", "none"}, len : Length, n : 0 .. MaxMessages[env]]
NoHeader == [ep |-> "none", len |-> 0, n |-> 0]
NoTxn    == [on |-> FALSE, got |-> 0, good |-> TRUE]

TypeOK ==
  /\ out \in Seq(Piece) /\ Len(out) <= 3
  /\ step \in Put \cup {"idle"}
  /\ acks \in Seq({"ack", "nack"}) /\ sent \in 0 .. MaxMessages[env]
  /\ cells \in [1 .. Cap -> Piece] /\ used \in 0 .. Cap
  /\ aged \in BOOLEAN /\ rxLock \in BOOLEAN /\ rxq \in 0 .. RxQueue
  /\ bpc \in {"idle", "append", "kick"} /\ chunk \in Seq(Piece) /\ Len(chunk) <= 2
  /\ rpc \in {"wait", "read", "test", "lock", "handle", "consume"}
  /\ seen \in Header /\ hdr \in Header
  /\ txnLock \in {"none", "rx", "tx"}
  /\ txn \in [on : BOOLEAN, got : {0, 1}, good : BOOLEAN]
  /\ timer \in {"off", "on", "over"}
  /\ file \in BOOLEAN /\ told \in BOOLEAN
  /\ txq \in Seq({"packet", "junk"}) /\ Len(txq) <= TxQueue
  /\ tpc \in {"wait", "lock", "send"} /\ item \in {"packet", "junk"}
  /\ packets \in 0 .. MaxPackets /\ up \in BOOLEAN
  /\ done \in 0 .. MaxMessages[env]
  /\ harm \in BOOLEAN
  /\ env \in Envs

(* What the surroundings may do:                                             *)
(*   chats   the phone sends messages that are no part of a transfer         *)
(*   late    the phone pauses, whenever it likes                             *)
(*   quits   the phone gives a transfer up                                   *)
(*   slow    handling or sending a packet takes longer than others wait      *)
(*   loss    pieces of the stream are lost                                   *)
(*   busy    other tasks send packets                                        *)
(*   strict  writing through a NULL pointer faults                           *)
Chats  == "chats" \in env
Late   == "late" \in env
Quits  == "quits" \in env
Slow   == "slow" \in env
Loss   == "loss" \in env
Busy   == "busy" \in env
Strict == "strict" \in env

Init ==
  /\ out = <<>> /\ step = "idle" /\ acks = <<>> /\ sent = 0
  /\ cells = [i \in 1 .. Cap |-> Zero] /\ used = 0 /\ aged = FALSE
  /\ rxLock = FALSE /\ rxq = 0
  /\ bpc = "idle" /\ chunk = <<>>
  /\ rpc = "wait" /\ seen = NoHeader /\ hdr = NoHeader
  /\ txnLock = "none" /\ txn = NoTxn /\ timer = "off" /\ file = FALSE /\ told = FALSE
  /\ txq = <<>> /\ tpc = "wait" /\ item = "packet" /\ packets = MaxPackets
  /\ up = TRUE /\ done = 0 /\ harm = FALSE
  /\ env \in Envs
-----------------------------------------------------------------------------
(* Giving the mutex txn back: FreeRTOS asserts that its holder does it, and   *)
(* ignores it when nobody has it.                                            *)
GiveTxn(who) ==
  /\ txnLock' = "none"
  /\ up' = (txnLock \in {"none", who})

-----------------------------------------------------------------------------
(* The phone.  It sends one PutBytes command at a time and waits for the      *)
(* answer; other messages it sends whenever it likes.                        *)
Message(cmd) ==
  <<[n |-> sent + 1, part |-> "head", cmd |-> cmd], [n |-> sent + 1, part |-> "body", cmd |-> cmd]>>

After(cmd) == CASE cmd = "init"     -> "transfer"
                [] cmd = "transfer" -> "commit"
                [] cmd = "commit"   -> "install"

MaySend == sent < MaxMessages[env] /\ Len(out) <= 1

Send(cmd) == MaySend /\ out' = out \o Message(cmd) /\ sent' = sent + 1

OnlyPhone == UNCHANGED <<buffer, rxLock, rxq, btTask, reader, txnLock, trans, sender, up, done, env>>

StartPut ==
  /\ step = "idle" /\ Send("init") /\ step' = "init"
  /\ UNCHANGED <<acks, harm>> /\ OnlyPhone

SendOther == Chats /\ Send("other") /\ UNCHANGED <<step, acks, harm>> /\ OnlyPhone

(* An answer ends the command it is waiting for: the transfer goes on while  *)
(* the phone still has messages, or stops.                                   *)
TakeAnswer ==
  /\ acks # <<>> /\ acks' = Tail(acks)
  /\ \/ /\ Head(acks) = "ack" /\ step \in {"init", "transfer", "commit"}
        /\ Send(After(step)) /\ step' = After(step)
     \/ /\ Head(acks) = "nack" \/ step \in {"idle", "install", "abort"} \/ sent = MaxMessages[env]
        /\ step' = "idle" /\ UNCHANGED <<out, sent>>
  /\ UNCHANGED harm /\ OnlyPhone

(* The phone stops waiting, and tells the watch when it still can. *)
GiveUp ==
  /\ Quits /\ step # "idle"
  /\ \/ Send("abort") /\ step' = "abort"
     \/ step' = "idle" /\ UNCHANGED <<out, sent>>
  /\ UNCHANGED <<acks, harm>> /\ OnlyPhone

Lose ==
  /\ Loss /\ out # <<>> /\ out' = Tail(out) /\ harm' = TRUE
  /\ UNCHANGED <<step, acks, sent>> /\ OnlyPhone
-----------------------------------------------------------------------------
(* bluetooth_data_rx, on the bluetooth task: the test for room and the test  *)
(* for an old buffer come before the lock.                                   *)
BtData ==
  /\ bpc = "idle"
  /\ \E len \in 1 .. 2 :
       /\ len <= Len(out)
       /\ out' = SubSeq(out, len + 1, Len(out))
       /\ \/ /\ used + len > Cap /\ harm' = TRUE
             /\ UNCHANGED <<chunk, bpc, buffer, txnLock, up>>
          \/ /\ used + len <= Cap
             /\ chunk' = SubSeq(out, 1, len) /\ bpc' = "append"
             /\ aged' = FALSE /\ UNCHANGED cells
             /\ IF used > 0 /\ aged
                THEN used' = 0 /\ harm' = TRUE /\ GiveTxn("bt")
                ELSE UNCHANGED <<used, harm, txnLock, up>>
  /\ UNCHANGED <<step, acks, sent, rxLock, rxq, reader, trans, sender, done, env>>

(* The header the rx task has read may be no longer the first of the buffer  *)
(* when its test of the length sees the new bytes.                           *)
BtAppend ==
  /\ bpc = "append" /\ ~rxLock
  /\ cells' = [i \in 1 .. Cap |-> IF i \in used + 1 .. used + Len(chunk)
                                  THEN chunk[i - used] ELSE cells[i]]
  /\ used' = used + Len(chunk) /\ bpc' = "kick" /\ chunk' = <<>>
  /\ harm' = (harm \/ rpc = "test")
  /\ UNCHANGED <<phone, aged, rxLock, rxq, reader, txnLock, trans, sender, up, done, env>>

(* It waits 100 ms at most for the lock, appends all the same, and gives the *)
(* lock of the rx task back: FreeRTOS asserts.                               *)
BtTimeout ==
  /\ bpc = "append" /\ rxLock /\ Slow
  /\ up' = FALSE
  /\ UNCHANGED <<phone, buffer, rxLock, rxq, btTask, reader, txnLock, trans, sender, done, harm, env>>

\* Mutant: the rx task is only woken for the first bytes of the buffer.
BtKick_FirstOnly ==
  /\ bpc = "kick" /\ rxq < RxQueue
  /\ rxq' = (IF used > 1 THEN rxq ELSE rxq + 1) /\ bpc' = "idle"
  /\ UNCHANGED <<phone, buffer, rxLock, chunk, reader, txnLock, trans, sender, up, done, harm, env>>

BtKick ==
  /\ bpc = "kick" /\ rxq < RxQueue
  /\ rxq' = rxq + 1 /\ bpc' = "idle"
  /\ UNCHANGED <<phone, buffer, rxLock, chunk, reader, txnLock, trans, sender, up, done, harm, env>>

Bt == BtData \/ BtAppend \/ BtTimeout \/ BtKick
-----------------------------------------------------------------------------
(* The rx task.  protocol_parse_packet reads the header first and takes the  *)
(* lock for its tests afterwards; the caller handles the packet in place,    *)
(* under the lock, and then consumes it.                                     *)
HeaderAt(c) ==
  CASE c.part = "head" -> {[ep |-> IF c.cmd \in Put THEN "put" ELSE "other", len |-> 1, n |-> c.n]}
    [] c.part = "body" -> {[ep |-> "none", len |-> l, n |-> 0] : l \in JunkLen[env]}
    [] c.part = "zero" -> {NoHeader}

Rest == <<phone, rxLock, rxq, txnLock, trans, sender, up, done, harm>>

RxReceive ==
  /\ rpc = "wait" /\ rxq > 0
  /\ rxq' = rxq - 1 /\ rpc' = "read"
  /\ UNCHANGED <<phone, buffer, rxLock, btTask, seen, hdr, txnLock, trans, sender, up, done, harm, env>>

RxRead ==
  /\ rpc = "read" /\ seen' \in HeaderAt(cells[1]) /\ rpc' = "test"
  /\ UNCHANGED <<Rest, buffer, btTask, hdr, env>>

\* Mutant: the header is not counted when the length is tested.
RxTest_BodyOnly ==
  /\ rpc = "test"
  /\ \/ used < 1 /\ rpc' = "wait" /\ UNCHANGED hdr
     \/ used >= 1 /\ used >= seen.len /\ rpc' = "lock" /\ hdr' = seen
  /\ seen' = NoHeader
  /\ UNCHANGED <<Rest, cells, used, aged, btTask, env>>

(* A length of 0 is success, with the header of the caller not filled in: it *)
(* has what its stack held, the last header or anything else.                *)
RxTest ==
  /\ rpc = "test"
  /\ \/ /\ used < 1 \/ (seen.len \in 1 .. Cap /\ used < 1 + seen.len)
        /\ rpc' = "wait" /\ UNCHANGED <<used, hdr>>
     \/ /\ used >= 1 /\ seen.len > Cap
        /\ rpc' = "wait" /\ used' = 0 /\ UNCHANGED hdr
     \/ /\ used >= 1 /\ seen.len = 0
        /\ rpc' = "lock" /\ UNCHANGED used
        /\ hdr' \in {hdr} \cup {[NoHeader EXCEPT !.len = l] : l \in Length}
     \/ /\ seen.len > 0 /\ used >= 1 + seen.len
        /\ rpc' = "lock" /\ hdr' = seen /\ UNCHANGED used
  /\ seen' = NoHeader
  /\ UNCHANGED <<Rest, cells, aged, btTask, env>>

RxLock ==
  /\ rpc = "lock" /\ rpc' = "handle" /\ rxLock' = TRUE
  /\ UNCHANGED <<phone, buffer, rxq, btTask, seen, hdr, txnLock, trans, sender, up, done, harm, env>>

(* What the handler changes is under trans, txnLock, acks and up. *)
Handled ==
  /\ rpc = "handle" /\ rpc' = "consume" /\ rxLock' = FALSE /\ done' = hdr.n
  /\ UNCHANGED <<out, step, sent, buffer, rxq, btTask, seen, hdr, sender, harm, env>>

HandleOther ==
  /\ hdr.ep # "put" /\ Handled
  /\ UNCHANGED <<acks, txnLock, trans, up>>

\* Mutant: what a packet says of its length is consumed, there or not.
RxConsume_NoClamp ==
  /\ rpc = "consume" /\ used' = used - (1 + hdr.len) /\ aged' = FALSE /\ rpc' = "read"
  /\ cells' = [i \in 1 .. Cap |-> IF i <= used' THEN cells[i + 1 + hdr.len] ELSE cells[i]]
  /\ UNCHANGED <<Rest, btTask, seen, hdr, env>>

RxConsume ==
  /\ rpc = "consume"
  /\ LET mv == IF used - (1 + hdr.len) < 0 THEN used ELSE 1 + hdr.len IN
       /\ cells' = [i \in 1 .. Cap |-> IF i <= used - mv THEN cells[i + mv] ELSE cells[i]]
       /\ used' = used - mv
  /\ aged' = FALSE /\ rpc' = "read"
  /\ UNCHANGED <<Rest, btTask, seen, hdr, env>>
-----------------------------------------------------------------------------
(* PutBytes: protocol_process_transfer.  What stands where the body should   *)
(* be may be any command, or none (an assertion fails).                      *)
CommandAt(c) == IF c.part = "body" /\ c.cmd \in Put THEN {c.cmd} ELSE Put \cup {"bad"}

Handling(cmd) == hdr.ep = "put" /\ cmd \in CommandAt(cells[2]) /\ Handled

Answer(a) == acks' = Append(acks, a)

(* _transfer_terminated: it gives the mutex back, held or not. *)
Terminate ==
  /\ Answer("nack") /\ GiveTxn("rx")
  /\ txn' = NoTxn /\ timer' = "off" /\ UNCHANGED <<file, told>>

Fault == up' = FALSE /\ UNCHANGED <<acks, txnLock, trans>>

(* Before anything is allocated, the transport is stored through _txn, NULL.  *)
(* The file must be new, and there may be no room for it.                    *)
PutInit ==
  /\ Handling("init")
  /\ \/ txn.on /\ Terminate
     \/ ~txn.on /\ Strict /\ Fault
     \/ ~txn.on /\ ~Strict /\ txnLock = "tx" /\ Slow /\ Terminate
     \/ /\ ~txn.on /\ ~Strict /\ txnLock = "none"
        /\ \/ /\ ~file
              /\ txnLock' = "rx" /\ txn' = [NoTxn EXCEPT !.on = TRUE] /\ timer' = "on"
              /\ Answer("ack") /\ UNCHANGED <<file, told, up>>
           \/ Answer("nack") /\ UNCHANGED <<txnLock, trans, up>>

(* Without a transaction the code follows whatever is at address 0. *)
NoTransaction == ~txn.on /\ (Fault \/ Terminate)

PutTransfer ==
  /\ Handling("transfer")
  /\ \/ NoTransaction
     \/ txn.on /\ txn.got = 1 /\ Terminate
     \/ /\ txn.on /\ txn.got = 0
        /\ txn' = [txn EXCEPT !.got = 1, !.good = cells[2].part = "body" /\ cells[2].cmd = "transfer"]
        /\ timer' = "on" /\ Answer("ack")
        /\ UNCHANGED <<txnLock, file, told, up>>

\* Mutant: a commit is acknowledged and the file is not marked as written.
PutCommit_NoMark ==
  /\ Handling("commit")
  /\ \/ NoTransaction
     \/ txn.on /\ (txn.got # 1 \/ ~txn.good) /\ Terminate
     \/ /\ txn.on /\ txn.got = 1 /\ txn.good
        /\ timer' = "on" /\ Answer("ack") /\ UNCHANGED <<txnLock, txn, file, told, up>>

\* Mutant: the commit ends the transaction.
PutCommit_Ends ==
  /\ Handling("commit")
  /\ \/ NoTransaction
     \/ txn.on /\ (txn.got # 1 \/ ~txn.good) /\ Terminate
     \/ /\ txn.on /\ txn.got = 1 /\ txn.good /\ file' = TRUE /\ Answer("ack")
        /\ GiveTxn("rx") /\ txn' = NoTxn /\ timer' = "off" /\ UNCHANGED told

PutCommit ==
  /\ Handling("commit")
  /\ \/ NoTransaction
     \/ txn.on /\ (txn.got # 1 \/ ~txn.good) /\ Terminate
     \/ /\ txn.on /\ txn.got = 1 /\ txn.good
        /\ file' = TRUE
        /\ timer' = "on" /\ Answer("ack")
        /\ UNCHANGED <<txnLock, txn, told, up>>

\* Mutant: an installation keeps the mutex.
PutInstall_KeepsLock ==
  /\ Handling("install")
  /\ \/ ~txn.on /\ Fault
     \/ /\ told' = TRUE /\ Answer("ack") /\ UNCHANGED <<txnLock, up, file>>
        /\ txn' = NoTxn /\ timer' = "off"

(* The application manager is told whatever became of the file. *)
PutInstall ==
  /\ Handling("install")
  /\ \/ ~txn.on /\ Fault
     \/ /\ told' \in (IF txn.on THEN {TRUE} ELSE BOOLEAN)
        /\ Answer("ack") /\ GiveTxn("rx")
        /\ txn' = NoTxn /\ timer' = "off" /\ UNCHANGED file

PutAbort == Handling("abort") /\ Terminate

PutBad == Handling("bad") /\ Fault

(* _transfer_timeout, from the loop of the rx task. *)
PutTimeout ==
  /\ rpc = "wait" /\ timer = "over" /\ Terminate
  /\ UNCHANGED <<out, step, sent, buffer, rxLock, rxq, btTask, reader, sender, done, harm, env>>

Rx == \/ RxReceive \/ RxRead \/ RxTest \/ RxLock \/ HandleOther \/ RxConsume \/ PutTimeout
      \/ PutInit \/ PutTransfer \/ PutCommit \/ PutInstall \/ PutAbort \/ PutBad
-----------------------------------------------------------------------------
(* Other tasks queue packets, and the tx task sends them. *)
OnlySender == UNCHANGED <<phone, buffer, rxLock, rxq, btTask, reader, trans, done, harm, env>>

QueuePacket ==
  /\ Busy /\ packets > 0 /\ Len(txq) < TxQueue
  /\ packets' = packets - 1 /\ txq' = Append(txq, "packet")
  /\ UNCHANGED <<tpc, item, txnLock, up>> /\ OnlySender

TxReceive ==
  /\ tpc = "wait" /\ txq # <<>>
  /\ item' = Head(txq) /\ txq' = Tail(txq) /\ tpc' = "lock"
  /\ UNCHANGED <<packets, txnLock, up>> /\ OnlySender

(* The mutex is not free for 10 ticks: what goes back to the front of the    *)
(* queue is not the pointer to the packet but the first word of the packet,  *)
(* or nothing when the queue has filled up.                                  *)
TxRequeue ==
  /\ tpc = "lock" /\ txnLock # "none" /\ tpc' = "wait"
  /\ txq' = IF Len(txq) < TxQueue THEN <<"junk">> \o txq ELSE txq
  /\ UNCHANGED <<item, packets, txnLock, up>> /\ OnlySender

TxLock ==
  /\ tpc = "lock" /\ txnLock = "none" /\ tpc' = "send" /\ txnLock' = "tx"
  /\ UNCHANGED <<txq, item, packets, up>> /\ OnlySender

TxSend ==
  /\ tpc = "send" /\ tpc' = "wait"
  /\ IF item = "junk" THEN up' = FALSE /\ UNCHANGED txnLock ELSE GiveTxn("tx")
  /\ UNCHANGED <<txq, item, packets>> /\ OnlySender

Tx == TxReceive \/ TxRequeue \/ TxLock \/ TxSend
-----------------------------------------------------------------------------
(* Time.  500 ms pass between two pieces when the phone or the watch is slow  *)
(* (which is only looked at when there is something in the buffer).           *)
Ages ==
  /\ Late \/ (Slow /\ rpc = "handle")
  /\ used > 0 /\ ~aged /\ aged' = TRUE
  /\ UNCHANGED <<phone, cells, used, rxLock, rxq, btTask, reader, txnLock, trans, sender, up, done, harm, env>>

(* The timer of the transfer goes off when the next packet does not come. *)
Quiet == step = "idle" /\ acks = <<>> /\ out = <<>> /\ bpc = "idle" /\ rxq = 0 /\ rpc = "wait"

TimerOver ==
  /\ timer = "on" /\ timer' = "over"
  /\ Late \/ Quiet \/ (Slow /\ rpc = "handle") \/ harm
  /\ UNCHANGED <<phone, buffer, rxLock, rxq, btTask, reader, txnLock, txn, file, told, sender, up, done, harm, env>>

Phone == StartPut \/ SendOther \/ TakeAnswer \/ GiveUp \/ Lose

Next == up /\ (Phone \/ Bt \/ Rx \/ QueuePacket \/ Tx \/ Ages \/ TimerOver)

(* Each task of the watch runs when it can, the timer goes off in the end,   *)
(* and the phone takes the answers it gets.                                  *)
Fairness ==
  /\ WF_vars(up /\ Bt) /\ WF_vars(up /\ Rx) /\ WF_vars(up /\ Tx)
  /\ WF_vars(up /\ TimerOver) /\ WF_vars(up /\ TakeAnswer)

Spec == Init /\ [][Next]_vars /\ Fairness
-----------------------------------------------------------------------------
(* The mutex is with the rx task exactly while a transfer is under way: no   *)
(* path of protocol_process_transfer, of the timeout or of the bluetooth     *)
(* task leaves it taken, or takes it away.                                   *)
LockMatchesTransfer == up => (txnLock = "rx" <=> txn.on)

(* While nothing has happened to the stream, the rx task handles exactly the *)
(* messages of the phone, in order: the header it uses is that of the next   *)
(* one, and the body it finds in the buffer is the body of that.             *)
StreamIsRead ==
  ~harm /\ rpc = "handle" =>
    /\ cells[1].part = "head" /\ cells[1].n = done + 1 /\ hdr \in HeaderAt(cells[1])
    /\ cells[2] = [cells[1] EXCEPT !.part = "body"]

(* An application is only announced as complete when its file has arrived,    *)
(* passed its checksum and is marked as written, whatever times out and       *)
(* whichever answers the phone takes for others; the installation tests       *)
(* nothing of this itself (protocol_transfer.c:258-261).                     *)
DownloadIsWhole == ~harm /\ told => file

(* The command handled last was one of PutBytes and found no transaction.     *)
FoundNone == rpc = "consume" /\ hdr.ep = "put" /\ ~txn.on

(* With a phone that neither gives up nor pauses, where a write through NULL  *)
(* goes unnoticed, nothing fails but for slow or busy tasks and lost bytes.   *)
(* With any phone and any NULL the only failure then is that of a command     *)
(* that found no transaction (protocol_transfer.c:146, 195, 226, 256).        *)
LinkSurvives ==
  /\ env \subseteq {"chats"} /\ ~harm => up
  /\ env \cap {"slow", "busy"} = {} /\ ~harm /\ ~up => FoundNone

(* So the link goes on: in the end every message of the phone is handled and *)
(* no transfer is left open, with its mutex: nobody waits for a byte, a        *)
(* wake-up or an end that never comes, whatever is lost, late or given up.     *)
LinkGoesOn == <>[](~up \/ (~txn.on /\ (harm \/ done = sent)))
=============================================================================
