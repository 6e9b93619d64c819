------------------------------ MODULE Ppogatt ------------------------------
(***************************************************************************)
(* The link to the phone over Bluetooth Low Energy: ppogatt.c, with the     *)
(* service task (service.c) that runs its callbacks and the command task of *)
(* bluetooth.c that sends.  Four tasks and the interrupts of the radio.     *)
(* The service task has the highest priority, so that a callback is one     *)
(* step to the others; but the radio may report again before it runs.       *)
(* The phone is one that does not care for acknowledgements, as the comment *)
(* at ppogatt.c:120 says of Gadgetbridge: it sends nothing twice.  What is  *)
(* sent twice is delivered twice, since nothing looks at a number received. *)
(*                                                                         *)
(* said, taken, put and heard are histories of the session that only       *)
(* properties read: what the phone sent and the protocol took, what the    *)
(* command task queued and the phone heard.                                *)
(***************************************************************************)
EXTENDS Naturals, Sequences

CONSTANTS
  RxLen, TxLen, SvcLen,   \* lengths of the queues: 8, 4 and 8
  SeqMod,                 \* sequence numbers: 32
  Chunks,                 \* pieces of a message to the phone
  Asks, Datas, Reports,   \* bounds on the messages out, packets in and events of the radio
  Budgets                 \* how many of each a behaviour may have

ASSUME QueueAssumption ==
  /\ {RxLen, TxLen, SvcLen, SeqMod, Chunks} \subseteq Nat \ {0}
  /\ {Asks, Datas, Reports} \subseteq Nat
  /\ Budgets \subseteq [asks : 0 .. Asks, datas : 0 .. Datas, reports : 0 .. Reports]
  /\ TxLen >= 2   \* the two packets of a new session

VARIABLES
  up,        \* no assertion failed, nothing was overwritten
  link,      \* the radio has a connection
  greeted,   \* the phone was asked to reset in this connection, and may send
  owes,      \* and has yet to acknowledge that
  svc,       \* the queue of the service task
  open,      \* the queues rx and tx exist
  rxq, txq,
  rx, tx,    \* the two tasks: what they do and with which packet
  txh,       \* _task_ppogatt_tx: none, live, or the handle of a deleted task
  cmd,       \* the command task: what it does, its packet, pieces left
  want,      \* its queue
  seq,       \* txseq
  seen,      \* seen_one_reset_ack
  connected, \* _connected of bluetooth.c
  lock,      \* the mutex of the receive buffer: free, the rx task's, or a deleted task's
  said, taken, put, heard,
  torn,      \* this session began, or ended, while the command task was sending
  missed,    \* an event of the radio found the service queue full
  budget     \* what is left of Asks, Datas and Reports

radio == <<link, greeted, owes>>
hist  == <<said, taken, put, heard, torn>>
vars  == <<up, radio, svc, open, rxq, txq, rx, tx, txh, cmd, want, seq, seen, connected, lock,
           hist, missed, budget>>

Bound  == Datas + Asks * Chunks
Packet == [cmd : {"data", "ack", "req", "rack"}, seq : 0 .. SeqMod - 1, n : 0 .. Bound]
Pkt(c, s, n) == [cmd |-> c, seq |-> s, n |-> n]
NoPkt == Pkt("ack", 0, 0)

Gone    == [pc |-> "gone", pkt |-> NoPkt]
Waiting == [pc |-> "wait", pkt |-> NoPkt]
Idle    == [pc |-> "idle", seq |-> 0, left |-> 0]

TypeOK ==
  /\ {up, link, greeted, owes, open, seen, connected, torn, missed} \subseteq BOOLEAN
  /\ svc \in Seq({"conn", "disc"}) /\ Len(svc) <= SvcLen
  /\ rxq \in Seq(Packet) /\ Len(rxq) <= RxLen
  /\ txq \in Seq(Packet) /\ Len(txq) <= TxLen
  /\ rx \in [pc : {"gone", "wait", "append", "ack"}, pkt : Packet]
  /\ tx \in [pc : {"gone", "wait", "send"}, pkt : Packet]
  /\ txh \in {"none", "live", "stale"} /\ lock \in {"free", "rx", "dead"}
  /\ cmd \in [pc : {"idle", "fill", "put", "blocked", "count", "stuck"}, seq : 0 .. SeqMod - 1, left : 0 .. Chunks]
  /\ want \in 0 .. Asks /\ seq \in 0 .. SeqMod - 1
  /\ said \in Seq(1 .. Datas) /\ taken \in Seq(1 .. Datas)
  /\ put \in Seq(0 .. SeqMod - 1) /\ heard \in Seq(1 .. Bound)
  /\ budget \in [asks : 0 .. Asks, datas : 0 .. Datas, reports : 0 .. Reports]

Init ==
  /\ up = TRUE /\ link = FALSE /\ greeted = FALSE /\ owes = FALSE /\ svc = <<>>
  /\ open = FALSE /\ rxq = <<>> /\ txq = <<>> /\ rx = Gone /\ tx = Gone /\ txh = "none"
  /\ cmd = Idle /\ want = 0 /\ seq = 0 /\ seen = FALSE /\ connected = FALSE /\ lock = "free"
  /\ said = <<>> /\ taken = <<>> /\ put = <<>> /\ heard = <<>> /\ torn = FALSE /\ missed = FALSE
  /\ budget \in Budgets
-----------------------------------------------------------------------------
(* The radio and the phone.                                                  *)

(* service_submit from an interrupt: a full queue loses the event. *)
Submit(what) ==
  /\ svc' = (IF Len(svc) < SvcLen THEN Append(svc, what) ELSE svc)
  /\ missed' = (missed \/ Len(svc) = SvcLen)

Report ==
  /\ up /\ budget.reports > 0 /\ budget' = [budget EXCEPT !.reports = @ - 1]
  /\ UNCHANGED <<up, open, rxq, txq, rx, tx, txh, cmd, want, seq, seen, connected, lock, hist>>

Connect    == Report /\ ~link /\ link' = TRUE /\ greeted' = FALSE /\ owes' = FALSE /\ UNCHANGED <<svc, missed>>
(* The phone subscribed, or the bond is complete: perhaps twice. *)
Ready      == Report /\ link /\ Submit("conn") /\ UNCHANGED radio
Disconnect == Report /\ link /\ link' = FALSE /\ Submit("disc") /\ UNCHANGED <<greeted, owes>>

(* _ppogatt_callback_rx: a full queue loses the packet, a NULL queue fails an *)
(* assertion.                                                                 *)
Arrive(pkt) ==
  /\ up' = open
  /\ rxq' = (IF open /\ Len(rxq) < RxLen THEN Append(rxq, pkt) ELSE rxq)
  /\ UNCHANGED <<link, greeted, svc, open, txq, rx, tx, txh, cmd, want, seq, seen, connected, lock,
                 taken, put, heard, torn, missed>>

PhoneResets ==
  /\ up /\ link /\ owes /\ Arrive(Pkt("rack", 0, 0)) /\ owes' = FALSE /\ UNCHANGED <<said, budget>>

PhoneSends ==
  /\ up /\ link /\ greeted /\ ~owes /\ budget.datas > 0
  /\ LET n == Datas - budget.datas + 1
     IN  Arrive(Pkt("data", n % SeqMod, n)) /\ said' = Append(said, n)
  /\ budget' = [budget EXCEPT !.datas = @ - 1] /\ UNCHANGED owes

PhoneAcks ==
  /\ up /\ link /\ greeted /\ heard # <<>> /\ Arrive(Pkt("ack", 0, 0))
  /\ UNCHANGED <<owes, said, budget>>

Phone == PhoneResets \/ PhoneSends \/ PhoneAcks
-----------------------------------------------------------------------------
(* The service task.                                                         *)

(* _ppogatt_shutdown.  The handle of the tx task is not cleared, and deleting  *)
(* a deleted task writes through links that are no longer its own.  Who is    *)
(* blocked in a queue when it is deleted is never woken.                      *)
Shutdown ==
  /\ IF txh = "stale" THEN up' \in BOOLEAN ELSE up' = up
  /\ rxq' = <<>>
  /\ lock' = (IF lock = "rx" THEN "dead" ELSE lock)
  /\ cmd' = (IF cmd.pc = "blocked" THEN [cmd EXCEPT !.pc = "stuck"] ELSE cmd)

(* _ppogatt_callback_connected: everything is made anew. *)
SvcConnected ==
  /\ up /\ svc # <<>> /\ Head(svc) = "conn" /\ svc' = Tail(svc)
  /\ Shutdown /\ open' = TRUE /\ rx' = Waiting /\ tx' = Waiting /\ txh' = "live"
  /\ txq' = <<Pkt("req", 0, 0), Pkt("rack", 0, 0)>> /\ seq' = 0 /\ seen' = FALSE
  /\ said' = <<>> /\ taken' = <<>> /\ put' = <<>> /\ heard' = <<>>
  /\ torn' = (cmd.pc # "idle")
  /\ UNCHANGED <<radio, want, connected, missed, budget>>

\* Mutant: the tasks and queues go, but bluetooth.c is not told.
SvcDisconnected_Untold ==
  /\ up /\ svc # <<>> /\ Head(svc) = "disc" /\ svc' = Tail(svc)
  /\ Shutdown /\ open' = FALSE /\ txq' = <<>> /\ rx' = Gone /\ tx' = Gone
  /\ txh' = (IF txh = "none" THEN "none" ELSE "stale") /\ torn' = (torn \/ cmd.pc # "idle")
  /\ UNCHANGED <<radio, want, seq, seen, connected, said, taken, put, heard, missed, budget>>

SvcDisconnected ==
  /\ up /\ svc # <<>> /\ Head(svc) = "disc" /\ svc' = Tail(svc)
  /\ Shutdown /\ open' = FALSE /\ txq' = <<>> /\ rx' = Gone /\ tx' = Gone
  /\ txh' = (IF txh = "none" THEN "none" ELSE "stale") /\ torn' = (torn \/ cmd.pc # "idle")
  /\ connected' = FALSE
  /\ UNCHANGED <<radio, want, seq, seen, said, taken, put, heard, missed, budget>>

Svc == SvcConnected \/ SvcDisconnected
-----------------------------------------------------------------------------
(* The rx task.                                                              *)

RxIdle == UNCHANGED <<radio, svc, open, tx, txh, cmd, want, seq, said, put, heard, torn, missed, budget>>

(* Data goes to bluetooth_data_rx, which takes the lock of the receive buffer *)
(* unless that is full: then the packet is dropped, and acknowledged.         *)
RxTake ==
  /\ up /\ rx.pc = "wait" /\ rxq # <<>> /\ rxq' = Tail(rxq)
  /\ \/ /\ Head(rxq).cmd = "data"
        /\ \/ rx' = [pc |-> "append", pkt |-> Head(rxq)] /\ lock' = (IF lock = "free" THEN "rx" ELSE lock)
           \/ rx' = [pc |-> "ack", pkt |-> Head(rxq)] /\ UNCHANGED lock
        /\ UNCHANGED <<seen, connected>>
     \/ /\ Head(rxq).cmd = "rack" /\ seen' = TRUE
        /\ connected' = (connected \/ ~seen) /\ UNCHANGED <<rx, lock>>
     \/ /\ Head(rxq).cmd = "ack" /\ UNCHANGED <<rx, lock, seen, connected>>
  /\ RxIdle /\ UNCHANGED <<up, txq, taken>>

(* A lock that a deleted task has is awaited for 100 ticks and then ignored:  *)
(* the bytes are appended, and giving back what the task does not hold fails  *)
(* an assertion.                                                              *)
RxAppend ==
  /\ up /\ rx.pc = "append" /\ rx' = [rx EXCEPT !.pc = "ack"]
  /\ taken' = Append(taken, rx.pkt.n)
  /\ up' = (lock = "rx") /\ lock' = (IF lock = "rx" THEN "free" ELSE lock)
  /\ RxIdle /\ UNCHANGED <<rxq, txq, seen, connected>>

\* Mutant: the acknowledgement does not wait for room.
RxAck_Pushes ==
  /\ up /\ rx.pc = "ack"
  /\ txq' = Append(txq, Pkt("ack", rx.pkt.seq, 0)) /\ rx' = Waiting
  /\ RxIdle /\ UNCHANGED <<up, rxq, taken, lock, seen, connected>>

RxAck ==
  /\ up /\ rx.pc = "ack" /\ Len(txq) < TxLen
  /\ txq' = Append(txq, Pkt("ack", rx.pkt.seq, 0)) /\ rx' = Waiting
  /\ RxIdle /\ UNCHANGED <<up, rxq, taken, lock, seen, connected>>

Rx == RxTake \/ RxAppend \/ RxAck
-----------------------------------------------------------------------------
(* The tx task: it tries until the radio takes the packet.                   *)
\* Mutant: the packet stays in the queue.
TxTake_Peeks ==
  /\ up /\ tx.pc = "wait" /\ txq # <<>>
  /\ tx' = [pc |-> "send", pkt |-> Head(txq)]
  /\ UNCHANGED <<up, radio, svc, open, rxq, txq, rx, txh, cmd, want, seq, seen, connected, lock, hist, missed, budget>>

TxTake ==
  /\ up /\ tx.pc = "wait" /\ txq # <<>>
  /\ tx' = [pc |-> "send", pkt |-> Head(txq)] /\ txq' = Tail(txq)
  /\ UNCHANGED <<up, radio, svc, open, rxq, rx, txh, cmd, want, seq, seen, connected, lock, hist, missed, budget>>

TxSend ==
  /\ up /\ tx.pc = "send" /\ link /\ tx' = Waiting
  /\ heard'   = (IF tx.pkt.cmd = "data" THEN Append(heard, tx.pkt.n) ELSE heard)
  /\ greeted' = (greeted \/ tx.pkt.cmd = "req") /\ owes' = (owes \/ tx.pkt.cmd = "req")
  /\ UNCHANGED <<up, link, svc, open, rxq, txq, rx, txh, cmd, want, seq, seen, connected, lock,
                 said, taken, put, torn, missed, budget>>

Tx == TxTake \/ TxSend
-----------------------------------------------------------------------------
(* Messages to the phone, and the command task of bluetooth.c.               *)
CmdIdle == UNCHANGED <<up, radio, svc, open, rxq, rx, tx, txh, seen, connected, lock,
                       said, taken, heard, torn, missed>>

(* bluetooth_send: nobody sends without a connection. *)
Ask ==
  /\ up /\ connected /\ budget.asks > 0
  /\ want' = want + 1 /\ budget' = [budget EXCEPT !.asks = @ - 1]
  /\ CmdIdle /\ UNCHANGED <<txq, cmd, seq, put>>

CmdTake ==
  /\ up /\ cmd.pc = "idle" /\ want > 0 /\ want' = want - 1
  /\ cmd' = [pc |-> "fill", seq |-> 0, left |-> Chunks]
  /\ CmdIdle /\ UNCHANGED <<txq, seq, put, budget>>

(* bt_device_request_tx: the packet gets its number before it is queued. *)
CmdFill ==
  /\ up /\ cmd.pc = "fill" /\ cmd' = [cmd EXCEPT !.pc = "put", !.seq = seq]
  /\ CmdIdle /\ UNCHANGED <<txq, want, seq, put, budget>>

(* A NULL queue fails an assertion. *)
CmdNoQueue ==
  /\ up /\ cmd.pc = "put" /\ ~open /\ up' = FALSE
  /\ UNCHANGED <<radio, svc, open, rxq, txq, rx, tx, txh, cmd, want, seq, seen, connected, lock, hist, missed, budget>>

CmdBlock ==
  /\ up /\ cmd.pc = "put" /\ open /\ Len(txq) = TxLen /\ cmd' = [cmd EXCEPT !.pc = "blocked"]
  /\ CmdIdle /\ UNCHANGED <<txq, want, seq, put, budget>>

\* Mutant: the packet goes before those that wait.
CmdPut_Front ==
  /\ up /\ cmd.pc \in {"put", "blocked"} /\ open /\ Len(txq) < TxLen
  /\ txq' = <<Pkt("data", cmd.seq, Len(put) + 1)>> \o txq /\ put' = Append(put, cmd.seq)
  /\ cmd' = [cmd EXCEPT !.pc = "count", !.left = @ - 1]
  /\ CmdIdle /\ UNCHANGED <<want, seq, budget>>

CmdPut ==
  /\ up /\ cmd.pc \in {"put", "blocked"} /\ open /\ Len(txq) < TxLen
  /\ txq' = Append(txq, Pkt("data", cmd.seq, Len(put) + 1)) /\ put' = Append(put, cmd.seq)
  /\ cmd' = [cmd EXCEPT !.pc = "count", !.left = @ - 1]
  /\ CmdIdle /\ UNCHANGED <<want, seq, budget>>

(* A new session may have set txseq back since. *)
CmdCount ==
  /\ up /\ cmd.pc = "count" /\ seq' = (seq + 1) % SeqMod
  /\ cmd' = (IF cmd.left = 0 THEN Idle ELSE [pc |-> "fill", seq |-> 0, left |-> cmd.left])
  /\ CmdIdle /\ UNCHANGED <<txq, want, put, budget>>

Cmd == CmdTake \/ CmdFill \/ CmdNoQueue \/ CmdBlock \/ CmdPut \/ CmdCount

Next == Connect \/ Ready \/ Disconnect \/ Phone \/ Svc \/ Rx \/ Tx \/ Ask \/ Cmd

Spec == Init /\ [][Next]_vars

(* The tasks are scheduled, and the radio takes packets while it has a link. *)
FairSpec == Spec /\ WF_vars(Svc) /\ WF_vars(Rx) /\ WF_vars(Tx) /\ WF_vars(Cmd)
-----------------------------------------------------------------------------
(* bluetooth.c believes in a connection only while there are queues to send   *)
(* through, and while the radio has one or the news that it is gone is on its *)
(* way: unless that news was lost.  Three contexts change these.              *)
ConnectedIsTrue == connected => /\ open
                                /\ link \/ missed \/ \E i \in DOMAIN svc : svc[i] = "disc"

(* "Sequences are increasing and repeating" (ppogatt.c:35): from 0 in every   *)
(* session, and no number left out or used twice before it is its turn again, *)
(* unless the session began or ended under the command task.                  *)
SeqsCount == torn \/ \A i \in DOMAIN put : put[i] = (i - 1) % SeqMod

(* "reliable in-order protocol" (ppogatt.c:14): the phone hears everything    *)
(* that is queued in a session, in order and once, under numbers that count;  *)
(* the protocol hears what the phone says in order and once, but not all:     *)
(* full queues drop it.                                                       *)
InPlace == [i \in DOMAIN taken |-> taken[i] - said[1] + 1]
In  == INSTANCE Channel WITH Lossy <- TRUE, sent <- said, got <- InPlace
Out == INSTANCE Channel WITH Lossy <- FALSE, sent <- put, got <- heard
KeepsOrder == In!Spec /\ Out!Spec /\ []SeqsCount

(* A message to the phone is sent, and the acknowledgement of a packet goes   *)
(* out, although both wait for room in one queue: unless a session began or   *)
(* ended under the sender, or the end of one was never reported.              *)
Broken   == torn \/ missed \/ ~up
SendsEnd == /\ (cmd.pc # "idle") ~> (cmd.pc = "idle" \/ Broken)
            /\ (rx.pc = "ack") ~> (rx.pc # "ack" \/ Broken)
=============================================================================
