--------------------------- MODULE DrawingProofs ---------------------------
(***************************************************************************)
(* Theorems about Drawing for all lengths of queues, any number of windows *)
(* and subscriptions and any trouble: the types, that the frame buffer has *)
(* one user at a time, and that an event is destroyed once.                *)
(***************************************************************************)
EXTENDS Drawing, TLAPS

Requests == {"request", "app", "overlay", "other"}
Turns    == {"draw", "event"}
Jobs     == {"draw", "event", "create", "destroy"}
Answers  == {"app", "overlay"}   \* they hand the frame back to the manager

NoneOf(q, S) == \A i \in DOMAIN q : q[i] \notin S
OneOf(q, S)  == \A i, j \in DOMAIN q : q[i] \in S /\ q[j] \in S => i = j

(* What is left when the first message is taken. *)
LEMMA Taking ==
  ASSUME NEW T, NEW q \in Seq(T), q # <<>>, NEW S
  PROVE  /\ Tail(q) \in Seq(T) /\ Len(Tail(q)) <= Len(q) /\ Head(q) \in T
         /\ NoneOf(q, S) => NoneOf(Tail(q), S)
         /\ OneOf(q, S) => OneOf(Tail(q), S)
         /\ Head(q) \in S => ~NoneOf(q, S)
         /\ OneOf(q, S) /\ Head(q) \in S => NoneOf(Tail(q), S)
<1>1. /\ Tail(q) \in Seq(T) /\ Len(q) \in Nat /\ Len(q) > 0 /\ Len(Tail(q)) = Len(q) - 1
      /\ DOMAIN q = 1 .. Len(q) /\ DOMAIN Tail(q) = 1 .. Len(q) - 1
      /\ Head(q) = q[1] /\ q[1] \in T
  OBVIOUS
<1>2. \A i \in DOMAIN Tail(q) : Tail(q)[i] = q[i + 1] /\ i + 1 \in DOMAIN q /\ i + 1 # 1
  BY <1>1
<1>3. NoneOf(q, S) => NoneOf(Tail(q), S)
  BY <1>2 DEF NoneOf
<1>4. OneOf(q, S) => OneOf(Tail(q), S)
  <2> SUFFICES ASSUME OneOf(q, S), NEW i \in DOMAIN Tail(q), NEW j \in DOMAIN Tail(q),
                      Tail(q)[i] \in S, Tail(q)[j] \in S
               PROVE  i = j
    BY DEF OneOf
  <2>1. i + 1 = j + 1
    BY <1>2 DEF OneOf
  <2> QED BY <1>1, <2>1
<1>5. Head(q) \in S => ~NoneOf(q, S)
  BY <1>1 DEF NoneOf
<1>6. OneOf(q, S) /\ Head(q) \in S => NoneOf(Tail(q), S)
  <2> SUFFICES ASSUME OneOf(q, S), Head(q) \in S, NEW i \in DOMAIN Tail(q), Tail(q)[i] \in S
               PROVE  FALSE
    BY DEF NoneOf
  <2>1. 1 \in DOMAIN q
    BY <1>1
  <2> QED BY <1>1, <1>2, <2>1 DEF OneOf
<1> QED BY <1>1, <1>3, <1>4, <1>5, <1>6

(* A message that is queued, or lost when the queue is full. *)
LEMMA Posting ==
  ASSUME NEW T, NEW q \in Seq(T), NEW m \in T, NEW len \in Nat, Len(q) <= len, NEW S
  PROVE  /\ Room(q, m, len) \in Seq(T) /\ Len(Room(q, m, len)) <= len
         /\ NoneOf(q, S) /\ m \notin S => NoneOf(Room(q, m, len), S)
         /\ NoneOf(q, S) => OneOf(Room(q, m, len), S)
         /\ OneOf(q, S) /\ m \notin S => OneOf(Room(q, m, len), S)
<1>1. CASE Len(q) < len
  <2> DEFINE r == Append(q, m)
  <2>1. Room(q, m, len) = r
    BY <1>1 DEF Room
  <2>2. /\ r \in Seq(T) /\ Len(q) \in Nat /\ Len(r) = Len(q) + 1
        /\ DOMAIN q = 1 .. Len(q) /\ DOMAIN r = 1 .. Len(q) + 1
        /\ r[Len(q) + 1] = m /\ \A i \in DOMAIN q : r[i] = q[i]
    OBVIOUS
  <2>3. \A i \in DOMAIN r : (i \in DOMAIN q /\ r[i] = q[i]) \/ (i = Len(q) + 1 /\ r[i] = m)
    BY <2>2
  <2>4. Len(r) <= len
    BY <1>1, <2>2
  <2> HIDE DEF r
  <2>5. NoneOf(q, S) /\ m \notin S => NoneOf(r, S)
    BY <2>3 DEF NoneOf
  <2>6. NoneOf(q, S) => OneOf(r, S)
    BY <2>3 DEF NoneOf, OneOf
  <2>7. OneOf(q, S) /\ m \notin S => OneOf(r, S)
    BY <2>3 DEF OneOf
  <2> QED BY <2>1, <2>2, <2>4, <2>5, <2>6, <2>7
<1>2. CASE ~(Len(q) < len)
  BY <1>2 DEF Room, NoneOf, OneOf
<1> QED BY <1>1, <1>2

(* As many requests for a frame as there is room for. *)
LEMMA Requesting ==
  ASSUME mq \in Seq(Requests), ManLen \in Nat, Len(mq) <= ManLen, NEW n \in Nat, PostRequests(n)
  PROVE  /\ mq' \in Seq(Requests) /\ Len(mq') <= ManLen
         /\ NoneOf(mq, Answers) => NoneOf(mq', Answers)
         /\ OneOf(mq, Answers) => OneOf(mq', Answers)
<1> DEFINE room == ManLen - Len(mq)
           k    == Min({n, room})
           r    == [i \in 1 .. k |-> "request"]
<1>1. Len(mq) \in Nat /\ room \in Nat /\ DOMAIN mq = 1 .. Len(mq)
  OBVIOUS
<1>2. k \in Nat /\ k <= room
  <2> HIDE DEF room
  <2>1. \E x \in {n, room} : \A y \in {n, room} : x <= y
    BY <1>1
  <2>2. k \in {n, room} /\ \A y \in {n, room} : k <= y
    BY <2>1 DEF Min
  <2> QED BY <1>1, <2>2
<1>3. mq' = mq \o r
  BY DEF PostRequests
<1> HIDE DEF k
<1>4. r \in Seq(Requests) /\ Len(r) = k /\ \A i \in 1 .. k : r[i] = "request"
  BY <1>2 DEF Requests
<1> HIDE DEF r
<1>5. /\ mq' \in Seq(Requests) /\ Len(mq') = Len(mq) + k /\ DOMAIN mq' = 1 .. Len(mq) + k
      /\ \A i \in DOMAIN mq' : mq'[i] = IF i <= Len(mq) THEN mq[i] ELSE r[i - Len(mq)]
  BY <1>1, <1>2, <1>3, <1>4
<1>6. \A i \in DOMAIN mq' : (i \in DOMAIN mq /\ mq'[i] = mq[i]) \/ mq'[i] = "request"
  BY SMTT(60), <1>1, <1>2, <1>4, <1>5
<1>7. Len(mq') <= ManLen
  BY <1>1, <1>2, <1>5
<1>8. NoneOf(mq, Answers) => NoneOf(mq', Answers)
  BY <1>6 DEF NoneOf, Answers
<1>9. OneOf(mq, Answers) => OneOf(mq', Answers)
  BY <1>6 DEF OneOf, Answers
<1> QED BY <1>5, <1>7, <1>8, <1>9

(* The overlay's queue has one place. *)
LEMMA PostingJobs ==
  ASSUME oq \in Seq(Jobs), Len(oq) <= 1, NEW m \in Jobs, PostOverlay(m)
  PROVE  /\ oq' \in Seq(Jobs) /\ Len(oq') <= 1
         /\ oq' = oq \/ oq' = <<m>>
<1>1. oq' = Room(oq, m, 1)
  BY DEF PostOverlay
<1>2. oq' \in Seq(Jobs) /\ Len(oq') <= 1
  BY <1>1, Posting
<1>3. CASE Len(oq) < 1
  <2>1. oq = <<>>
    BY <1>3
  <2>2. oq' = Append(<<>>, m)
    BY <1>1, <1>3, <2>1 DEF Room
  <2>3. Append(<<>>, m) = <<m>>
    OBVIOUS
  <2> QED BY <1>2, <2>2, <2>3
<1>4. CASE ~(Len(oq) < 1)
  BY <1>1, <1>2, <1>4 DEF Room
<1> QED BY <1>3, <1>4
-----------------------------------------------------------------------------
(* Types.                                                                    *)

QueueTypes ==
  /\ mq \in Seq(Requests) /\ Len(mq) <= ManLen
  /\ aq \in Seq(Turns) /\ Len(aq) <= AppLen
  /\ oq \in Seq(Jobs) /\ Len(oq) <= 1

PlaceTypes ==
  /\ man \in {"idle", "frame"} /\ last \in {"request", "app", "overlay"} /\ status \in {"none", "run", "closing"}
  /\ app \in [pc : {"out", "loop", "paint", "forward"}, n : 0 .. MaxSubs + 1]
  /\ ov \in {"wait", "paint", "notify", "free"}
  /\ wins \in 0 .. MaxWins /\ subs \in [app : 0 .. MaxSubs, ov : 0 .. 1]
  /\ ev \in {"none", "live", "dead"} /\ left \in 0 .. Troubles

FlagTypes == /\ lock \in BOOLEAN /\ aged \in BOOLEAN /\ late \in BOOLEAN
             /\ misused \in BOOLEAN /\ crowded \in BOOLEAN

LEMMA TypeParts == TypeOK <=> QueueTypes /\ PlaceTypes /\ FlagTypes
  BY DEF TypeOK, QueueTypes, PlaceTypes, FlagTypes, Requests, Turns, Jobs

LEMMA TypePartsNext == QueueTypes' /\ PlaceTypes' /\ FlagTypes' => TypeOK'
  BY DEF TypeOK, QueueTypes, PlaceTypes, FlagTypes, Requests, Turns, Jobs

LEMMA SizesHold == ManLen \in Nat /\ AppLen \in Nat /\ MaxWins \in Nat /\ MaxSubs \in Nat /\ Troubles \in Nat
                   /\ ManLen > 0 /\ AppLen > 0
  BY DrawAssumption DEF DrawAssumption

LEMMA TypeInit == Init => TypeOK
<1> SUFFICES ASSUME Init PROVE QueueTypes /\ PlaceTypes /\ FlagTypes
  BY TypeParts
<1>1. \A T : <<>> \in Seq(T) /\ Len(<<>>) = 0
  OBVIOUS
<1>2. QueueTypes
  BY <1>1, SizesHold DEF Init, QueueTypes
<1>3. PlaceTypes
  BY SizesHold DEF Init, PlaceTypes, At
<1> QED BY <1>2, <1>3 DEF Init, FlagTypes

(* What a step does to the queues. *)
ManagersQueue == \/ mq' = mq
                 \/ mq # <<>> /\ mq' = Tail(mq)
                 \/ \E m \in Requests : PostUpdate(m)
                 \/ \E n \in Nat : PostRequests(n)
AppsQueue     == \/ aq' = aq \/ aq' = <<>>
                 \/ aq # <<>> /\ aq' = Tail(aq)
                 \/ \E m \in Turns : aq' = Room(aq, m, AppLen)
OverlaysQueue == \/ oq' = oq \/ oq' = <<>> \/ oq' = <<"create">>
                 \/ \E m \in Jobs : PostOverlay(m)

LEMMA QueuesStayTyped ==
  ASSUME QueueTypes, ManagersQueue, AppsQueue, OverlaysQueue
  PROVE  QueueTypes'
<1>1. mq' \in Seq(Requests) /\ Len(mq') <= ManLen
  <2>1. mq \in Seq(Requests) /\ Len(mq) <= ManLen /\ ManLen \in Nat
    BY SizesHold DEF QueueTypes
  <2>2. CASE mq # <<>> /\ mq' = Tail(mq)
    <3>1. Tail(mq) \in Seq(Requests) /\ Len(Tail(mq)) <= Len(mq) /\ Len(mq) \in Nat /\ Len(Tail(mq)) \in Nat
      BY <2>1, <2>2, Taking
    <3> QED BY <2>1, <2>2, <3>1
  <2>3. ASSUME NEW m \in Requests, PostUpdate(m) PROVE mq' \in Seq(Requests) /\ Len(mq') <= ManLen
    BY <2>1, <2>3, Posting DEF PostUpdate
  <2> QED BY <2>1, <2>2, <2>3, Requesting DEF ManagersQueue
<1>2. aq' \in Seq(Turns) /\ Len(aq') <= AppLen
  <2>1. aq \in Seq(Turns) /\ Len(aq) <= AppLen /\ AppLen \in Nat
    BY SizesHold DEF QueueTypes
  <2>2. CASE aq # <<>> /\ aq' = Tail(aq)
    <3>1. Tail(aq) \in Seq(Turns) /\ Len(Tail(aq)) <= Len(aq) /\ Len(aq) \in Nat /\ Len(Tail(aq)) \in Nat
      BY <2>1, <2>2, Taking
    <3> QED BY <2>1, <2>2, <3>1
  <2>3. ASSUME NEW m \in Turns, aq' = Room(aq, m, AppLen) PROVE aq' \in Seq(Turns) /\ Len(aq') <= AppLen
    BY <2>1, <2>3, Posting
  <2>4. CASE aq' = <<>>
    BY <2>1, <2>4
  <2> QED BY <2>1, <2>2, <2>3, <2>4 DEF AppsQueue
<1>3. oq' \in Seq(Jobs) /\ Len(oq') <= 1
  <2>1. oq \in Seq(Jobs) /\ Len(oq) <= 1
    BY DEF QueueTypes
  <2>2. CASE oq' = <<>>
    BY <2>2
  <2>3. CASE oq' = <<"create">>
    BY <2>3 DEF Jobs
  <2> QED BY <2>1, <2>2, <2>3, PostingJobs DEF OverlaysQueue
<1> QED BY <1>1, <1>2, <1>3 DEF QueueTypes

LEMMA OverlayTurnTypes ==
  ASSUME OverlayTurn
  PROVE  /\ last' \in {"app", "overlay"} /\ man' \in {man, "frame"}
         /\ oq' = oq \/ PostOverlay("draw")
  BY DEF OverlayTurn

LEMMA ManagerTypes ==
  ASSUME TypeOK, Manager
  PROVE  ManagersQueue /\ AppsQueue /\ OverlaysQueue /\ PlaceTypes' /\ FlagTypes'
<1>1. ManagersQueue
  BY DEF Manager, ManRequest, ManApp, ManOverlay, ManOther, FrameDone, ManIdle, ManagersQueue
<1>2. AppsQueue
  BY DEF Manager, ManRequest, ManApp, ManOverlay, ManOther, FrameDone, AppsQueue, Turns
<1>3. OverlaysQueue
  BY OverlayTurnTypes DEF Manager, ManRequest, ManApp, ManOverlay, ManOther, FrameDone, OverlaysQueue, Jobs
<1>4. UNCHANGED <<status, app, ov, wins, subs, ev, misused, crowded, late, left>>
  BY DEF Manager, ManRequest, ManApp, ManOverlay, ManOther, FrameDone, event
<1>5. man' \in {man, "idle", "frame"} /\ last' \in {last, "request", "app", "overlay"}
  BY OverlayTurnTypes DEF Manager, ManRequest, ManApp, ManOverlay, ManOther, FrameDone
<1>6. lock' \in {lock, TRUE, FALSE} /\ aged' \in {aged, FALSE}
  BY DEF Manager, ManRequest, ManApp, ManOverlay, ManOther, FrameDone
<1>7. PlaceTypes'
  BY <1>4, <1>5, TypeParts DEF PlaceTypes
<1>8. FlagTypes'
  BY <1>4, <1>6, TypeParts DEF FlagTypes
<1> QED BY <1>1, <1>2, <1>3, <1>7, <1>8

LEMMA AppTypes ==
  ASSUME TypeOK, App
  PROVE  ManagersQueue /\ AppsQueue /\ OverlaysQueue /\ PlaceTypes' /\ FlagTypes'
<1> USE DEF App, AppRuns, AppStart, AppQuits, AppLeaves, AppDeleted, AppDraw, AppPainted, AppDrops, AppEvent,
            AppForwards, AppAsks, AppBack, AppSubscribes
<1>1. ManagersQueue
  BY DEF ManagersQueue, Requests, frame
<1>2. AppsQueue
  BY DEF AppsQueue, AppTurn
<1>3. OverlaysQueue
  BY DEF OverlaysQueue, Jobs
<1>4. UNCHANGED <<man, last, ov, wins, ev, lock, aged, late>> /\ left' \in {left, left - 1} /\ (left' # left => left > 0)
  BY DEF frame, event, Trouble
<1>5. status' \in {status, "none", "run", "closing"}
  OBVIOUS
<1>6. app' \in [pc : {"out", "loop", "paint", "forward"}, n : 0 .. MaxSubs + 1]
  <2>1. /\ app \in [pc : {"out", "loop", "paint", "forward"}, n : 0 .. MaxSubs + 1] /\ MaxSubs \in Nat
        /\ subs.app \in 0 .. MaxSubs /\ subs.ov \in 0 .. 1
    BY TypeParts, SizesHold DEF PlaceTypes
  <2>2. CASE AppEvent
    BY <2>1, <2>2
  <2>3. CASE AppForwards
    BY <2>1, <2>3 DEF At
  <2>4. CASE ~AppEvent /\ ~AppForwards
    <3>1. app' = app \/ \E pc \in {"out", "loop", "paint"} : app' = [pc |-> pc, n |-> 0]
      BY <2>4 DEF At
    <3> QED BY <2>1, <3>1
  <2> QED BY <2>2, <2>3, <2>4
<1>7. subs' \in [app : 0 .. MaxSubs, ov : 0 .. 1]
  <2>1. subs \in [app : 0 .. MaxSubs, ov : 0 .. 1] /\ MaxSubs \in Nat
    BY TypeParts, SizesHold DEF PlaceTypes
  <2>2. CASE AppQuits
    BY <2>1, <2>2
  <2>3. CASE AppSubscribes
    BY <2>1, <2>3
  <2>4. CASE ~AppQuits /\ ~AppSubscribes
    BY <2>1, <2>4 DEF event
  <2> QED BY <2>2, <2>3, <2>4
<1>8. misused' \in {misused, (misused \/ ev = "dead")} /\ crowded' \in {crowded, (crowded \/ subs.app + subs.ov > 0)}
  BY DEF event
<1>9. left' \in 0 .. Troubles
  BY <1>4, TypeParts, SizesHold DEF PlaceTypes
<1>10. PlaceTypes'
  <2> HIDE DEF App
  <2> QED BY <1>4, <1>5, <1>6, <1>7, <1>9, TypeParts DEF PlaceTypes
<1>11. FlagTypes'
  <2> HIDE DEF App
  <2> QED BY <1>4, <1>8, TypeParts DEF FlagTypes
<1> QED BY <1>1, <1>2, <1>3, <1>10, <1>11

LEMMA OverlayTypes ==
  ASSUME TypeOK, Overlay
  PROVE  ManagersQueue /\ AppsQueue /\ OverlaysQueue /\ PlaceTypes' /\ FlagTypes'
<1>0. PlaceTypes /\ FlagTypes /\ subs.app + subs.ov \in Nat /\ MaxWins \in Nat /\ wins \in 0 .. MaxWins
  BY TypeParts, SizesHold DEF PlaceTypes
<1> USE DEF Overlay, OvDraw, OvPainted, OvCreate, OvDestroy, OvEvent, OvNotify, OvFree
<1>1. ManagersQueue
  BY <1>0 DEF ManagersQueue, Requests, frame
<1>2. AppsQueue
  BY DEF AppsQueue
<1>3. OverlaysQueue
  BY DEF OverlaysQueue, OvTurn
<1>4. UNCHANGED <<man, last, lock, status, app, subs, crowded, left>>
  BY DEF frame, event
<1>5. ov' \in {ov, "wait", "paint", "notify", "free"} /\ ev' \in {ev, "dead"}
  <2>1. ov' \in {ov, "wait", "paint", "notify", "free"}
    OBVIOUS
  <2>2. CASE OvFree
    BY <2>2
  <2> QED BY <2>1, <2>2 DEF event
<1>6. wins' \in 0 .. MaxWins
  BY <1>0
<1>7. aged' \in {aged, TRUE} /\ late' \in {late, (late \/ OnItsWay)}
  BY DEF frame
<1>8. misused' \in BOOLEAN
  <2>1. CASE OvFree
    BY <2>1
  <2> QED BY <1>0, <2>1 DEF event, FlagTypes
<1>9. PlaceTypes'
  <2> HIDE DEF Overlay
  <2> QED BY <1>0, <1>4, <1>5, <1>6 DEF PlaceTypes
<1>10. FlagTypes'
  <2> HIDE DEF Overlay
  <2> QED BY <1>0, <1>4, <1>7, <1>8 DEF FlagTypes
<1> QED BY <1>1, <1>2, <1>3, <1>9, <1>10

LEMMA OtherTypes ==
  ASSUME TypeOK, PostWindow \/ PostOther \/ PostEvent \/ Time
  PROVE  ManagersQueue /\ AppsQueue /\ OverlaysQueue /\ PlaceTypes' /\ FlagTypes'
<1> USE DEF PostWindow, PostOther, PostEvent, Time
<1>1. ManagersQueue
  BY DEF ManagersQueue, Requests, frame
<1>2. AppsQueue
  BY DEF AppsQueue, Turns, Room
<1>3. OverlaysQueue
  BY DEF OverlaysQueue, Jobs
<1>4. UNCHANGED <<man, last, lock, status, app, ov, wins, subs, misused, crowded>> /\ ev' \in {ev, "live", "dead"}
  BY DEF frame, event
<1>5. left' \in {left, left - 1} /\ (left' # left => left > 0)
  BY DEF Trouble
<1>6. aged' \in {aged, TRUE} /\ late' \in {late, (late \/ OnItsWay)}
  BY DEF frame
<1>7. left' \in 0 .. Troubles
  BY <1>5, TypeParts, SizesHold DEF PlaceTypes
<1>8. PlaceTypes'
  BY <1>4, <1>7, TypeParts DEF PlaceTypes
<1>9. FlagTypes'
  BY <1>4, <1>6, TypeParts DEF FlagTypes
<1> QED BY <1>1, <1>2, <1>3, <1>8, <1>9

LEMMA TypeNext == TypeOK /\ [Next]_vars => TypeOK'
<1> SUFFICES ASSUME TypeOK, [Next]_vars PROVE TypeOK'
  OBVIOUS
<1>1. CASE Next
  <2>1. ManagersQueue /\ AppsQueue /\ OverlaysQueue /\ PlaceTypes' /\ FlagTypes'
    BY <1>1, ManagerTypes, AppTypes, OverlayTypes, OtherTypes DEF Next
  <2>2. QueueTypes'
    BY <2>1, QueuesStayTyped, TypeParts
  <2> QED BY <2>1, <2>2, TypePartsNext
<1>2. CASE UNCHANGED vars
  <2>1. QueueTypes'
    BY <1>2, TypeParts DEF vars, frame, QueueTypes
  <2>2. PlaceTypes'
    BY <1>2, TypeParts DEF vars, frame, event, PlaceTypes
  <2>3. FlagTypes'
    BY <1>2, TypeParts DEF vars, frame, event, FlagTypes
  <2> QED BY <2>1, <2>2, <2>3, TypePartsNext
<1> QED BY <1>1, <1>2

(* Every variable keeps its type and no queue outgrows its length, whatever   *)
(* the threads and those around them do (appmanager.c, overlay_manager.c,     *)
(* event_service.c).                                                          *)
THEOREM TypeCorrect == Spec => []TypeOK
<1> QED BY TypeInit, TypeNext, PTL DEF Spec
-----------------------------------------------------------------------------
(* One user of the frame buffer.                                             *)

(* Where the right to use the frame is: in a message or with a thread. *)
Places  == {"mq", "man", "app", "aq", "ov", "oq"}
InMq    == ~NoneOf(mq, Answers)
InAq    == app.pc # "out" /\ ~NoneOf(aq, {"draw"})
Holders == {h \in Places : \/ h = "mq" /\ InMq
                           \/ h = "man" /\ man = "frame"
                           \/ h = "app" /\ app.pc = "paint"
                           \/ h = "aq" /\ InAq
                           \/ h = "ov" /\ ov = "paint"
                           \/ h = "oq" /\ oq = <<"draw">>}

(* There is one such place, and one message in it; the lock is held and was   *)
(* taken less than 250 ms ago.                                               *)
Tidy      == OneOf(mq, Answers) /\ (app.pc # "out" => OneOf(aq, {"draw"}))
Single    == \A g, h \in Holders : g = h
Guarded   == Holders # {} => lock /\ ~aged
OneHolder == Tidy /\ Single /\ Guarded
FrameInv  == late \/ OneHolder

LEMMA FrameInit == Init => FrameInv
<1> SUFFICES ASSUME Init PROVE OneHolder
  BY DEF FrameInv
<1>1. mq = <<>> /\ aq = <<>> /\ oq = <<>> /\ man = "idle" /\ app.pc = "out" /\ ov = "wait"
  BY DEF Init, At
<1>2. DOMAIN mq = {} /\ DOMAIN aq = {} /\ oq # <<"draw">>
  BY <1>1
<1>3. Holders = {}
  BY <1>1, <1>2 DEF Holders, InMq, InAq, NoneOf
<1> QED BY <1>2, <1>3 DEF OneHolder, Tidy, Single, Guarded, OneOf

(* Nobody who was without it gets it. *)
LEMMA Keeps ==
  ASSUME OneHolder, Tidy', Holders' \subseteq Holders, lock' = lock, aged' = aged
  PROVE  OneHolder'
<1>1. Single'
  BY DEF OneHolder, Single
<1>2. Guarded'
  BY DEF OneHolder, Guarded
<1> QED BY <1>1, <1>2 DEF OneHolder

(* It is handed from one to another. *)
LEMMA Hands ==
  ASSUME OneHolder, Tidy', NEW x \in Holders, NEW y, \A h \in Holders' : h = y \/ (h \in Holders /\ h # x),
         lock' = lock, aged' = aged
  PROVE  OneHolder'
<1>1. \A h \in Holders' : h = y
  BY DEF OneHolder, Single
<1>2. Single'
  BY <1>1 DEF Single
<1>3. Guarded'
  BY DEF OneHolder, Guarded
<1> QED BY <1>2, <1>3 DEF OneHolder

(* It is made, when there is none. *)
LEMMA Makes ==
  ASSUME Holders = {}, Tidy', NEW y, \A h \in Holders' : h = y, lock', ~aged'
  PROVE  OneHolder'
  BY DEF OneHolder, Single, Guarded

(* OnItsWay of the model says the same. *)
LEMMA OnItsWayHolds == ASSUME TypeOK PROVE OnItsWay <=> Holders # {}
<1>1. mq \in Seq(Requests) /\ aq \in Seq(Turns)
  BY TypeParts DEF QueueTypes
<1>2. Answers \cap Range(mq) # {} <=> InMq
  BY <1>1 DEF Range, InMq, NoneOf
<1>3. "draw" \in Range(aq) <=> ~NoneOf(aq, {"draw"})
  BY <1>1 DEF Range, NoneOf
<1>4. OnItsWay <=> (InMq \/ man = "frame" \/ app.pc = "paint" \/ InAq \/ ov = "paint" \/ oq = <<"draw">>)
  BY <1>2, <1>3 DEF OnItsWay, Answers, InAq
<1> HIDE DEF InMq, InAq
<1> QED BY <1>4 DEF Holders, Places

(* Who finds nobody with it. *)
LEMMA NobodyHas ==
  ASSUME OneHolder, aged \/ ~lock
  PROVE  Holders = {}
  BY DEF OneHolder, Guarded

(* What happens to a queue, in terms of the frame. *)
LEMMA MqTaken ==
  ASSUME TypeOK, OneHolder, NEW m, ManIdle(m)
  PROVE  /\ OneOf(mq', Answers) /\ (InMq' => InMq)
         /\ m \in Answers => InMq /\ ~InMq'
  BY TypeParts, Taking DEF QueueTypes, ManIdle, OneHolder, Tidy, InMq

LEMMA MqPosted ==
  ASSUME TypeOK, OneHolder, NEW m \in Requests, PostUpdate(m)
  PROVE  /\ m \notin Answers => OneOf(mq', Answers) /\ (InMq' => InMq)
         /\ ~InMq => OneOf(mq', Answers)
  BY TypeParts, SizesHold, Posting DEF QueueTypes, PostUpdate, OneHolder, Tidy, InMq

LEMMA MqRequested ==
  ASSUME TypeOK, OneHolder, NEW n \in Nat, PostRequests(n)
  PROVE  OneOf(mq', Answers) /\ (InMq' => InMq)
  BY TypeParts, SizesHold, Requesting DEF QueueTypes, OneHolder, Tidy, InMq

LEMMA AqTaken ==
  ASSUME TypeOK, OneHolder, app.pc # "out", aq # <<>>, aq' = Tail(aq)
  PROVE  /\ OneOf(aq', {"draw"}) /\ (InAq' => InAq)
         /\ Head(aq) = "draw" => InAq /\ ~InAq'
  BY TypeParts, Taking DEF QueueTypes, OneHolder, Tidy, InAq

LEMMA AqPosted ==
  ASSUME TypeOK, OneHolder, NEW m \in Turns, aq' = Room(aq, m, AppLen), app' = app
  PROVE  /\ m # "draw" => (app.pc # "out" => OneOf(aq', {"draw"})) /\ (InAq' => InAq)
         /\ ~InAq => (app.pc # "out" => OneOf(aq', {"draw"}))
  BY TypeParts, SizesHold, Posting DEF QueueTypes, OneHolder, Tidy, InAq

LEMMA OqPosted ==
  ASSUME TypeOK, NEW m \in Jobs, PostOverlay(m)
  PROVE  m # "draw" /\ oq' = <<"draw">> => oq = <<"draw">>
<1>1. oq' = oq \/ oq' = <<m>>
  BY TypeParts, PostingJobs DEF QueueTypes
<1>2. <<m>> = <<"draw">> => m = "draw"
  OBVIOUS
<1> QED BY <1>1, <1>2

(* A place that did not change, or only lost it. *)
LEMMA AppStays == app' = app /\ aq' = aq => (InAq' <=> InAq)
  BY DEF InAq

LEMMA ManagerKeepsOne ==
  ASSUME TypeOK, OneHolder, Manager
  PROVE  OneHolder'
<1>1. CASE ManRequest
  <2>1. ManIdle("request") /\ man = "idle" /\ UNCHANGED <<app, ov>>
    BY <1>1 DEF ManRequest, ManIdle
  <2>2. OneOf(mq', Answers) /\ (InMq' => InMq)
    BY <2>1, MqTaken
  <2>3. CASE UNCHANGED <<man, lock, aged, aq, oq>>
    <3>1. Tidy'
      BY <2>1, <2>2, <2>3 DEF Tidy, OneHolder
    <3>2. Holders' \subseteq Holders
      BY <2>1, <2>2, <2>3, AppStays DEF Holders
    <3> QED BY <2>3, <3>1, <3>2, Keeps
  <2>4. CASE /\ Lost \/ (last # "request" /\ ~lock)
             /\ lock' = TRUE /\ aged' = FALSE
             /\ \/ status = "run" /\ last' = "request" /\ aq' = Room(aq, "draw", AppLen) /\ UNCHANGED <<man, oq>>
                \/ status # "run" /\ OverlayTurn /\ UNCHANGED aq
    <3>1. Holders = {}
      BY <2>4, NobodyHas DEF Lost
    <3>2. ~InMq /\ app.pc # "paint" /\ ~InAq /\ ov # "paint" /\ oq # <<"draw">>
      BY <3>1 DEF Holders, Places
    <3>3. CASE aq' = Room(aq, "draw", AppLen) /\ UNCHANGED <<man, oq>>
      <4>1. Tidy'
        BY <2>1, <2>2, <3>2, <3>3, AqPosted DEF Tidy, Turns
      <4>2. \A h \in Holders' : h = "aq"
        BY <2>1, <2>2, <3>2, <3>3 DEF Holders
      <4> QED BY <2>4, <3>1, <4>1, <4>2, Makes
    <3>4. CASE OverlayTurn /\ UNCHANGED aq
      <4>1. Tidy'
        BY <2>1, <2>2, <3>4 DEF Tidy, OneHolder
      <4>2. CASE UNCHANGED man
        <5>1. \A h \in Holders' : h = "oq"
          BY <2>1, <2>2, <3>2, <3>4, <4>2, AppStays DEF Holders
        <5> QED BY <2>4, <3>1, <4>1, <5>1, Makes
      <4>3. CASE UNCHANGED oq
        <5>1. \A h \in Holders' : h = "man"
          BY <2>1, <2>2, <3>2, <3>4, <4>3, AppStays DEF Holders
        <5> QED BY <2>4, <3>1, <4>1, <5>1, Makes
      <4> QED BY <3>4, <4>2, <4>3 DEF OverlayTurn
    <3> QED BY <2>4, <3>3, <3>4
  <2> QED BY <1>1, <2>3, <2>4 DEF ManRequest
<1>2. CASE ManApp \/ ManOverlay
  <2>1. \E m \in Answers : ManIdle(m)
    BY <1>2 DEF ManApp, ManOverlay, Answers
  <2>2. man = "idle" /\ UNCHANGED <<lock, aged, app, aq, ov>>
    BY <1>2 DEF ManApp, ManOverlay, ManIdle
  <2>3. OneOf(mq', Answers) /\ InMq /\ ~InMq'
    BY <2>1, MqTaken
  <2>4. Tidy' /\ "mq" \in Holders
    BY <2>2, <2>3 DEF Tidy, OneHolder, Holders, Places
  <2>5. UNCHANGED man \/ UNCHANGED oq
    BY <1>2 DEF ManApp, ManOverlay, OverlayTurn
  <2>6. CASE UNCHANGED man
    <3>1. \A h \in Holders' : h = "oq" \/ (h \in Holders /\ h # "mq")
      BY <2>2, <2>3, <2>6, AppStays DEF Holders
    <3> QED BY <2>2, <2>4, <3>1, Hands
  <2>7. CASE UNCHANGED oq
    <3>1. \A h \in Holders' : h = "man" \/ (h \in Holders /\ h # "mq")
      BY <2>2, <2>3, <2>7, AppStays DEF Holders
    <3> QED BY <2>2, <2>4, <3>1, Hands
  <2> QED BY <2>5, <2>6, <2>7
<1>3. CASE ManOther
  <2>1. ManIdle("other") /\ UNCHANGED <<man, lock, aged, aq, app, oq, ov>>
    BY <1>3 DEF ManOther
  <2>2. OneOf(mq', Answers) /\ (InMq' => InMq)
    BY <2>1, MqTaken
  <2>3. Tidy' /\ Holders' \subseteq Holders
    BY <2>1, <2>2, AppStays DEF Tidy, OneHolder, Holders
  <2> QED BY <2>1, <2>3, Keeps
<1>4. CASE FrameDone
  <2>1. man = "frame" /\ man' = "idle" /\ UNCHANGED <<mq, aged, aq, app, oq, ov>>
    BY <1>4 DEF FrameDone
  <2>2. "man" \in Holders
    BY <2>1 DEF Holders, Places
  <2>3. \A h \in Holders' : h \in Holders /\ h # "man"
    BY <2>1, AppStays DEF Holders, InMq
  <2>4. Holders' = {}
    BY <2>2, <2>3 DEF OneHolder, Single
  <2>5. Tidy'
    BY <2>1 DEF Tidy, OneHolder
  <2> QED BY <2>4, <2>5 DEF OneHolder, Single, Guarded
<1> QED BY <1>1, <1>2, <1>3, <1>4 DEF Manager

LEMMA AppKeepsOne ==
  ASSUME TypeOK, OneHolder, App
  PROVE  OneHolder'
<1>1. UNCHANGED <<man, lock, aged, ov>>
  BY DEF App, AppRuns, AppStart, AppQuits, AppLeaves, AppDeleted, AppDraw, AppPainted, AppDrops, AppEvent,
         AppForwards, AppAsks, AppBack, AppSubscribes, frame
<1>2. app \in [pc : {"out", "loop", "paint", "forward"}, n : 0 .. MaxSubs + 1]
  BY TypeParts DEF PlaceTypes
<1>3. CASE AppStart
  <2>1. app'.pc = "loop" /\ aq' = <<>> /\ UNCHANGED <<mq, oq>>
    BY <1>3 DEF AppStart, At, frame
  <2>2. DOMAIN aq' = {}
    BY <2>1
  <2>3. Tidy' /\ ~InAq'
    BY <2>1, <2>2 DEF Tidy, OneHolder, InAq, OneOf, NoneOf
  <2>4. Holders' \subseteq Holders
    BY <1>1, <2>1, <2>3 DEF Holders, InMq
  <2> QED BY <1>1, <2>3, <2>4, Keeps
<1>4. CASE AppQuits \/ AppSubscribes
  <2>1. UNCHANGED <<mq, aq, app, oq>>
    BY <1>4 DEF AppQuits, AppSubscribes, frame
  <2>2. Tidy' /\ Holders' \subseteq Holders
    BY <1>1, <2>1, AppStays DEF Tidy, OneHolder, Holders, InMq
  <2> QED BY <1>1, <2>2, Keeps
<1>5. CASE AppLeaves \/ AppDeleted
  <2>1. app'.pc = "out" /\ UNCHANGED <<mq, aq, oq>>
    BY <1>5 DEF AppLeaves, AppDeleted, At, frame
  <2>2. Tidy' /\ Holders' \subseteq Holders
    BY <1>1, <2>1 DEF Tidy, OneHolder, Holders, InMq, InAq
  <2> QED BY <1>1, <2>2, Keeps
<1>6. CASE AppDraw
  <2>1. app.pc = "loop" /\ aq # <<>> /\ Head(aq) = "draw" /\ aq' = Tail(aq) /\ app'.pc = "paint" /\ UNCHANGED <<mq, oq>>
    BY <1>6 DEF AppDraw, AppTurn, At, frame
  <2>2. OneOf(aq', {"draw"}) /\ InAq /\ ~InAq'
    BY <2>1, AqTaken
  <2>3. Tidy' /\ "aq" \in Holders
    BY <2>1, <2>2 DEF Tidy, OneHolder, Holders, Places
  <2>4. \A h \in Holders' : h = "app" \/ (h \in Holders /\ h # "aq")
    BY <1>1, <2>1, <2>2 DEF Holders, InMq
  <2> QED BY <1>1, <2>3, <2>4, Hands
<1>7. CASE AppPainted
  <2>1. app.pc = "paint" /\ app'.pc = "loop" /\ PostUpdate("app") /\ UNCHANGED <<aq, oq>>
    BY <1>7 DEF AppPainted, At
  <2>2. "app" \in Holders
    BY <2>1 DEF Holders, Places
  <2>3. ~InMq
    BY <2>2 DEF OneHolder, Single, Holders, Places
  <2>4. Tidy'
    BY <2>1, <2>3, MqPosted DEF Tidy, OneHolder, Requests
  <2>5. InAq' => InAq
    BY <2>1 DEF InAq
  <2>6. \A h \in Holders' : h = "mq" \/ (h \in Holders /\ h # "app")
    BY <1>1, <2>1, <2>5 DEF Holders
  <2> QED BY <1>1, <2>2, <2>4, <2>6, Hands
<1>8. CASE AppDrops \/ AppEvent
  <2>1. app.pc = "loop" /\ aq # <<>> /\ aq' = Tail(aq) /\ app'.pc \in {"loop", "forward"} /\ UNCHANGED <<mq, oq>>
    BY <1>8 DEF AppDrops, AppEvent, AppTurn, frame
  <2>2. OneOf(aq', {"draw"}) /\ (InAq' => InAq)
    BY <2>1, AqTaken
  <2>3. Tidy' /\ Holders' \subseteq Holders
    BY <1>1, <2>1, <2>2 DEF Tidy, OneHolder, Holders, InMq
  <2> QED BY <1>1, <2>3, Keeps
<1>9. CASE AppForwards
  <2>1. app.pc = "forward" /\ app'.pc \in {"forward", "loop"} /\ UNCHANGED <<mq, aq>>
    BY <1>2, <1>9 DEF AppForwards, At, frame
  <2>2. UNCHANGED oq \/ PostOverlay("event")
    BY <1>9 DEF AppForwards
  <2>3. oq' = <<"draw">> => oq = <<"draw">>
    BY <2>2, OqPosted DEF Jobs
  <2>4. InAq' => InAq
    BY <2>1 DEF InAq
  <2>5. Tidy' /\ Holders' \subseteq Holders
    BY <1>1, <2>1, <2>3, <2>4 DEF Tidy, OneHolder, Holders, InMq
  <2> QED BY <1>1, <2>5, Keeps
<1>10. CASE AppAsks \/ AppBack
  <2>1. PostUpdate("request") /\ UNCHANGED <<aq, app>> /\ (UNCHANGED oq \/ PostOverlay("destroy"))
    BY <1>10 DEF AppAsks, AppBack
  <2>2. OneOf(mq', Answers) /\ (InMq' => InMq)
    BY <2>1, MqPosted DEF Requests, Answers
  <2>3. oq' = <<"draw">> => oq = <<"draw">>
    BY <2>1, OqPosted DEF Jobs
  <2>4. Tidy' /\ Holders' \subseteq Holders
    BY <1>1, <2>1, <2>2, <2>3, AppStays DEF Tidy, OneHolder, Holders
  <2> QED BY <1>1, <2>4, Keeps
<1> QED BY <1>3, <1>4, <1>5, <1>6, <1>7, <1>8, <1>9, <1>10 DEF App, AppRuns

(* 250 ms go by: whoever has the frame then has it too long. *)
LEMMA TimeKeepsOne ==
  ASSUME TypeOK, OneHolder, late' = (late \/ OnItsWay), UNCHANGED <<mq, man, aq, app, ov, oq>>
  PROVE  FrameInv'
<1>1. CASE OnItsWay
  BY <1>1 DEF FrameInv
<1>2. CASE ~OnItsWay
  <2>1. Holders = {}
    BY <1>2, OnItsWayHolds
  <2>2. Holders' = Holders
    BY AppStays DEF Holders, InMq
  <2>3. Tidy'
    BY DEF OneHolder, Tidy
  <2> QED BY <2>1, <2>2, <2>3 DEF FrameInv, OneHolder, Single, Guarded
<1> QED BY <1>1, <1>2

LEMMA OverlayKeepsOne ==
  ASSUME TypeOK, OneHolder, Overlay
  PROVE  FrameInv'
<1>1. UNCHANGED <<man, lock, app, aq>>
  BY DEF Overlay, OvDraw, OvPainted, OvCreate, OvDestroy, OvEvent, OvNotify, OvFree, frame
<1>2. CASE OvDraw
  <2>1. oq = <<"draw">> /\ oq' = <<>> /\ ov' = "paint" /\ UNCHANGED <<mq, aged>>
    BY <1>2 DEF OvDraw, OvTurn, frame
  <2>2. oq' # <<"draw">> /\ "oq" \in Holders
    BY <2>1 DEF Holders, Places
  <2>3. Tidy'
    BY <1>1, <2>1 DEF Tidy, OneHolder
  <2>4. \A h \in Holders' : h = "ov" \/ (h \in Holders /\ h # "oq")
    BY <1>1, <2>1, <2>2, AppStays DEF Holders, InMq
  <2> QED BY <1>1, <2>1, <2>2, <2>3, <2>4, Hands DEF FrameInv
<1>3. CASE OvPainted
  <2>1. ov = "paint" /\ ov' = "wait" /\ PostUpdate("overlay") /\ UNCHANGED <<oq, aged>>
    BY <1>3 DEF OvPainted
  <2>2. "ov" \in Holders
    BY <2>1 DEF Holders, Places
  <2>3. ~InMq
    BY <2>2 DEF OneHolder, Single, Holders, Places
  <2>4. Tidy'
    BY <1>1, <2>3, <2>1, MqPosted DEF Tidy, OneHolder, Requests
  <2>5. \A h \in Holders' : h = "mq" \/ (h \in Holders /\ h # "ov")
    BY <1>1, <2>1, AppStays DEF Holders
  <2> QED BY <1>1, <2>1, <2>2, <2>4, <2>5, Hands DEF FrameInv
<1>4. CASE OvCreate \/ OvDestroy
  <2>1. oq' = <<>> /\ PostUpdate("request") /\ UNCHANGED <<ov, aged>>
    BY <1>4 DEF OvCreate, OvDestroy, OvTurn
  <2>2. OneOf(mq', Answers) /\ (InMq' => InMq) /\ oq' # <<"draw">>
    BY <2>1, MqPosted DEF Requests, Answers
  <2>3. Tidy' /\ Holders' \subseteq Holders
    BY <1>1, <2>1, <2>2, AppStays DEF Tidy, OneHolder, Holders
  <2> QED BY <1>1, <2>1, <2>3, Keeps DEF FrameInv
<1>5. CASE OvEvent
  <2>1. oq' = <<>> /\ ov' \in {"notify", "free"} /\ UNCHANGED <<mq, aged>>
    BY <1>5 DEF OvEvent, OvTurn, frame
  <2>2. Tidy' /\ oq' # <<"draw">>
    BY <1>1, <2>1 DEF Tidy, OneHolder
  <2>3. Holders' \subseteq Holders
    BY <1>1, <2>1, <2>2, AppStays DEF Holders, InMq
  <2> QED BY <1>1, <2>1, <2>2, <2>3, Keeps DEF FrameInv
<1>6. CASE OvNotify
  <2>1. ov = "notify" /\ ov' = "free" /\ UNCHANGED mq
    BY <1>6 DEF OvNotify
  <2>2. Tidy'
    BY <1>1, <2>1 DEF Tidy, OneHolder
  <2>3. CASE oq' = <<"create">> /\ UNCHANGED <<aged, late>>
    <3>1. oq' # <<"draw">>
      BY <2>3
    <3>2. Holders' \subseteq Holders
      BY <1>1, <2>1, <3>1, AppStays DEF Holders, InMq
    <3> QED BY <1>1, <2>2, <2>3, <3>2, Keeps DEF FrameInv
  <2>4. CASE aged' = TRUE /\ late' = (late \/ OnItsWay) /\ UNCHANGED oq
    <3>1. CASE OnItsWay
      BY <2>4, <3>1 DEF FrameInv
    <3>2. CASE ~OnItsWay
      <4>1. Holders = {}
        BY <3>2, OnItsWayHolds
      <4>2. Holders' \subseteq Holders
        BY <1>1, <2>1, <2>4, AppStays DEF Holders, InMq
      <4> QED BY <2>2, <4>1, <4>2 DEF FrameInv, OneHolder, Single, Guarded
    <3> QED BY <3>1, <3>2
  <2> QED BY <1>6, <2>3, <2>4 DEF OvNotify
<1>7. CASE OvFree
  <2>1. ov' = "wait" /\ PostRequests(subs.app + subs.ov) /\ UNCHANGED <<oq, aged>>
    BY <1>7 DEF OvFree
  <2>2. subs.app + subs.ov \in Nat
    BY TypeParts, SizesHold DEF PlaceTypes
  <2>3. OneOf(mq', Answers) /\ (InMq' => InMq)
    BY <2>1, <2>2, MqRequested
  <2>4. Tidy' /\ Holders' \subseteq Holders
    BY <1>1, <2>1, <2>3, AppStays DEF Tidy, OneHolder, Holders
  <2> QED BY <1>1, <2>1, <2>4, Keeps DEF FrameInv
<1> QED BY <1>2, <1>3, <1>4, <1>5, <1>6, <1>7 DEF Overlay

LEMMA OthersKeepOne ==
  ASSUME TypeOK, OneHolder, PostWindow \/ PostOther \/ PostEvent \/ Time
  PROVE  FrameInv'
<1>1. CASE PostWindow
  <2>1. UNCHANGED <<mq, man, lock, aged, aq, app, ov>> /\ \E m \in {"create", "destroy"} : PostOverlay(m)
    BY <1>1 DEF PostWindow, frame
  <2>2. oq' = <<"draw">> => oq = <<"draw">>
    BY <2>1, OqPosted DEF Jobs
  <2>3. Tidy' /\ Holders' \subseteq Holders
    BY <2>1, <2>2, AppStays DEF Tidy, OneHolder, Holders, InMq
  <2> QED BY <2>1, <2>3, Keeps DEF FrameInv
<1>2. CASE PostOther
  <2>1. UNCHANGED <<man, lock, aged, aq, app, ov, oq>> /\ \E m \in {"request", "other"} : PostUpdate(m)
    BY <1>2 DEF PostOther
  <2>2. OneOf(mq', Answers) /\ (InMq' => InMq)
    BY <2>1, MqPosted DEF Requests, Answers
  <2>3. Tidy' /\ Holders' \subseteq Holders
    BY <2>1, <2>2, AppStays DEF Tidy, OneHolder, Holders
  <2> QED BY <2>1, <2>3, Keeps DEF FrameInv
<1>3. CASE PostEvent
  <2>1. UNCHANGED <<mq, man, lock, aged, app, ov>>
    BY <1>3 DEF PostEvent, frame
  <2>2. (UNCHANGED aq \/ aq' = Room(aq, "event", AppLen)) /\ (UNCHANGED oq \/ PostOverlay("event"))
    BY <1>3 DEF PostEvent, Room
  <2>3. oq' = <<"draw">> => oq = <<"draw">>
    BY <2>2, OqPosted DEF Jobs
  <2>4. (app.pc # "out" => OneOf(aq', {"draw"})) /\ (InAq' => InAq)
    BY <2>1, <2>2, AqPosted, AppStays DEF OneHolder, Tidy, Turns
  <2>5. Tidy' /\ Holders' \subseteq Holders
    BY <2>1, <2>3, <2>4 DEF Tidy, OneHolder, Holders, InMq
  <2> QED BY <2>1, <2>5, Keeps DEF FrameInv
<1>4. CASE Time
  BY <1>4, TimeKeepsOne DEF Time
<1> QED BY <1>1, <1>2, <1>3, <1>4

LEMMA FrameNext == TypeOK /\ FrameInv /\ [Next]_vars => FrameInv'
<1> SUFFICES ASSUME TypeOK, FrameInv, [Next]_vars PROVE FrameInv'
  OBVIOUS
<1>1. late => late'
  BY DEF Next, Manager, ManRequest, ManApp, ManOverlay, ManOther, FrameDone, App, AppRuns, AppStart, AppQuits,
         AppLeaves, AppDeleted, AppDraw, AppPainted, AppDrops, AppEvent, AppForwards, AppAsks, AppBack,
         AppSubscribes, Overlay, OvDraw, OvPainted, OvCreate, OvDestroy, OvEvent, OvNotify, OvFree,
         PostWindow, PostOther, PostEvent, Time, frame, vars
<1>2. CASE late
  BY <1>1, <1>2 DEF FrameInv
<1>3. CASE ~late /\ Next
  <2>1. OneHolder
    BY <1>3 DEF FrameInv
  <2> QED BY <1>3, <2>1, ManagerKeepsOne, AppKeepsOne, OverlayKeepsOne, OthersKeepOne DEF Next, FrameInv
<1>4. CASE ~late /\ UNCHANGED vars
  <2>1. OneHolder /\ UNCHANGED <<mq, man, lock, aged, aq, app, ov, oq>>
    BY <1>4 DEF FrameInv, vars, frame
  <2>2. Tidy' /\ Holders' \subseteq Holders
    BY <2>1, AppStays DEF Tidy, OneHolder, Holders, InMq
  <2> QED BY <2>1, <2>2, Keeps DEF FrameInv
<1> QED BY <1>2, <1>3, <1>4

LEMMA FrameInvSuffices == FrameInv => OnePainter
<1> SUFFICES ASSUME OneHolder PROVE /\ \A u, v \in Users : u = v
                                    /\ Users # {} => lock
  BY DEF FrameInv, OnePainter
<1>1. \A u \in Users : \/ u = "app" /\ "app" \in Holders
                       \/ u = "overlay" /\ "ov" \in Holders
                       \/ u = "display" /\ "man" \in Holders
  BY DEF Users, Holders, Places
<1>2. \A u, v \in Users : u = v
  BY <1>1 DEF OneHolder, Single
<1>3. Users # {} => lock
  BY <1>1 DEF OneHolder, Guarded
<1> QED BY <1>2, <1>3

(* The application, the overlay thread and the display have the frame buffer  *)
(* one at a time and under the lock, as long as no frame takes 250 ms         *)
(* (appmanager_app_runloop.c:224), although who paints never asks for it.     *)
THEOREM BufferHasOneUser == Spec => []OnePainter
<1>1. TypeOK /\ FrameInv /\ [Next]_vars => TypeOK' /\ FrameInv'
  BY TypeNext, FrameNext
<1> QED BY <1>1, TypeInit, FrameInit, FrameInvSuffices, PTL DEF Spec
-----------------------------------------------------------------------------
(* One pointer to the event.                                                 *)

(* Who may still use the event: those who have its pointer in a queue or in   *)
(* hand.                                                                     *)
Pointers == {"aq", "app", "oq", "ov"}
EvInAq   == ~NoneOf(aq, {"event"})
Hearers  == {h \in Pointers : \/ h = "aq" /\ EvInAq
                              \/ h = "app" /\ app.pc = "forward" /\ app.n > 0
                              \/ h = "oq" /\ oq = <<"event">>
                              \/ h = "ov" /\ ov \in {"notify", "free"}}

(* As long as a command has one subscriber, one of them has it, and the event *)
(* is not destroyed before that one is done.                                 *)
FewSubscribe == subs.app + subs.ov <= 1 /\ (app.pc = "forward" => app.n <= 1)
OneHears     == OneOf(aq, {"event"}) /\ \A g, h \in Hearers : g = h
Lives        == ~misused /\ (Hearers # {} => ev # "dead")
OneHearer    == FewSubscribe /\ OneHears /\ Lives
EventInv     == crowded \/ OneHearer

LEMMA EventInit == Init => EventInv
<1> SUFFICES ASSUME Init PROVE OneHearer
  BY DEF EventInv
<1>1. aq = <<>> /\ oq = <<>> /\ app.pc = "out" /\ ov = "wait" /\ ~misused /\ subs.app = 0 /\ subs.ov \in 0 .. 1
  BY DEF Init, At
<1>2. DOMAIN aq = {} /\ oq # <<"event">>
  BY <1>1
<1>3. Hearers = {}
  BY <1>1, <1>2 DEF Hearers, EvInAq, NoneOf
<1>4. FewSubscribe
  BY <1>1 DEF FewSubscribe
<1> QED BY <1>1, <1>2, <1>3, <1>4 DEF OneHearer, OneHears, Lives, OneOf

(* Nobody who was without it gets it. *)
LEMMA EventKept ==
  ASSUME OneHearer, FewSubscribe', OneOf(aq, {"event"})', Hearers' \subseteq Hearers, ev' = ev, misused' = misused
  PROVE  OneHearer'
  BY DEF OneHearer, OneHears, Lives

(* It is handed from one to another, or lost on the way. *)
LEMMA EventHanded ==
  ASSUME OneHearer, FewSubscribe', OneOf(aq, {"event"})', NEW x \in Hearers, NEW y,
         \A h \in Hearers' : h = y \/ (h \in Hearers /\ h # x), ev' = ev, misused' = misused
  PROVE  OneHearer'
<1>1. \A h \in Hearers' : h = y
  BY DEF OneHearer, OneHears
<1> QED BY <1>1 DEF OneHearer, OneHears, Lives

LEMMA EvInAqTaken ==
  ASSUME TypeOK, OneHearer, aq # <<>>, aq' = Tail(aq)
  PROVE  /\ OneOf(aq', {"event"}) /\ (EvInAq' => EvInAq)
         /\ Head(aq) = "event" => EvInAq /\ ~EvInAq'
  BY TypeParts, Taking DEF QueueTypes, OneHearer, OneHears, EvInAq

LEMMA EvInAqPosted ==
  ASSUME TypeOK, OneHearer, NEW m \in Turns, aq' = Room(aq, m, AppLen)
  PROVE  /\ m # "event" => OneOf(aq', {"event"}) /\ (EvInAq' => EvInAq)
         /\ ~EvInAq => OneOf(aq', {"event"})
  BY TypeParts, SizesHold, Posting DEF QueueTypes, OneHearer, OneHears, EvInAq

LEMMA OqPostedNoEvent ==
  ASSUME TypeOK, NEW m \in Jobs, PostOverlay(m)
  PROVE  m # "event" /\ oq' = <<"event">> => oq = <<"event">>
<1>1. oq' = oq \/ oq' = <<m>>
  BY TypeParts, PostingJobs DEF QueueTypes
<1>2. <<m>> = <<"event">> => m = "event"
  OBVIOUS
<1> QED BY <1>1, <1>2

LEMMA EvInAqStays == aq' = aq => (EvInAq' <=> EvInAq)
  BY DEF EvInAq

LEMMA FewStay == FewSubscribe /\ UNCHANGED <<subs, app>> => FewSubscribe'
  BY DEF FewSubscribe

LEMMA ManagerKeepsEvent ==
  ASSUME TypeOK, OneHearer, Manager
  PROVE  OneHearer'
<1>1. UNCHANGED <<app, ov, subs, ev, misused>>
  BY DEF Manager, ManRequest, ManApp, ManOverlay, ManOther, FrameDone, event
<1>2. aq' = aq \/ aq' = Room(aq, "draw", AppLen)
  BY DEF Manager, ManRequest, ManApp, ManOverlay, ManOther, FrameDone
<1>3. oq' = oq \/ PostOverlay("draw")
  BY DEF Manager, ManRequest, ManApp, ManOverlay, ManOther, FrameDone, OverlayTurn
<1>4. OneOf(aq, {"event"})' /\ (EvInAq' => EvInAq)
  BY <1>2, EvInAqPosted, EvInAqStays DEF Turns, OneHearer, OneHears
<1>5. oq' = <<"event">> => oq = <<"event">>
  BY <1>3, OqPostedNoEvent DEF Jobs
<1>6. FewSubscribe' /\ Hearers' \subseteq Hearers
  BY <1>1, <1>4, <1>5, FewStay DEF Hearers, OneHearer
<1> QED BY <1>1, <1>4, <1>6, EventKept

LEMMA AppKeepsEvent ==
  ASSUME TypeOK, OneHearer, ~crowded', App
  PROVE  OneHearer'
<1>1. UNCHANGED <<ov, ev>>
  BY DEF App, AppRuns, AppStart, AppQuits, AppLeaves, AppDeleted, AppDraw, AppPainted, AppDrops, AppEvent,
         AppForwards, AppAsks, AppBack, AppSubscribes, event
<1>2. /\ app \in [pc : {"out", "loop", "paint", "forward"}, n : 0 .. MaxSubs + 1] /\ MaxSubs \in Nat
      /\ subs \in [app : 0 .. MaxSubs, ov : 0 .. 1]
  BY TypeParts, SizesHold DEF PlaceTypes
<1>3. CASE AppStart
  <2>1. app'.pc = "loop" /\ aq' = <<>> /\ UNCHANGED <<oq, subs, misused>>
    BY <1>3 DEF AppStart, At, event
  <2>2. DOMAIN aq' = {}
    BY <2>1
  <2>3. OneOf(aq, {"event"})' /\ ~EvInAq'
    BY <2>1, <2>2 DEF EvInAq, OneOf, NoneOf
  <2>4. FewSubscribe' /\ Hearers' \subseteq Hearers
    BY <1>1, <2>1, <2>3 DEF Hearers, OneHearer, FewSubscribe
  <2> QED BY <1>1, <2>1, <2>3, <2>4, EventKept
<1>4. CASE AppQuits
  <2>1. subs' = [subs EXCEPT !.app = IF @ > 2 THEN @ - 2 ELSE 0] /\ UNCHANGED <<aq, app, oq, misused>>
    BY <1>4 DEF AppQuits
  <2>2. subs'.app <= subs.app /\ subs'.ov = subs.ov /\ subs'.app \in Nat
    BY <1>2, <2>1
  <2>3. FewSubscribe'
    BY <1>2, <2>1, <2>2 DEF OneHearer, FewSubscribe
  <2>4. OneOf(aq, {"event"})' /\ Hearers' \subseteq Hearers
    BY <1>1, <2>1, EvInAqStays DEF Hearers, OneHearer, OneHears
  <2> QED BY <1>1, <2>1, <2>3, <2>4, EventKept
<1>5. CASE AppSubscribes
  <2>0. ~(subs.app + subs.ov > 0)
    BY <1>5, Zenon DEF AppSubscribes
  <2>1. subs' = [subs EXCEPT !.app = @ + 1] /\ UNCHANGED <<aq, app, oq, misused>>
    BY <1>5 DEF AppSubscribes
  <2>2. subs'.app = subs.app + 1 /\ subs'.ov = subs.ov
    BY <1>2, <2>1
  <2>3. FewSubscribe'
    BY <1>2, <2>0, <2>1, <2>2 DEF OneHearer, FewSubscribe
  <2>4. OneOf(aq, {"event"})' /\ Hearers' \subseteq Hearers
    BY <1>1, <2>1, EvInAqStays DEF Hearers, OneHearer, OneHears
  <2> QED BY <1>1, <2>1, <2>3, <2>4, EventKept
<1>6. CASE AppLeaves \/ AppDeleted
  <2>1. app'.pc = "out" /\ UNCHANGED <<aq, oq, subs, misused>>
    BY <1>6 DEF AppLeaves, AppDeleted, At, event
  <2>2. FewSubscribe' /\ OneOf(aq, {"event"})' /\ Hearers' \subseteq Hearers
    BY <1>1, <2>1, EvInAqStays DEF Hearers, OneHearer, OneHears, FewSubscribe
  <2> QED BY <1>1, <2>1, <2>2, EventKept
<1>7. CASE AppDraw \/ AppDrops
  <2>1. aq # <<>> /\ aq' = Tail(aq) /\ app'.pc \in {"loop", "paint"} /\ UNCHANGED <<oq, subs, misused>>
    BY <1>7 DEF AppDraw, AppDrops, AppTurn, At, event
  <2>2. OneOf(aq, {"event"})' /\ (EvInAq' => EvInAq)
    BY <2>1, EvInAqTaken
  <2>3. FewSubscribe' /\ Hearers' \subseteq Hearers
    BY <1>1, <2>1, <2>2 DEF Hearers, OneHearer, FewSubscribe
  <2> QED BY <1>1, <2>1, <2>2, <2>3, EventKept
<1>8. CASE AppEvent
  <2>1. /\ aq # <<>> /\ Head(aq) = "event" /\ aq' = Tail(aq)
        /\ app' = [pc |-> "forward", n |-> subs.app + subs.ov]
        /\ misused' = (misused \/ ev = "dead") /\ UNCHANGED <<oq, subs>>
    BY <1>8 DEF AppEvent, AppTurn
  <2>2. OneOf(aq, {"event"})' /\ EvInAq /\ ~EvInAq'
    BY <2>1, EvInAqTaken
  <2>3. "aq" \in Hearers
    BY <2>2 DEF Hearers, Pointers
  <2>4. misused' = misused
    BY <2>1, <2>3, TypeParts DEF OneHearer, Lives, FlagTypes
  <2>5. FewSubscribe'
    BY <2>1 DEF OneHearer, FewSubscribe
  <2>6. \A h \in Hearers' : h = "app" \/ (h \in Hearers /\ h # "aq")
    BY <1>1, <2>1, <2>2 DEF Hearers
  <2> QED BY <1>1, <2>2, <2>3, <2>4, <2>5, <2>6, EventHanded
<1>9. CASE AppForwards
  <2>1. app.pc = "forward" /\ UNCHANGED <<aq, subs, misused>>
    BY <1>9 DEF AppForwards, event
  <2>2. OneOf(aq, {"event"})' /\ (EvInAq' => EvInAq)
    BY <2>1, EvInAqStays DEF OneHearer, OneHears
  <2>3. CASE app.n > 0 /\ app' = [app EXCEPT !.n = @ - 1]
    <3>1. app.n = 1 /\ app'.n = 0 /\ app'.pc = "forward"
      BY <1>2, <2>1, <2>3 DEF OneHearer, FewSubscribe
    <3>2. FewSubscribe' /\ "app" \in Hearers
      BY <2>1, <2>3, <3>1 DEF OneHearer, FewSubscribe, Hearers, Pointers
    <3>3. \A h \in Hearers' : h = "oq" \/ (h \in Hearers /\ h # "app")
      BY <1>1, <2>2, <3>1 DEF Hearers
    <3> QED BY <1>1, <2>1, <2>2, <3>2, <3>3, EventHanded
  <2>4. CASE app' = At("loop") /\ UNCHANGED oq
    <3>1. FewSubscribe' /\ Hearers' \subseteq Hearers
      BY <1>1, <2>1, <2>2, <2>4 DEF OneHearer, FewSubscribe, Hearers, At
    <3> QED BY <1>1, <2>1, <2>2, <3>1, EventKept
  <2> QED BY <1>9, <2>3, <2>4 DEF AppForwards
<1>10. CASE AppAsks \/ AppBack
  <2>1. UNCHANGED <<aq, app, subs, misused>> /\ (UNCHANGED oq \/ PostOverlay("destroy"))
    BY <1>10 DEF AppAsks, AppBack, event
  <2>2. oq' = <<"event">> => oq = <<"event">>
    BY <2>1, OqPostedNoEvent DEF Jobs
  <2>3. FewSubscribe' /\ OneOf(aq, {"event"})' /\ Hearers' \subseteq Hearers
    BY <1>1, <2>1, <2>2, FewStay, EvInAqStays DEF Hearers, OneHearer, OneHears
  <2> QED BY <1>1, <2>1, <2>3, EventKept
<1>11. CASE AppPainted
  <2>1. app'.pc = "loop" /\ UNCHANGED <<aq, oq, subs, misused>>
    BY <1>11 DEF AppPainted, At, event
  <2>2. FewSubscribe' /\ OneOf(aq, {"event"})' /\ Hearers' \subseteq Hearers
    BY <1>1, <2>1, EvInAqStays DEF Hearers, OneHearer, OneHears, FewSubscribe
  <2> QED BY <1>1, <2>1, <2>2, EventKept
<1> QED BY <1>3, <1>4, <1>5, <1>6, <1>7, <1>8, <1>9, <1>10, <1>11 DEF App, AppRuns

LEMMA OverlayKeepsEvent ==
  ASSUME TypeOK, OneHearer, Overlay
  PROVE  OneHearer'
<1>1. UNCHANGED <<app, aq, subs>>
  BY DEF Overlay, OvDraw, OvPainted, OvCreate, OvDestroy, OvEvent, OvNotify, OvFree, event
<1>2. FewSubscribe' /\ OneOf(aq, {"event"})' /\ (EvInAq' => EvInAq)
  BY <1>1, FewStay, EvInAqStays DEF OneHearer, OneHears
<1>3. CASE OvDraw \/ OvCreate \/ OvDestroy \/ OvPainted
  <2>1. oq' \in {<<>>, oq} /\ ov' \in {"paint", "wait", ov} /\ UNCHANGED <<ev, misused>>
    BY <1>3 DEF OvDraw, OvCreate, OvDestroy, OvPainted, OvTurn, event
  <2>2. oq' = <<"event">> => oq = <<"event">>
    BY <2>1
  <2>3. Hearers' \subseteq Hearers
    BY <1>1, <1>2, <2>1, <2>2 DEF Hearers
  <2> QED BY <1>2, <2>1, <2>3, EventKept
<1>4. CASE OvEvent
  <2>1. oq = <<"event">> /\ oq' = <<>> /\ UNCHANGED <<ev, misused>>
    BY <1>4 DEF OvEvent, OvTurn, event
  <2>2. oq' # <<"event">> /\ "oq" \in Hearers
    BY <2>1 DEF Hearers, Pointers
  <2>3. \A h \in Hearers' : h = "ov" \/ (h \in Hearers /\ h # "oq")
    BY <1>1, <1>2, <2>2 DEF Hearers
  <2> QED BY <1>2, <2>1, <2>2, <2>3, EventHanded
<1>5. CASE OvNotify
  <2>1. ov = "notify" /\ (oq' = <<"create">> \/ oq' = oq) /\ UNCHANGED <<ev, misused>>
    BY <1>5 DEF OvNotify, event
  <2>2. oq' = <<"event">> => oq = <<"event">>
    BY <2>1
  <2>3. Hearers' \subseteq Hearers
    BY <1>1, <1>2, <2>1, <2>2 DEF Hearers
  <2> QED BY <1>2, <2>1, <2>3, EventKept
<1>6. CASE OvFree
  <2> DEFINE n == subs.app + subs.ov
  <2>1. /\ ov = "free" /\ ov' = "wait" /\ UNCHANGED oq
        /\ misused' = (misused \/ n > 1 \/ (n = 1 /\ ev = "dead"))
    BY <1>6 DEF OvFree
  <2>2. "ov" \in Hearers
    BY <2>1 DEF Hearers, Pointers
  <2>3. \A h \in Hearers' : h \in Hearers /\ h # "ov"
    BY <1>1, <1>2, <2>1 DEF Hearers
  <2>4. Hearers' = {}
    BY <2>2, <2>3 DEF OneHearer, OneHears
  <2>5. subs \in [app : 0 .. MaxSubs, ov : 0 .. 1] /\ MaxSubs \in Nat
    BY TypeParts, SizesHold DEF PlaceTypes
  <2>6. n <= 1 /\ n \in Nat
    BY <2>5 DEF OneHearer, FewSubscribe
  <2>7. ~misused /\ ev # "dead" /\ ~(n > 1)
    BY <2>2, <2>6 DEF OneHearer, Lives
  <2>8. ~misused'
    BY <2>1, <2>7, Zenon
  <2> QED BY <1>2, <2>4, <2>8 DEF OneHearer, OneHears, Lives
<1> QED BY <1>3, <1>4, <1>5, <1>6 DEF Overlay

LEMMA OthersKeepEvent ==
  ASSUME TypeOK, OneHearer, PostWindow \/ PostOther \/ PostEvent \/ Time
  PROVE  OneHearer'
<1>1. UNCHANGED <<app, ov, subs, misused>>
  BY DEF PostWindow, PostOther, PostEvent, Time, event
<1>2. FewSubscribe'
  BY <1>1, FewStay DEF OneHearer
<1>3. CASE PostWindow \/ PostOther \/ Time
  <2>1. UNCHANGED <<aq, ev>> /\ (UNCHANGED oq \/ \E m \in {"create", "destroy"} : PostOverlay(m))
    BY <1>3 DEF PostWindow, PostOther, Time, event
  <2>2. oq' = <<"event">> => oq = <<"event">>
    BY <2>1, OqPostedNoEvent DEF Jobs
  <2>3. OneOf(aq, {"event"})' /\ Hearers' \subseteq Hearers
    BY <1>1, <2>1, <2>2, EvInAqStays DEF Hearers, OneHearer, OneHears
  <2> QED BY <1>1, <1>2, <2>1, <2>3, EventKept
<1>4. CASE PostEvent
  <2>1. aq \in Seq(Turns) /\ oq \in Seq(Jobs)
    BY TypeParts DEF QueueTypes
  <2>2. "event" \notin Range(aq) /\ "event" \notin Range(oq) /\ app.pc # "forward" /\ ov \notin {"notify", "free"}
    BY <1>4 DEF PostEvent, Unheard
  <2>3. ~EvInAq
    BY <2>1, <2>2 DEF EvInAq, NoneOf, Range
  <2>4. oq # <<"event">>
    <3>1. oq = <<"event">> => 1 \in DOMAIN oq /\ oq[1] = "event"
      OBVIOUS
    <3> QED BY <2>2, <3>1 DEF Range
  <2>5. CASE ev' = "live" /\ PostOverlay("event") /\ UNCHANGED aq
    <3>1. OneOf(aq, {"event"})' /\ ~EvInAq'
      BY <2>3, <2>5, EvInAqStays DEF OneHearer, OneHears
    <3>2. \A h \in Hearers' : h = "oq"
      BY <1>1, <2>2, <3>1 DEF Hearers
    <3> QED BY <1>1, <1>2, <2>5, <3>1, <3>2 DEF OneHearer, OneHears, Lives
  <2>6. CASE ev' = "live" /\ Len(aq) < AppLen /\ aq' = Append(aq, "event") /\ UNCHANGED oq
    <3>1. aq' = Room(aq, "event", AppLen)
      BY <2>6 DEF Room
    <3>2. OneOf(aq, {"event"})'
      BY <2>3, <3>1, EvInAqPosted DEF Turns
    <3>3. \A h \in Hearers' : h = "aq"
      BY <1>1, <2>2, <2>4, <2>6 DEF Hearers
    <3> QED BY <1>1, <1>2, <2>6, <3>2, <3>3 DEF OneHearer, OneHears, Lives
  <2>7. CASE UNCHANGED <<aq, oq>>
    <3>1. OneOf(aq, {"event"})' /\ ~EvInAq'
      BY <2>3, <2>7, EvInAqStays DEF OneHearer, OneHears
    <3>2. Hearers' = {}
      BY <1>1, <2>2, <2>4, <2>7, <3>1 DEF Hearers
    <3> QED BY <1>1, <1>2, <3>1, <3>2 DEF OneHearer, OneHears, Lives
  <2> QED BY <1>4, <2>5, <2>6, <2>7 DEF PostEvent
<1> QED BY <1>3, <1>4

LEMMA EventNext == TypeOK /\ EventInv /\ [Next]_vars => EventInv'
<1> SUFFICES ASSUME TypeOK, EventInv, [Next]_vars PROVE EventInv'
  OBVIOUS
<1>1. crowded => crowded'
  BY DEF Next, Manager, ManRequest, ManApp, ManOverlay, ManOther, FrameDone, App, AppRuns, AppStart, AppQuits,
         AppLeaves, AppDeleted, AppDraw, AppPainted, AppDrops, AppEvent, AppForwards, AppAsks, AppBack,
         AppSubscribes, Overlay, OvDraw, OvPainted, OvCreate, OvDestroy, OvEvent, OvNotify, OvFree,
         PostWindow, PostOther, PostEvent, Time, event, vars
<1>2. CASE crowded \/ crowded'
  BY <1>1, <1>2 DEF EventInv
<1>3. CASE ~crowded /\ ~crowded' /\ Next
  <2>1. OneHearer
    BY <1>3 DEF EventInv
  <2> QED BY <1>3, <2>1, ManagerKeepsEvent, AppKeepsEvent, OverlayKeepsEvent, OthersKeepEvent DEF Next, EventInv
<1>4. CASE ~crowded /\ UNCHANGED vars
  <2>1. OneHearer /\ UNCHANGED <<aq, oq, app, ov, subs, ev, misused>>
    BY <1>4 DEF EventInv, vars, event
  <2>2. FewSubscribe' /\ OneOf(aq, {"event"})' /\ Hearers' \subseteq Hearers
    BY <2>1, FewStay, EvInAqStays DEF OneHearer, OneHears, Hearers
  <2> QED BY <2>1, <2>2, EventKept DEF EventInv
<1> QED BY <1>2, <1>3, <1>4

(* Nobody uses an event that was destroyed, nor destroys it again, whichever  *)
(* way its pointer goes (event_service.c:129-157), as long as its command has *)
(* one subscriber.                                                           *)
THEOREM EventsLiveLongEnough == Spec => []EventsDieOnce
<1>1. EventInv => EventsDieOnce
  BY DEF EventInv, OneHearer, Lives, EventsDieOnce
<1>2. TypeOK /\ EventInv /\ [Next]_vars => TypeOK' /\ EventInv'
  BY TypeNext, EventNext
<1> QED BY <1>1, <1>2, TypeInit, EventInit, PTL DEF Spec
=============================================================================
