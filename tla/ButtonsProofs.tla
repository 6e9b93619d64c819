--------------------------- MODULE ButtonsProofs ---------------------------
(***************************************************************************)
(* Theorems about Buttons for all buttons, delays, subscriptions and lengths *)
(* of the application's queue: the types, and that no press gets a long      *)
(* click and a short one.                                                   *)
(***************************************************************************)
EXTENDS Buttons, FiniteSetTheorems, TLAPS

(* What the task has still to consider of a button that is pressed, or not:  *)
(* first what its edge asks for, and then the long click and the repeat.     *)
Downs    == {<<"down", "click", "long", "repeat">>, <<"click", "long", "repeat">>, <<"long", "repeat">>,
             <<"repeat">>, <<"again">>, <<>>}
Released == {<<"up", "short", "release", "long", "repeat">>, <<"short", "release", "long", "repeat">>,
             <<"release", "long", "repeat">>}
Ups      == Released \cup {<<"long", "repeat">>, <<"repeat">>, <<>>}

LEMMA Tails ==
  /\ Tail(<<"down", "click", "long", "repeat">>) = <<"click", "long", "repeat">>
  /\ Tail(<<"click", "long", "repeat">>) = <<"long", "repeat">>
  /\ Tail(<<"up", "short", "release", "long", "repeat">>) = <<"short", "release", "long", "repeat">>
  /\ Tail(<<"short", "release", "long", "repeat">>) = <<"release", "long", "repeat">>
  /\ Tail(<<"release", "long", "repeat">>) = <<"long", "repeat">>
  /\ Tail(<<"long", "repeat">>) = <<"repeat">> /\ Tail(<<"repeat">>) = <<>> /\ Tail(<<"again">>) = <<>>
<1>1. Tail(<<"down", "click", "long", "repeat">>) = <<"click", "long", "repeat">>
  OBVIOUS
<1>2. Tail(<<"click", "long", "repeat">>) = <<"long", "repeat">>
  OBVIOUS
<1>3. Tail(<<"up", "short", "release", "long", "repeat">>) = <<"short", "release", "long", "repeat">>
  OBVIOUS
<1>4. Tail(<<"short", "release", "long", "repeat">>) = <<"release", "long", "repeat">>
  OBVIOUS
<1>5. Tail(<<"release", "long", "repeat">>) = <<"long", "repeat">>
  OBVIOUS
<1>6. Tail(<<"long", "repeat">>) = <<"repeat">> /\ Tail(<<"repeat">>) = <<>> /\ Tail(<<"again">>) = <<>>
  OBVIOUS
<1> QED BY <1>1, <1>2, <1>3, <1>4, <1>5, <1>6

LEMMA DownPlans ==
  ASSUME NEW q \in Downs, q # <<>>
  PROVE  Tail(q) \in Downs /\ Head(q) \in {"down", "click", "long", "repeat", "again"}
<1>1. Tail(q) \in Downs
  BY Tails, Zenon DEF Downs
<1>2. Head(q) \in {"down", "click", "long", "repeat", "again"}
  BY DEF Downs
<1> QED BY <1>1, <1>2

LEMMA UpPlans ==
  ASSUME NEW q \in Ups, q # <<>>
  PROVE  /\ Tail(q) \in Ups /\ Head(q) \in {"up", "short", "release", "long", "repeat"}
         /\ Head(q) \in {"up", "short", "release"} <=> q \in Released
         /\ q \in Released => Tail(q) \in Released \cup {<<"long", "repeat">>}
         /\ q \notin Released => Tail(q) \notin Released
<1>1. Tail(q) \in Ups
  BY Tails, Zenon DEF Ups, Released
<1>2. Head(q) \in {"up", "short", "release", "long", "repeat"}
  BY DEF Ups, Released
<1>3. q \in Released => Head(q) \in {"up", "short", "release"}
  BY DEF Released
<1>4. q \notin Released => Head(q) \notin {"up", "short", "release"} /\ Tail(q) \in {<<"repeat">>, <<>>}
  <2>1. q \notin Released => q = <<"long", "repeat">> \/ q = <<"repeat">>
    BY DEF Ups
  <2>2. Head(<<"long", "repeat">>) = "long" /\ Head(<<"repeat">>) = "repeat"
    OBVIOUS
  <2> QED BY <2>1, <2>2, Tails, Zenon
<1>5. <<"repeat">> \notin Released /\ <<>> \notin Released
  BY DEF Released
<1>6. q \in Released => Tail(q) \in Released \cup {<<"long", "repeat">>}
  BY Tails, Zenon DEF Released
<1> QED BY <1>1, <1>2, <1>3, <1>4, <1>5, <1>6

Items == {"down", "up", "click", "short", "release", "long", "repeat", "again"}

LEMMA PlanTypes == Downs \cup Ups \subseteq Seq(Items)
<1>1. Downs \subseteq Seq(Items)
  BY DEF Downs, Items
<1>2. Released \subseteq Seq(Items)
  BY DEF Released, Items
<1>3. {<<"long", "repeat">>, <<"repeat">>, <<>>} \subseteq Seq(Items)
  BY DEF Items
<1> QED BY <1>1, <1>2, <1>3 DEF Ups
-----------------------------------------------------------------------------
HoldOf == [pressed : BOOLEAN, did : BOOLEAN, edge : 0 .. Debounce + 1,
           press : 0 .. LongDelay, repeat : 0 .. RepeatEvery]

UserType == level \subseteq Button /\ missed \subseteq Button /\ note \in BOOLEAN

HeldType == /\ hold \in [Button -> HoldOf] /\ sent \in [Button -> SUBSET Kind] /\ changed \subseteq Button
            /\ cfg \in [Owner -> [Button -> SUBSET Kind]] /\ left \in Nat

(* The buttons that are left to look at are the last ones. *)
Remaining == \E n \in 1 .. Len(Order) + 1 : cur = SubSeq(Order, n, Len(Order))

ScanType == /\ pc \in {"sleep", "edge", "scan"} /\ Remaining /\ btn \in Button /\ who \in Owner
            /\ wake \in 0 .. Never

(* What is left to consider fits what the task knows of the button.          *)
Planned ==
  /\ todo \in IF hold[btn].pressed THEN Downs ELSE Ups
  /\ pc # "scan" => todo = <<>> /\ out = NoMsg

QueueType ==
  /\ msg \in Handler \cup {NoMsg} /\ out \in Handler \cup {NoMsg}
  /\ aq \in Seq(Handler) /\ Len(aq) <= AppLen /\ oq \in Seq(Handler) /\ Len(oq) <= 1

TypeInv == UserType /\ HeldType /\ ScanType /\ Planned /\ QueueType

LEMMA Constants ==
  /\ LongDelay \in Nat /\ RepeatEvery \in Nat /\ AppLen \in Nat /\ Debounce \in Nat
  /\ LongDelay > 0 /\ RepeatEvery > 0 /\ AppLen > 0 /\ Never \in Nat
  /\ IsFiniteSet(Button) /\ Button # {}
  /\ FirstConfig \subseteq [Button -> SUBSET Kind] /\ Changes \in [FirstConfig -> Nat]
  BY ButtonAssumption DEF ButtonAssumption, Never

LEMMA OrderIsSeq == Order \in Seq(Button) /\ Len(Order) \in Nat /\ Len(Order) > 0
<1> DEFINE n == Cardinality(Button)
<1>1. n \in Nat /\ ExistsBijection(1 .. n, Button) /\ n # 0
  BY Constants, FS_CardinalityType, FS_EmptySet
<1>2. \E f \in [1 .. n -> Button] : IsInjective(f)
  BY <1>1 DEF ExistsBijection, Bijection, Injection, IsInjective
<1>3. Order \in [1 .. n -> Button]
  BY <1>2 DEF Order, SetToSeq
<1> HIDE DEF n
<1>4. Order \in Seq(Button) /\ Len(Order) = n
  BY <1>1, <1>3
<1> QED BY <1>1, <1>4

(* A last part of a sequence is a suffix, in the words of the library. *)
LEMMA LastPart ==
  ASSUME NEW q \in Seq(Button), NEW n \in 1 .. Len(q) + 1
  PROVE  IsSuffix(SubSeq(q, n, Len(q)), q)
<1> DEFINE s == SubSeq(q, n, Len(q))
           k == Len(q) + 1 - n
<1>1. s \in Seq(Button) /\ Len(s) = k /\ k \in 0 .. Len(q) /\ \A i \in 1 .. k : s[i] = q[(n + i) - 1]
  OBVIOUS
<1> HIDE DEF s
<1>2. Reverse(s) \in Seq(Button) /\ Len(Reverse(s)) = k /\ \A i \in 1 .. k : Reverse(s)[i] = s[(k - i) + 1]
  BY <1>1 DEF Reverse
<1>3. Reverse(q) \in Seq(Button) /\ Len(Reverse(q)) = Len(q)
      /\ \A i \in 1 .. Len(q) : Reverse(q)[i] = q[(Len(q) - i) + 1]
  BY DEF Reverse
<1>4. \A i \in 1 .. k : Reverse(s)[i] = Reverse(q)[i]
  <2> SUFFICES ASSUME NEW i \in 1 .. k PROVE Reverse(s)[i] = Reverse(q)[i]
    OBVIOUS
  <2>1. (k - i) + 1 \in 1 .. k /\ (n + ((k - i) + 1)) - 1 = (Len(q) - i) + 1 /\ i \in 1 .. Len(q)
    BY <1>1
  <2> QED BY <1>1, <1>2, <1>3, <2>1
<1> DEFINE a == SubSeq(Reverse(s), 1, k)
           b == SubSeq(Reverse(q), 1, k)
<1>5. /\ a \in Seq(Button) /\ Len(a) = k /\ \A i \in 1 .. k : a[i] = Reverse(s)[i]
      /\ b \in Seq(Button) /\ Len(b) = k /\ \A i \in 1 .. k : b[i] = Reverse(q)[i]
  BY <1>1, <1>2, <1>3
<1> HIDE DEF a, b
<1>6. a = b
  BY <1>4, <1>5
<1> QED BY <1>1, <1>2, <1>3, <1>6 DEF IsSuffix, IsPrefix, a, b, s

LEMMA NextPart ==
  ASSUME NEW q \in Seq(Button), NEW n \in 1 .. Len(q) + 1, SubSeq(q, n, Len(q)) # <<>>
  PROVE  /\ n + 1 \in 1 .. Len(q) + 1 /\ Head(SubSeq(q, n, Len(q))) \in Button
         /\ Tail(SubSeq(q, n, Len(q))) = SubSeq(q, n + 1, Len(q))
<1>1. n <= Len(q)
  OBVIOUS
<1> QED BY <1>1

LEMMA TypeParts == TypeInv => TypeOK
<1> SUFFICES ASSUME TypeInv PROVE TypeOK
  OBVIOUS
<1>1. IsSuffix(cur, Order)
  BY OrderIsSeq, LastPart DEF TypeInv, ScanType, Remaining
<1>2. todo \in Seq({"down", "up", "click", "short", "release", "long", "repeat", "again"})
  BY PlanTypes DEF TypeInv, Planned, Items
<1> QED BY <1>1, <1>2 DEF TypeInv, UserType, HeldType, ScanType, QueueType, TypeOK, HoldOf

LEMMA TypeInit == Init => TypeInv
<1> SUFFICES ASSUME Init PROVE TypeInv
  OBVIOUS
<1>1. UserType
  BY DEF Init, UserType
<1>2. HeldType
  <2>1. hold \in [Button -> HoldOf]
    <3>1. Debounce + 1 \in 0 .. Debounce + 1 /\ 0 \in 0 .. LongDelay /\ 0 \in 0 .. RepeatEvery
      BY Constants
    <3>2. [pressed |-> FALSE, did |-> FALSE, edge |-> Debounce + 1, press |-> 0, repeat |-> 0] \in HoldOf
      BY <3>1 DEF HoldOf
    <3> QED BY <3>2 DEF Init
  <2>2. PICK c \in FirstConfig : /\ cfg = [o \in Owner |-> IF o = "app" THEN c ELSE [b \in Button |-> {}]]
                                /\ left = Changes[c]
    BY DEF Init
  <2>3. cfg \in [Owner -> [Button -> SUBSET Kind]] /\ left \in Nat
    BY <2>2, Constants
  <2>4. sent \in [Button -> SUBSET Kind] /\ changed \subseteq Button
    BY DEF Init
  <2> QED BY <2>1, <2>3, <2>4 DEF HeldType
<1>3. ScanType
  <2>1. Order[1] \in Button /\ SubSeq(Order, Len(Order) + 1, Len(Order)) = <<>> /\ Len(Order) + 1 \in 1 .. Len(Order) + 1
    BY OrderIsSeq
  <2>2. Remaining
    BY <2>1 DEF Init, Remaining
  <2> QED BY <2>1, <2>2, Constants DEF Init, ScanType, Owner
<1>4. Planned
  BY DEF Init, Planned, Downs, Ups
<1>5. QueueType
  <2>1. aq = <<>> /\ oq = <<>> /\ <<>> \in Seq(Handler) /\ Len(<<>>) = 0
    BY DEF Init
  <2>2. Len(aq) <= AppLen /\ Len(oq) <= 1
    BY <2>1, Constants
  <2> QED BY <2>1, <2>2 DEF Init, QueueType
<1> QED BY <1>1, <1>2, <1>3, <1>4, <1>5 DEF TypeInv

(* What a step leaves alone keeps its type. *)
LEMMA UserFrame  == UserType /\ UNCHANGED user => UserType'
  BY DEF UserType, user
LEMMA HeldFrame  == HeldType /\ UNCHANGED <<hold, cfg, sent, changed, left>> => HeldType'
  BY DEF HeldType
LEMMA QueueFrame == QueueType /\ UNCHANGED queue => QueueType'
  BY DEF QueueType, queue
LEMMA ScanFrame  == ScanType /\ UNCHANGED <<cur, btn, who, wake>> /\ pc' \in {"sleep", "edge", "scan"} => ScanType'
  BY DEF ScanType, Remaining

LEMMA SendType ==
  ASSUME QueueType, ScanType, HeldType, NEW kind \in Kind, Send(kind)
  PROVE  QueueType' /\ sent' \in [Button -> SUBSET Kind]
<1>1. <<who, btn, kind>> \in Handler
  BY DEF ScanType, Handler
<1>2. aq' = aq /\ oq' = oq
  BY DEF Send
<1>3. sent' \in [Button -> SUBSET Kind]
  BY DEF Send, HeldType, Kind
<1>4. out' = <<who, btn, kind>> /\ msg' = <<who, btn, kind>>
  BY DEF Send
<1> QED BY <1>1, <1>2, <1>3, <1>4 DEF QueueType

LEMMA QueueSteps ==
  ASSUME TypeInv, PostApp \/ PostOverlay \/ AppHandles \/ OverlayHandles
  PROVE  TypeInv'
<1>1. UNCHANGED <<user, hold, cfg, scan, sent, changed, left>> /\ (out' = NoMsg \/ out' = out)
  BY DEF PostApp, PostOverlay, AppHandles, OverlayHandles
<1>2. UNCHANGED <<pc, cur, btn, who, todo, wake>>
  BY <1>1 DEF scan
<1>3. msg' \in Handler \cup {NoMsg} /\ out' \in Handler \cup {NoMsg}
  <2>1. Forget
    BY DEF PostApp, PostOverlay, AppHandles, OverlayHandles
  <2> QED BY <1>1, <2>1 DEF Forget, TypeInv, QueueType
<1>5. /\ aq' \in Seq(Handler) /\ Len(aq') <= AppLen /\ oq' \in Seq(Handler) /\ Len(oq') <= 1
  <2> USE DEF TypeInv, QueueType
  <2>1. out # NoMsg => out \in Handler
    OBVIOUS
  <2>2. CASE PostApp
    <3>1. UNCHANGED oq /\ (aq' = aq \/ (aq' = Append(aq, out) /\ Len(aq) < AppLen)) /\ out \in Handler
      BY <2>1, <2>2 DEF PostApp
    <3>2. Append(aq, out) \in Seq(Handler) /\ Len(Append(aq, out)) = Len(aq) + 1 /\ Len(aq) \in Nat
      BY <3>1
    <3>3. aq' \in Seq(Handler) /\ Len(aq') <= AppLen
      BY <3>1, <3>2, Constants
    <3> QED BY <3>1, <3>3
  <2>3. CASE PostOverlay
    <3>1. UNCHANGED aq /\ (oq' = oq \/ oq' = <<out>>) /\ out \in Handler
      BY <2>1, <2>3 DEF PostOverlay
    <3>2. <<out>> \in Seq(Handler) /\ Len(<<out>>) = 1
      BY <2>1, <2>3 DEF PostOverlay
    <3>3. oq' \in Seq(Handler) /\ Len(oq') <= 1
      <4>1. CASE oq' = oq
        BY <4>1
      <4>2. CASE oq' = <<out>>
        BY <3>2, <4>2
      <4> QED BY <3>1, <4>1, <4>2
    <3> QED BY <3>1, <3>3
  <2>4. CASE AppHandles
    <3>1. aq # <<>> /\ aq' = Tail(aq) /\ UNCHANGED oq
      BY <2>4 DEF AppHandles
    <3> QED BY <3>1, Constants
  <2>5. CASE OverlayHandles
    <3>1. oq' = <<>> /\ UNCHANGED aq
      BY <2>5 DEF OverlayHandles
    <3> QED BY <3>1
  <2> QED BY <2>2, <2>3, <2>4, <2>5
<1>6. QueueType'
  BY <1>3, <1>5 DEF QueueType
<1>7. Planned'
  BY <1>1, <1>2 DEF TypeInv, Planned
<1> QED BY <1>1, <1>2, <1>6, <1>7, UserFrame, HeldFrame, ScanFrame DEF TypeInv, ScanType

LEMMA OutsideSteps ==
  ASSUME TypeInv, (\E b \in Button : Toggle(b)) \/ Tick
  PROVE  TypeInv'
<1>1. CASE \E b \in Button : Toggle(b)
  <2>1. PICK b \in Button : Toggle(b)
    BY <1>1
  <2>2. UNCHANGED <<hold, cfg, pc, cur, btn, who, todo, wake, queue, sent, changed, left, out>>
    BY <2>1 DEF Toggle, scan, queue
  <2>3. UserType'
    BY <2>1 DEF Toggle, TypeInv, UserType
  <2>4. Planned'
    BY <2>2 DEF TypeInv, Planned
  <2> QED BY <2>2, <2>3, <2>4, HeldFrame, ScanFrame, QueueFrame DEF TypeInv, ScanType
<1>2. CASE Tick
  <2>1. UNCHANGED <<user, cfg, pc, cur, btn, who, todo, queue, sent, changed, left, out>>
    BY <1>2 DEF Tick, queue
  <2>2. hold' \in [Button -> HoldOf] /\ \A b \in Button : hold'[b].pressed = hold[b].pressed
    <3> DEFINE next(b) == [hold[b] EXCEPT !.edge   = Older(@, Debounce + 1),
                                          !.press  = IF hold[b].pressed THEN Older(@, LongDelay) ELSE @,
                                          !.repeat = IF hold[b].pressed THEN Older(@, RepeatEvery) ELSE @]
    <3>1. ASSUME NEW b \in Button
          PROVE  next(b) \in HoldOf /\ next(b).pressed = hold[b].pressed
      <4>1. hold[b] \in HoldOf
        BY DEF TypeInv, HeldType
      <4>2. /\ Older(hold[b].edge, Debounce + 1) \in 0 .. Debounce + 1
            /\ Older(hold[b].press, LongDelay) \in 0 .. LongDelay
            /\ Older(hold[b].repeat, RepeatEvery) \in 0 .. RepeatEvery
        BY <4>1, Constants DEF HoldOf, Older
      <4> QED BY <4>1, <4>2 DEF HoldOf
    <3>2. hold' = [b \in Button |-> next(b)]
      BY <1>2 DEF Tick
    <3> HIDE DEF next
    <3> QED BY <3>1, <3>2
  <2>3. wake' \in 0 .. Never
    <3>1. wake' = (IF wake \in {0, Never} THEN wake ELSE wake - 1) /\ wake \in 0 .. Never
      BY <1>2 DEF Tick, TypeInv, ScanType
    <3> QED BY <3>1, Constants
  <2>4. Planned'
    BY <2>1, <2>2 DEF TypeInv, Planned, ScanType
  <2>5. ScanType'
    BY <2>1, <2>3 DEF TypeInv, ScanType, Remaining
  <2>6. HeldType'
    BY <2>1, <2>2 DEF TypeInv, HeldType
  <2> QED BY <2>1, <2>4, <2>5, <2>6, UserFrame, QueueFrame DEF TypeInv
<1> QED BY <1>1, <1>2

LEMMA TurnSteps ==
  ASSUME TypeInv, WakeUp \/ ToSleep \/ NoOwner \/ Look
  PROVE  TypeInv'
<1>1. UNCHANGED <<level, missed, hold, cfg, queue, out, sent, changed, left>> /\ note' \in BOOLEAN
  BY DEF WakeUp, ToSleep, NoOwner, Look, user, queue, TypeInv, UserType
<1>2. UserType' /\ HeldType' /\ QueueType'
  BY <1>1, HeldFrame, QueueFrame DEF TypeInv, UserType
<1>3. cur # <<>> => Head(cur) \in Button /\ \E n \in 1 .. Len(Order) + 1 : Tail(cur) = SubSeq(Order, n, Len(Order))
  <2>1. PICK n \in 1 .. Len(Order) + 1 : cur = SubSeq(Order, n, Len(Order))
    BY DEF TypeInv, ScanType, Remaining
  <2> QED BY <2>1, OrderIsSeq, NextPart
<1>4. CASE WakeUp
  <2>1. cur' = Order /\ wake' = Never /\ pc' = "scan" /\ pc = "sleep" /\ UNCHANGED <<btn, who, todo>>
    BY <1>4 DEF WakeUp
  <2>2. Remaining'
    <3>1. 1 \in 1 .. Len(Order) + 1 /\ Order = SubSeq(Order, 1, Len(Order))
      BY OrderIsSeq
    <3> QED BY <2>1, <3>1 DEF Remaining
  <2>3. ScanType'
    BY <2>1, <2>2, Constants DEF TypeInv, ScanType
  <2>4. Planned'
    BY <1>1, <2>1 DEF TypeInv, Planned
  <2> QED BY <1>2, <2>3, <2>4 DEF TypeInv
<1>5. CASE ToSleep
  <2>1. pc' = "sleep" /\ todo = <<>> /\ out = NoMsg /\ UNCHANGED <<cur, btn, who, todo, wake>>
    BY <1>5 DEF ToSleep, NextTurn
  <2>2. Planned'
    BY <1>1, <2>1 DEF TypeInv, Planned
  <2> QED BY <1>2, <2>1, <2>2, ScanFrame DEF TypeInv
<1>6. CASE NoOwner
  <2>1. cur # <<>> /\ cur' = Tail(cur) /\ UNCHANGED <<pc, btn, who, todo, wake>>
    BY <1>6 DEF NoOwner
  <2>2. Planned'
    BY <1>1, <2>1 DEF TypeInv, Planned
  <2>3. ScanType'
    BY <1>3, <2>1 DEF TypeInv, ScanType, Remaining
  <2> QED BY <1>2, <2>2, <2>3 DEF TypeInv
<1>7. CASE Look
  <2>1. /\ cur # <<>> /\ cur' = Tail(cur) /\ btn' = Head(cur) /\ who' = OwnerOf(btn') /\ UNCHANGED wake
        /\ todo = <<>> /\ out = NoMsg /\ pc = "scan"
        /\ \/ pc' = "edge" /\ UNCHANGED todo
           \/ todo' = <<"long", "repeat">> /\ UNCHANGED pc
    BY <1>7 DEF Look, NextTurn
  <2>2. who' \in Owner
    BY <2>1 DEF OwnerOf, Owner
  <2>3. ScanType'
    BY <1>3, <2>1, <2>2 DEF TypeInv, ScanType, Remaining
  <2>4. todo' \in Downs /\ todo' \in Ups
    BY <2>1 DEF Downs, Ups
  <2>5. Planned'
    BY <1>1, <2>1, <2>4 DEF Planned
  <2> QED BY <1>2, <2>3, <2>5 DEF TypeInv
<1> QED BY <1>4, <1>5, <1>6, <1>7

LEMMA EdgeStep ==
  ASSUME TypeInv, Edge
  PROVE  TypeInv'
<1> DEFINE down == btn \in level
<1>1. /\ hold' = [hold EXCEPT ![btn] = [pressed |-> down, did |-> @.did /\ ~down, edge |-> 0,
                                       press |-> 0, repeat |-> 0]]
      /\ todo' = IF down THEN <<"down", "click", "long", "repeat">>
                         ELSE <<"up", "short", "release", "long", "repeat">>
      /\ sent' = (IF down THEN [sent EXCEPT ![btn] = {}] ELSE sent)
      /\ missed' = missed \ {btn} /\ pc' = "scan"
      /\ UNCHANGED <<level, note, cfg, cur, btn, who, wake, queue, changed, left>>
  BY DEF Edge
<1>2. btn \in Button /\ hold[btn] \in HoldOf
  BY DEF TypeInv, ScanType, HeldType
<1>3. [pressed |-> down, did |-> hold[btn].did /\ ~down, edge |-> 0, press |-> 0, repeat |-> 0] \in HoldOf
  <2>1. 0 \in 0 .. Debounce + 1 /\ 0 \in 0 .. LongDelay /\ 0 \in 0 .. RepeatEvery
    BY Constants
  <2>2. down \in BOOLEAN /\ (hold[btn].did /\ ~down) \in BOOLEAN
    OBVIOUS
  <2> QED BY <2>1, <2>2 DEF HoldOf
<1>4. hold' \in [Button -> HoldOf] /\ (hold'[btn].pressed <=> down)
  BY <1>1, <1>2, <1>3 DEF TypeInv, HeldType
<1>5. sent' \in [Button -> SUBSET Kind]
  BY <1>1 DEF TypeInv, HeldType
<1>6. HeldType'
  BY <1>1, <1>4, <1>5 DEF TypeInv, HeldType
<1>7. UserType'
  BY <1>1 DEF TypeInv, UserType
<1>8. Planned'
  <2>1. down => todo' \in Downs
    BY <1>1 DEF Downs
  <2>2. ~down => todo' \in Ups
    BY <1>1 DEF Ups, Released
  <2> QED BY <1>1, <1>4, <2>1, <2>2 DEF Planned
<1> QED BY <1>1, <1>6, <1>7, <1>8, ScanFrame, QueueFrame DEF TypeInv

(* What a step does with the first of the plans of the button in hand. *)
LEMMA Doings ==
  ASSUME TypeInv, NEW item, Doing(item)
  PROVE  /\ todo # <<>> /\ Head(todo) = item /\ pc = "scan" /\ out = NoMsg /\ btn \in Button
         /\ hold[btn].pressed => /\ todo \in Downs /\ Tail(todo) \in Downs
                                /\ item \in {"down", "click", "long", "repeat", "again"}
         /\ ~hold[btn].pressed => /\ todo \in Ups /\ Tail(todo) \in Ups
                                 /\ item \in {"up", "short", "release", "long", "repeat"}
<1>1. todo # <<>> /\ Head(todo) = item /\ pc = "scan" /\ out = NoMsg /\ btn \in Button
  BY DEF Doing, TypeInv, ScanType
<1>2. hold[btn].pressed => todo \in Downs
  BY DEF TypeInv, Planned
<1>3. ~hold[btn].pressed => todo \in Ups
  BY DEF TypeInv, Planned
<1> QED BY <1>1, <1>2, <1>3, DownPlans, UpPlans

LEMMA SendIfType ==
  ASSUME QueueType, ScanType, HeldType, NEW kind \in Kind, NEW wanted, SendIf(wanted, kind)
  PROVE  QueueType' /\ sent' \in [Button -> SUBSET Kind]
<1>1. CASE Send(kind)
  BY <1>1, SendType
<1>2. CASE UNCHANGED <<queue, sent>>
  BY <1>2, QueueFrame DEF HeldType
<1> QED BY <1>1, <1>2 DEF SendIf

LEMMA PlanSteps ==
  ASSUME TypeInv, OnEdge \/ LongWait \/ RepeatWait \/ Again \/ NotWaiting
  PROVE  TypeInv'
<1>1. UNCHANGED <<user, hold, cfg, pc, cur, btn, who, left>> /\ todo' = Tail(todo)
  BY DEF OnEdge, LongWait, RepeatWait, Again, NotWaiting
<1>2. \E item : Doing(item)
  BY DEF OnEdge, LongWait, RepeatWait, Again, NotWaiting
<1>3. pc = "scan" /\ btn \in Button /\ todo' \in IF hold[btn].pressed THEN Downs ELSE Ups
  BY <1>1, <1>2, Doings
<1>4. Planned'
  BY <1>1, <1>3 DEF Planned
<1>5. wake' \in 0 .. Never
  <2>1. Held \in HoldOf /\ wake \in 0 .. Never
    BY DEF Held, TypeInv, HeldType, ScanType
  <2>2. LongDelay - Held.press \in 0 .. Never /\ RepeatEvery - Held.repeat \in 0 .. Never /\ 0 \in 0 .. Never
    BY <2>1, Constants DEF HoldOf, Never
  <2>3. wake' \in {wake, 0, Min2(wake, LongDelay - Held.press), Min2(wake, RepeatEvery - Held.repeat)}
    BY DEF OnEdge, LongWait, RepeatWait, Again, NotWaiting
  <2> QED BY <2>1, <2>2, <2>3 DEF Min2
<1>6. ScanType'
  BY <1>1, <1>5 DEF TypeInv, ScanType, Remaining
<1>7. QueueType' /\ sent' \in [Button -> SUBSET Kind] /\ changed' \subseteq Button
  <2>1. CASE OnEdge
    <3>1. changed' = changed
      BY <2>1 DEF OnEdge
    <3>2. \E kind \in Kind : \E wanted \in BOOLEAN : SendIf(wanted, kind)
      BY <2>1 DEF OnEdge, Kind, SendIf
    <3> QED BY <3>1, <3>2, SendIfType DEF TypeInv, HeldType
  <2>2. CASE LongWait \/ RepeatWait \/ Again
    <3>1. UNCHANGED <<queue, sent, changed>>
      BY <2>2 DEF LongWait, RepeatWait, Again
    <3> QED BY <3>1, QueueFrame DEF TypeInv, HeldType
  <2>3. CASE NotWaiting
    <3>1. /\ UNCHANGED queue /\ changed' \subseteq changed
          /\ sent' = sent \/ sent' = [sent EXCEPT ![btn] = {}]
      BY <2>3 DEF NotWaiting
    <3>2. sent' \in [Button -> SUBSET Kind]
      BY <3>1 DEF TypeInv, HeldType
    <3> QED BY <3>1, <3>2, QueueFrame DEF TypeInv, HeldType
  <2> QED BY <2>1, <2>2, <2>3
<1>8. HeldType'
  BY <1>1, <1>7 DEF TypeInv, HeldType
<1> QED BY <1>1, <1>4, <1>6, <1>7, <1>8, UserFrame DEF TypeInv

LEMMA HoldSteps ==
  ASSUME TypeInv, Long \/ Repeat
  PROVE  TypeInv' /\ hold[btn].pressed /\ \A b \in Button : hold'[b].pressed = hold[b].pressed
<1>1. /\ UNCHANGED <<user, cfg, pc, cur, btn, who, wake, changed, left>>
      /\ Held.pressed /\ \E kind \in Kind : Send(kind)
  BY DEF Long, Repeat, LongDue, RepeatDue, Kind
<1>2. \E item : Doing(item)
  BY DEF Long, Repeat
<1>3. btn \in Button /\ hold[btn] \in HoldOf /\ hold[btn].pressed /\ pc = "scan"
  BY <1>1, <1>2, Doings DEF Held, TypeInv, HeldType
<1>4. todo' \in Downs
  <2>1. CASE Long
    BY <1>2, <1>3, <2>1, Doings DEF Long
  <2>2. CASE Repeat
    BY <2>2 DEF Repeat, Downs
  <2> QED BY <2>1, <2>2
<1>5. \/ hold' = [hold EXCEPT ![btn].did = TRUE]
      \/ hold' = [hold EXCEPT ![btn].repeat = 0]
  BY DEF Long, Repeat
<1>6. hold' \in [Button -> HoldOf] /\ \A b \in Button : hold'[b].pressed = hold[b].pressed
  <2>1. 0 \in 0 .. RepeatEvery /\ hold \in [Button -> HoldOf]
    BY Constants DEF TypeInv, HeldType
  <2>2. /\ [hold[btn] EXCEPT !.did = TRUE] \in HoldOf /\ [hold[btn] EXCEPT !.repeat = 0] \in HoldOf
        /\ [hold[btn] EXCEPT !.did = TRUE].pressed = hold[btn].pressed
        /\ [hold[btn] EXCEPT !.repeat = 0].pressed = hold[btn].pressed
    BY <1>3, <2>1 DEF HoldOf
  <2> QED BY <1>3, <1>5, <2>1, <2>2
<1>7. QueueType' /\ sent' \in [Button -> SUBSET Kind]
  BY <1>1, SendType DEF TypeInv
<1>8. HeldType'
  BY <1>1, <1>6, <1>7 DEF TypeInv, HeldType
<1>9. Planned'
  BY <1>1, <1>3, <1>4, <1>6 DEF Planned
<1> QED BY <1>1, <1>3, <1>6, <1>7, <1>8, <1>9, UserFrame, ScanFrame DEF TypeInv, ScanType

(* Subscriptions change under the task. *)
ThreadChanges == \E o \in Owner : UnsubscribeAll(o) \/ \E b \in Button : \E kind \in Kind : Subscribe(o, b, kind)

LEMMA Changing ==
  ASSUME TypeInv, ThreadChanges
  PROVE  \E o \in Owner : \E new \in [Button -> SUBSET Kind] : Change(o, new)
<1>1. PICK o \in Owner : UnsubscribeAll(o) \/ \E b \in Button : \E kind \in Kind : Subscribe(o, b, kind)
  BY DEF ThreadChanges
<1>2. CASE UnsubscribeAll(o)
  <2>1. [b \in Button |-> {}] \in [Button -> SUBSET Kind]
    OBVIOUS
  <2> QED BY <1>2, <2>1 DEF UnsubscribeAll
<1>3. CASE \E b \in Button : \E kind \in Kind : Subscribe(o, b, kind)
  <2>1. PICK b \in Button, kind \in Kind : Subscribe(o, b, kind)
    BY <1>3
  <2>2. kind \in {"click", "repeat", "long", "raw"}
    BY <2>1, ButtonAssumption DEF ButtonAssumption, Subscribe, Kind
  <2>3. With(cfg[o][b], kind) \in SUBSET Kind
    <3>1. cfg[o][b] \subseteq Kind
      BY DEF TypeInv, HeldType
    <3> QED BY <2>2, <3>1 DEF With, Kind
  <2>4. [cfg[o] EXCEPT ![b] = With(@, kind)] \in [Button -> SUBSET Kind]
    BY <2>3 DEF TypeInv, HeldType
  <2> QED BY <2>1, <2>4 DEF Subscribe
<1> QED BY <1>1, <1>2, <1>3

LEMMA ChangeSteps ==
  ASSUME TypeInv, ThreadChanges
  PROVE  TypeInv'
<1>1. PICK o \in Owner, new \in [Button -> SUBSET Kind] : Change(o, new)
  BY Changing
<1>2. /\ UNCHANGED <<level, note, hold, pc, cur, btn, who, todo, wake, queue, out, sent>>
      /\ cfg' = [cfg EXCEPT ![o] = new] /\ left > 0 /\ left' = left - 1
      /\ changed' \subseteq changed \cup Button /\ missed' \subseteq missed \cup Button
  BY <1>1 DEF Change, scan, queue
<1>3. HeldType'
  <2>1. cfg' \in [Owner -> [Button -> SUBSET Kind]]
    BY <1>2 DEF TypeInv, HeldType
  <2>2. left' \in Nat
    BY <1>2 DEF TypeInv, HeldType
  <2> QED BY <1>2, <2>1, <2>2 DEF TypeInv, HeldType
<1>4. UserType'
  BY <1>2 DEF TypeInv, UserType
<1>5. Planned'
  BY <1>2 DEF TypeInv, Planned
<1> QED BY <1>2, <1>3, <1>4, <1>5, ScanFrame, QueueFrame DEF TypeInv, ScanType

LEMMA NextSteps ==
  ASSUME [Next]_vars
  PROVE  \/ PostApp \/ PostOverlay \/ AppHandles \/ OverlayHandles
         \/ (\E b \in Button : Toggle(b)) \/ Tick
         \/ WakeUp \/ ToSleep \/ NoOwner \/ Look \/ Edge
         \/ OnEdge \/ LongWait \/ RepeatWait \/ Again \/ NotWaiting
         \/ Long \/ Repeat \/ ThreadChanges \/ UNCHANGED vars
  BY DEF Next, Task, Threads, ThreadChanges

LEMMA TypeNext ==
  ASSUME TypeInv, [Next]_vars
  PROVE  TypeInv'
<1>1. CASE UNCHANGED vars
  <2>1. UNCHANGED <<user, hold, cfg, pc, cur, btn, who, todo, wake, queue, out, sent, changed, left>>
    BY <1>1 DEF vars, scan, queue
  <2>2. Planned'
    BY <2>1 DEF TypeInv, Planned
  <2> QED BY <2>1, <2>2, UserFrame, HeldFrame, ScanFrame, QueueFrame DEF TypeInv, ScanType
<1> QED BY <1>1, NextSteps, QueueSteps, OutsideSteps, TurnSteps, EdgeStep, PlanSteps, HoldSteps, ChangeSteps

(* The scan over the buttons, the plans it makes for each and the two queues  *)
(* stay in their ranges, whatever levels and subscriptions do while the task  *)
(* is at work (buttons.c:86-239, 264-328).                                            *)
THEOREM TypeCorrect == Spec => []TypeOK
<1> QED BY TypeInit, TypeNext, TypeParts, PTL DEF Spec
-----------------------------------------------------------------------------
(* What the thread that owns a button has subscribed to.                     *)
Subscribed(b) == cfg[OwnerOf(b)][b]

(* The task has the button in hand for something that depends on its owner.  *)
Considered(b) ==
  /\ btn = b
  /\ pc = "edge" \/ (hold[b].pressed /\ todo # <<>>) \/ todo \in Released

(* What was sent of a press that is over is forgotten before the task turns   *)
(* to the next button.                                                       *)
Cleared ==
  \A b \in Button : ~hold[b].pressed /\ sent[b] # {} =>
    btn = b /\ todo \in Released \cup {<<"long", "repeat">>}

LongOnce(b)  == "long" \in sent[b] => hold[b].did /\ "long" \in Subscribed(b)
ClickOnce(b) == "click" \in sent[b] /\ "repeat" \notin Subscribed(b) =>
                  "long" \notin Subscribed(b) \/ ~(hold[b].pressed \/ hold[b].did)

(* As long as the subscriptions of the press stay what they were.            *)
Steady(b) == (Considered(b) => who = OwnerOf(b)) /\ LongOnce(b) /\ ClickOnce(b)

EdgeInv == Cleared /\ \A b \in Button \ changed : Steady(b)

LEMMA EdgeInit == Init => EdgeInv
  BY DEF Init, EdgeInv, Cleared, Steady, Considered, LongOnce, ClickOnce, Released

(* The plans shrink. *)
LEMMA Shrinks ==
  ASSUME TypeInv, UNCHANGED btn, pc' = "edge" => pc = "edge",
         \A b \in Button : hold'[b].pressed = hold[b].pressed,
         todo' = todo \/ (todo # <<>> /\ todo' = Tail(todo))
  PROVE  \A b \in Button : Considered(b)' => Considered(b)
<1> SUFFICES ASSUME NEW b \in Button, Considered(b)' PROVE Considered(b)
  OBVIOUS
<1>1. btn = b /\ btn' = b /\ (todo' # <<>> => todo # <<>>)
  <2>1. btn = b /\ btn' = b
    BY DEF Considered
  <2>2. todo = <<>> => todo' = todo
    OBVIOUS
  <2> QED BY <2>1, <2>2
<1>2. CASE pc' = "edge" \/ (hold'[b].pressed /\ todo' # <<>>)
  BY <1>1, <1>2 DEF Considered
<1>3. CASE todo' \in Released /\ ~hold[b].pressed
  <2>1. todo \in Ups
    BY <1>1, <1>3 DEF TypeInv, Planned
  <2>2. todo \in Released
    BY <1>3, <2>1, UpPlans
  <2> QED BY <1>1, <2>2 DEF Considered
<1>4. CASE todo' \in Released /\ hold[b].pressed
  <2>1. <<>> \notin Released
    BY DEF Released
  <2>2. todo # <<>>
    BY <1>1, <1>4, <2>1
  <2> QED BY <1>1, <1>4, <2>2 DEF Considered
<1> QED BY <1>2, <1>3, <1>4 DEF Considered

(* A step that sends nothing. *)
LEMMA EdgeFrame ==
  ASSUME TypeInv, EdgeInv, UNCHANGED <<cfg, btn, who, todo, sent, changed>>, pc' = "edge" => pc = "edge",
         \A b \in Button : hold'[b].pressed = hold[b].pressed /\ hold'[b].did = hold[b].did
  PROVE  EdgeInv'
<1>1. \A b \in Button : Considered(b)' => Considered(b)
  BY Shrinks
<1>2. \A b \in Button : OwnerOf(b)' = OwnerOf(b) /\ Subscribed(b)' = Subscribed(b)
  BY DEF OwnerOf, Owns, Subscribed
<1>3. Cleared'
  BY DEF EdgeInv, Cleared
<1>4. ASSUME NEW b \in Button \ changed'
      PROVE  Steady(b)'
  <2>1. Steady(b)
    BY <1>4 DEF EdgeInv
  <2> QED BY <1>1, <1>2, <2>1 DEF Steady, LongOnce, ClickOnce
<1> QED BY <1>3, <1>4 DEF EdgeInv

LEMMA EdgeLook ==
  ASSUME TypeInv, EdgeInv, Look
  PROVE  EdgeInv'
<1>1. /\ UNCHANGED <<cfg, hold, sent, changed>> /\ who' = OwnerOf(btn') /\ todo = <<>>
      /\ pc' = "edge" \/ todo' = <<"long", "repeat">>
  BY DEF Look, NextTurn
<1>2. \A b \in Button : OwnerOf(b)' = OwnerOf(b) /\ Subscribed(b)' = Subscribed(b)
  BY <1>1 DEF OwnerOf, Owns, Subscribed
<1>3. <<>> \notin Released \cup {<<"long", "repeat">>}
  BY DEF Released
<1>4. \A b \in Button : ~hold[b].pressed => sent[b] = {}
  BY <1>1, <1>3 DEF EdgeInv, Cleared
<1>5. Cleared'
  BY <1>1, <1>4 DEF Cleared
<1>6. ASSUME NEW b \in Button \ changed'
      PROVE  Steady(b)'
  <2>1. LongOnce(b) /\ ClickOnce(b)
    BY <1>1, <1>6 DEF EdgeInv, Steady
  <2>2. Considered(b)' => who' = OwnerOf(b)'
    <3>1. Considered(b)' => btn' = b
      BY DEF Considered
    <3> QED BY <1>1, <1>2, <3>1
  <2> QED BY <1>1, <1>2, <2>1, <2>2 DEF Steady, LongOnce, ClickOnce
<1> QED BY <1>5, <1>6 DEF EdgeInv

LEMMA EdgeEdge ==
  ASSUME TypeInv, EdgeInv, Edge
  PROVE  EdgeInv'
<1> DEFINE down == btn \in level
<1>1. /\ hold' = [hold EXCEPT ![btn] = [pressed |-> down, did |-> @.did /\ ~down, edge |-> 0,
                                       press |-> 0, repeat |-> 0]]
      /\ todo' = IF down THEN <<"down", "click", "long", "repeat">>
                         ELSE <<"up", "short", "release", "long", "repeat">>
      /\ sent' = (IF down THEN [sent EXCEPT ![btn] = {}] ELSE sent)
      /\ pc = "edge" /\ pc' = "scan" /\ UNCHANGED <<cfg, btn, who, changed>>
  BY DEF Edge
<1>2. todo = <<>> /\ btn \in Button /\ hold \in [Button -> HoldOf] /\ sent \in [Button -> SUBSET Kind]
  BY <1>1 DEF TypeInv, Planned, ScanType, HeldType
<1>3. /\ (hold'[btn].pressed <=> down) /\ (hold'[btn].did <=> hold[btn].did /\ ~down)
      /\ \A b \in Button \ {btn} : hold'[b] = hold[b]
  BY <1>1, <1>2
<1>4. \A b \in Button : sent'[b] = IF b = btn /\ down THEN {} ELSE sent[b]
  BY <1>1, <1>2
<1> HIDE DEF down
<1>5. <<>> \notin Released \cup {<<"long", "repeat">>}
  BY DEF Released
<1>6. \A b \in Button : ~hold[b].pressed => sent[b] = {}
  BY <1>2, <1>5 DEF EdgeInv, Cleared
<1>7. Cleared'
  <2> SUFFICES ASSUME NEW b \in Button, ~hold'[b].pressed, sent'[b] # {}
               PROVE  btn' = b /\ todo' \in Released \cup {<<"long", "repeat">>}
    BY DEF Cleared
  <2>1. b = btn /\ ~down
    BY <1>3, <1>4, <1>6
  <2>2. todo' \in Released
    BY <1>1, <2>1 DEF Released
  <2> QED BY <1>1, <2>1, <2>2
<1>8. \A b \in Button : OwnerOf(b)' = OwnerOf(b) /\ Subscribed(b)' = Subscribed(b)
  BY <1>1 DEF OwnerOf, Owns, Subscribed
<1>9. ASSUME NEW b \in Button \ changed'
      PROVE  Steady(b)'
  <2>1. Steady(b)
    BY <1>1, <1>9 DEF EdgeInv
  <2>2. CASE b # btn
    <3>1. ~Considered(b)' /\ hold'[b] = hold[b] /\ sent'[b] = sent[b]
      BY <1>1, <1>3, <1>4, <2>2 DEF Considered
    <3> QED BY <1>8, <2>1, <3>1 DEF Steady, LongOnce, ClickOnce
  <2>3. CASE b = btn
    <3>1. who' = OwnerOf(b)'
      BY <1>1, <1>8, <2>1, <2>3 DEF Steady, Considered
    <3>2. CASE down
      BY <1>4, <2>3, <3>1, <3>2 DEF Steady, LongOnce, ClickOnce
    <3>3. CASE ~down
      <4>1. sent'[b] = sent[b] /\ (hold'[b].did <=> hold[b].did) /\ ~hold'[b].pressed
        BY <1>3, <1>4, <2>3, <3>3
      <4>2. ~hold[b].pressed => sent[b] = {}
        BY <1>6
      <4> QED BY <1>8, <2>1, <3>1, <4>1, <4>2 DEF Steady, LongOnce, ClickOnce
    <3> QED BY <3>2, <3>3
  <2> QED BY <2>2, <2>3
<1> QED BY <1>7, <1>9 DEF EdgeInv

(* The task sends, or does not, and goes on to the next of its plans. *)
LEMMA Sends ==
  ASSUME TypeInv, NEW kind, Send(kind)
  PROVE  /\ \A b \in Button : b # btn => sent'[b] = sent[b]
         /\ sent'[btn] = sent[btn] \cup ({kind} \cap {"click", "long"})
  BY DEF Send, TypeInv, ScanType, HeldType

(* What is true of all steps that go on with the button in hand: only that   *)
(* button is to be considered.                                               *)
LEMMA EdgeGoesOn ==
  ASSUME TypeInv, EdgeInv, UNCHANGED <<cfg, btn, who, pc, changed>>, pc = "scan",
         \A b \in Button : hold'[b].pressed = hold[b].pressed,
         \A b \in Button \ {btn} : sent'[b] = sent[b] /\ hold'[b].did = hold[b].did,
         Considered(btn)' => Considered(btn),
         ~hold[btn].pressed /\ sent'[btn] # {} => todo' \in Released \cup {<<"long", "repeat">>},
         btn \notin changed => LongOnce(btn)' /\ ClickOnce(btn)'
  PROVE  EdgeInv'
<1>1. \A b \in Button : OwnerOf(b)' = OwnerOf(b) /\ Subscribed(b)' = Subscribed(b)
  BY DEF OwnerOf, Owns, Subscribed
<1>2. Cleared'
  <2> SUFFICES ASSUME NEW b \in Button, ~hold'[b].pressed, sent'[b] # {}
               PROVE  btn' = b /\ todo' \in Released \cup {<<"long", "repeat">>}
    BY DEF Cleared
  <2>1. CASE b = btn
    BY <2>1
  <2>2. CASE b # btn
    BY <2>2 DEF EdgeInv, Cleared
  <2> QED BY <2>1, <2>2
<1>3. ASSUME NEW b \in Button \ changed'
      PROVE  Steady(b)'
  <2>1. Steady(b)
    BY <1>3 DEF EdgeInv
  <2>2. CASE b = btn
    <3>1. LongOnce(btn)' /\ ClickOnce(btn)'
      BY <1>3, <2>2
    <3>2. Considered(b)' => who' = OwnerOf(b)'
      BY <1>1, <2>1, <2>2 DEF Steady
    <3>3. LongOnce(b)' /\ ClickOnce(b)'
      BY <2>2, <3>1 DEF LongOnce, ClickOnce
    <3> QED BY <3>2, <3>3 DEF Steady
  <2>3. CASE b # btn
    <3>1. ~Considered(b)' /\ sent'[b] = sent[b] /\ hold'[b].did = hold[b].did /\ hold'[b].pressed = hold[b].pressed
      BY <2>3 DEF Considered
    <3> QED BY <1>1, <2>1, <3>1 DEF Steady, LongOnce, ClickOnce
  <2> QED BY <2>2, <2>3
<1> QED BY <1>2, <1>3 DEF EdgeInv

LEMMA EdgePlans ==
  ASSUME TypeInv, EdgeInv, OnEdge
  PROVE  EdgeInv'
<1>1. /\ UNCHANGED <<user, hold, cfg, pc, cur, btn, who, wake, changed, left>> /\ todo' = Tail(todo)
      /\ \E item : Doing(item)
  BY DEF OnEdge
<1>2. todo # <<>> /\ pc = "scan" /\ btn \in Button
  BY <1>1, Doings
<1>3. Considered(btn)' => Considered(btn)
  BY <1>1, <1>2, Shrinks
<1>4. hold[btn].pressed => Considered(btn)
  BY <1>2 DEF Considered
<1>5. ~hold[btn].pressed => todo \in Released /\ Considered(btn) /\ todo' \in Released \cup {<<"long", "repeat">>}
  <2> SUFFICES ASSUME ~hold[btn].pressed
               PROVE  todo \in Released /\ Considered(btn) /\ todo' \in Released \cup {<<"long", "repeat">>}
    OBVIOUS
  <2>1. Head(todo) \in {"down", "up", "click", "short", "release"}
    BY DEF OnEdge, Doing
  <2>2. todo \in Ups
    BY DEF TypeInv, Planned
  <2>3. todo \in Released /\ Tail(todo) \in Released \cup {<<"long", "repeat">>}
    BY <1>2, <2>1, <2>2, UpPlans
  <2> QED BY <1>1, <2>3 DEF Considered
<1>6. Subscribed(btn)' = Subscribed(btn)
  BY <1>1 DEF OwnerOf, Owns, Subscribed
<1>7. btn \notin changed => who = OwnerOf(btn) /\ LongOnce(btn) /\ ClickOnce(btn)
  BY <1>2, <1>4, <1>5 DEF EdgeInv, Steady
<1>8. /\ \A b \in Button \ {btn} : sent'[b] = sent[b]
      /\ sent'[btn] = sent[btn] \/ (/\ sent'[btn] = sent[btn] \cup {"click"} /\ Has("click")
                                  /\ \/ ~Has("long") /\ hold[btn].pressed
                                     \/ Has("long") /\ ~Held.did /\ ~hold[btn].pressed)
  <2>1. CASE \E kind \in {"raw", "release"} : Send(kind)
    BY <2>1, Sends
  <2>2. CASE Doing("click") /\ Send("click") /\ Has("click") /\ ~Has("long")
    <3>1. hold[btn].pressed
      BY <2>2, Doings
    <3> QED BY <2>2, <3>1, Sends
  <2>3. CASE Doing("short") /\ Send("click") /\ Has("click") /\ Has("long") /\ ~Held.did
    <3>1. ~hold[btn].pressed
      BY <2>3, Doings
    <3> QED BY <2>3, <3>1, Sends
  <2>4. CASE UNCHANGED sent
    BY <2>4
  <2> QED BY <2>1, <2>2, <2>3, <2>4 DEF OnEdge, SendIf
<1>9. btn \notin changed => LongOnce(btn)' /\ ClickOnce(btn)'
  <2> SUFFICES ASSUME btn \notin changed PROVE LongOnce(btn)' /\ ClickOnce(btn)'
    OBVIOUS
  <2>1. \A kind : Has(kind) <=> kind \in Subscribed(btn)
    BY <1>7 DEF Has, Subscribed
  <2>2. LongOnce(btn)'
    BY <1>1, <1>6, <1>7, <1>8 DEF LongOnce
  <2>3. ClickOnce(btn)'
    BY <1>1, <1>6, <1>7, <1>8, <2>1 DEF ClickOnce, Held
  <2> QED BY <2>2, <2>3
<1> QED BY <1>1, <1>2, <1>3, <1>5, <1>8, <1>9, EdgeGoesOn

LEMMA EdgeWaits ==
  ASSUME TypeInv, EdgeInv, LongWait \/ RepeatWait \/ Again
  PROVE  EdgeInv'
<1>1. UNCHANGED <<hold, cfg, pc, btn, who, sent, changed>> /\ todo' = Tail(todo) /\ \E item \in {"long", "repeat", "again"} : Doing(item)
  BY DEF LongWait, RepeatWait, Again
<1>2. todo # <<>> /\ pc = "scan" /\ btn \in Button
  BY <1>1, Doings
<1>3. Considered(btn)' => Considered(btn)
  BY <1>1, <1>2, Shrinks
<1>4. hold[btn].pressed
  <2>1. CASE LongWait \/ RepeatWait
    BY <2>1 DEF LongWait, RepeatWait, LongDue, RepeatDue, Held
  <2>2. CASE Again
    BY <2>2, Doings DEF Again
  <2> QED BY <2>1, <2>2
<1>5. Subscribed(btn)' = Subscribed(btn)
  BY <1>1 DEF OwnerOf, Owns, Subscribed
<1>6. btn \notin changed => LongOnce(btn)' /\ ClickOnce(btn)'
  BY <1>1, <1>2, <1>5 DEF EdgeInv, Steady, LongOnce, ClickOnce
<1> QED BY <1>1, <1>2, <1>3, <1>4, <1>6, EdgeGoesOn

LEMMA EdgeNotWaiting ==
  ASSUME TypeInv, EdgeInv, NotWaiting
  PROVE  EdgeInv'
<1>1. UNCHANGED <<hold, cfg, pc, btn, who>> /\ todo' = Tail(todo) /\ \E item \in {"long", "repeat"} : Doing(item)
  BY DEF NotWaiting
<1>2. todo # <<>> /\ Head(todo) \in {"long", "repeat"} /\ pc = "scan" /\ btn \in Button
  BY <1>1, Doings
<1>3. \A b \in Button : Considered(b)' => Considered(b)
  BY <1>1, <1>2, Shrinks
<1>4. Subscribed(btn)' = Subscribed(btn)
  BY <1>1 DEF OwnerOf, Owns, Subscribed
<1>5. CASE hold[btn].pressed
  <2>1. UNCHANGED <<sent, changed>>
    BY <1>5 DEF NotWaiting, Held
  <2>2. btn \notin changed => LongOnce(btn)' /\ ClickOnce(btn)'
    BY <1>1, <1>2, <1>4, <2>1 DEF EdgeInv, Steady, LongOnce, ClickOnce
  <2> QED BY <1>1, <1>2, <1>3, <1>5, <2>1, <2>2, EdgeGoesOn
<1>6. CASE ~hold[btn].pressed
  <2>1. sent' = [sent EXCEPT ![btn] = {}] /\ changed' = changed \ {btn}
    BY <1>6 DEF NotWaiting, Held
  <2>2. sent'[btn] = {} /\ \A b \in Button \ {btn} : sent'[b] = sent[b]
    BY <1>2, <2>1 DEF TypeInv, HeldType
  <2>3. todo \in Ups /\ todo \notin Released /\ todo' \notin Released
    <3>1. todo \in Ups
      BY <1>6 DEF TypeInv, Planned
    <3>2. todo \notin Released
      BY <1>2, <3>1, UpPlans
    <3> QED BY <1>1, <1>2, <3>1, <3>2, UpPlans
  <2>4. ~Considered(btn)'
    BY <1>1, <1>2, <1>6, <2>3 DEF Considered
  <2>5. Cleared'
    <3> SUFFICES ASSUME NEW b \in Button, ~hold'[b].pressed, sent'[b] # {}
                 PROVE  FALSE
      BY DEF Cleared
    <3>1. b # btn /\ sent[b] # {} /\ ~hold[b].pressed
      BY <1>1, <2>2
    <3> QED BY <3>1 DEF EdgeInv, Cleared
  <2>6. ASSUME NEW b \in Button \ changed'
        PROVE  Steady(b)'
    <3>1. CASE b = btn
      <4>1. LongOnce(b)' /\ ClickOnce(b)'
        BY <2>2, <3>1 DEF LongOnce, ClickOnce
      <4>2. ~Considered(b)'
        BY <1>1, <2>4, <3>1 DEF Considered
      <4> QED BY <4>1, <4>2 DEF Steady
    <3>2. CASE b # btn
      <4>1. Steady(b) /\ ~Considered(b)' /\ sent'[b] = sent[b]
        BY <1>1, <2>1, <2>2, <2>6, <3>2 DEF EdgeInv, Considered
      <4>2. Subscribed(b)' = Subscribed(b)
        BY <1>1 DEF OwnerOf, Owns, Subscribed
      <4> QED BY <1>1, <4>1, <4>2 DEF Steady, LongOnce, ClickOnce
    <3> QED BY <3>1, <3>2
  <2> QED BY <2>5, <2>6 DEF EdgeInv
<1> QED BY <1>5, <1>6

LEMMA EdgeHolds ==
  ASSUME TypeInv, EdgeInv, Long \/ Repeat
  PROVE  EdgeInv'
<1>1. UNCHANGED <<cfg, pc, btn, who, changed>> /\ \E item \in {"long", "repeat"} : Doing(item)
  BY DEF Long, Repeat
<1>2. todo # <<>> /\ pc = "scan" /\ btn \in Button /\ hold \in [Button -> HoldOf]
  BY <1>1, Doings DEF TypeInv, HeldType
<1>3. hold[btn].pressed /\ \A b \in Button : hold'[b].pressed = hold[b].pressed
  BY HoldSteps
<1>4. Considered(btn)
  BY <1>2, <1>3 DEF Considered
<1>5. Subscribed(btn)' = Subscribed(btn)
  BY <1>1 DEF OwnerOf, Owns, Subscribed
<1>6. btn \notin changed => who = OwnerOf(btn) /\ LongOnce(btn) /\ ClickOnce(btn)
  BY <1>2, <1>4 DEF EdgeInv, Steady
<1>7. btn \notin changed => \A kind : Has(kind) <=> kind \in Subscribed(btn)
  BY <1>6 DEF Has, Subscribed
<1>8. CASE Long
  <2>1. hold' = [hold EXCEPT ![btn].did = TRUE] /\ Has("long") /\ Send("long")
    BY <1>8 DEF Long, LongDue
  <2>2. /\ hold'[btn].did /\ \A b \in Button \ {btn} : hold'[b].did = hold[b].did
    BY <1>2, <2>1 DEF HoldOf
  <2>3. sent'[btn] = sent[btn] \cup {"long"} /\ \A b \in Button \ {btn} : sent'[b] = sent[b]
    BY <2>1, Sends
  <2>4. btn \notin changed => LongOnce(btn)'
    BY <1>1, <1>5, <1>7, <2>1, <2>2 DEF LongOnce
  <2>5. btn \notin changed => ClickOnce(btn)'
    BY <1>1, <1>3, <1>5, <1>6, <2>3 DEF ClickOnce
  <2> QED BY <1>1, <1>2, <1>3, <1>4, <2>2, <2>3, <2>4, <2>5, EdgeGoesOn
<1>9. CASE Repeat
  <2>1. hold' = [hold EXCEPT ![btn].repeat = 0] /\ Has("repeat") /\ Send("click")
    BY <1>9 DEF Repeat, RepeatDue
  <2>2. \A b \in Button : hold'[b].did = hold[b].did
    BY <1>2, <2>1 DEF HoldOf
  <2>3. sent'[btn] = sent[btn] \cup {"click"} /\ \A b \in Button \ {btn} : sent'[b] = sent[b]
    BY <2>1, Sends
  <2>4. btn \notin changed => LongOnce(btn)'
    BY <1>1, <1>2, <1>5, <1>6, <2>2, <2>3 DEF LongOnce
  <2>5. btn \notin changed => ClickOnce(btn)'
    BY <1>1, <1>5, <1>7, <2>1 DEF ClickOnce
  <2> QED BY <1>1, <1>2, <1>3, <1>4, <2>2, <2>3, <2>4, <2>5, EdgeGoesOn
<1> QED BY <1>8, <1>9

LEMMA EdgeChanges ==
  ASSUME TypeInv, EdgeInv, ThreadChanges
  PROVE  EdgeInv'
<1>1. PICK o \in Owner, new \in [Button -> SUBSET Kind] : Change(o, new)
  BY Changing
<1>2. /\ UNCHANGED <<hold, pc, btn, who, todo, sent>>
      /\ cfg' = [cfg EXCEPT ![o] = new] /\ cfg \in [Owner -> [Button -> SUBSET Kind]]
      /\ changed' = changed \cup {b \in Button : new[b] # cfg[o][b] /\ (hold[b].pressed \/ InHand(b))}
  BY <1>1 DEF Change, scan, TypeInv, HeldType
<1>3. Cleared'
  BY <1>2 DEF EdgeInv, Cleared
<1>4. ASSUME NEW b \in Button \ changed'
      PROVE  Steady(b)'
  <2>1. Steady(b) /\ (new[b] = cfg[o][b] \/ (~hold[b].pressed /\ ~InHand(b)))
    BY <1>2, <1>4 DEF EdgeInv
  <2>2. CASE new[b] = cfg[o][b]
    <3>1. \A w \in Owner : cfg'[w][b] = cfg[w][b]
      BY <1>2, <2>2
    <3>2. OwnerOf(b)' = OwnerOf(b) /\ OwnerOf(b) \in Owner
      BY <3>1 DEF OwnerOf, Owns, Owner
    <3>3. Subscribed(b)' = Subscribed(b) /\ (Considered(b)' <=> Considered(b))
      BY <1>2, <3>1, <3>2 DEF Subscribed, Considered
    <3> QED BY <1>2, <2>1, <3>2, <3>3 DEF Steady, LongOnce, ClickOnce
  <2>3. CASE ~hold[b].pressed /\ ~InHand(b)
    <3>1. btn # b \/ pc = "sleep"
      BY <2>3 DEF InHand
    <3>2. <<>> \notin Released \cup {<<"long", "repeat">>}
      BY DEF Released
    <3>3. btn = b => todo = <<>>
      BY <3>1 DEF TypeInv, Planned
    <3>4. sent[b] = {}
      BY <2>3, <3>2, <3>3 DEF EdgeInv, Cleared
    <3>5. ~Considered(b)'
      BY <1>2, <3>1, <3>2, <3>3 DEF Considered
    <3> QED BY <1>2, <3>4, <3>5 DEF Steady, LongOnce, ClickOnce
  <2> QED BY <2>1, <2>2, <2>3
<1> QED BY <1>3, <1>4 DEF EdgeInv

LEMMA EdgeNext ==
  ASSUME TypeInv, EdgeInv, [Next]_vars
  PROVE  EdgeInv'
<1>1. CASE \/ PostApp \/ PostOverlay \/ AppHandles \/ OverlayHandles \/ (\E b \in Button : Toggle(b))
           \/ WakeUp \/ ToSleep \/ NoOwner \/ UNCHANGED vars
  <2>1. UNCHANGED <<hold, cfg, btn, who, todo, sent, changed>> /\ (pc' = "edge" => pc = "edge")
    BY <1>1 DEF PostApp, PostOverlay, AppHandles, OverlayHandles, Toggle, WakeUp, ToSleep, NoOwner, vars, scan
  <2> QED BY <2>1, EdgeFrame
<1>2. CASE Tick
  <2>1. UNCHANGED <<cfg, btn, who, todo, sent, changed, pc>>
    BY <1>2 DEF Tick
  <2>2. \A b \in Button : hold'[b].pressed = hold[b].pressed /\ hold'[b].did = hold[b].did
    <3> SUFFICES ASSUME NEW b \in Button
                 PROVE  hold'[b].pressed = hold[b].pressed /\ hold'[b].did = hold[b].did
      OBVIOUS
    <3>1. hold[b] \in HoldOf
      BY DEF TypeInv, HeldType
    <3> QED BY <1>2, <3>1 DEF Tick, HoldOf
  <2> QED BY <2>1, <2>2, EdgeFrame
<1> QED BY <1>1, <1>2, NextSteps, EdgeLook, EdgeEdge, EdgePlans, EdgeWaits, EdgeNotWaiting, EdgeHolds, EdgeChanges

(* A short click is sent on the way down, on the way up or again and again,   *)
(* a long one by the clock, each from what the task has noted of the press    *)
(* (buttons.c:160-235): a press of a button that does not repeat never gets  *)
(* both, as long as its subscriptions stay what they were.                   *)
THEOREM NeverBothClicks == Spec => []LongXorShort
<1>1. EdgeInv => LongXorShort
  <2> SUFFICES ASSUME EdgeInv, NEW b \in Button, {"click", "long"} \subseteq sent[b],
                      b \notin changed, "repeat" \notin cfg[OwnerOf(b)][b]
               PROVE  FALSE
    BY DEF LongXorShort
  <2>1. LongOnce(b) /\ ClickOnce(b)
    BY DEF EdgeInv, Steady
  <2> QED BY <2>1 DEF LongOnce, ClickOnce, Subscribed
<1>2. TypeInv /\ EdgeInv /\ [Next]_vars => (TypeInv /\ EdgeInv)'
  BY TypeNext, EdgeNext
<1> QED BY <1>1, <1>2, TypeInit, EdgeInit, PTL DEF Spec
=============================================================================
