------------------------------ MODULE Buttons ------------------------------
(***************************************************************************)
(* From a button to its handler: the interrupt, the button task of          *)
(* buttons.c that tells presses, long presses and repeats apart, and the    *)
(* message that goes to the application or to the overlay thread.  The task *)
(* looks at the level of every button when an interrupt wakes it or when     *)
(* something is due, and may have to wait long before it runs: the           *)
(* application's task has a higher priority.                                *)
(*                                                                         *)
(* A time is kept as its age, up to the age that makes a difference.  The    *)
(* application is in its loop.  Raw handlers come in pairs.  Left out are    *)
(* multiple clicks, which nothing counts, and is_repeating, which nothing    *)
(* reads.                                                                   *)
(***************************************************************************)
EXTENDS Naturals, SequencesExt

CONSTANTS
  Button,
  Debounce,    \* butDEBOUNCE_DELAY
  LongDelay,   \* long_click.delay_ms
  RepeatEvery, \* click.repeat_interval_ms
  AppLen,      \* length of the application's queue: 5
  FirstConfig, \* what the application's buttons may be subscribed to at first
  Offers,      \* the handlers somebody may subscribe: owner, button and kind
  Changes      \* bound: how often subscriptions change, after each of FirstConfig

Kind   == {"click", "repeat", "long", "release", "raw"}
Owner  == {"overlay", "app"}
NoMsg  == <<>>
Never  == LongDelay + RepeatEvery   \* portMAX_DELAY
Order  == SetToSeq(Button)          \* btni = 0, 1 ..

ASSUME ButtonAssumption ==
  /\ IsFiniteSet(Button) /\ Button # {}
  /\ {LongDelay, RepeatEvery, AppLen} \subseteq Nat \ {0} /\ Debounce \in Nat
  /\ FirstConfig \subseteq [Button -> SUBSET Kind] /\ Changes \in [FirstConfig -> Nat]
  /\ Offers \subseteq Owner \X Button \X (Kind \ {"release"})

VARIABLES
  level,   \* the buttons that are down
  note,    \* the task was notified by an interrupt
  hold,    \* what the task knows of each button, and how long ago it was
  cfg,     \* click_config
  pc,      \* where the task is
  cur,     \* the buttons it has still to look at
  btn, who, \* the button in hand, and its owner
  todo,    \* what it has to consider for it
  wake,    \* next_wakeup, as the ticks until then
  msg,     \* _button_message: its handler
  out,     \* the handler that is being sent
  aq, oq,  \* queues: the handler each pointer to the message was sent for
  sent,    \* the clicks a press has got so far
  changed, \* the buttons whose subscriptions changed during the press
  missed,  \* the buttons whose last edge the task need not see
  left     \* what is left of Changes

user  == <<level, missed, note>>
scan  == <<pc, cur, btn, who, todo, wake>>
queue == <<msg, out, aq, oq>>
vars  == <<user, hold, cfg, scan, queue, sent, changed, left>>

Handler == Owner \X Button \X Kind

TypeOK ==
  /\ level \cup missed \cup changed \subseteq Button /\ note \in BOOLEAN
  /\ hold \in [Button -> [pressed : BOOLEAN, did : BOOLEAN, edge : 0 .. Debounce + 1,
                          press : 0 .. LongDelay, repeat : 0 .. RepeatEvery]]
  /\ cfg \in [Owner -> [Button -> SUBSET Kind]]
  /\ pc \in {"sleep", "edge", "scan"} /\ IsSuffix(cur, Order) /\ btn \in Button /\ who \in Owner
  /\ todo \in Seq({"down", "up", "click", "short", "release", "long", "repeat", "again"})
  /\ wake \in 0 .. Never
  /\ {msg, out} \subseteq Handler \cup {NoMsg}
  /\ aq \in Seq(Handler) /\ Len(aq) <= AppLen /\ oq \in Seq(Handler) /\ Len(oq) <= 1
  /\ sent \in [Button -> SUBSET Kind] /\ left \in Nat

Init ==
  /\ level = {} /\ missed = {} /\ note = FALSE
  /\ hold = [b \in Button |-> [pressed |-> FALSE, did |-> FALSE, edge |-> Debounce + 1,
                               press |-> 0, repeat |-> 0]]
  /\ \E c \in FirstConfig : /\ cfg = [o \in Owner |-> IF o = "app" THEN c ELSE [b \in Button |-> {}]]
                            /\ left = Changes[c]
  /\ pc = "sleep" /\ cur = <<>> /\ btn = Order[1] /\ who = "app" /\ todo = <<>> /\ wake = Never
  /\ msg = NoMsg /\ out = NoMsg /\ aq = <<>> /\ oq = <<>>
  /\ sent = [b \in Button |-> {}] /\ changed = {}

(* "A thread owns a button if it has any handler installed" for it.          *)
Owns(o, b) == cfg[o][b] \cap {"click", "long", "raw"} # {}
Owned(b)   == \E o \in Owner : Owns(o, b)
OwnerOf(b) == IF Owns("overlay", b) THEN "overlay" ELSE "app"
InSync(b)  == hold[b].pressed = (b \in level)
Settled(b) == hold[b].edge > Debounce
-----------------------------------------------------------------------------
(* The user, the interrupt and the clock.                                     *)
(* An edge comes too soon when the task has not settled the one before.       *)
Toggle(b) ==
  /\ level' = (level \ {b}) \cup ({b} \ level) /\ note' = TRUE
  /\ missed' = IF InSync(b) /\ ~(Settled(b) /\ Owned(b)) THEN missed \cup {b} ELSE missed \ {b}
  /\ UNCHANGED <<hold, cfg, scan, queue, sent, changed, left>>

Older(n, max) == IF n < max THEN n + 1 ELSE n

Tick ==
  /\ hold' = [b \in Button |->
       [hold[b] EXCEPT !.edge   = Older(@, Debounce + 1),
                       !.press  = IF hold[b].pressed THEN Older(@, LongDelay) ELSE @,
                       !.repeat = IF hold[b].pressed THEN Older(@, RepeatEvery) ELSE @]]
  /\ wake' = (IF wake \in {0, Never} THEN wake ELSE wake - 1)
  /\ UNCHANGED <<user, cfg, pc, cur, btn, who, todo, queue, sent, changed, left>>
-----------------------------------------------------------------------------
(* The button task.                                                           *)
Min2(m, n) == IF m < n THEN m ELSE n

(* When something is due it does not wait, nor take the notification.         *)
WakeUp ==
  /\ pc = "sleep" /\ (note \/ wake = 0)
  /\ note' = (note /\ wake = 0) /\ wake' = Never /\ pc' = "scan" /\ cur' = Order
  /\ UNCHANGED <<level, missed, hold, cfg, btn, who, todo, queue, sent, changed, left>>

NextTurn == pc = "scan" /\ todo = <<>> /\ out = NoMsg

\* Mutant: interrupts are forgotten when the buttons have been looked at.
ToSleep_Clears ==
  /\ NextTurn /\ cur = <<>> /\ pc' = "sleep" /\ note' = FALSE
  /\ UNCHANGED <<level, missed, hold, cfg, cur, btn, who, todo, wake, queue, sent, changed, left>>

ToSleep ==
  /\ NextTurn /\ cur = <<>> /\ pc' = "sleep"
  /\ UNCHANGED <<user, hold, cfg, cur, btn, who, todo, wake, queue, sent, changed, left>>

NoOwner ==
  /\ NextTurn /\ cur # <<>> /\ ~Owned(Head(cur)) /\ cur' = Tail(cur)
  /\ UNCHANGED <<user, hold, cfg, pc, btn, who, todo, wake, queue, sent, changed, left>>

(* "Has something changed?"                                                  *)
Look ==
  /\ NextTurn /\ cur # <<>> /\ Owned(Head(cur))
  /\ btn' = Head(cur) /\ who' = OwnerOf(btn') /\ cur' = Tail(cur)
  /\ \/ ~InSync(btn') /\ Settled(btn') /\ pc' = "edge" /\ UNCHANGED todo
     \/ (InSync(btn') \/ ~Settled(btn')) /\ todo' = <<"long", "repeat">> /\ UNCHANGED pc
  /\ UNCHANGED <<user, hold, cfg, wake, queue, sent, changed, left>>

(* It reads the level once more.                                             *)
Edge ==
  /\ pc = "edge" /\ pc' = "scan"
  /\ LET down == btn \in level
     IN  /\ hold' = [hold EXCEPT ![btn] = [pressed |-> down, did |-> @.did /\ ~down, edge |-> 0,
                                           press |-> 0, repeat |-> 0]]
         /\ todo' = IF down THEN <<"down", "click", "long", "repeat">>
                            ELSE <<"up", "short", "release", "long", "repeat">>
         /\ sent' = IF down THEN [sent EXCEPT ![btn] = {}] ELSE sent
         /\ missed' = missed \ {btn}
  /\ UNCHANGED <<level, note, cfg, cur, btn, who, wake, queue, changed, left>>

(* What it considers next, of the button in hand and its owner's handlers.   *)
Doing(item) == pc = "scan" /\ out = NoMsg /\ todo # <<>> /\ Head(todo) = item
Has(kind)   == kind \in cfg[who][btn]
Held        == hold[btn]

(* button_send_app_click: there is one message for all; those who have a      *)
(* pointer to it see the new one.                                            *)
Send(kind) ==
  LET h == <<who, btn, kind>>
  IN  /\ out' = h /\ msg' = h /\ UNCHANGED <<aq, oq>>
      /\ sent' = [sent EXCEPT ![btn] = @ \cup ({kind} \cap {"click", "long"})]

SendIf(wanted, kind) == IF wanted THEN Send(kind) ELSE UNCHANGED <<queue, sent>>

\* Mutant: a long click and a short one.
OnEdge_Both ==
  /\ \/ Doing("down") /\ SendIf(Has("raw"), "raw")
     \/ Doing("up") /\ SendIf(Has("raw"), "raw")
     \/ Doing("click") /\ SendIf(Has("click") /\ ~Has("long"), "click")
     \/ Doing("short") /\ SendIf(Has("click") /\ Has("long"), "click")
     \/ Doing("release") /\ SendIf(Has("release") /\ Held.did, "release")
  /\ todo' = Tail(todo)
  /\ UNCHANGED <<user, hold, cfg, pc, cur, btn, who, wake, changed, left>>

(* "we need to send a long-click xor a short-click"                          *)
OnEdge ==
  /\ \/ Doing("down") /\ SendIf(Has("raw"), "raw")
     \/ Doing("up") /\ SendIf(Has("raw"), "raw")
     \/ Doing("click") /\ SendIf(Has("click") /\ ~Has("long"), "click")
     \/ Doing("short") /\ SendIf(Has("click") /\ Has("long") /\ ~Held.did, "click")
     \/ Doing("release") /\ SendIf(Has("release") /\ Held.did, "release")
  /\ todo' = Tail(todo)
  /\ UNCHANGED <<user, hold, cfg, pc, cur, btn, who, wake, changed, left>>

(* "Waiting for a long press?"                                               *)
LongDue  == Held.pressed /\ ~Held.did /\ Has("long")

\* Mutant: the later of two wake-ups.
LongWait_Later ==
  /\ Doing("long") /\ LongDue /\ Held.press < LongDelay
  /\ todo' = Tail(todo) /\ wake' = (IF LongDelay - Held.press > wake THEN LongDelay - Held.press ELSE wake)
  /\ UNCHANGED <<user, hold, cfg, pc, cur, btn, who, queue, sent, changed, left>>

LongWait ==
  /\ Doing("long") /\ LongDue /\ Held.press < LongDelay
  /\ todo' = Tail(todo) /\ wake' = Min2(wake, LongDelay - Held.press)
  /\ UNCHANGED <<user, hold, cfg, pc, cur, btn, who, queue, sent, changed, left>>

Long ==
  /\ Doing("long") /\ LongDue /\ Held.press = LongDelay
  /\ todo' = Tail(todo) /\ hold' = [hold EXCEPT ![btn].did = TRUE] /\ Send("long")
  /\ UNCHANGED <<user, cfg, pc, cur, btn, who, wake, changed, left>>

(* "Waiting for a repeat?"                                                   *)
RepeatDue  == Held.pressed /\ Has("click") /\ Has("repeat")
RepeatWait ==
  /\ Doing("repeat") /\ RepeatDue /\ Held.repeat < RepeatEvery
  /\ todo' = Tail(todo) /\ wake' = Min2(wake, RepeatEvery - Held.repeat)
  /\ UNCHANGED <<user, hold, cfg, pc, cur, btn, who, queue, sent, changed, left>>

Repeat ==
  /\ Doing("repeat") /\ RepeatDue /\ Held.repeat = RepeatEvery
  /\ todo' = <<"again">> /\ hold' = [hold EXCEPT ![btn].repeat = 0] /\ Send("click")
  /\ UNCHANGED <<user, cfg, pc, cur, btn, who, wake, changed, left>>

Again ==
  /\ Doing("again") /\ todo' = Tail(todo)
  /\ wake' = (IF Has("repeat") THEN Min2(wake, RepeatEvery - Held.repeat) ELSE 0)
  /\ UNCHANGED <<user, hold, cfg, pc, cur, btn, who, queue, sent, changed, left>>

NotWaiting ==
  /\ \/ Doing("long") /\ ~LongDue
     \/ Doing("repeat") /\ ~RepeatDue
  /\ todo' = Tail(todo)
  /\ IF Held.pressed THEN UNCHANGED <<sent, changed>>
                     ELSE sent' = [sent EXCEPT ![btn] = {}] /\ changed' = changed \ {btn}
  /\ UNCHANGED <<user, hold, cfg, pc, cur, btn, who, wake, queue, left>>

(* The application's queue is given 100 ticks, the overlay's none.  What the   *)
(* message holds when nobody points to it is left out.                       *)
Forget == msg' = IF aq' = <<>> /\ oq' = <<>> /\ out' = NoMsg THEN NoMsg ELSE msg

\* Mutant: nobody looks whether there is room.
PostApp_Pushes ==
  /\ out # NoMsg /\ who = "app" /\ out' = NoMsg
  /\ aq' = Append(aq, out) /\ UNCHANGED oq /\ Forget
  /\ UNCHANGED <<user, hold, cfg, scan, sent, changed, left>>

PostApp ==
  /\ out # NoMsg /\ who = "app" /\ out' = NoMsg
  /\ aq' = (IF Len(aq) < AppLen THEN Append(aq, out) ELSE aq) /\ UNCHANGED oq /\ Forget
  /\ UNCHANGED <<user, hold, cfg, scan, sent, changed, left>>

PostOverlay ==
  /\ out # NoMsg /\ who = "overlay" /\ out' = NoMsg
  /\ oq' = (IF oq = <<>> THEN <<out>> ELSE oq) /\ UNCHANGED aq /\ Forget
  /\ UNCHANGED <<user, hold, cfg, scan, sent, changed, left>>

Task == \/ WakeUp \/ ToSleep \/ NoOwner \/ Look \/ Edge \/ OnEdge \/ LongWait \/ Long
        \/ RepeatWait \/ Repeat \/ Again \/ NotWaiting \/ PostApp \/ PostOverlay
-----------------------------------------------------------------------------
(* The threads that own buttons: they run handlers and change subscriptions.  *)
AppHandles ==
  /\ aq # <<>> /\ aq' = Tail(aq) /\ UNCHANGED <<oq, out>> /\ Forget
  /\ UNCHANGED <<user, hold, cfg, scan, sent, changed, left>>

OverlayHandles ==
  /\ oq # <<>> /\ oq' = <<>> /\ UNCHANGED <<aq, out>> /\ Forget
  /\ UNCHANGED <<user, hold, cfg, scan, sent, changed, left>>

InHand(b) == pc # "sleep" /\ btn = b
Change(o, new) ==
  /\ left > 0 /\ left' = left - 1 /\ new # cfg[o] /\ cfg' = [cfg EXCEPT ![o] = new]
  /\ changed' = changed \cup {b \in Button : new[b] # cfg[o][b] /\ (hold[b].pressed \/ InHand(b))}
  /\ missed' = missed \cup {b \in Button : ~InSync(b) /\ ~Owned(b)'}
  /\ UNCHANGED <<level, note, hold, scan, queue, sent>>

(* button_..._subscribe: a single click takes a repetition away.               *)
With(c, kind) == CASE kind = "click"  -> (c \cup {"click"}) \ {"repeat"}
                   [] kind = "repeat" -> c \cup {"click", "repeat"}
                   [] kind = "long"   -> c \cup {"long", "release"}
                   [] kind = "raw"    -> c \cup {"raw"}
Subscribe(o, b, kind) == <<o, b, kind>> \in Offers /\ Change(o, [cfg[o] EXCEPT ![b] = With(@, kind)])
UnsubscribeAll(o)     == Change(o, [b \in Button |-> {}])

Threads ==
  \/ AppHandles \/ OverlayHandles
  \/ \E o \in Owner : \/ UnsubscribeAll(o)
                      \/ \E b \in Button : \E kind \in Kind : Subscribe(o, b, kind)

Next == (\E b \in Button : Toggle(b)) \/ Tick \/ Task \/ Threads

Spec == Init /\ [][Next]_vars

(* The task is scheduled whenever it has something to do, and time passes.    *)
FairSpec == Spec /\ WF_vars(Task) /\ WF_vars(Tick)
-----------------------------------------------------------------------------
(* "we need to send a long-click xor a short-click" (buttons.c:181): no press *)
(* gets both, whatever the levels do meanwhile; unless the button repeats, or *)
(* its subscriptions change during the press.                                *)
LongXorShort ==
  \A b \in Button : {"click", "long"} \subseteq sent[b] => b \in changed \/ "repeat" \in cfg[OwnerOf(b)][b]

(* An edge is seen, although nobody but an interrupt wakes the task for it and *)
(* it may come while the task looks at another button, or sends; unless it    *)
(* follows within the time of debouncing, or nobody owns the button.          *)
LevelIsSeen == \A b \in Button : ~InSync(b) ~> (InSync(b) \/ b \in missed)

(* A button that is held gets its long click, whatever the others want the    *)
(* task to wake up for.                                                      *)
Waiting(b) == Owned(b) /\ "long" \in cfg[OwnerOf(b)][b] /\ hold[b].pressed /\ ~hold[b].did
HeldIsLong == \A b \in Button : Waiting(b) ~> (hold[b].did \/ ~hold[b].pressed \/ b \notin level \/ b \in changed)
=============================================================================
