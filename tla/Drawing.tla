------------------------------ MODULE Drawing ------------------------------
(***************************************************************************)
(* A frame on its way to the display, and the events that use the same      *)
(* queues.  Three tasks take part: the manager (_draw of appmanager.c), the *)
(* application in its loop (appmanager_app_runloop.c) and the overlay       *)
(* thread (overlay_manager.c).  The manager takes the lock of the frame     *)
(* buffer and asks the application to paint; that one answers "app", the    *)
(* manager asks the overlay, which answers "overlay"; then the manager      *)
(* sends the buffer to the display and gives the lock back.  Every message  *)
(* of this is lost when its queue is full.                                  *)
(*                                                                         *)
(* How an application starts and ends is AppManager's; here it comes and    *)
(* goes.  Overlay windows are counted.  An event is one packet, of one      *)
(* command, and there is one at a time.                                     *)
(***************************************************************************)
EXTENDS Naturals, SequencesExt

CONSTANTS
  ManLen, AppLen,   \* lengths of the manager's and the application's queue: 3 and 5
  MaxWins,          \* how many overlay windows there may be
  MaxSubs,          \* how many subscriptions an application makes
  Troubles          \* how often somebody else uses a queue, or an application ends

ASSUME DrawAssumption ==
  /\ {ManLen, AppLen} \subseteq Nat \ {0}
  /\ {MaxWins, MaxSubs, Troubles} \subseteq Nat

VARIABLES
  mq,       \* _app_thread_queue: what _draw is called with, and other commands
  man,      \* the manager: idle, or sending a frame to the display
  last,     \* _last_state: what _draw was called with last
  lock,     \* _draw_mutex, always the manager's
  aged,     \* _last_complete_draw is 250 ms ago
  status,   \* of the application's thread
  aq, app,  \* its queue, and where it is
  oq, ov,   \* the queue of the overlay thread, of one, and where that is
  wins,     \* how many overlay windows there are
  subs,     \* subscribers of the event's command: the application's, the overlay's
  ev,       \* the event: none yet, live or destroyed
  late,     \* 250 ms went by while a frame was on its way
  misused,  \* an event was used or destroyed after it was destroyed
  crowded,  \* a command had two subscribers
  left      \* what is left of Troubles

frame == <<mq, man, last, lock, aged, late>>
event == <<subs, ev, misused, crowded>>
vars  == <<frame, status, aq, app, oq, ov, wins, event, left>>

TypeOK ==
  /\ mq \in Seq({"request", "app", "overlay", "other"}) /\ Len(mq) <= ManLen
  /\ man \in {"idle", "frame"} /\ last \in {"request", "app", "overlay"}
  /\ {lock, aged, late, misused, crowded} \subseteq BOOLEAN
  /\ status \in {"none", "run", "closing"}
  /\ aq \in Seq({"draw", "event"}) /\ Len(aq) <= AppLen
  /\ app \in [pc : {"out", "loop", "paint", "forward"}, n : 0 .. MaxSubs + 1]
  /\ oq \in Seq({"draw", "event", "create", "destroy"}) /\ Len(oq) <= 1
  /\ ov \in {"wait", "paint", "notify", "free"}
  /\ wins \in 0 .. MaxWins
  /\ subs \in [app : 0 .. MaxSubs, ov : 0 .. 1]
  /\ ev \in {"none", "live", "dead"} /\ left \in 0 .. Troubles

At(pc) == [pc |-> pc, n |-> 0]

Init ==
  /\ mq = <<>> /\ man = "idle" /\ last = "overlay" /\ lock = FALSE /\ aged = TRUE /\ late = FALSE
  /\ status = "none" /\ aq = <<>> /\ app = At("out") /\ oq = <<>> /\ ov = "wait" /\ wins = 0
  /\ subs \in {[app |-> 0, ov |-> n] : n \in 0 .. 1}
  /\ ev = "none" /\ misused = FALSE /\ crowded = FALSE /\ left = Troubles

Room(q, m, len) == IF Len(q) < len THEN Append(q, m) ELSE q

(* appmanager_post_draw_update: a full queue loses it. *)
PostUpdate(m)  == mq' = Room(mq, m, ManLen)
PostOverlay(m) == oq' = Room(oq, m, 1)
PostRequests(n) == mq' = mq \o [i \in 1 .. Min({n, ManLen - Len(mq)}) |-> "request"]

(* Somebody has the frame, or a message that hands it over. *)
OnItsWay ==
  \/ {"app", "overlay"} \cap Range(mq) # {} \/ man = "frame"
  \/ app.pc = "paint" \/ (app.pc # "out" /\ "draw" \in Range(aq))
  \/ ov = "paint" \/ oq = <<"draw">>
-----------------------------------------------------------------------------
(* The manager.                                                              *)
ManIdle(m) == man = "idle" /\ mq # <<>> /\ Head(mq) = m /\ mq' = Tail(mq)

(* _draw(1): the overlay's turn, or the display's.  A window draws itself     *)
(* again whatever else there is.                                             *)
OverlayTurn ==
  IF wins > 0
  THEN last' = "app" /\ PostOverlay("draw") /\ UNCHANGED man
  ELSE last' = "overlay" /\ man' = "frame" /\ UNCHANGED oq

Lost == last # "overlay" /\ aged   \* "We lost a draw packet!"

\* Mutant: who finds the lock taken takes the frame for lost at once.
ManRequest_Hasty ==
  /\ ManIdle("request")
  /\ \/ /\ last = "request" /\ UNCHANGED <<man, last, lock, aged, aq, oq>>
     \/ /\ last # "request"
        /\ lock' = TRUE /\ aged' = FALSE
        /\ \/ status = "run" /\ last' = "request" /\ aq' = Room(aq, "draw", AppLen) /\ UNCHANGED <<man, oq>>
           \/ status # "run" /\ OverlayTurn /\ UNCHANGED aq
  /\ UNCHANGED <<late, status, app, ov, wins, event, left>>

\* Mutant: a lost frame is never given up.
ManRequest_Trusts ==
  /\ ManIdle("request")
  /\ \/ last = "request" /\ UNCHANGED <<man, last, lock, aged, aq, oq>>
     \/ last # "request" /\ lock /\ last' = "request" /\ UNCHANGED <<man, lock, aged, aq, oq>>
     \/ /\ last # "request" /\ ~lock
        /\ lock' = TRUE /\ aged' = FALSE
        /\ \/ status = "run" /\ last' = "request" /\ aq' = Room(aq, "draw", AppLen) /\ UNCHANGED <<man, oq>>
           \/ status # "run" /\ OverlayTurn /\ UNCHANGED aq
  /\ UNCHANGED <<late, status, app, ov, wins, event, left>>

(* _draw(0) *)
ManRequest ==
  /\ ManIdle("request")
  /\ \/ ~Lost /\ last = "request" /\ UNCHANGED <<man, last, lock, aged, aq, oq>>
     \/ ~Lost /\ last # "request" /\ lock /\ last' = "request" /\ UNCHANGED <<man, lock, aged, aq, oq>>
     \/ /\ Lost \/ (last # "request" /\ ~lock)
        /\ lock' = TRUE /\ aged' = FALSE
        /\ \/ status = "run" /\ last' = "request" /\ aq' = Room(aq, "draw", AppLen) /\ UNCHANGED <<man, oq>>
           \/ status # "run" /\ OverlayTurn /\ UNCHANGED aq
  /\ UNCHANGED <<late, status, app, ov, wins, event, left>>

ManApp ==
  /\ ManIdle("app") /\ OverlayTurn
  /\ UNCHANGED <<lock, aged, late, status, aq, app, ov, wins, event, left>>

ManOverlay ==
  /\ ManIdle("overlay") /\ last' = "overlay" /\ man' = "frame"
  /\ UNCHANGED <<lock, aged, late, status, aq, app, oq, ov, wins, event, left>>

ManOther ==
  /\ ManIdle("other")
  /\ UNCHANGED <<man, last, lock, aged, late, status, aq, app, oq, ov, wins, event, left>>

(* display_draw has waited for the last row. *)
FrameDone ==
  /\ man = "frame" /\ man' = "idle" /\ lock' = FALSE
  /\ UNCHANGED <<mq, last, aged, late, status, aq, app, oq, ov, wins, event, left>>

Manager == ManRequest \/ ManApp \/ ManOverlay \/ ManOther \/ FrameDone
-----------------------------------------------------------------------------
(* The application in its loop.                                              *)
Trouble == left > 0 /\ left' = left - 1

AppStart ==
  /\ status = "none" /\ status' = "run" /\ app' = At("loop") /\ aq' = <<>>
  /\ UNCHANGED <<frame, oq, ov, wins, event, left>>

(* It is told to quit: the manager takes its subscriptions away, at most two. *)
AppQuits ==
  /\ Trouble /\ status = "run" /\ status' = "closing"
  /\ subs' = [subs EXCEPT !.app = IF @ > 2 THEN @ - 2 ELSE 0]
  /\ UNCHANGED <<frame, aq, app, oq, ov, wins, ev, misused, crowded>>

AppLeaves ==
  /\ status = "closing" /\ app.pc = "loop" /\ app' = At("out")
  /\ UNCHANGED <<frame, status, aq, oq, ov, wins, event, left>>

(* Its task is deleted: when it is out, or when it does not get there. *)
AppDeleted ==
  /\ status = "closing" /\ status' = "none" /\ app' = At("out")
  /\ UNCHANGED <<frame, aq, oq, ov, wins, event, left>>

AppTurn(m) == app.pc = "loop" /\ aq # <<>> /\ Head(aq) = m /\ aq' = Tail(aq)

AppDraw ==
  /\ AppTurn("draw") /\ status = "run" /\ app' = At("paint")
  /\ UNCHANGED <<frame, status, oq, ov, wins, event, left>>

\* Mutant: the answer waits for nothing and makes room for itself.
AppPainted_Pushes ==
  /\ app.pc = "paint" /\ app' = At("loop") /\ mq' = Append(mq, "app")
  /\ UNCHANGED <<man, last, lock, aged, late, status, aq, oq, ov, wins, event, left>>

(* _draw of the application *)
AppPainted ==
  /\ app.pc = "paint" /\ app' = At("loop") /\ PostUpdate("app")
  /\ UNCHANGED <<man, last, lock, aged, late, status, aq, oq, ov, wins, event, left>>

(* An application that is asked to quit drops its messages. *)
AppDrops ==
  /\ app.pc = "loop" /\ status # "run" /\ aq # <<>> /\ aq' = Tail(aq)
  /\ UNCHANGED <<frame, status, app, oq, ov, wins, event, left>>

(* A timer or a button: what changed is to be drawn. *)
AppAsks ==
  /\ app.pc = "loop" /\ status = "run" /\ PostUpdate("request")
  /\ UNCHANGED <<man, last, lock, aged, late, status, aq, app, oq, ov, wins, event, left>>

(* app_back_single_click_handler with an overlay on the screen. *)
AppBack ==
  /\ Trouble /\ app.pc = "loop" /\ status = "run" /\ wins > 0
  /\ PostOverlay("destroy") /\ PostUpdate("request")
  /\ UNCHANGED <<man, last, lock, aged, late, status, aq, app, ov, wins, event>>

AppSubscribes ==
  /\ app.pc = "loop" /\ status = "run" /\ subs.app < MaxSubs
  /\ subs' = [subs EXCEPT !.app = @ + 1] /\ crowded' = (crowded \/ subs.app + subs.ov > 0)
  /\ UNCHANGED <<frame, status, aq, app, oq, ov, wins, ev, misused, left>>

(* event_service_event_trigger: one message to the overlay per subscriber. *)
AppEvent ==
  /\ AppTurn("event") /\ status = "run"
  /\ app' = [pc |-> "forward", n |-> subs.app + subs.ov]
  /\ misused' = (misused \/ ev = "dead")
  /\ UNCHANGED <<frame, status, oq, ov, wins, subs, ev, crowded, left>>

AppForwards ==
  /\ app.pc = "forward"
  /\ \/ app.n > 0 /\ PostOverlay("event") /\ app' = [app EXCEPT !.n = @ - 1]
     \/ app.n = 0 /\ app' = At("loop") /\ UNCHANGED oq
  /\ UNCHANGED <<frame, status, aq, ov, wins, event, left>>

AppRuns == AppDraw \/ AppPainted \/ AppDrops \/ AppEvent \/ AppForwards
App == AppStart \/ AppQuits \/ AppLeaves \/ AppDeleted \/ AppRuns \/ AppAsks \/ AppBack \/ AppSubscribes
-----------------------------------------------------------------------------
(* The overlay thread.                                                       *)
OvTurn(m) == ov = "wait" /\ oq = <<m>> /\ oq' = <<>>

OvDraw ==
  /\ OvTurn("draw") /\ ov' = "paint"
  /\ UNCHANGED <<frame, status, aq, app, wins, event, left>>

OvPainted ==
  /\ ov = "paint" /\ ov' = "wait" /\ PostUpdate("overlay")
  /\ UNCHANGED <<man, last, lock, aged, late, status, aq, app, oq, wins, event, left>>

OvCreate ==
  /\ OvTurn("create") /\ wins' = (IF wins < MaxWins THEN wins + 1 ELSE wins) /\ PostUpdate("request")
  /\ UNCHANGED <<man, last, lock, aged, late, status, aq, app, ov, event, left>>

OvDestroy ==
  /\ OvTurn("destroy") /\ wins' = (IF wins > 0 THEN wins - 1 ELSE 0) /\ PostUpdate("request")
  /\ UNCHANGED <<man, last, lock, aged, late, status, aq, app, ov, event, left>>

(* A subscriber of the overlay thread shows a notification. *)
OvEvent ==
  /\ OvTurn("event") /\ ov' = (IF subs.ov > 0 THEN "notify" ELSE "free")
  /\ UNCHANGED <<frame, status, aq, app, wins, event, left>>

(* The overlay thread asks itself for the window, and waits 1000 ticks for    *)
(* room in its queue that only it can make.                                  *)
OvNotify ==
  /\ ov = "notify" /\ ov' = "free"
  /\ \/ oq = <<>> /\ oq' = <<"create">> /\ UNCHANGED <<aged, late>>
     \/ oq # <<>> /\ aged' = TRUE /\ late' = (late \/ OnItsWay) /\ UNCHANGED oq
  /\ UNCHANGED <<mq, man, last, lock, status, aq, app, wins, event, left>>

\* Mutant: what nobody subscribes to is destroyed too, after all the others.
OvFree_Always ==
  /\ ov = "free" /\ ov' = "wait"
  /\ LET n == subs.app + subs.ov + 1
     IN  ev' = "dead" /\ misused' = (misused \/ n > 1 \/ ev = "dead") /\ PostRequests(n - 1)
  /\ UNCHANGED <<man, last, lock, aged, late, status, aq, app, oq, wins, subs, crowded, left>>

(* The event is destroyed, and a frame asked for, once per subscriber. *)
OvFree ==
  /\ ov = "free" /\ ov' = "wait"
  /\ LET n == subs.app + subs.ov
     IN  /\ ev' = (IF n > 0 THEN "dead" ELSE ev)
         /\ misused' = (misused \/ n > 1 \/ (n = 1 /\ ev = "dead"))
         /\ PostRequests(n)
  /\ UNCHANGED <<man, last, lock, aged, late, status, aq, app, oq, wins, subs, crowded, left>>

Overlay == OvDraw \/ OvPainted \/ OvCreate \/ OvDestroy \/ OvEvent \/ OvNotify \/ OvFree
-----------------------------------------------------------------------------
(* The others: tasks that show a window, send the manager a command or post   *)
(* an event, timers of overlay windows, and time.                            *)
PostWindow ==
  /\ Trouble /\ \E m \in {"create", "destroy"} : PostOverlay(m)
  /\ UNCHANGED <<frame, status, aq, app, ov, wins, event>>

PostOther ==
  /\ Trouble /\ \E m \in {"request", "other"} : PostUpdate(m)
  /\ UNCHANGED <<man, last, lock, aged, late, status, aq, app, oq, ov, wins, event>>

(* event_service_post, of an event nobody has heard of yet: to the            *)
(* application, which passes it on; to the overlay when there is none.  The    *)
(* queue of the application may be full for 20 ticks, and that of the overlay  *)
(* at once: then nobody destroys it.                                         *)
Unheard == "event" \notin Range(aq) \cup Range(oq) /\ app.pc # "forward" /\ ov \notin {"notify", "free"}

PostEvent ==
  /\ Trouble /\ Unheard
  /\ \/ status # "run" /\ ev' = "live" /\ PostOverlay("event") /\ UNCHANGED aq
     \/ status = "run" /\ Len(aq) < AppLen /\ ev' = "live" /\ aq' = Append(aq, "event") /\ UNCHANGED oq
     \/ status = "run" /\ Len(aq) = AppLen /\ ev' = "dead" /\ UNCHANGED <<aq, oq>>
  /\ UNCHANGED <<frame, status, app, ov, wins, subs, misused, crowded>>

Time ==
  /\ ~aged /\ aged' = TRUE /\ late' = (late \/ OnItsWay)
  /\ UNCHANGED <<mq, man, last, lock, status, aq, app, oq, ov, wins, event, left>>

Next == Manager \/ App \/ Overlay \/ PostWindow \/ PostOther \/ PostEvent \/ Time

Spec == Init /\ [][Next]_vars

(* The tasks are scheduled, time passes, and the manager starts an            *)
(* application and deletes one that was told to quit.                        *)
FairSpec == /\ Spec
            /\ WF_vars(Manager) /\ WF_vars(AppRuns) /\ WF_vars(Overlay)
            /\ WF_vars(AppStart) /\ WF_vars(AppLeaves) /\ WF_vars(AppDeleted) /\ WF_vars(Time)
-----------------------------------------------------------------------------
(* "Get a lock and then draw" (appmanager_app_runloop.c:224): the buffer is    *)
(* painted by one task at a time, and not while the display reads it; as long  *)
(* as no frame takes 250 ms.  The lock alone does not see to it, since those   *)
(* who paint never ask for it.                                               *)
Users == (IF app.pc = "paint" THEN {"app"} ELSE {}) \cup (IF ov = "paint" THEN {"overlay"} ELSE {})
           \cup (IF man = "frame" THEN {"display"} ELSE {})
OnePainter == ~late => /\ \A u, v \in Users : u = v
                       /\ Users # {} => lock

(* A message lost to a full queue, an application that dies with a frame in    *)
(* hand, a frame given up too early: who goes on asking for frames gets them,  *)
(* unless the manager's queue is full whenever a painter answers.             *)
Choked     == (AppPainted \/ OvPainted) /\ mq' = mq
FramesGoOn == ([]<><<AppAsks>>_vars /\ <>[][~Choked]_vars) => []<>(man = "frame")

(* An event is destroyed once, and nobody uses it afterwards, on whichever    *)
(* way it goes; as long as a command has one subscriber.                      *)
EventsDieOnce == misused => crowded
=============================================================================
