------------------------------- MODULE Timers -------------------------------
(***************************************************************************)
(* The timers of a thread: an ordered list, linked through the timers      *)
(* themselves, in which the application's timers (app_timer.c), the tick   *)
(* timer (tick_timer_service.c, one for the whole watch) and animations    *)
(* (animation.c) wait.  Callbacks and message handlers change the list     *)
(* while the loop takes timers from its head, and the manager's task takes *)
(* the tick timer out of the list of an application it asks to quit.       *)
(*                                                                         *)
(* The application has the higher priority: its steps are whole turns of   *)
(* its loop, the manager's single reads and writes.  A callback or handler *)
(* makes one call to the timers at most; more calls are more turns.        *)
(*                                                                         *)
(* The list is kept as in memory: next[Root] is timer_head, and a node     *)
(* keeps its next when it leaves.  due[n] says how many ticks it takes     *)
(* until n's "when" has passed, and is 0 while n is not in the list; a     *)
(* delay of 0 takes one.  A handle is the id of a timer; ids repeat after  *)
(* 65536 registrations, here as soon as no timer has them.                 *)
(* animation_schedule is that of one animation, whose frames only draw.    *)
(* What is in a list has its callback, and overlay_timer_recalc is left     *)
(* out: it lets the caller wait until the overlay thread has room.          *)
(* Its theorems are in AppManagerProofs.                                   *)
(***************************************************************************)
EXTENDS Integers, FiniteSets

CONSTANTS
    AppTimer,   \* blocks of the application's heap for its timers
    Tick,       \* the tick timer
    Anim,       \* an animation of the application
    Root,       \* the thread's timer_head
    Nil,
    Id,         \* handles
    Zero,       \* the handle 0
    AppDelay, TickDelay, AnimDelay,   \* delays: of the timers, to the next tick, of animations
    MaxLate,    \* how many ticks the application may be late
    AfterHarm   \* whether behaviours are followed beyond harm

ASSUME TimerAssumption ==
    /\ IsFiniteSet(AppTimer)
    /\ {Tick, Anim, Root, Nil} \cap AppTimer = {}
    /\ Tick # Anim /\ Root \notin {Tick, Anim} /\ Nil \notin {Tick, Anim, Root}
    /\ Zero \in Id /\ Nil \notin Id
ASSUME DelayAssumption ==
    /\ AppDelay \cup TickDelay \cup AnimDelay \subseteq Nat \ {0}
    /\ MaxLate \in Nat /\ AfterHarm \in BOOLEAN

Node == AppTimer \cup {Tick, Anim}
Slot == Node \cup {Root}

VARIABLES
    ram,        \* the list and the fields of what is in it, see TimersInit
    endless,    \* whether the animation has no end (ANIMATION_DURATION_INFINITE)
    owner,      \* the application: "runs", "told" to quit, "left" its loop, "done"
    mstep, at,  \* the manager in appmanager_timer_remove: where, and its tnext
    clean       \* history: none of the harms that OnlyHarmFaults names has happened

timersVars == <<ram, endless, owner, mstep, at, clean>>

TimersInit ==
    /\ ram = [next    |-> [s \in Slot |-> Nil],
              due     |-> [n \in Node |-> 0],
              id      |-> [n \in AppTimer |-> Nil],   \* Nil: the block is free
              onqueue |-> [n \in {Tick, Anim} |-> FALSE],
              playing |-> FALSE,                      \* the animation's "scheduled"
              fault   |-> "none"]
    /\ endless \in BOOLEAN
    /\ owner = "runs"
    /\ mstep = "idle" /\ at = Root
    /\ clean = TRUE

-----------------------------------------------------------------------------
(***************************************************************************)
(* The list.                                                               *)
(***************************************************************************)

\* A walk from the head on stops at the first of stops, or at Nil, past the end.
\* One that has not stopped after as many steps as there are slots goes round.
WalkTo(r, stops) ==
    LET step == [s \in Slot \cup {Nil} |-> IF s \in stops \cup {Nil} THEN s ELSE r.next[s]]
        here[i \in 0 .. Cardinality(Slot)] == IF i = 0 THEN Root ELSE step[here[i - 1]]
    IN  here[Cardinality(Slot)]

InList(r, n) == WalkTo(r, {n}) = n
Listed(r) == {n \in Node : InList(r, n)}
Cyclic(r) == WalkTo(r, {}) # Nil

Faulted(r, f) == [r EXCEPT !.fault = IF @ = "none" THEN f ELSE @]

\* Op of a value that is computed once.
With(v, Op(_)) == CHOOSE x \in {Op(w) : w \in {v}} : TRUE

\* What a walk does at the slot it stops at; one that misses goes on for ever,
\* or off the end.
At(r, stops, Change(_), missed) ==
    LET Stop(s) == IF s \in stops THEN Change(s)
                   ELSE Faulted(r, IF s = Nil THEN missed ELSE "hang")
        From(set) == With(WalkTo(r, set), Stop)
    IN  With(stops, From)

\* Mutant: always to the front.
Added_Front(r, n, d) ==
    [r EXCEPT !.due[n] = d, !.next = [@ EXCEPT ![n] = r.next[Root], ![Root] = n]]

Added(r, n, d) ==
    LET Insert(s) == [r EXCEPT !.due[n] = d, !.next = [@ EXCEPT ![n] = r.next[s], ![s] = n]]
    IN  At(r, {s \in Slot : r.next[s] \in {Nil, n} \/ d <= r.due[r.next[s]]}, Insert, "hang")

Removed(r, n) ==
    LET Skip(s) == [r EXCEPT !.next[s] = r.next[n], !.due[n] = 0]
    IN  At(r, {s \in Slot : r.next[s] = n}, Skip, "notFound")

-----------------------------------------------------------------------------
(***************************************************************************)
(* What a callback or handler of the application calls.  Each operator     *)
(* gives the memory after the call.                                        *)
(***************************************************************************)

Registered(r, n, i, d) == [Added(r, n, d) EXCEPT !.id[n] = i]

\* The lookup takes every node for an AppTimer: where an AppTimer has its id, an
\* animation has the upper half of its play count, and the tick timer half of
\* a code address, which no id reaches.  It gives up at a node that follows
\* itself.
HasId(r, n, h) == IF n \in AppTimer THEN r.id[n] = h ELSE n = Anim /\ h = Zero
ById(r, h) ==
    LET hits == {s \in Slot : r.next[s] # Nil /\ HasId(r, r.next[s], h)}
        Found(s) == IF s \in hits THEN {r.next[s]} ELSE {}
    IN  With(WalkTo(r, hits), Found)
Freed(r, n) == IF n \in AppTimer THEN [r EXCEPT !.id[n] = Nil] ELSE r

Cancelled(r, h) ==
    {Freed(Removed(r, n), n) : n \in ById(r, h)}
\* Mutant: the delay counts from when the timer was due.
Rescheduled_Extends(r, h, d) ==
    LET Move(n) == LET Add(q) == Added(q, n, r.due[n] + d) IN With(Removed(r, n), Add)
    IN  {Move(n) : n \in ById(r, h)}

\* Of an animation the flag "scheduled" is read where its play count is.
Rescheduled(r, h, d) ==
    LET Move(n) == LET Add(q) == Added(q, n, d) IN With(Removed(r, n), Add)
    IN  {Move(n) : n \in ById(r, h)} \cup {q \in {r} : Anim \in ById(r, h)}

OnQueue(r, n, b) == [r EXCEPT !.onqueue[n] = b]
OffQueue(r, n) == OnQueue(IF r.onqueue[n] THEN Removed(r, n) ELSE r, n, FALSE)
\* To the list, whether it is there or not.
Queued(r, n, d) ==
    LET Add(q) == OnQueue(Added(q, n, d), n, TRUE) IN With(OffQueue(r, n), Add)
TickAdded(r, d) == Queued(r, Tick, d)
\* Mutant: the flag stays.
TickStopped_KeepsFlag(r) == IF r.onqueue[Tick] THEN Removed(r, Tick) ELSE r

TickStopped(r) == OffQueue(r, Tick)

\* animation_schedule with a delay, or without one and its first update.
Scheduled(r, d) ==
    IF r.playing THEN r ELSE [Queued(r, Anim, d) EXCEPT !.playing = TRUE]
Unscheduled(r) ==
    IF ~r.playing THEN r ELSE OnQueue([r EXCEPT !.playing = FALSE], Anim, FALSE)

\* One call, or none, and what it leaves, with whether it does harm: cancelling
\* finds an animation, or unscheduling leaves the animation in the list.
Call(r, Then(_, _)) ==
    \/ Then(r, FALSE)
    \/ \E n \in AppTimer, i \in Id, d \in AppDelay :
          /\ r.id[n] = Nil /\ \A m \in AppTimer : r.id[m] # i
          /\ Then(Registered(r, n, i, d), FALSE)
    \/ \E h \in Id : \E c \in Cancelled(r, h) : Then(c, Anim \in ById(r, h))
    \/ \E h \in Id, d \in AppDelay : \E c \in Rescheduled(r, h, d) : Then(c, FALSE)
    \/ \E d \in TickDelay : Then(TickAdded(r, d), FALSE)
    \/ Then(TickStopped(r), FALSE)
    \/ \E d \in AnimDelay : Then(Scheduled(r, d), FALSE)
    \/ Then(Unscheduled(r), r.playing /\ InList(r, Anim))

-----------------------------------------------------------------------------
(***************************************************************************)
(* The application's task.                                                 *)
(***************************************************************************)

\* The manager stands inside the list of the tick timer.
Removing == mstep \in {"walk", "unlink", "clear"}

\* An application's step leaves r; a change of the list or of the tick timer's
\* flag under the hands of the manager is harm.
Leaves(r, harms) ==
    /\ ram' = r
    /\ clean' = (clean /\ ~harms
                    /\ ~(Removing /\ (r.next # ram.next \/ r.onqueue # ram.onqueue)))

First == ram.next[Root]
Dequeued == [ram EXCEPT !.next[Root] = ram.next[First], !.due[First] = 0]

\* Mutant: the call comes first, and then the head is taken out, whoever it is.
ExpireAppTimer_CallsFirst ==
    /\ First \in AppTimer
    /\ LET Pop(c)         == IF c.next[Root] = Nil THEN c
                             ELSE [c EXCEPT !.next[Root] = c.next[c.next[Root]]]
           Done(c, harms) == Leaves(Freed(Pop(c), First), harms)
       IN  Call(ram, Done)

ExpireAppTimer ==
    /\ First \in AppTimer
    /\ LET Done(c, harms) == Leaves(Freed(c, First), harms)
       IN  \E r \in {Dequeued} : Call(r, Done)
ExpireTick ==
    /\ First = Tick
    /\ \E d \in TickDelay :
         \E r \in {TickAdded(OnQueue(Dequeued, Tick, FALSE), d)} : Call(r, Leaves)
AnimDone ==
    /\ First = Anim /\ ~endless
    /\ \E r \in {[OnQueue(Dequeued, Anim, FALSE) EXCEPT !.playing = FALSE]} : Call(r, Leaves)
\* An animation without an end is put back without its flag.
AnimNext ==
    /\ First = Anim
    /\ Leaves(OnQueue(Added(Dequeued, Anim, 1), Anim, ~endless), FALSE)

Works == ram.fault = "none" /\ (clean \/ AfterHarm)

\* The turn of the loop when the first timer is due.
Expire ==
    /\ Works /\ owner \in {"runs", "told"}
    /\ First # Nil /\ ram.due[First] <= 0
    /\ ExpireAppTimer \/ ExpireTick \/ AnimDone \/ AnimNext
    /\ UNCHANGED <<endless, owner, mstep, at>>

\* A button, an event or a window's load: before the quit is taken, and again
\* while the application's main ends.
Handle ==
    /\ Works /\ owner \in {"runs", "told", "left"}
    /\ Call(ram, Leaves)
    /\ UNCHANGED <<endless, owner, mstep, at>>

LeaveLoop ==
    /\ Works /\ owner = "told"
    /\ owner' = "left"
    /\ UNCHANGED <<ram, endless, mstep, at, clean>>

EndMain ==
    /\ Works /\ owner = "left"
    /\ owner' = "done"
    /\ UNCHANGED <<ram, endless, mstep, at, clean>>

-----------------------------------------------------------------------------
(***************************************************************************)
(* The manager's task and time.                                            *)
(***************************************************************************)

\* tick_timer_service_unsubscribe_thread: the flag, the walk, the unlinking
\* and the flag again.
AskQuit ==
    /\ Works /\ mstep = "idle" /\ owner = "runs"
    /\ mstep' = IF ram.onqueue[Tick] THEN "walk" ELSE "tell"
    /\ at' = Root
    /\ UNCHANGED <<ram, endless, owner, clean>>
WalkOn ==
    /\ Works /\ mstep = "walk"
    /\ ram.next[at] # Tick
    /\ IF ram.next[at] = Nil
       THEN ram' = Faulted(ram, "notFound") /\ at' = at
       ELSE at' = ram.next[at] /\ ram' = ram
    /\ UNCHANGED <<endless, owner, mstep, clean>>
WalkFinds ==
    /\ Works /\ mstep = "walk"
    /\ ram.next[at] = Tick
    /\ mstep' = "unlink"
    /\ UNCHANGED <<ram, endless, owner, at, clean>>
Unlink ==
    /\ Works /\ mstep = "unlink"
    /\ ram' = [ram EXCEPT !.next[at] = ram.next[Tick], !.due[Tick] = 0]
    /\ mstep' = "clear"
    /\ UNCHANGED <<endless, owner, at, clean>>
ClearFlag ==
    /\ Works /\ mstep = "clear"
    /\ ram' = OnQueue(ram, Tick, FALSE)
    /\ mstep' = "tell" /\ at' = Root
    /\ UNCHANGED <<endless, owner, clean>>
Tell ==
    /\ Works /\ mstep = "tell"
    /\ owner' = "told" /\ mstep' = "idle"
    /\ UNCHANGED <<ram, endless, at, clean>>

\* The application is torn down, or killed at its deadline, and the next one
\* started: an empty list and a new heap.  The tick timer is nobody's and keeps
\* its fields; a subscription that is left is harm.
Restart ==
    /\ Works /\ mstep = "idle" /\ owner \in {"told", "left", "done"}
    /\ ram' = [ram EXCEPT !.next = [s \in Slot |-> IF s = Tick THEN @[s] ELSE Nil],
                          !.due = [n \in Node |-> 0],
                          !.id = [n \in AppTimer |-> Nil],
                          !.onqueue[Anim] = FALSE,
                          !.playing = FALSE]
    /\ owner' = "runs"
    /\ clean' = (clean /\ ~ram.onqueue[Tick])
    /\ UNCHANGED <<endless, mstep, at>>

\* A tick.  The application is at most MaxLate ticks late, except out of its loop.
TimePasses ==
    /\ Works
    /\ owner \in {"runs", "told"} /\ First # Nil => ram.due[First] > -MaxLate
    /\ \E waits \in {Listed(ram)} :
          ram' = [ram EXCEPT !.due = [n \in Node |->
                     IF n \in waits /\ @[n] > -MaxLate THEN @[n] - 1 ELSE @[n]]]
    /\ UNCHANGED <<endless, owner, mstep, at, clean>>

TimersNext ==
    \/ Expire \/ Handle \/ LeaveLoop \/ EndMain
    \/ AskQuit \/ WalkOn \/ WalkFinds \/ Unlink \/ ClearFlag \/ Tell
    \/ Restart \/ TimePasses

TimersSpec == TimersInit /\ [][TimersNext]_timersVars

\* The loop is the highest task of its watch, and time goes on.
TimersFairSpec == TimersSpec /\ WF_timersVars(Expire) /\ WF_timersVars(TimePasses)

-----------------------------------------------------------------------------
(***************************************************************************)
(* Properties.                                                             *)
(***************************************************************************)

Coming == UNION {1 .. d : d \in AppDelay \cup TickDelay \cup AnimDelay \cup {1}}
TimersTypeOK ==
    /\ ram \in [next : [Slot -> Node \cup {Nil}], due : [Node -> -MaxLate .. 0 \cup Coming],
                id : [AppTimer -> Id \cup {Nil}], onqueue : [{Tick, Anim} -> BOOLEAN],
                playing : BOOLEAN, fault : {"none", "hang", "notFound"}]
    /\ endless \in BOOLEAN /\ clean \in BOOLEAN
    /\ owner \in {"runs", "told", "left", "done"}
    /\ mstep \in {"idle", "walk", "unlink", "clear", "tell"}
    /\ at \in Slot

\* Who waits, by the flags and blocks and not by the list.
Waiting ==
    {n \in AppTimer : ram.id[n] # Nil}
    \cup {n \in {Tick} : ram.onqueue[n] /\ mstep # "clear"}
    \cup {n \in {Anim} : IF endless THEN ram.playing ELSE ram.onqueue[n]}

\* Whatever callbacks add, move and cancel, the list holds each timer that
\* waits, once, no other, and in the order of time (appmanager_app_timer.c:57:
\* the head is the only one the loop looks at).
ListIsWaiting ==
    clean /\ ram.fault = "none" =>
        /\ ~Cyclic(ram)
        /\ Listed(ram) = Waiting
        /\ \A n \in Waiting : ram.next[n] # Nil =>
              ram.next[n] # n /\ ram.due[n] <= ram.due[ram.next[n]]

\* A walk hangs or misses its timer (the assertion of appmanager_app_timer.c:93)
\* only after one of four things: a cancelled handle that finds an animation, an
\* animation that is unscheduled, a list that changes under the manager, a tick
\* subscription that outlives its application.
OnlyHarmFaults == clean => ram.fault = "none"

\* A timer that is due is called, moved or cancelled, however many others are
\* registered without a delay meanwhile.
TimersFire ==
    \A n \in AppTimer :
        (owner = "runs" /\ ram.id[n] # Nil /\ ram.due[n] <= 0)
            ~> (ram.id[n] = Nil \/ ram.due[n] > 0 \/ owner # "runs" \/ ~clean)

\* appmanager_app_timer.c:93 asserts that whoever removes a timer finds it.
RemovedIsFound == ram.fault # "notFound"

=============================================================================
