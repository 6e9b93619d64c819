----------------------------- MODULE AppManager -----------------------------
(***************************************************************************)
(* The application manager of RebbleOS (rcore/appmanager.c and its app_api  *)
(* and app_runloop parts), for the main application thread: the manager     *)
(* task that takes commands from a queue of three, the task of the          *)
(* application with its own queue, and the tasks and the phone that post    *)
(* to both.  `status', `task_handle' and `shutdown_at_tick' of the thread   *)
(* record are shared by manager and application without a lock; a step      *)
(* ends wherever the other one can get in between.                          *)
(*                                                                         *)
(* Drawing commands, workers, overlays and the services a quit unsubscribes *)
(* from are left out.                                                       *)
(***************************************************************************)
EXTENDS Naturals, Sequences, FiniteSets

CONSTANTS
  App,           \* the applications of the manifest
  System,        \* the one appmanager_init starts
  Internal,      \* those that execute from internal flash
  NoApp,         \* thread->app = NULL
  ManagerQueue,  \* length of _app_thread_queue
  AppQueue,      \* length of _app_message_queue
  MaxRequests,   \* bound on the applications asked for after boot, for each of Envs
  Envs           \* the environments a behaviour may have, see `env'

ASSUME AppAssumption ==
  /\ System \in Internal
  /\ Internal \subseteq App
  /\ NoApp \notin App
ASSUME BoundAssumption ==
  /\ {ManagerQueue, AppQueue} \subseteq Nat /\ MaxRequests \in [Envs -> Nat]
  /\ ManagerQueue > 0
  /\ Envs \subseteq SUBSET {"blocks", "late", "busy", "early", "broken", "transfer"}

VARIABLES
  mq,         \* _app_thread_queue
  aq,         \* _app_message_queue; `mine': posted for the task that runs now
  posting,    \* a task inside appmanager_post_generic_app_message, past its check
  status,     \* thread->status
  handle,     \* thread->task_handle: none, live, or stale (its task is deleted)
  task,       \* the application's task
  app,        \* thread->app
  loadId,     \* _app_to_load_id
  deadline,   \* thread->shutdown_at_tick: unset, in the future, or reached
  startTick,  \* thread->app_start_tick: unset, or 6 s from then still to come, or over
  files,      \* which of its two files an application has on flash
  present,    \* flag AppFilePresent
  mpc,        \* where the manager is
  requests,   \* applications that may still be asked for
  env         \* what this behaviour's surroundings may do, chosen at boot

thread == <<status, handle, task, app, deadline, startTick>>
queues == <<mq, aq, posting>>
flash  == <<files, present>>
vars   == <<thread, queues, flash, loadId, mpc, requests, env>>

AppThreadState == {"Unloaded", "Loading", "Loaded", "Runloop", "Unloading", "Downloading"}
Command == {"QUIT", "TEARDOWN", "DOWNLOADED", "HEARTBEAT"}
ManagerMessage == [cmd : {"LOAD"}, app : App] \cup [cmd : Command, app : {NoApp}]
AppMessage == [kind : {"quit", "work"}, mine : BOOLEAN]
Dead == {"gone", "panic", "fault"}   \* self-deleted, failed an assert, undefined behaviour

TypeOK ==
  /\ mq \in Seq(ManagerMessage) /\ Len(mq) <= ManagerQueue
  /\ aq \in Seq(AppMessage) /\ Len(aq) <= AppQueue
  /\ posting \in {"idle", "mine", "old"}
  /\ status \in AppThreadState
  /\ handle \in {"none", "live", "stale"}
  /\ task \in {"none", "main", "beat", "receive", "deinit", "done"}
  /\ app \in App \cup {NoApp} /\ loadId \in App
  /\ deadline \in {"unset", "set", "reached"}
  /\ startTick \in {"unset", "running", "over"}
  /\ files \in [App -> SUBSET {"app", "res"}] /\ present \in [App -> BOOLEAN]
  /\ mpc \in {"wait", "load", "quit", "arm", "update", "fetch", "check"} \cup Dead
  /\ requests \in 0 .. MaxRequests[env]
  /\ env \in Envs

(* What the surroundings may do:                                             *)
(*   blocks    an application waits (for flash) before it reaches its loop;   *)
(*             otherwise its higher priority keeps the manager from running   *)
(*   late      a task overruns a time limit, or hangs                         *)
(*   busy      the application has many messages to handle, queues fill up    *)
(*   early     in its first two seconds an application sends no heartbeat     *)
(*   broken    an application on flash does not load, or returns at once      *)
(*   transfer  the phone installs resources nobody waits for                  *)
Blocks   == "blocks" \in env
Late     == "late" \in env
Busy     == "busy" \in env
Early    == "early" \in env
Broken   == "broken" \in env
Unasked  == "transfer" \in env

Message(c)  == [cmd |-> c, app |-> NoApp]
LoadOf(a)   == [cmd |-> "LOAD", app |-> a]
Pending(c)  == \E i \in DOMAIN mq : mq[i].cmd = c
MqFull      == Len(mq) = ManagerQueue
AqFull      == Len(aq) = AppQueue
External    == App \ Internal

(* Posting to the manager: a full queue is waited for, and the message is     *)
(* lost once the wait times out.                                             *)
Post_Unbounded(m) == mq' = Append(mq, m)
Post(m)           == ~MqFull /\ mq' = Append(mq, m)
PostOrLose(m)     == IF MqFull THEN UNCHANGED mq ELSE Post(m)

Init ==
  /\ mq = <<LoadOf(System)>> /\ aq = <<>> /\ posting = "idle"
  /\ status = "Unloaded" /\ handle = "none" /\ task = "none" /\ app = NoApp
  /\ deadline = "unset" /\ startTick = "unset"
  /\ loadId = System
  /\ files \in [App -> {{}, {"app", "res"}}]
  /\ \A a \in Internal : files[a] = {}
  /\ present = [a \in App |-> "app" \in files[a]]
  /\ mpc = "wait"
  /\ env \in Envs /\ requests = MaxRequests[env]
-----------------------------------------------------------------------------
(* Deleting the application's task.                                          *)

(* Whatever the dead task still has in its queue, and a message on its way to *)
(* it, is from now on another application's.                                 *)
Orphan ==
  /\ task' = "none"
  /\ aq' = [i \in DOMAIN aq |-> [kind |-> aq[i].kind, mine |-> FALSE]]
  /\ posting' = IF posting = "mine" THEN "old" ELSE posting

(* vTaskDelete(task_handle), after which the manager goes on at `next':       *)
(* without a handle it deletes the caller, with the handle of a task that is  *)
(* deleted already it unlinks a list item that is in no list.                *)
DeleteTask_Forgets(next) == mpc' = next /\ UNCHANGED <<task, aq, posting>>
DeleteTask(next) ==
  \/ handle = "live" /\ Orphan /\ mpc' = next
  \/ handle = "none" /\ mpc' = "gone" /\ UNCHANGED <<task, aq, posting>>
  \/ handle = "stale" /\ mpc' \in {next, "fault"} /\ UNCHANGED <<task, aq, posting>>

(* What the manager records of a thread whose task it has deleted.            *)
Closed_KeepsDeadline == status' = "Unloaded" /\ UNCHANGED deadline
Closed == status' = "Unloaded" /\ deadline' = "unset"
-----------------------------------------------------------------------------
(* The manager task: one command, then the state update, then the deadline.  *)

(* A task of higher priority that does not wait lets the manager wait.        *)
Runs(pc) == mpc = pc /\ (Blocks \/ task # "main")

Receive(c) == Runs("wait") /\ mq # <<>> /\ Head(mq).cmd = c /\ mq' = Tail(mq)

(* Only a thread in use has to quit first.                                   *)
InUse_Loaded == status = "Loaded"
InUse == status # "Unloaded"

ReceiveLoad ==
  /\ Receive("LOAD")
  /\ loadId' = Head(mq).app
  /\ mpc' = IF InUse THEN "load" ELSE "update"
  /\ UNCHANGED <<thread, aq, posting, flash, requests, env>>

(* The manager posts the quit to its own queue: nobody else makes room.       *)
RequestQuit ==
  /\ Runs("load")
  /\ PostOrLose(Message("QUIT"))
  /\ startTick' = "running"
  /\ mpc' = "update"
  /\ UNCHANGED <<status, handle, task, app, deadline, aq, posting, flash, loadId,
                 requests, env>>

ReceiveQuit ==
  /\ Receive("QUIT")
  /\ mpc' = IF status = "Downloading" THEN "update" ELSE "quit"
  /\ UNCHANGED <<thread, aq, posting, flash, loadId, requests, env>>

(* appmanager_app_quit: only a thread in its loop gets the message, if there  *)
(* is room within ten ticks.                                                 *)
PostQuit ==
  /\ Runs("quit")
  /\ \/ status # "Runloop" /\ UNCHANGED aq
     \/ status = "Runloop" /\ ~AqFull /\ aq' = Append(aq, [kind |-> "quit", mine |-> TRUE])
     \/ status = "Runloop" /\ AqFull /\ Busy /\ UNCHANGED aq
  /\ mpc' = "arm"
  /\ UNCHANGED <<thread, mq, posting, flash, loadId, requests, env>>

SetDeadline ==
  /\ Runs("arm")
  /\ IF status = "Unloading"
       THEN UNCHANGED <<status, deadline>>
       ELSE status' = "Unloading" /\ deadline' = "set"
  /\ mpc' = "update"
  /\ UNCHANGED <<handle, task, app, startTick, queues, flash, loadId, requests, env>>

ReceiveHeartbeat ==
  /\ Receive("HEARTBEAT")
  /\ deadline' = "set"
  /\ mpc' = "update"
  /\ UNCHANGED <<status, handle, task, app, startTick, aq, posting, flash, loadId,
                 requests, env>>

(* assert(task_handle), then the task dies.                                  *)
ReceiveTeardown ==
  /\ Receive("TEARDOWN")
  /\ IF handle = "none"
       THEN mpc' = "panic" /\ UNCHANGED <<thread, aq, posting>>
       ELSE /\ DeleteTask("update")
            /\ handle' = "none" /\ app' = NoApp /\ Closed
            /\ UNCHANGED startTick
  /\ UNCHANGED <<flash, loadId, requests, env>>

(* The files looked for are those of the application to load now, whatever    *)
(* was transferred.  Without resources the manager calls the function by      *)
(* which an application reports its own end: it has no thread record, reads   *)
(* one at address zero, and posts a teardown for the thread it finds there.   *)
ReceiveDownloaded ==
  /\ Runs("wait") /\ mq # <<>> /\ Head(mq).cmd = "DOWNLOADED"
  /\ \/ /\ "app" \notin files[loadId]
        /\ present' = [present EXCEPT ![loadId] = FALSE]
        /\ status' = "Unloaded" /\ mpc' = "update" /\ mq' = Tail(mq)
     \/ /\ files[loadId] = {"app"}
        /\ mpc' \in {"update", "fault"} /\ mq' = Append(Tail(mq), Message("TEARDOWN"))
        /\ UNCHANGED <<present, status>>
     \/ /\ files[loadId] = {"app", "res"}
        /\ present' = [present EXCEPT ![loadId] = TRUE]
        /\ status' = "Unloaded" /\ mpc' = "update" /\ mq' = Tail(mq)
  /\ UNCHANGED <<handle, task, app, deadline, startTick, aq, posting, files, loadId,
                 requests, env>>

Due_StartOnly == status = "Downloading" /\ startTick = "over"
Due == deadline = "reached" \/ (status = "Downloading" /\ startTick = "over")

(* The queue gives nothing for as long as _delay says, which is an hour or so  *)
(* at most, and there is something to do: a thread that was killed is used     *)
(* again, for what was asked for last.                                       *)
Wake ==
  /\ Runs("wait") /\ mq = <<>> /\ (Due \/ status = "Unloaded")
  /\ mpc' = "update"
  /\ UNCHANGED <<thread, queues, flash, loadId, requests, env>>

(* _appmanager_thread_state_update, up to the heap's initialisation: a        *)
(* previous task still there is deleted.                                     *)
Update ==
  /\ Runs("update")
  /\ \/ /\ status \notin {"Unloaded", "Downloading"} \/ (status = "Downloading" /\ startTick # "over")
        /\ mpc' = "check"
        /\ UNCHANGED <<thread, queues>>
     \/ /\ status = "Downloading" /\ startTick = "over"
        /\ status' = "Unloaded"
        /\ PostOrLose(LoadOf(System))
        /\ mpc' = "check"
        /\ UNCHANGED <<handle, task, app, deadline, startTick, aq, posting>>
     \/ /\ status = "Unloaded"
        /\ status' = "Loading" /\ app' = loadId
        /\ IF handle = "none"
             THEN mpc' = "fetch" /\ UNCHANGED <<task, aq, posting>>
             ELSE DeleteTask("fetch")
        /\ handle' = "none"
        /\ UNCHANGED <<mq, deadline, startTick>>
  /\ UNCHANGED <<flash, loadId, requests, env>>

(* The rest of it: the application is asked for, does not load, or gets a     *)
(* task, which sets its handle and the status before the manager runs again.  *)
Fetch ==
  /\ Runs("fetch")
  /\ \/ app \in External /\ ~present[app] /\ status' = "Downloading"
        /\ UNCHANGED <<handle, task>>
     \/ app \in External /\ present[app] /\ Broken
        /\ UNCHANGED <<status, handle, task>>
     \/ (app \in External => present[app])
        /\ status' = "Loaded" /\ handle' = "live" /\ task' = "main"
  /\ mpc' = "check"
  /\ UNCHANGED <<app, deadline, startTick, queues, flash, loadId, requests, env>>

(* The manager looks whether a thread has to be killed.                      *)
Check ==
  /\ Runs("check")
  /\ IF deadline = "reached"
       THEN /\ DeleteTask("wait")
            /\ IF handle = "none"
                 THEN UNCHANGED <<status, deadline, handle>>
                 ELSE Closed /\ handle' = "stale"
       ELSE mpc' = "wait" /\ UNCHANGED <<task, aq, posting, status, deadline, handle>>
  /\ UNCHANGED <<app, startTick, mq, flash, loadId, requests, env>>

Manager ==
  \/ ReceiveLoad \/ RequestQuit \/ ReceiveQuit \/ PostQuit \/ SetDeadline
  \/ ReceiveHeartbeat \/ ReceiveTeardown \/ ReceiveDownloaded
  \/ Wake \/ Update \/ Fetch \/ Check
-----------------------------------------------------------------------------
(* The application's task.                                                   *)

(* xQueueReset                                                               *)
ResetQueue == aq' = <<>>

(* From its entry point to its loop: the queue is emptied, then the status is *)
(* the loop's whatever it was.                                               *)
EnterLoop ==
  /\ task = "main"
  /\ task' = "beat" /\ status' = "Runloop" /\ ResetQueue
  /\ UNCHANGED <<handle, app, deadline, startTick, mq, posting, flash, loadId, mpc,
                 requests, env>>

(* The application's main returns without having called the loop.            *)
ReturnAtOnce ==
  /\ task = "main" /\ Broken /\ app \in External
  /\ task' = "deinit"
  /\ UNCHANGED <<status, handle, app, deadline, startTick, queues, flash, loadId, mpc,
                 requests, env>>

(* Each turn of the loop starts with a heartbeat: next_heartbeat is never     *)
(* moved on.  Unless it is busy the manager has taken the heartbeat before.  *)
Beat ==
  /\ task = "beat"
  /\ \/ (Pending("HEARTBEAT") => Busy) /\ Post(Message("HEARTBEAT"))
     \/ (Early \/ (MqFull /\ (Late \/ Busy))) /\ UNCHANGED mq
  /\ task' = "receive"
  /\ UNCHANGED <<status, handle, app, deadline, startTick, aq, posting, flash, loadId, mpc,
                 requests, env>>

TakeQuit == task' = "deinit" /\ status' = "Unloading"

(* The rest of the turn: a quit leaves the loop, anything else is handled.    *)
Turn ==
  /\ task = "receive"
  /\ \/ aq = <<>> /\ task' = "beat" /\ UNCHANGED <<aq, status>>
     \/ /\ aq # <<>> /\ aq' = Tail(aq)
        /\ IF Head(aq).kind = "quit"
             THEN TakeQuit
             ELSE task' = "beat" /\ UNCHANGED status
  /\ UNCHANGED <<handle, app, deadline, startTick, mq, posting, flash, loadId, mpc,
                 requests, env>>

(* The application's main has returned: it reports so and waits to be         *)
(* deleted.                                                                  *)
Finish ==
  /\ task = "deinit"
  /\ \/ Post(Message("TEARDOWN"))
     \/ MqFull /\ Late /\ UNCHANGED mq
  /\ task' = "done" /\ status' = "Unloading"
  /\ UNCHANGED <<handle, app, deadline, startTick, aq, posting, flash, loadId, mpc,
                 requests, env>>

Application == EnterLoop \/ ReturnAtOnce \/ Beat \/ Turn \/ Finish
-----------------------------------------------------------------------------
(* Other tasks, the phone, time.                                             *)

(* appmanager_app_start by a click handler or by the phone.                  *)
Request(a) ==
  /\ requests > 0 /\ requests' = requests - 1
  /\ Post(LoadOf(a))
  /\ UNCHANGED <<thread, aq, posting, flash, loadId, mpc, env>>

(* appmanager_post_generic_app_message by the button, service or protocol     *)
(* task: the check, and the send in which it can be preempted or wait for     *)
(* room.  Unless it is busy the application has handled the last one.         *)
BeginPost ==
  /\ posting = "idle" /\ status = "Runloop"
  /\ Busy \/ aq = <<>>
  /\ posting' = IF task = "none" THEN "old" ELSE "mine"
  /\ UNCHANGED <<thread, mq, aq, flash, loadId, mpc, requests, env>>

EndPost ==
  /\ posting # "idle" /\ posting' = "idle"
  /\ \/ ~AqFull /\ aq' = Append(aq, [kind |-> "work", mine |-> posting = "mine"])
     \/ AqFull /\ UNCHANGED aq
  /\ UNCHANGED <<thread, mq, flash, loadId, mpc, requests, env>>

(* The phone sends what the watch asked for, the binary and then the          *)
(* resources, whose installation is reported to the manager.                 *)
SendApp ==
  /\ status = "Downloading" /\ "app" \notin files[app]
  /\ files' = [files EXCEPT ![app] = @ \cup {"app"}]
  /\ UNCHANGED <<thread, queues, present, loadId, mpc, requests, env>>

SendResources(a) ==
  /\ a \in External
  /\ Unasked \/ (status = "Downloading" /\ a = app /\ "app" \in files[a])
  /\ ~Pending("DOWNLOADED")
  /\ files' = [files EXCEPT ![a] = @ \cup {"res"}]
  /\ \/ Post(Message("DOWNLOADED"))
     \/ MqFull /\ Late /\ UNCHANGED mq
  /\ UNCHANGED <<thread, aq, posting, present, loadId, mpc, requests, env>>

(* A task that runs to its limits is late; without one nobody moves the       *)
(* deadline on.  To close, load and send an application takes six seconds only  *)
(* if someone is late; what was asked for and runs may run for any time.     *)
DeadlineReached ==
  /\ deadline = "set" /\ (Late \/ task = "none")
  /\ deadline' = "reached"
  /\ UNCHANGED <<status, handle, task, app, startTick, queues, flash, loadId, mpc,
                 requests, env>>

StartTickOver ==
  /\ startTick = "running" /\ (Late \/ (status = "Runloop" /\ app = loadId))
  /\ startTick' = "over"
  /\ UNCHANGED <<status, handle, task, app, deadline, queues, flash, loadId, mpc,
                 requests, env>>

Others == BeginPost \/ EndPost \/ SendApp \/ (\E a \in App : Request(a) \/ SendResources(a))
Time   == DeadlineReached \/ StartTickOver

Next == Manager \/ Application \/ Others \/ Time

Spec == Init /\ [][Next]_vars

(* The scheduler lets every task that is ready run, and ticks go on.  An      *)
(* application that is late may hang, in a wait: one that spins has the       *)
(* processor before the manager.  Users and phones do as they please.         *)
FairSpec ==
  /\ Spec
  /\ WF_vars(Manager) /\ WF_vars(Time) /\ WF_vars(EndPost)
  /\ WF_vars(~Late /\ Application)
-----------------------------------------------------------------------------
(* The stack, the heap and the control block of the thread are reused only    *)
(* when no task runs on them (appmanager.c:320-328, 691-697).                *)
OneTask == mpc = "fetch" => task = "none"

(* A quit in the queue of an application in its loop was meant for it, not    *)
(* for the one before (app_runloop.c:155-158).                               *)
NoErrantQuit ==
  task \in {"beat", "receive"} =>
    \A i \in DOMAIN aq : aq[i].kind = "quit" => aq[i].mine

(* So an application starts on a clean thread, whatever became of the last.   *)
CleanStart == OneTask /\ NoErrantQuit

(* The manager is there all the time: commands in any order, however they     *)
(* overlap with an application that starts or stops, do not make it delete    *)
(* itself or fail an assertion (appmanager.c:368-377, 470-477).              *)
ManagerSurvives ==
  env \cap {"late", "broken", "transfer"} = {} => mpc \notin Dead

(* When nobody asks for anything any more, the application asked for last     *)
(* runs, or the watch waits for the phone to send one (appmanager.c:406-414). *)
LastRequestWins ==
  env \subseteq {"early"} => <>[](\/ status = "Runloop" /\ app = loadId /\ task \in {"beat", "receive"}
                   \/ status = "Downloading")

(* A thread that is closing down and has a deadline gets closed, also when the *)
(* application hangs, as long as the queues hold all that is posted and quits *)
(* find it in its loop (appmanager.c:449-454, 499-507).                      *)
ClosesEvenIfHung ==
  (status = "Unloading" /\ deadline # "unset" /\ env \cap {"blocks", "busy"} = {})
    ~> (status # "Unloading" \/ mpc \in Dead)
=============================================================================
