-------------------------- MODULE AppManagerProofs --------------------------
(***************************************************************************)
(* Theorems about AppManager for every set of applications, every length of *)
(* the two queues and every environment: the types, that tasks and quits of *)
(* different applications do not meet, and that the manager survives.       *)
(*                                                                         *)
(* And about Timers, the timers of the application's thread, for every set  *)
(* of timers, handles and delays, and any lateness: the types, that the     *)
(* list is who waits, and that only harm lets a walk fail.                  *)
(***************************************************************************)
EXTENDS AppManager, Timers, FiniteSetTheorems, TLAPS

LEMMA QueueBounds == ManagerQueue \in Nat /\ ManagerQueue > 0 /\ AppQueue \in Nat
BY BoundAssumption

QueueType == mq \in Seq(ManagerMessage) /\ Len(mq) <= ManagerQueue

(* A message that is posted leaves the queue what it was.                    *)
LEMMA PostKeepsType ==
  ASSUME QueueType, NEW m \in ManagerMessage, Post(m)
  PROVE  QueueType'
BY QueueBounds DEF QueueType, Post, MqFull

LEMMA PostOrLoseKeepsType ==
  ASSUME QueueType, NEW m \in ManagerMessage, PostOrLose(m)
  PROVE  QueueType'
BY PostKeepsType DEF QueueType, PostOrLose

LEMMA ReceiveKeepsType ==
  ASSUME QueueType, NEW c, Receive(c)
  PROVE  QueueType' /\ Head(mq) \in ManagerMessage
BY QueueBounds DEF QueueType, Receive, Runs

LEMMA MessageTypes ==
  /\ \A c \in Command : Message(c) \in ManagerMessage
  /\ \A a \in App : LoadOf(a) \in ManagerMessage
  /\ System \in App
BY AppAssumption DEF ManagerMessage, Message, LoadOf, Command

AppQueueType == aq \in Seq(AppMessage) /\ Len(aq) <= AppQueue

LEMMA AppendKeepsType ==
  ASSUME AppQueueType, ~AqFull, NEW m \in AppMessage
  PROVE  Append(aq, m) \in Seq(AppMessage) /\ Len(Append(aq, m)) <= AppQueue
BY QueueBounds DEF AppQueueType, AqFull

LEMMA OrphanKeepsType ==
  ASSUME AppQueueType, posting \in {"idle", "mine", "old"}, Orphan
  PROVE  AppQueueType' /\ posting' \in {"idle", "mine", "old"} /\ task' = "none"
<1>1. ASSUME NEW i \in DOMAIN aq
      PROVE  [kind |-> aq[i].kind, mine |-> FALSE] \in AppMessage
  <2>1. aq[i] \in AppMessage
    BY DEF AppQueueType
  <2>2. aq[i].kind \in {"quit", "work"}
    BY <2>1 DEF AppMessage
  <2> QED
    BY <2>2 DEF AppMessage
<1>2. aq' \in Seq(AppMessage) /\ Len(aq') = Len(aq)
  BY <1>1 DEF AppQueueType, Orphan
<1> QED
  BY <1>2 DEF AppQueueType, Orphan

ThreadType ==
  /\ status \in AppThreadState
  /\ handle \in {"none", "live", "stale"}
  /\ task \in {"none", "main", "beat", "receive", "deinit", "done"}
  /\ app \in App \cup {NoApp}
  /\ deadline \in {"unset", "set", "reached"}
  /\ startTick \in {"unset", "running", "over"}

PostingType == posting \in {"idle", "mine", "old"}

FilesType ==
  files \in [App -> SUBSET {"app", "res"}] /\ present \in [App -> BOOLEAN]

RestType ==
  /\ loadId \in App
  /\ mpc \in {"wait", "load", "quit", "arm", "update", "fetch", "check"} \cup Dead
  /\ requests \in 0 .. MaxRequests[env]
  /\ env \in Envs

LEMMA TypeParts ==
  TypeOK <=> QueueType /\ AppQueueType /\ PostingType /\ ThreadType /\ FilesType /\ RestType
BY DEF TypeOK, QueueType, AppQueueType, PostingType, ThreadType, FilesType, RestType

LEMMA TypePartsNext ==
  TypeOK' <=> /\ QueueType' /\ AppQueueType' /\ PostingType'
              /\ ThreadType' /\ FilesType' /\ RestType'
BY DEF TypeOK, QueueType, AppQueueType, PostingType, ThreadType, FilesType, RestType

LEMMA DeleteKeepsType ==
  ASSUME AppQueueType, PostingType, ThreadType, RestType,
         NEW next \in {"wait", "update", "fetch"}, DeleteTask(next)
  PROVE  /\ AppQueueType' /\ PostingType'
         /\ task' \in {"none", "main", "beat", "receive", "deinit", "done"}
         /\ mpc' \in {"wait", "load", "quit", "arm", "update", "fetch", "check"} \cup Dead
<1>1. CASE Orphan
  BY <1>1, OrphanKeepsType DEF DeleteTask, PostingType, Dead
<1>2. CASE ~Orphan
  BY <1>2 DEF DeleteTask, PostingType, ThreadType, AppQueueType, Dead
<1> QED
  BY <1>1, <1>2

LEMMA TypeInit == Init => TypeOK
BY AppAssumption, BoundAssumption, QueueBounds, MessageTypes
DEF Init, TypeOK, ManagerMessage, AppThreadState, Dead, LoadOf, Command

(* One step keeps the types: one case for each action.                       *)
LEMMA TypeStep == TypeOK /\ [Next]_vars => TypeOK'
<1> SUFFICES ASSUME QueueType, AppQueueType, PostingType, ThreadType, FilesType, RestType,
                    [Next]_vars
             PROVE  /\ QueueType' /\ AppQueueType' /\ PostingType'
                    /\ ThreadType' /\ FilesType' /\ RestType'
  BY TypeParts, TypePartsNext
<1> USE DEF thread, flash
<1>1. CASE ReceiveLoad
  <2>1. QueueType' /\ Head(mq) \in ManagerMessage /\ Head(mq).cmd = "LOAD"
    BY <1>1, ReceiveKeepsType DEF ReceiveLoad, Receive
  <2>2. loadId' \in App
    BY <1>1, <2>1 DEF ReceiveLoad, ManagerMessage, Command
  <2> QED
    BY <1>1, <2>1, <2>2 DEF ReceiveLoad, AppQueueType, PostingType, ThreadType, FilesType, RestType, AppThreadState, Dead
<1>2. CASE RequestQuit
  <2>1. QueueType'
    BY <1>2, PostOrLoseKeepsType, MessageTypes DEF RequestQuit, Command
  <2> QED
    BY <1>2, <2>1 DEF RequestQuit, AppQueueType, PostingType, ThreadType, FilesType, RestType, AppThreadState, Dead
<1>3. CASE ReceiveQuit
  <2>1. QueueType'
    BY <1>3, ReceiveKeepsType DEF ReceiveQuit
  <2> QED
    BY <1>3, <2>1 DEF ReceiveQuit, AppQueueType, PostingType, ThreadType, FilesType, RestType, AppThreadState, Dead
<1>4. CASE ReceiveHeartbeat
  <2>1. QueueType'
    BY <1>4, ReceiveKeepsType DEF ReceiveHeartbeat
  <2> QED
    BY <1>4, <2>1 DEF ReceiveHeartbeat, AppQueueType, PostingType, ThreadType, FilesType, RestType, AppThreadState, Dead
<1>5. CASE PostQuit
  <2>1. AppQueueType'
    BY <1>5, AppendKeepsType DEF PostQuit, AppQueueType, AppMessage
  <2> QED
    BY <1>5, <2>1 DEF PostQuit, QueueType, AppQueueType, PostingType, ThreadType, FilesType, RestType, AppThreadState, Dead
<1>6. CASE SetDeadline
  BY <1>6 DEF SetDeadline, queues, QueueType, AppQueueType, PostingType, ThreadType, FilesType, RestType, AppThreadState, Dead
<1>7. CASE ReceiveTeardown
  <2>1. QueueType'
    BY <1>7, ReceiveKeepsType DEF ReceiveTeardown
  <2>2. CASE handle = "none"
    BY <1>7, <2>1, <2>2 DEF ReceiveTeardown, AppQueueType, PostingType, ThreadType, FilesType, RestType, AppThreadState, Dead
  <2>3. CASE handle # "none"
    <3>1. DeleteTask("update")
      BY <1>7, <2>3 DEF ReceiveTeardown
    <3>2. /\ AppQueueType' /\ PostingType'
          /\ task' \in {"none", "main", "beat", "receive", "deinit", "done"}
          /\ mpc' \in {"wait", "load", "quit", "arm", "update", "fetch", "check"} \cup Dead
      BY <3>1, DeleteKeepsType
    <3> QED
      BY <1>7, <2>1, <2>3, <3>2 DEF ReceiveTeardown, Closed, ThreadType, FilesType, RestType, AppThreadState
  <2> QED
    BY <2>2, <2>3
<1>8. CASE ReceiveDownloaded
  <2>1. QueueType'
    <3>1. mq # <<>> /\ Tail(mq) \in Seq(ManagerMessage) /\ Len(Tail(mq)) = Len(mq) - 1
      BY <1>8 DEF ReceiveDownloaded, QueueType
    <3>2. Message("TEARDOWN") \in ManagerMessage
      BY MessageTypes DEF Command
    <3> QED
      BY SMTT(60), <1>8, <3>1, <3>2, QueueBounds DEF ReceiveDownloaded, QueueType
  <2>2. FilesType'
    BY <1>8 DEF ReceiveDownloaded, FilesType, RestType
  <2> QED
    BY <1>8, <2>1, <2>2 DEF ReceiveDownloaded, AppQueueType, PostingType, ThreadType, FilesType, RestType, AppThreadState, Dead
<1>9. CASE Wake
  BY <1>9 DEF Wake, queues, QueueType, AppQueueType, PostingType, ThreadType, FilesType, RestType, AppThreadState, Dead
<1>10. CASE Update
  <2>1. CASE status # "Unloaded"
    <3>1. QueueType'
      BY <1>10, <2>1, PostOrLoseKeepsType, MessageTypes DEF Update, queues, QueueType
    <3> QED
      BY <1>10, <2>1, <3>1 DEF Update, queues, AppQueueType, PostingType, ThreadType, FilesType, RestType, AppThreadState, Dead
  <2>2. CASE status = "Unloaded"
    <3>1. /\ AppQueueType' /\ PostingType'
          /\ task' \in {"none", "main", "beat", "receive", "deinit", "done"}
          /\ mpc' \in {"wait", "load", "quit", "arm", "update", "fetch", "check"} \cup Dead
      <4>1. CASE handle = "none"
        BY <1>10, <2>2, <4>1 DEF Update, AppQueueType, PostingType, ThreadType, FilesType, RestType, AppThreadState, Dead
      <4>2. CASE handle # "none"
        BY <1>10, <2>2, <4>2, DeleteKeepsType DEF Update
      <4> QED
        BY <4>1, <4>2
    <3> QED
      BY <1>10, <2>2, <3>1 DEF Update, QueueType, ThreadType, FilesType, RestType, AppThreadState
  <2> QED
    BY <2>1, <2>2
<1>11. CASE Fetch
  BY <1>11 DEF Fetch, queues, QueueType, AppQueueType, PostingType, ThreadType, FilesType, RestType, AppThreadState, Dead
<1>12. CASE Check
  <2>1. CASE deadline = "reached"
    <3>1. /\ AppQueueType' /\ PostingType'
          /\ task' \in {"none", "main", "beat", "receive", "deinit", "done"}
          /\ mpc' \in {"wait", "load", "quit", "arm", "update", "fetch", "check"} \cup Dead
      BY <1>12, <2>1, DeleteKeepsType DEF Check
    <3> QED
      BY <1>12, <2>1, <3>1 DEF Check, Closed, QueueType, ThreadType, FilesType, RestType, AppThreadState
  <2>2. CASE deadline # "reached"
    BY <1>12, <2>2 DEF Check, QueueType, AppQueueType, PostingType, ThreadType, FilesType, RestType, AppThreadState, Dead
  <2> QED
    BY <2>1, <2>2
<1>13. CASE EnterLoop
  BY <1>13, QueueBounds DEF EnterLoop, ResetQueue, QueueType, AppQueueType, PostingType, ThreadType, FilesType, RestType, AppThreadState, Dead
<1>14. CASE ReturnAtOnce
  BY <1>14 DEF ReturnAtOnce, queues, QueueType, AppQueueType, PostingType, ThreadType, FilesType, RestType, AppThreadState, Dead
<1>15. CASE Beat
  <2>1. QueueType'
    BY <1>15, PostKeepsType, MessageTypes DEF Beat, Command, QueueType
  <2> QED
    BY <1>15, <2>1 DEF Beat, AppQueueType, PostingType, ThreadType, FilesType, RestType, AppThreadState, Dead
<1>16. CASE Finish
  <2>1. QueueType'
    BY <1>16, PostKeepsType, MessageTypes DEF Finish, Command, QueueType
  <2> QED
    BY <1>16, <2>1 DEF Finish, AppQueueType, PostingType, ThreadType, FilesType, RestType, AppThreadState, Dead
<1>17. CASE Turn
  <2>1. AppQueueType'
    <3>1. aq' = aq \/ (aq # <<>> /\ aq' = Tail(aq))
      BY <1>17 DEF Turn, TakeQuit
    <3> QED
      BY <3>1, QueueBounds DEF AppQueueType
  <2> QED
    BY <1>17, <2>1 DEF Turn, TakeQuit, QueueType, AppQueueType, PostingType, ThreadType, FilesType, RestType, AppThreadState, Dead
<1>18. CASE BeginPost
  BY <1>18 DEF BeginPost, QueueType, AppQueueType, PostingType, ThreadType, FilesType, RestType, AppThreadState, Dead
<1>19. CASE EndPost
  <2>1. AppQueueType'
    <3>1. [kind |-> "work", mine |-> posting = "mine"] \in AppMessage
      BY DEF AppMessage
    <3> QED
      BY <1>19, <3>1, AppendKeepsType DEF EndPost, AppQueueType
  <2> QED
    BY <1>19, <2>1 DEF EndPost, QueueType, AppQueueType, PostingType, ThreadType, FilesType, RestType, AppThreadState, Dead
<1>20. CASE SendApp
  <2>1. FilesType'
    BY <1>20 DEF SendApp, FilesType
  <2> QED
    BY <1>20, <2>1 DEF SendApp, queues, QueueType, AppQueueType, PostingType, ThreadType, FilesType, RestType, AppThreadState, Dead
<1>21. CASE \E a \in App : Request(a)
  <2>1. PICK a \in App : Request(a)
    BY <1>21
  <2>2. QueueType'
    BY <2>1, PostKeepsType, MessageTypes DEF Request
  <2>3. requests' \in 0 .. MaxRequests[env]
    BY <2>1, BoundAssumption DEF Request, RestType
  <2> QED
    BY <2>1, <2>2, <2>3 DEF Request, AppQueueType, PostingType, ThreadType, FilesType, RestType, AppThreadState, Dead
<1>22. CASE \E a \in App : SendResources(a)
  <2>1. PICK a \in App : SendResources(a)
    BY <1>22
  <2>2. QueueType'
    BY <2>1, PostKeepsType, MessageTypes DEF SendResources, Command, QueueType
  <2>3. FilesType'
    BY <2>1 DEF SendResources, FilesType
  <2> QED
    BY <2>1, <2>2, <2>3 DEF SendResources, AppQueueType, PostingType, ThreadType, FilesType, RestType, AppThreadState, Dead
<1>23. CASE DeadlineReached
  BY <1>23 DEF DeadlineReached, queues, QueueType, AppQueueType, PostingType, ThreadType, FilesType, RestType, AppThreadState, Dead
<1>24. CASE StartTickOver
  BY <1>24 DEF StartTickOver, queues, QueueType, AppQueueType, PostingType, ThreadType, FilesType, RestType, AppThreadState, Dead
<1>25. CASE UNCHANGED vars
  BY <1>25 DEF vars, queues, QueueType, AppQueueType, PostingType, ThreadType, FilesType, RestType, AppThreadState, Dead
<1> QED
  BY <1>1, <1>2, <1>3, <1>4, <1>5, <1>6, <1>7, <1>8, <1>9, <1>10, <1>11, <1>12, <1>13,
     <1>14, <1>15, <1>16, <1>17, <1>18, <1>19, <1>20, <1>21, <1>22, <1>23, <1>24, <1>25
  DEF Next, Manager, Application, Others, Time

(* Every variable of the manager keeps its type, and no queue outgrows its    *)
(* length, whatever the surroundings do.                                     *)
THEOREM TypeCorrect == Spec => []TypeOK
<1>1. Init => TypeOK
  BY TypeInit
<1>2. TypeOK /\ [Next]_vars => TypeOK'
  BY TypeStep
<1> QED
  BY <1>1, <1>2, PTL DEF Spec
-----------------------------------------------------------------------------
(* A task is never without its handle: what the manager finds to delete is    *)
(* the task there is.                                                        *)
TaskHasHandle == task # "none" => handle = "live"

TaskInv == TypeOK /\ TaskHasHandle /\ OneTask /\ NoErrantQuit

LEMMA DeleteEndsTask ==
  ASSUME TaskHasHandle, NEW next, DeleteTask(next)
  PROVE  task' = "none"
BY DEF TaskHasHandle, DeleteTask, Orphan

(* Steps that leave the application's task and its queue alone.               *)
LEMMA TaskUntouched ==
  ASSUME TaskInv, UNCHANGED <<task, aq, handle>>, mpc' = "fetch" => mpc = "fetch"
  PROVE  TaskHasHandle' /\ OneTask' /\ NoErrantQuit'
BY DEF TaskInv, TaskHasHandle, OneTask, NoErrantQuit

(* Steps after which there is no task.                                       *)
LEMMA TaskGone ==
  ASSUME task' = "none"
  PROVE  TaskHasHandle' /\ OneTask' /\ NoErrantQuit'
BY DEF TaskHasHandle, OneTask, NoErrantQuit

LEMMA TaskInit == Init => TaskInv
BY TypeInit DEF Init, TaskInv, TaskHasHandle, OneTask, NoErrantQuit

LEMMA TaskStep == TaskInv /\ [Next]_vars => TaskInv'
<1> SUFFICES ASSUME TaskInv, [Next]_vars
             PROVE  TaskHasHandle' /\ OneTask' /\ NoErrantQuit'
  BY TypeStep DEF TaskInv
<1> USE DEF thread, queues
<1>1. CASE ReceiveTeardown
  <2>1. CASE handle = "none"
    BY <1>1, <2>1, TaskUntouched DEF ReceiveTeardown
  <2>2. CASE handle # "none"
    <3>1. task' = "none"
      BY <1>1, <2>2, DeleteEndsTask DEF ReceiveTeardown, TaskInv
    <3> QED
      BY <3>1, TaskGone
  <2> QED
    BY <2>1, <2>2
<1>2. CASE Update
  <2>1. CASE status = "Unloaded"
    <3>1. task' = "none"
      <4>1. CASE handle = "none"
        BY <1>2, <2>1, <4>1 DEF Update, TaskInv, TaskHasHandle
      <4>2. CASE handle # "none"
        BY <1>2, <2>1, <4>2, DeleteEndsTask DEF Update, TaskInv
      <4> QED
        BY <4>1, <4>2
    <3> QED
      BY <3>1, TaskGone
  <2>2. CASE status # "Unloaded"
    BY <1>2, <2>2, TaskUntouched DEF Update
  <2> QED
    BY <2>1, <2>2
<1>3. CASE Check
  <2>1. CASE deadline = "reached"
    <3>1. task' = "none"
      BY <1>3, <2>1, DeleteEndsTask DEF Check, TaskInv
    <3> QED
      BY <3>1, TaskGone
  <2>2. CASE deadline # "reached"
    BY <1>3, <2>2, TaskUntouched DEF Check
  <2> QED
    BY <2>1, <2>2
<1>4. CASE Fetch
  BY <1>4 DEF Fetch, Runs, TaskInv, TaskHasHandle, OneTask, NoErrantQuit
<1>5. CASE PostQuit
  <2>1. /\ UNCHANGED <<task, handle>> /\ mpc' = "arm"
        /\ aq' = aq \/ aq' = Append(aq, [kind |-> "quit", mine |-> TRUE])
    BY <1>5 DEF PostQuit
  <2>2. CASE aq' = aq
    BY <2>1, <2>2, TaskUntouched
  <2>3. CASE aq' = Append(aq, [kind |-> "quit", mine |-> TRUE])
    BY <2>1, <2>3 DEF TaskInv, TypeOK, TaskHasHandle, OneTask, NoErrantQuit
  <2> QED
    BY <2>1, <2>2, <2>3
<1>6. CASE EnterLoop
  <2>1. task = "main" /\ task' = "beat" /\ aq' = <<>> /\ UNCHANGED <<handle, mpc>>
    BY <1>6 DEF EnterLoop, ResetQueue
  <2> QED
    BY <2>1 DEF TaskInv, TaskHasHandle, OneTask, NoErrantQuit
<1>7. CASE ReturnAtOnce \/ Finish \/ Beat
  BY <1>7 DEF ReturnAtOnce, Finish, Beat, TaskInv, TaskHasHandle, OneTask, NoErrantQuit
<1>8. CASE Turn
  <2>1. /\ task = "receive" /\ UNCHANGED <<handle, mpc>>
        /\ task' \in {"beat", "deinit"}
        /\ aq' = aq \/ (aq # <<>> /\ aq' = Tail(aq))
    BY <1>8 DEF Turn, TakeQuit
  <2>2. \A i \in DOMAIN aq' : \E j \in DOMAIN aq : aq'[i] = aq[j]
    <3>1. aq \in Seq(AppMessage)
      BY DEF TaskInv, TypeOK
    <3> QED
      BY <2>1, <3>1
  <2> QED
    BY <2>1, <2>2 DEF TaskInv, TaskHasHandle, OneTask, NoErrantQuit
<1>9. CASE EndPost
  <2>1. /\ UNCHANGED <<task, handle, mpc>>
        /\ aq' = aq \/ aq' = Append(aq, [kind |-> "work", mine |-> posting = "mine"])
    BY <1>9 DEF EndPost
  <2>2. CASE aq' = aq
    BY <2>1, <2>2, TaskUntouched
  <2>3. CASE aq' = Append(aq, [kind |-> "work", mine |-> posting = "mine"])
    <3>1. \A i \in DOMAIN aq' : aq'[i].kind = "work" \/ (i \in DOMAIN aq /\ aq'[i] = aq[i])
      BY <2>3 DEF TaskInv, TypeOK
    <3> QED
      BY <2>1, <3>1 DEF TaskInv, TaskHasHandle, OneTask, NoErrantQuit
  <2> QED
    BY <2>1, <2>2, <2>3
<1>10. CASE \/ ReceiveLoad \/ RequestQuit \/ ReceiveQuit \/ SetDeadline
            \/ ReceiveHeartbeat \/ ReceiveDownloaded \/ Wake
  BY <1>10, TaskUntouched
  DEF ReceiveLoad, RequestQuit, ReceiveQuit, SetDeadline, ReceiveHeartbeat,
      ReceiveDownloaded, Wake
<1>11. CASE \/ BeginPost \/ SendApp \/ Time \/ UNCHANGED vars
            \/ \E a \in App : Request(a) \/ SendResources(a)
  BY <1>11, TaskUntouched
  DEF BeginPost, SendApp, Time, DeadlineReached, StartTickOver, Request, SendResources, vars
<1> QED
  BY <1>1, <1>2, <1>3, <1>4, <1>5, <1>6, <1>7, <1>8, <1>9, <1>10, <1>11
  DEF Next, Manager, Application, Others

(* The memory of a thread is handed out only when no task uses it, whoever    *)
(* starts, stops, hangs, is killed, or is reported as transferred.            *)
THEOREM NoTwoTasks == Spec => []OneTask
<1>1. TaskInv => OneTask
  BY DEF TaskInv
<1> QED
  BY <1>1, TaskInit, TaskStep, PTL DEF Spec

(* No application takes a quit that was meant for another one.               *)
THEOREM QuitsFindTheirTask == Spec => []NoErrantQuit
<1>1. TaskInv => NoErrantQuit
  BY DEF TaskInv
<1> QED
  BY <1>1, TaskInit, TaskStep, PTL DEF Spec

(* Every application starts on a thread that nothing of the last one uses:   *)
(* stack, heap and control block are free, and no quit is left over.         *)
THEOREM ThreadsStartClean == Spec => []CleanStart
<1>1. TaskInv => CleanStart
  BY DEF TaskInv, CleanStart, OneTask, NoErrantQuit
<1> QED
  BY <1>1, TaskInit, TaskStep, PTL DEF Spec
-----------------------------------------------------------------------------
(* The manager survives.                                                     *)

(* Nobody overruns a limit, every application loads, and the phone sends what *)
(* it is asked for.                                                          *)
Healthy == env \cap {"late", "broken", "transfer"} = {}

(* The handle is that of the task, which is there in three of the states, and *)
(* nothing runs out for a thread without one.                                *)
ThreadInv ==
  /\ mpc \notin Dead
  /\ handle = (IF task = "none" THEN "none" ELSE "live")
  /\ task # "none" <=> status \in {"Loaded", "Runloop", "Unloading"}
  /\ deadline # "reached" /\ (deadline = "set" => task # "none")
  /\ mpc \in {"quit", "arm"} => task # "none"
  /\ status = "Loading" <=> mpc = "fetch"
  /\ mpc = "fetch" => app = loadId

(* A thread is unloaded on its way to the next application only, and before   *)
(* the first.                                                                *)
Booting == mpc = "wait" /\ startTick = "unset" /\ mq # <<>> /\ Head(mq) = LoadOf(System)
BootInv == status = "Unloaded" => mpc = "update" \/ Booting

(* The phone is not given up before the watch has asked it: the six seconds   *)
(* are over only when the application to load was on flash.                  *)
StartInv ==
  /\ startTick = "over" => mpc = "load" \/ loadId \in Internal \/ present[loadId]
  /\ status = "Downloading" => startTick # "over" /\ app \in External
  /\ task # "none" /\ app \in External => present[app]

(* A heartbeat in the queue is of the task that is there, and a teardown is   *)
(* the last that it posted.                                                  *)
Ordered == \A i, j \in DOMAIN mq :
             mq[i].cmd = "TEARDOWN" /\ mq[j].cmd \in {"HEARTBEAT", "TEARDOWN"} => j <= i
OneDownloaded == \A i, j \in DOMAIN mq : mq[i].cmd = "DOWNLOADED" /\ mq[j].cmd = "DOWNLOADED" => i = j
MailInv ==
  /\ Pending("HEARTBEAT") => task # "none"
  /\ Pending("TEARDOWN") => task = "done"
  /\ Ordered /\ OneDownloaded

(* Only an application that is being downloaded can be without its resources, *)
(* and not once their installation is reported.                              *)
FilesInv ==
  /\ Pending("DOWNLOADED") => status = "Downloading" /\ "app" \in files[app]
  /\ \A a \in App : files[a] = {"app"} => status = "Downloading" /\ app = a /\ ~Pending("DOWNLOADED")

Well      == ThreadInv /\ BootInv /\ StartInv /\ MailInv /\ FilesInv
HealthInv == Healthy => Well

LEMMA WellInit == Init => Well
<1> SUFFICES ASSUME Init PROVE Well
  OBVIOUS
<1>1. mq = <<LoadOf(System)>> /\ Head(mq) = LoadOf(System) /\ LoadOf(System).cmd = "LOAD" /\ DOMAIN mq = {1} /\ mq[1] = LoadOf(System)
  BY DEF Init, LoadOf
<1>2. \A c \in Command : ~Pending(c)
  BY <1>1 DEF Pending, Command
<1>3. ThreadInv
  BY DEF Init, ThreadInv, Dead
<1>4. BootInv
  BY <1>1 DEF Init, BootInv, Booting
<1>5. StartInv
  BY DEF Init, StartInv
<1>6. MailInv
  BY <1>1, <1>2 DEF MailInv, Ordered, OneDownloaded, Command
<1>7. FilesInv
  <2>1. \A a \in App : files[a] \in {{}, {"app", "res"}}
    BY DEF Init
  <2> QED BY <1>2, <2>1 DEF FilesInv, Command
<1> QED BY <1>3, <1>4, <1>5, <1>6, <1>7 DEF Well

(* What the manager takes from its queue, and what is posted there.           *)
LEMMA MailTaken ==
  ASSUME mq \in Seq(ManagerMessage), mq # <<>>, mq' = Tail(mq), Ordered, OneDownloaded
  PROVE  /\ Ordered' /\ OneDownloaded' /\ \A c : Pending(c)' => Pending(c)
         /\ Pending(Head(mq).cmd)
         /\ Head(mq).cmd = "TEARDOWN" => ~Pending("HEARTBEAT")' /\ ~Pending("TEARDOWN")'
         /\ Head(mq).cmd = "DOWNLOADED" => ~Pending("DOWNLOADED")'
<1>1. /\ Len(mq) \in Nat /\ Len(mq) > 0 /\ DOMAIN mq = 1 .. Len(mq) /\ DOMAIN mq' = 1 .. Len(mq) - 1
      /\ Head(mq) = mq[1]
  OBVIOUS
<1>2. \A i \in DOMAIN mq' : mq'[i] = mq[i + 1] /\ i + 1 \in DOMAIN mq /\ i + 1 > 1 /\ i \in Nat
  BY <1>1
<1>3. 1 \in DOMAIN mq
  BY <1>1
<1>4. Ordered'
  <2> SUFFICES ASSUME NEW i \in DOMAIN mq', NEW j \in DOMAIN mq', mq'[i].cmd = "TEARDOWN",
                      mq'[j].cmd \in {"HEARTBEAT", "TEARDOWN"}
               PROVE  j <= i
    BY DEF Ordered
  <2>1. j + 1 <= i + 1
    BY <1>2 DEF Ordered
  <2> QED BY <1>2, <2>1
<1>5. OneDownloaded'
  <2> SUFFICES ASSUME NEW i \in DOMAIN mq', NEW j \in DOMAIN mq', mq'[i].cmd = "DOWNLOADED",
                      mq'[j].cmd = "DOWNLOADED"
               PROVE  i = j
    BY DEF OneDownloaded
  <2>1. i + 1 = j + 1
    BY <1>2 DEF OneDownloaded
  <2> QED BY <1>2, <2>1
<1>6. \A c : Pending(c)' => Pending(c)
  BY <1>2 DEF Pending
<1>7. Pending(Head(mq).cmd)
  BY <1>1, <1>3 DEF Pending
<1>8. ASSUME mq[1].cmd = "TEARDOWN", NEW i \in DOMAIN mq'
      PROVE  mq'[i].cmd \notin {"HEARTBEAT", "TEARDOWN"}
  <2>1. mq[i + 1].cmd \in {"HEARTBEAT", "TEARDOWN"} => i + 1 <= 1
    BY <1>2, <1>3, <1>8 DEF Ordered
  <2> QED BY <1>2, <2>1
<1>9. ASSUME mq[1].cmd = "DOWNLOADED", NEW i \in DOMAIN mq'
      PROVE  mq'[i].cmd # "DOWNLOADED"
  <2>1. mq[i + 1].cmd = "DOWNLOADED" => i + 1 = 1
    BY <1>2, <1>3, <1>9 DEF OneDownloaded
  <2> QED BY <1>2, <2>1
<1>10. Head(mq).cmd = "TEARDOWN" => ~Pending("HEARTBEAT")' /\ ~Pending("TEARDOWN")'
  BY <1>1, <1>8 DEF Pending
<1>11. Head(mq).cmd = "DOWNLOADED" => ~Pending("DOWNLOADED")'
  BY <1>1, <1>9 DEF Pending
<1> QED BY <1>4, <1>5, <1>6, <1>7, <1>10, <1>11

LEMMA MailPosted ==
  ASSUME mq \in Seq(ManagerMessage), NEW m \in ManagerMessage, mq' = Append(mq, m), Ordered, OneDownloaded
  PROVE  /\ \A c : c # m.cmd /\ Pending(c)' => Pending(c)
         /\ m.cmd \notin {"HEARTBEAT", "TEARDOWN"} \/ ~Pending("TEARDOWN") => Ordered'
         /\ m.cmd # "DOWNLOADED" \/ ~Pending("DOWNLOADED") => OneDownloaded'
         /\ mq # <<>> => mq' # <<>> /\ Head(mq') = Head(mq)
<1>1. /\ Len(mq) \in Nat /\ DOMAIN mq = 1 .. Len(mq) /\ DOMAIN mq' = 1 .. Len(mq) + 1
      /\ mq'[Len(mq) + 1] = m /\ \A i \in DOMAIN mq : mq'[i] = mq[i]
  OBVIOUS
<1>2. \A i \in DOMAIN mq' : \/ i \in DOMAIN mq /\ mq'[i] = mq[i] /\ i < Len(mq) + 1
                            \/ i = Len(mq) + 1 /\ mq'[i] = m
  BY <1>1
<1>3. \A c : c # m.cmd /\ Pending(c)' => Pending(c)
  BY <1>2 DEF Pending
<1>4. m.cmd \notin {"HEARTBEAT", "TEARDOWN"} \/ ~Pending("TEARDOWN") => Ordered'
  <2> SUFFICES ASSUME m.cmd \notin {"HEARTBEAT", "TEARDOWN"} \/ ~Pending("TEARDOWN"),
                      NEW i \in DOMAIN mq', NEW j \in DOMAIN mq', mq'[i].cmd = "TEARDOWN",
                      mq'[j].cmd \in {"HEARTBEAT", "TEARDOWN"}
               PROVE  j <= i
    BY DEF Ordered
  <2>1. CASE i \in DOMAIN mq /\ mq'[i] = mq[i]
    <3>1. m.cmd \notin {"HEARTBEAT", "TEARDOWN"}
      BY <2>1 DEF Pending
    <3>2. j \in DOMAIN mq /\ mq'[j] = mq[j]
      BY <1>2, <3>1
    <3> QED BY <2>1, <3>2 DEF Ordered
  <2>2. CASE i = Len(mq) + 1
    BY <1>1, <2>2
  <2> QED BY <1>2, <2>1, <2>2
<1>5. m.cmd # "DOWNLOADED" \/ ~Pending("DOWNLOADED") => OneDownloaded'
  <2> SUFFICES ASSUME m.cmd # "DOWNLOADED" \/ ~Pending("DOWNLOADED"),
                      NEW i \in DOMAIN mq', NEW j \in DOMAIN mq', mq'[i].cmd = "DOWNLOADED",
                      mq'[j].cmd = "DOWNLOADED"
               PROVE  i = j
    BY DEF OneDownloaded
  <2>1. CASE m.cmd # "DOWNLOADED"
    BY <1>2, <2>1 DEF OneDownloaded
  <2>2. CASE ~Pending("DOWNLOADED")
    BY <1>2, <2>2 DEF Pending
  <2> QED BY <2>1, <2>2
<1>6. mq # <<>> => mq' # <<>> /\ Head(mq') = Head(mq)
  OBVIOUS
<1> QED BY <1>3, <1>4, <1>5, <1>6

LEMMA MailKept ==
  ASSUME mq' = mq
  PROVE  /\ (Ordered => Ordered') /\ (OneDownloaded => OneDownloaded')
         /\ \A c : Pending(c)' <=> Pending(c)
  BY DEF Ordered, OneDownloaded, Pending

(* A message that says nothing about the thread.                             *)
LEMMA MailAdded ==
  ASSUME TypeOK, MailInv, NEW m \in ManagerMessage, m.cmd \in {"LOAD", "QUIT"}, mq' = mq \/ Post(m)
  PROVE  /\ Ordered' /\ OneDownloaded' /\ \A c \in {"HEARTBEAT", "TEARDOWN", "DOWNLOADED"} : Pending(c)' => Pending(c)
         /\ mq # <<>> => mq' # <<>> /\ Head(mq') = Head(mq)
<1>1. CASE mq' = mq
  BY <1>1, MailKept DEF MailInv
<1>2. CASE Post(m)
  BY <1>2, MailPosted DEF MailInv, Post, TypeOK
<1> QED BY <1>1, <1>2

(* What is left where nothing of it changes.                                 *)
LEMMA FilesKept ==
  ASSUME FilesInv, Pending("DOWNLOADED")' => Pending("DOWNLOADED"), UNCHANGED <<files, status, app>>
  PROVE  FilesInv'
  BY DEF FilesInv

LEMMA ReceivedIsFirst ==
  ASSUME Well, mpc = "wait", mq # <<>>, Head(mq).cmd # "LOAD"
  PROVE  status \notin {"Unloaded", "Loading"}
<1>1. LoadOf(System).cmd = "LOAD"
  BY DEF LoadOf
<1> QED BY <1>1 DEF Well, BootInv, Booting, ThreadInv

LEMMA WellReceive ==
  ASSUME TypeOK, Well, ReceiveLoad \/ ReceiveQuit \/ ReceiveHeartbeat
  PROVE  Well'
<1>1. /\ mpc = "wait" /\ mq # <<>> /\ mq' = Tail(mq) /\ mq \in Seq(ManagerMessage)
      /\ UNCHANGED <<status, handle, task, app, startTick, files, present>>
  BY DEF ReceiveLoad, ReceiveQuit, ReceiveHeartbeat, Receive, Runs, TypeOK, thread, flash
<1>2. Ordered' /\ OneDownloaded' /\ (\A c : Pending(c)' => Pending(c)) /\ Pending(Head(mq).cmd)
  BY <1>1, MailTaken DEF Well, MailInv
<1>3. MailInv' /\ FilesInv'
  BY <1>1, <1>2, FilesKept DEF Well, MailInv
<1>4. CASE ReceiveLoad
  <2>1. /\ UNCHANGED deadline /\ mpc' = IF status # "Unloaded" THEN "load" ELSE "update"
    BY <1>4 DEF ReceiveLoad, InUse, thread
  <2>2. ThreadInv'
    BY <1>1, <2>1 DEF Well, ThreadInv, Dead
  <2>3. BootInv'
    BY <1>1, <2>1 DEF BootInv
  <2>4. status = "Unloaded" => startTick = "unset"
    BY <1>1 DEF Well, BootInv, Booting
  <2>5. StartInv'
    BY <1>1, <2>1, <2>4 DEF Well, StartInv
  <2> QED BY <1>3, <2>2, <2>3, <2>5 DEF Well
<1>5. CASE ReceiveQuit
  <2>1. /\ Head(mq).cmd = "QUIT" /\ mpc' = IF status = "Downloading" THEN "update" ELSE "quit"
        /\ UNCHANGED <<deadline, loadId>>
    BY <1>5 DEF ReceiveQuit, Receive, thread
  <2>2. status \notin {"Unloaded", "Loading"}
    BY <1>1, <2>1, ReceivedIsFirst
  <2>3. status # "Downloading" => task # "none"
    BY <2>2 DEF Well, ThreadInv, TypeOK, AppThreadState
  <2>4. ThreadInv'
    BY <1>1, <2>1, <2>2, <2>3 DEF Well, ThreadInv, Dead
  <2>5. BootInv' /\ StartInv'
    BY <1>1, <2>1, <2>2 DEF Well, BootInv, StartInv
  <2> QED BY <1>3, <2>4, <2>5 DEF Well
<1>6. CASE ReceiveHeartbeat
  <2>1. Head(mq).cmd = "HEARTBEAT" /\ mpc' = "update" /\ deadline' = "set" /\ UNCHANGED loadId
    BY <1>6 DEF ReceiveHeartbeat, Receive
  <2>2. status \notin {"Unloaded", "Loading"}
    BY <1>1, <2>1, ReceivedIsFirst
  <2>3. task # "none"
    BY <1>2, <2>1 DEF Well, MailInv
  <2>4. ThreadInv'
    BY <1>1, <2>1, <2>2, <2>3 DEF Well, ThreadInv, Dead
  <2>5. BootInv' /\ StartInv'
    BY <1>1, <2>1, <2>2 DEF Well, BootInv, StartInv
  <2> QED BY <1>3, <2>4, <2>5 DEF Well
<1> QED BY <1>4, <1>5, <1>6

(* The teardown finds the task whose end it reports.                         *)
LEMMA WellTeardown ==
  ASSUME TypeOK, Well, ReceiveTeardown
  PROVE  Well'
<1>1. /\ mpc = "wait" /\ mq # <<>> /\ mq' = Tail(mq) /\ Head(mq).cmd = "TEARDOWN" /\ mq \in Seq(ManagerMessage)
      /\ UNCHANGED <<files, present, loadId>>
  BY DEF ReceiveTeardown, Receive, Runs, TypeOK, flash
<1>2. /\ Ordered' /\ OneDownloaded' /\ (\A c : Pending(c)' => Pending(c)) /\ Pending("TEARDOWN")
      /\ ~Pending("HEARTBEAT")' /\ ~Pending("TEARDOWN")'
  BY <1>1, MailTaken DEF Well, MailInv
<1>3. task = "done" /\ handle = "live" /\ status \in {"Loaded", "Runloop", "Unloading"}
  BY <1>2 DEF Well, MailInv, ThreadInv
<1>4. /\ task' = "none" /\ handle' = "none" /\ status' = "Unloaded" /\ deadline' = "unset"
      /\ mpc' = "update" /\ UNCHANGED startTick
  BY <1>3 DEF ReceiveTeardown, DeleteTask, Orphan, Closed
<1>5. ThreadInv'
  BY <1>4 DEF ThreadInv, Dead
<1>6. BootInv'
  BY <1>4 DEF BootInv
<1>7. StartInv'
  BY <1>1, <1>4 DEF Well, StartInv
<1>8. MailInv'
  BY <1>2 DEF MailInv
<1>9. ~Pending("DOWNLOADED") /\ ~Pending("DOWNLOADED")' /\ \A a \in App : files[a] # {"app"}
  BY <1>2, <1>3 DEF Well, FilesInv
<1>10. FilesInv'
  BY <1>1, <1>9 DEF FilesInv
<1> QED BY <1>5, <1>6, <1>7, <1>8, <1>10 DEF Well

(* The files of what was reported as installed are complete.                 *)
LEMMA WellDownloaded ==
  ASSUME TypeOK, Well, ReceiveDownloaded
  PROVE  Well'
<1>1. /\ mpc = "wait" /\ mq # <<>> /\ Head(mq).cmd = "DOWNLOADED" /\ mq \in Seq(ManagerMessage) /\ loadId \in App
      /\ UNCHANGED <<handle, task, app, deadline, startTick, files, loadId>>
  BY DEF ReceiveDownloaded, Runs, TypeOK
<1>2. Pending("DOWNLOADED")
  <2>1. 1 \in DOMAIN mq /\ Head(mq) = mq[1]
    BY <1>1
  <2> QED BY <1>1, <2>1 DEF Pending
<1>3. status = "Downloading" /\ \A a \in App : files[a] # {"app"}
  BY <1>2 DEF Well, FilesInv
<1>4. /\ status' = "Unloaded" /\ mpc' = "update" /\ mq' = Tail(mq)
      /\ present' = [present EXCEPT ![loadId] = TRUE] \/ present' = [present EXCEPT ![loadId] = FALSE]
  BY <1>1, <1>3 DEF ReceiveDownloaded
<1>5. /\ Ordered' /\ OneDownloaded' /\ (\A c : Pending(c)' => Pending(c)) /\ ~Pending("DOWNLOADED")'
  BY <1>1, <1>4, MailTaken DEF Well, MailInv
<1>6. task = "none" /\ startTick # "over"
  BY <1>3 DEF Well, ThreadInv, StartInv
<1>7. ThreadInv'
  BY <1>1, <1>4, <1>6 DEF Well, ThreadInv, Dead
<1>8. BootInv'
  BY <1>4 DEF BootInv
<1>9. StartInv'
  BY <1>1, <1>4, <1>6 DEF StartInv
<1>10. MailInv'
  BY <1>1, <1>5 DEF Well, MailInv
<1>11. FilesInv'
  BY <1>1, <1>3, <1>5 DEF FilesInv
<1> QED BY <1>7, <1>8, <1>9, <1>10, <1>11 DEF Well

LEMMA WellQuit ==
  ASSUME TypeOK, Well, RequestQuit \/ PostQuit \/ SetDeadline
  PROVE  Well'
<1>1. UNCHANGED <<handle, task, app, files, present, loadId>> /\ Message("QUIT") \in ManagerMessage
      /\ Message("QUIT").cmd = "QUIT"
  BY MessageTypes DEF RequestQuit, PostQuit, SetDeadline, Message, Command, thread, flash
<1>2. mq' = mq \/ Post(Message("QUIT"))
  BY DEF RequestQuit, PostQuit, SetDeadline, PostOrLose, thread, queues
<1>3. /\ Ordered' /\ OneDownloaded'
      /\ \A c \in {"HEARTBEAT", "TEARDOWN", "DOWNLOADED"} : Pending(c)' => Pending(c)
  BY <1>1, <1>2, MailAdded DEF Well
<1>4. MailInv'
  BY <1>1, <1>3 DEF Well, MailInv
<1>5. CASE RequestQuit
  <2>1. mpc = "load" /\ mpc' = "update" /\ startTick' = "running" /\ UNCHANGED <<status, deadline>>
    BY <1>5 DEF RequestQuit, Runs
  <2>2. status # "Unloaded"
    BY <2>1 DEF Well, BootInv, Booting
  <2>3. ThreadInv' /\ BootInv' /\ StartInv'
    BY <1>1, <2>1, <2>2 DEF Well, ThreadInv, Dead, BootInv, StartInv
  <2>4. FilesInv'
    BY <1>1, <1>3, <2>1, FilesKept DEF Well
  <2> QED BY <1>4, <2>3, <2>4 DEF Well
<1>6. CASE PostQuit
  <2>1. mpc = "quit" /\ mpc' = "arm" /\ UNCHANGED <<status, deadline, startTick>>
    BY <1>6 DEF PostQuit, Runs, thread
  <2>2. status # "Unloaded"
    BY <2>1 DEF Well, BootInv, Booting
  <2>3. ThreadInv' /\ BootInv' /\ StartInv'
    BY <1>1, <2>1, <2>2 DEF Well, ThreadInv, Dead, BootInv, StartInv
  <2>4. FilesInv'
    BY <1>1, <1>3, <2>1, FilesKept DEF Well
  <2> QED BY <1>4, <2>3, <2>4 DEF Well
<1>7. CASE SetDeadline
  <2>1. /\ mpc = "arm" /\ mpc' = "update" /\ status' = "Unloading" /\ deadline' \in {deadline, "set"}
        /\ UNCHANGED startTick
    BY <1>7 DEF SetDeadline, Runs
  <2>2. task # "none" /\ status \in {"Loaded", "Runloop", "Unloading"}
    BY <2>1 DEF Well, ThreadInv
  <2>3. ThreadInv'
    BY <1>1, <2>1, <2>2 DEF Well, ThreadInv, Dead
  <2>4. BootInv' /\ StartInv'
    BY <1>1, <2>1 DEF Well, BootInv, StartInv
  <2>5. ~Pending("DOWNLOADED") /\ ~Pending("DOWNLOADED")' /\ \A a \in App : files[a] # {"app"}
    BY <1>3, <2>2 DEF Well, FilesInv
  <2>6. FilesInv'
    BY <1>1, <2>5 DEF FilesInv
  <2> QED BY <1>4, <2>3, <2>4, <2>6 DEF Well
<1> QED BY <1>5, <1>6, <1>7

LEMMA WellUpdate ==
  ASSUME TypeOK, Healthy, Well, Wake \/ Update \/ Fetch \/ Check
  PROVE  Well'
<1>1. UNCHANGED <<files, present, loadId, startTick, deadline>> /\ mq' = mq
  <2>1. CASE Wake
    BY <2>1 DEF Wake, thread, queues, flash
  <2>2. CASE Update
    BY <2>2 DEF Update, thread, queues, flash, Well, StartInv
  <2>3. CASE Fetch
    BY <2>3 DEF Fetch, queues, flash
  <2>4. CASE Check
    BY <2>4 DEF Check, flash, Well, ThreadInv
  <2> QED BY <2>1, <2>2, <2>3, <2>4
<1>2. Ordered' /\ OneDownloaded' /\ \A c : Pending(c)' <=> Pending(c)
  BY <1>1, MailKept DEF Well, MailInv
<1>3. CASE Wake
  BY <1>3 DEF Wake, Runs, Due, Well, ThreadInv, StartInv, BootInv, Booting
<1>4. CASE Update /\ status # "Unloaded"
  <2>1. mpc = "update" /\ mpc' = "check" /\ UNCHANGED <<status, handle, task, app>>
    BY <1>4 DEF Update, Runs, thread, Well, StartInv
  <2>2. ThreadInv' /\ BootInv' /\ StartInv'
    BY <1>1, <1>4, <2>1 DEF Well, ThreadInv, Dead, BootInv, StartInv
  <2>3. MailInv' /\ FilesInv'
    BY <1>1, <1>2, <2>1, FilesKept DEF Well, MailInv
  <2> QED BY <2>2, <2>3 DEF Well
<1>5. CASE Update /\ status = "Unloaded"
  <2>1. task = "none" /\ handle = "none"
    BY <1>5 DEF Well, ThreadInv
  <2>2. /\ mpc = "update" /\ mpc' = "fetch" /\ status' = "Loading" /\ app' = loadId /\ task' = "none" /\ handle' = "none"
    BY <1>5, <2>1 DEF Update, Runs
  <2>3. ThreadInv' /\ BootInv' /\ StartInv'
    BY <1>1, <2>1, <2>2 DEF Well, ThreadInv, Dead, BootInv, StartInv
  <2>4. MailInv'
    BY <1>2, <2>1, <2>2 DEF Well, MailInv
  <2>5. FilesInv'
    BY <1>1, <1>2, <1>5 DEF Well, FilesInv
  <2> QED BY <2>3, <2>4, <2>5 DEF Well
<1>6. CASE Fetch
  <2>1. /\ mpc = "fetch" /\ mpc' = "check" /\ UNCHANGED app /\ status = "Loading" /\ app = loadId
        /\ task = "none" /\ handle = "none"
    BY <1>6 DEF Fetch, Runs, Well, ThreadInv
  <2>2. ~Broken
    BY DEF Healthy, Broken
  <2>3. \/ app \in External /\ ~present[app] /\ status' = "Downloading" /\ UNCHANGED <<handle, task>>
        \/ (app \in External => present[app]) /\ status' = "Loaded" /\ handle' = "live" /\ task' = "main"
    BY <1>6, <2>2 DEF Fetch
  <2>4. ThreadInv' /\ BootInv'
    BY <1>1, <2>1, <2>3 DEF Well, ThreadInv, Dead, BootInv
  <2>5. StartInv'
    BY <1>1, <2>1, <2>3 DEF Well, StartInv, External
  <2>6. MailInv'
    BY <1>2, <2>1, <2>3 DEF Well, MailInv
  <2>7. FilesInv'
    BY <1>1, <1>2, <2>1 DEF Well, FilesInv
  <2> QED BY <2>4, <2>5, <2>6, <2>7 DEF Well
<1>7. CASE Check
  <2>1. mpc = "check" /\ mpc' = "wait" /\ UNCHANGED <<status, handle, task, app>>
    BY <1>7 DEF Check, Runs, Well, ThreadInv
  <2>2. status # "Unloaded"
    BY <2>1 DEF Well, BootInv, Booting
  <2>3. ThreadInv' /\ BootInv' /\ StartInv'
    BY <1>1, <2>1, <2>2 DEF Well, ThreadInv, Dead, BootInv, StartInv
  <2>4. MailInv' /\ FilesInv'
    BY <1>1, <1>2, <2>1, FilesKept DEF Well, MailInv
  <2> QED BY <2>3, <2>4 DEF Well
<1> QED BY <1>3, <1>4, <1>5, <1>6, <1>7

(* An application with a thread of its own: nothing is downloaded.           *)
LEMMA WellApplication ==
  ASSUME TypeOK, Healthy, Well, Application
  PROVE  Well'
<1>1. /\ UNCHANGED <<handle, app, deadline, startTick, files, present, loadId, mpc>>
      /\ task \in {"main", "beat", "receive", "deinit"} /\ task' # "none"
      /\ task' = "done" => Finish
  BY DEF Application, EnterLoop, ReturnAtOnce, Beat, Turn, Finish, TakeQuit, flash, queues
<1>2. status \in {"Loaded", "Runloop", "Unloading"} /\ status' \in {"Loaded", "Runloop", "Unloading"}
  <2>1. status \in {"Loaded", "Runloop", "Unloading"}
    BY <1>1 DEF Well, ThreadInv
  <2> QED BY <2>1 DEF Application, EnterLoop, ReturnAtOnce, Beat, Turn, Finish, TakeQuit
<1>3. ThreadInv'
  BY <1>1, <1>2 DEF Well, ThreadInv
<1>4. BootInv' /\ StartInv'
  BY <1>1, <1>2 DEF Well, BootInv, StartInv
<1>5. ~Pending("TEARDOWN") /\ ~Pending("DOWNLOADED") /\ \A a \in App : files[a] # {"app"}
  BY <1>1, <1>2 DEF Well, MailInv, FilesInv
<1>6. MailInv' /\ ~Pending("DOWNLOADED")'
  <2>1. CASE mq' = mq /\ task' # "done"
    BY <1>1, <1>5, <2>1, MailKept DEF Well, MailInv
  <2>2. CASE Post(Message("HEARTBEAT")) /\ task' # "done"
    <3>1. mq' = Append(mq, Message("HEARTBEAT")) /\ Message("HEARTBEAT") \in ManagerMessage
          /\ Message("HEARTBEAT").cmd = "HEARTBEAT" /\ mq \in Seq(ManagerMessage)
      BY <2>2, MessageTypes DEF Post, Message, Command, TypeOK
    <3> QED BY <1>1, <1>5, <2>2, <3>1, MailPosted DEF Well, MailInv
  <2>3. CASE Finish
    <3>1. ~Late
      BY DEF Healthy, Late
    <3>2. mq' = Append(mq, Message("TEARDOWN")) /\ task' = "done" /\ Message("TEARDOWN") \in ManagerMessage
          /\ Message("TEARDOWN").cmd = "TEARDOWN" /\ mq \in Seq(ManagerMessage)
      BY <2>3, <3>1, MessageTypes DEF Finish, Post, Message, Command, TypeOK
    <3> QED BY <1>5, <3>2, MailPosted DEF Well, MailInv
  <2>4. Finish \/ mq' = mq \/ Post(Message("HEARTBEAT"))
    BY DEF Application, EnterLoop, ReturnAtOnce, Beat, Turn, queues
  <2> QED BY <1>1, <2>1, <2>2, <2>3, <2>4
<1>7. FilesInv'
  BY <1>1, <1>5, <1>6 DEF FilesInv
<1> QED BY <1>3, <1>4, <1>6, <1>7 DEF Well

(* The phone sends the one that is awaited.                                  *)
LEMMA WellPhone ==
  ASSUME TypeOK, Healthy, Well, SendApp \/ (\E a \in App : SendResources(a))
  PROVE  Well'
<1>1. UNCHANGED <<status, handle, task, app, deadline, startTick, present, loadId, mpc>>
  BY DEF SendApp, SendResources, thread
<1>2. ~Unasked /\ ~Late
  BY DEF Healthy, Unasked, Late
<1>3. status = "Downloading" /\ app \in App
  <2>1. status = "Downloading"
    BY <1>2 DEF SendApp, SendResources
  <2> QED BY <2>1 DEF Well, StartInv, External
<1>4. ThreadInv' /\ BootInv' /\ StartInv'
  BY <1>1, <1>3 DEF Well, ThreadInv, BootInv, StartInv
<1>5. files \in [App -> SUBSET {"app", "res"}]
  BY DEF TypeOK
<1>6. CASE SendApp
  <2>1. "app" \notin files[app] /\ files' = [files EXCEPT ![app] = @ \cup {"app"}] /\ mq' = mq
    BY <1>6 DEF SendApp, queues
  <2>2. ~Pending("DOWNLOADED") /\ ~Pending("DOWNLOADED")' /\ MailInv'
    BY <1>1, <2>1, MailKept DEF Well, FilesInv, MailInv
  <2>3. \A a \in App : a # app => files'[a] = files[a]
    BY <1>5, <2>1
  <2>4. FilesInv'
    BY <1>1, <1>3, <2>2, <2>3 DEF Well, FilesInv
  <2> QED BY <1>4, <2>2, <2>4 DEF Well
<1>7. CASE \E a \in App : SendResources(a)
  <2>1. /\ "app" \in files[app] /\ ~Pending("DOWNLOADED") /\ files' = [files EXCEPT ![app] = @ \cup {"res"}]
        /\ mq' = Append(mq, Message("DOWNLOADED")) /\ Message("DOWNLOADED") \in ManagerMessage
        /\ Message("DOWNLOADED").cmd = "DOWNLOADED" /\ mq \in Seq(ManagerMessage)
    BY <1>2, <1>7, MessageTypes DEF SendResources, Post, Message, Command, TypeOK
  <2>2. MailInv'
    BY <1>1, <2>1, MailPosted DEF Well, MailInv
  <2>3. files'[app] = files[app] \cup {"res"} /\ \A a \in App : a # app => files'[a] = files[a]
    BY <1>3, <1>5, <2>1
  <2>4. "res" \in files'[app] /\ "app" \in files'[app]
    BY <2>1, <2>3
  <2>5. \A a \in App : files'[a] # {"app"}
    BY <2>3, <2>4 DEF Well, FilesInv
  <2>6. FilesInv'
    BY <1>1, <1>3, <2>4, <2>5 DEF FilesInv
  <2> QED BY <1>4, <2>2, <2>6 DEF Well
<1> QED BY <1>6, <1>7

LEMMA WellOthers ==
  ASSUME TypeOK, Healthy, Well, BeginPost \/ EndPost \/ (\E a \in App : Request(a)) \/ Time \/ UNCHANGED vars
  PROVE  Well'
<1>1. UNCHANGED <<status, handle, task, app, files, present, loadId, mpc>>
  BY DEF BeginPost, EndPost, Request, Time, DeadlineReached, StartTickOver, vars, thread, flash
<1>2. PICK a \in App : mq' = mq \/ Post(LoadOf(a))
  BY MessageTypes DEF BeginPost, EndPost, Request, Time, DeadlineReached, StartTickOver, vars, thread, queues
<1>3. LoadOf(a) \in ManagerMessage /\ LoadOf(a).cmd = "LOAD"
  BY MessageTypes DEF LoadOf
<1>4. /\ Ordered' /\ OneDownloaded'
      /\ \A c \in {"HEARTBEAT", "TEARDOWN", "DOWNLOADED"} : Pending(c)' => Pending(c)
      /\ mq # <<>> => mq' # <<>> /\ Head(mq') = Head(mq)
  BY <1>2, <1>3, MailAdded DEF Well
<1>5. MailInv' /\ FilesInv'
  BY <1>1, <1>4, FilesKept DEF Well, MailInv
<1>6. ~Late
  BY DEF Healthy, Late
<1>7. deadline' = deadline
  BY <1>6 DEF BeginPost, EndPost, Request, Time, DeadlineReached, StartTickOver, vars, thread, Well, ThreadInv
<1>8. ThreadInv'
  BY <1>1, <1>7 DEF Well, ThreadInv
<1>9. startTick' = startTick \/ (startTick' = "over" /\ status = "Runloop" /\ app = loadId)
  BY <1>6 DEF BeginPost, EndPost, Request, Time, DeadlineReached, StartTickOver, vars, thread
<1>10. BootInv'
  BY <1>1, <1>4, <1>9 DEF Well, BootInv, Booting
<1>11. status = "Runloop" => task # "none"
  BY DEF Well, ThreadInv
<1>12. StartInv'
  BY <1>1, <1>9, <1>11 DEF Well, StartInv, External, TypeOK
<1> QED BY <1>5, <1>8, <1>10, <1>12 DEF Well

LEMMA HealthNext == TypeOK /\ HealthInv /\ [Next]_vars => HealthInv'
<1> SUFFICES ASSUME TypeOK, HealthInv, [Next]_vars, Healthy' PROVE Well'
  BY DEF HealthInv
<1>1. env' = env
  BY DEF Next, Manager, ReceiveLoad, RequestQuit, ReceiveQuit, PostQuit, SetDeadline, ReceiveHeartbeat,
         ReceiveTeardown, ReceiveDownloaded, Wake, Update, Fetch, Check, Application, EnterLoop, ReturnAtOnce,
         Beat, Turn, Finish, Others, BeginPost, EndPost, SendApp, Request, SendResources, Time, DeadlineReached,
         StartTickOver, vars
<1>2. Healthy /\ Well
  BY <1>1 DEF Healthy, HealthInv
<1> QED
  BY <1>2, WellReceive, WellTeardown, WellDownloaded, WellQuit, WellUpdate, WellApplication, WellPhone, WellOthers
  DEF Next, Manager, Others

(* Whatever is asked for and however it overlaps with an application that     *)
(* starts or stops, the manager does not delete itself, nor a task twice, nor *)
(* fail its assertion (appmanager.c:368-377, 470-477), unless a task overruns *)
(* a limit, an application does not load or the phone sends unasked.          *)
THEOREM ManagerStays == Spec => []ManagerSurvives
<1>1. HealthInv => ManagerSurvives
  BY DEF HealthInv, Healthy, Well, ThreadInv, ManagerSurvives
<1>2. TypeOK /\ HealthInv /\ [Next]_vars => TypeOK' /\ HealthInv'
  BY TypeStep, HealthNext
<1>3. Init => HealthInv
  BY WellInit DEF HealthInv
<1> QED BY <1>1, <1>2, <1>3, TypeInit, PTL DEF Spec

-----------------------------------------------------------------------------
(***************************************************************************)
(* The timers.  The order of the links is given by ranks: a rank of the     *)
(* slots that grows along the links, by which the slots of L, after Root,   *)
(* are linked to each other and to no other.                                *)
(***************************************************************************)
Line(L) == L \cup {Root}
Ranked(next, L, rank) ==
    /\ \A s \in Line(L) : next[s] # Nil => next[s] \in L /\ rank[s] < rank[next[s]]
    /\ \A s, t \in Line(L) : rank[s] < rank[t] => next[s] # Nil /\ rank[next[s]] <= rank[t]
    /\ \A s, t \in Line(L) : rank[s] = rank[t] => s = t
    /\ \A n \in L : rank[Root] < rank[n] /\ \E s \in Line(L) : next[s] = n
Rank == [Slot -> Nat]

Lined(r, L) ==
    /\ L \subseteq Node
    /\ \E rank \in Rank : Ranked(r.next, L, rank)
    /\ \A n \in L : r.next[n] # Nil => r.due[n] <= r.due[r.next[n]]

\* L is the list, and the flags and blocks, but for those of x whose callback runs,
\* say who is in it; of the tick timer, who may be.
Told(r, e, L, x) ==
    /\ Lined(r, L)
    /\ \A n \in AppTimer : n \in L <=> r.id[n] # Nil /\ n \notin x
    /\ \A n \in x : n \in AppTimer /\ r.id[n] # Nil
    /\ Tick \in L => r.onqueue[Tick]
    /\ Anim \in L <=> IF e THEN r.playing ELSE r.onqueue[Anim]
    /\ r.onqueue[Anim] => r.playing
    /\ r.playing => e \/ r.onqueue[Anim]

\* The tick timer is in it when its flag says so, except when the manager has
\* unlinked it, and no walk has failed.
Kept(r, e, L, x, m) ==
    /\ Told(r, e, L, x) /\ r.fault = "none"
    /\ IF m = "clear" THEN r.onqueue[Tick] /\ Tick \notin L ELSE r.onqueue[Tick] => Tick \in L

\* Where the manager is in the list.
Position(next, L, m, a) ==
    /\ m = "walk" =>
          /\ a \in Line(L)
          /\ \A rank \in Rank : Ranked(next, L, rank) => rank[a] < rank[Tick]
    /\ m = "unlink" => a \in Line(L) /\ next[a] = Tick

LineInv ==
    clean => /\ \E L \in SUBSET Node :
                   Kept(ram, endless, L, {}, mstep) /\ Position(ram.next, L, mstep, at)
             /\ Removing => ram.onqueue[Tick]

TimersInv == TimersTypeOK /\ LineInv

LEMMA LeastNat ==
  ASSUME NEW T \in SUBSET Nat, T # {}
  PROVE  \E m \in T : \A k \in T : m <= k
<1> DEFINE less == OpToRel(<, Nat)
<1>1. IsWellFoundedOn(less, Nat)
  BY NatLessThanWellFounded, Zenon
<1>2. \A k, m \in Nat : k < m => <<k, m>> \in less
  BY DEF OpToRel
<1> HIDE DEF less
<1>3. PICK m \in T : \A k \in T : <<k, m>> \notin less
  BY <1>1, WFMin
<1>4. ASSUME NEW k \in T
      PROVE  m <= k
  <2>1. k \in Nat /\ m \in Nat /\ ~(k < m)
    BY <1>2, <1>3
  <2> QED
    BY <2>1
<1> QED
  BY <1>4

LEMMA Slots ==
  /\ IsFiniteSet(Slot) /\ Cardinality(Slot) \in Nat
  /\ Root \in Slot /\ Root \notin Node /\ Nil \notin Slot /\ Nil \notin Node
  /\ Tick \in Node /\ Anim \in Node /\ Tick # Anim
  /\ Tick \notin AppTimer /\ Anim \notin AppTimer
<1>1. IsFiniteSet({Tick, Anim, Root})
  <2>1. IsFiniteSet({} \cup {Root})
    BY FS_EmptySet, FS_AddElement
  <2>2. IsFiniteSet(({} \cup {Root}) \cup {Anim})
    BY <2>1, FS_AddElement
  <2>3. IsFiniteSet((({} \cup {Root}) \cup {Anim}) \cup {Tick})
    BY <2>2, FS_AddElement
  <2>4. {Tick, Anim, Root} = (({} \cup {Root}) \cup {Anim}) \cup {Tick}
    OBVIOUS
  <2> QED
    BY <2>3, <2>4
<1>2. Slot = AppTimer \cup {Tick, Anim, Root}
  BY DEF Slot, Node
<1>3. IsFiniteSet(Slot)
  BY <1>1, <1>2, FS_Union, TimerAssumption
<1> QED
  BY <1>3, FS_CardinalityType, TimerAssumption DEF Slot, Node

\* The slots that a walk is at, one after the other, up to the k-th.
Steps(r, stops) == [s \in Slot \cup {Nil} |-> IF s \in stops \cup {Nil} THEN s ELSE r.next[s]]
IsWalk(w, step, k) == \A i \in 0 .. k : w[i] = IF i = 0 THEN Root ELSE step[w[i - 1]]

LEMMA WalkExists ==
  ASSUME NEW step, NEW k \in Nat
  PROVE  \E w : IsWalk(w, step, k)
<1> DEFINE bad == {i \in Nat : ~\E w : IsWalk(w, step, i)}
<1> SUFFICES ASSUME bad # {} PROVE FALSE
  OBVIOUS
<1>0. bad \in SUBSET Nat
  OBVIOUS
<1>1. PICK m \in bad : \A i \in bad : m <= i
  <2> HIDE DEF bad
  <2> QED
    BY <1>0, LeastNat
<1>2. CASE m = 0
  <2>1. IsWalk([i \in 0 .. 0 |-> Root], step, 0)
    BY DEF IsWalk
  <2> QED
    BY <1>1, <1>2, <2>1
<1>3. CASE m # 0
  <2>1. m - 1 \in Nat /\ m - 1 \notin bad
    BY <1>1, <1>3
  <2>2. PICK w : IsWalk(w, step, m - 1)
    BY <2>1
  <2> DEFINE v == [i \in 0 .. m |-> IF i = m THEN step[w[m - 1]] ELSE w[i]]
  <2>3. ASSUME NEW i \in 0 .. m
        PROVE  v[i] = IF i = 0 THEN Root ELSE step[v[i - 1]]
    <3>1. CASE i = m
      <4>1. v[i - 1] = w[m - 1] /\ v[i] = step[w[m - 1]]
        BY <1>1, <1>3, <3>1
      <4> HIDE DEF v
      <4> QED
        BY <1>3, <3>1, <4>1
    <3>2. CASE i # m
      <4>1. i \in 0 .. m - 1 /\ v[i] = w[i]
        BY <1>1, <3>2
      <4>2. i # 0 => v[i - 1] = w[i - 1]
        BY <1>1, <3>2
      <4> HIDE DEF v
      <4> QED
        BY <2>2, <4>1, <4>2 DEF IsWalk
    <3> QED
      BY <3>1, <3>2
  <2> HIDE DEF v
  <2>4. IsWalk(v, step, m)
    BY <2>3 DEF IsWalk
  <2> QED
    BY <1>1, <2>4
<1> QED
  BY <1>2, <1>3

LEMMA WalkToIsWalk ==
  ASSUME NEW r, NEW stops
  PROVE  \E w : IsWalk(w, Steps(r, stops), Cardinality(Slot)) /\ WalkTo(r, stops) = w[Cardinality(Slot)]
<1> DEFINE step == Steps(r, stops)
           N    == Cardinality(Slot)
           f    == CHOOSE f : f = [i \in 0 .. N |-> IF i = 0 THEN Root ELSE step[f[i - 1]]]
<1>1. WalkTo(r, stops) = f[N]
  BY DEF WalkTo, Steps
<1>2. N \in Nat
  BY Slots
<1> HIDE DEF step, N
<1>3. PICK w : IsWalk(w, step, N)
  BY <1>2, WalkExists
<1> DEFINE g == [i \in 0 .. N |-> w[i]]
<1>4. g = [i \in 0 .. N |-> IF i = 0 THEN Root ELSE step[g[i - 1]]]
  <2>1. ASSUME NEW i \in 0 .. N
        PROVE  w[i] = IF i = 0 THEN Root ELSE step[g[i - 1]]
    <3>1. i # 0 => g[i - 1] = w[i - 1]
      BY <1>2
    <3> HIDE DEF g
    <3> QED
      BY <1>3, <3>1 DEF IsWalk
  <2> QED
    BY <2>1
<1>5. f = [i \in 0 .. N |-> IF i = 0 THEN Root ELSE step[f[i - 1]]]
  <2> HIDE DEF g
  <2> QED
    BY <1>4
<1> HIDE DEF f
<1>6. IsWalk(f, step, N)
  BY <1>5 DEF IsWalk
<1> QED
  BY <1>1, <1>6 DEF step, N

Stopped(stops, s) == s \in stops \cup {Nil}

\* What is known of a walk along an ordered list at its i-th slot: nothing it
\* has left, and nothing before it, is one of the stops.
Ahead(w, next, L, rank, stops, i) ==
    /\ w[i] \in Line(L) \cup {Nil}
    /\ w[i] # Nil => \A s \in Line(L) : rank[s] < rank[w[i]] => s \notin stops
    /\ w[i] = Nil => Line(L) \cap stops = {} /\ \E s \in Line(L) : next[s] = Nil
    /\ ~Stopped(stops, w[i]) =>
          \A j \in 0 .. i - 1 :
             ~Stopped(stops, w[j]) /\ w[j] \in Line(L) /\ rank[w[j]] < rank[w[i]]

LEMMA LineSlots ==
  ASSUME NEW L \in SUBSET Node
  PROVE  Line(L) \subseteq Slot /\ Nil \notin Line(L) /\ Root \in Line(L) /\ Root \notin L
BY Slots DEF Line, Slot

LEMMA WalkGoesAhead ==
  ASSUME NEW r, NEW L \in SUBSET Node, NEW rank \in Rank, Ranked(r.next, L, rank),
         NEW stops, NEW w, NEW k \in Nat, IsWalk(w, Steps(r, stops), k)
  PROVE  \A i \in 0 .. k : Ahead(w, r.next, L, rank, stops, i)
<1> DEFINE bad == {i \in 0 .. k : ~Ahead(w, r.next, L, rank, stops, i)}
<1> SUFFICES ASSUME bad # {} PROVE FALSE
  OBVIOUS
<1>0. bad \in SUBSET Nat
  OBVIOUS
<1>1. PICK m \in bad : \A i \in bad : m <= i
  <2> HIDE DEF bad
  <2> QED
    BY <1>0, LeastNat
<1>2. m \in 0 .. k /\ ~Ahead(w, r.next, L, rank, stops, m)
  BY <1>1
<1>3. \A s \in Line(L) : rank[s] \in Nat
  BY LineSlots DEF Rank
<1>4. CASE m = 0
  <2>1. w[0] = Root
    BY <1>2, <1>4 DEF IsWalk
  <2>2. \A s \in Line(L) : ~(rank[s] < rank[Root])
    BY <1>3, LineSlots DEF Ranked, Line
  <2> QED
    BY <1>2, <1>4, <2>1, <2>2, LineSlots DEF Ahead
<1>5. CASE m # 0
  <2>1. m - 1 \in 0 .. k /\ m - 1 \notin bad
    BY <1>1, <1>5
  <2>2. Ahead(w, r.next, L, rank, stops, m - 1)
    BY <2>1
  <2> DEFINE s == w[m - 1]
             t == w[m]
  <2>3. s \in Line(L) \cup {Nil}
    BY <2>2 DEF Ahead
  <2>4. t = IF Stopped(stops, s) THEN s ELSE r.next[s]
    <3>1. t = Steps(r, stops)[s]
      BY <1>2, <1>5 DEF IsWalk
    <3>2. s \in Slot \cup {Nil}
      BY <2>3, LineSlots
    <3> QED
      BY <3>1, <3>2 DEF Steps, Stopped
  <2>5. CASE Stopped(stops, s)
    <3>1. t = s
      BY <2>4, <2>5
    <3> HIDE DEF t, s
    <3>2. w[m] = w[m - 1]
      BY <3>1 DEF t, s
    <3>3. Stopped(stops, w[m - 1])
      BY <2>5 DEF s
    <3> QED
      BY <1>2, <2>2, <3>2, <3>3 DEF Ahead
  <2>6. CASE ~Stopped(stops, s)
    <3>1. s \in Line(L) /\ s \notin stops /\ t = r.next[s]
      BY <2>3, <2>4, <2>6 DEF Stopped
    <3>2. \A q \in Line(L) : rank[q] < rank[s] => q \notin stops
      BY <2>2, <3>1, LineSlots DEF Ahead
    <3>3. \A j \in 0 .. m - 2 :
             ~Stopped(stops, w[j]) /\ w[j] \in Line(L) /\ rank[w[j]] < rank[s]
      <4>1. (m - 1) - 1 = m - 2
        BY <1>2
      <4> QED
        BY <2>2, <2>6, <4>1 DEF Ahead
    <3> HIDE DEF s, t
    <3>4. CASE t = Nil
      <4>1. \A q \in Line(L) : ~(rank[s] < rank[q])
        BY <3>1, <3>4 DEF Ranked
      <4>2. \A q \in Line(L) : q \notin stops
        BY <1>3, <3>1, <3>2, <4>1 DEF Ranked
      <4> QED
        BY <1>2, <3>1, <3>4, <4>2 DEF Ahead, t, Stopped
    <3>5. CASE t # Nil
      <4>1. t \in L /\ t \in Line(L) /\ rank[s] < rank[t]
        BY <3>1, <3>5 DEF Ranked, Line
      <4>2. ASSUME NEW q \in Line(L), rank[q] < rank[t]
            PROVE  q \notin stops
        <5>1. ~(rank[s] < rank[q])
          BY <1>3, <3>1, <4>1, <4>2 DEF Ranked
        <5> QED
          BY <1>3, <3>1, <3>2, <5>1 DEF Ranked
      <4>3. ASSUME NEW j \in 0 .. m - 1
            PROVE  ~Stopped(stops, w[j]) /\ w[j] \in Line(L) /\ rank[w[j]] < rank[t]
        <5>1. CASE j = m - 1
          BY <2>6, <3>1, <4>1, <5>1 DEF s
        <5>2. CASE j # m - 1
          <6>1. j \in 0 .. m - 2
            BY <1>2, <5>2
          <6> QED
            BY <1>3, <3>1, <3>3, <4>1, <6>1
        <5> QED
          BY <5>1, <5>2
      <4> QED
        BY <1>2, <3>5, <4>1, <4>2, <4>3 DEF Ahead, t
    <3> QED
      BY <3>4, <3>5
  <2> QED
    BY <2>5, <2>6
<1> QED
  BY <1>4, <1>5

\* A walk along an ordered list ends at the first of the stops in it, or at its
\* end when there is none.
LEMMA WalkEnds ==
  ASSUME NEW r, NEW L \in SUBSET Node, NEW rank \in Rank, Ranked(r.next, L, rank), NEW stops
  PROVE  \/ /\ WalkTo(r, stops) \in Line(L) \cap stops
            /\ \A s \in Line(L) : rank[s] < rank[WalkTo(r, stops)] => s \notin stops
         \/ /\ WalkTo(r, stops) = Nil /\ Line(L) \cap stops = {}
            /\ \E s \in Line(L) : r.next[s] = Nil
<1> DEFINE N == Cardinality(Slot)
<1>1. PICK w : IsWalk(w, Steps(r, stops), N) /\ WalkTo(r, stops) = w[N]
  BY WalkToIsWalk
<1>2. N \in Nat /\ IsFiniteSet(Slot)
  BY Slots
<1> HIDE DEF N
<1>3. \A i \in 0 .. N : Ahead(w, r.next, L, rank, stops, i)
  BY <1>1, <1>2, WalkGoesAhead
<1>4. Stopped(stops, w[N])
  <2> SUFFICES ASSUME ~Stopped(stops, w[N]) PROVE FALSE
    OBVIOUS
  <2>1. \A i \in 0 .. N : ~Stopped(stops, w[i]) /\ w[i] \in Line(L)
    <3>1. Ahead(w, r.next, L, rank, stops, N) /\ N \in 0 .. N
      BY <1>2, <1>3
    <3>2. \A i \in 0 .. N - 1 : ~Stopped(stops, w[i]) /\ w[i] \in Line(L)
      BY <3>1 DEF Ahead
    <3>3. w[N] \in Line(L)
      BY <3>1 DEF Ahead, Stopped
    <3> QED
      BY <1>2, <3>2, <3>3
  <2>2. ASSUME NEW i \in 0 .. N, NEW j \in 0 .. N, j < i
        PROVE  w[j] # w[i]
    <3>1. Ahead(w, r.next, L, rank, stops, i) /\ ~Stopped(stops, w[i]) /\ j \in 0 .. i - 1
      BY <1>2, <1>3, <2>1, <2>2
    <3>2. rank[w[j]] < rank[w[i]]
      BY <3>1 DEF Ahead
    <3>3. rank[w[i]] \in Nat
      BY <2>1, LineSlots DEF Rank
    <3> QED
      BY <3>2, <3>3
  <2> DEFINE f == [i \in 0 .. N |-> w[i]]
  <2>3. f \in [0 .. N -> Slot]
    BY <2>1, LineSlots
  <2>4. \A i, j \in 0 .. N : f[i] = f[j] => i = j
    <3> SUFFICES ASSUME NEW i \in 0 .. N, NEW j \in 0 .. N, w[i] = w[j], i # j PROVE FALSE
      OBVIOUS
    <3>1. i < j \/ j < i
      BY <1>2
    <3> QED
      BY <2>2, <3>1
  <2>5. Cardinality(0 .. N) <= N
    <3>1. f \in Injection(0 .. N, Slot)
      BY <2>3, <2>4 DEF Injection, IsInjective
    <3> QED
      BY <1>2, <3>1, FS_Injection DEF N
  <2>6. Cardinality(0 .. N) = N + 1
    BY <1>2, FS_Interval
  <2> QED
    BY <1>2, <2>5, <2>6
<1>5. Ahead(w, r.next, L, rank, stops, N)
  BY <1>2, <1>3
<1> QED
  BY <1>1, <1>4, <1>5 DEF Ahead, Stopped

LEMMA ListedIsLine ==
  ASSUME NEW r, NEW L, Lined(r, L)
  PROVE  Listed(r) = L /\ ~Cyclic(r)
<1>1. PICK rank \in Rank : Ranked(r.next, L, rank)
  BY DEF Lined
<1>2. L \in SUBSET Node
  BY DEF Lined
<1>3. ASSUME NEW n \in Node
      PROVE  WalkTo(r, {n}) = n <=> n \in L
  <2>1. n # Nil /\ n # Root
    BY Slots
  <2>2. \/ WalkTo(r, {n}) \in Line(L) \cap {n}
        \/ WalkTo(r, {n}) = Nil /\ Line(L) \cap {n} = {}
    BY <1>1, <1>2, WalkEnds
  <2>3. n \in Line(L) <=> n \in L
    BY <2>1 DEF Line
  <2> QED
    BY <2>1, <2>2, <2>3
<1>4. WalkTo(r, {}) = Nil
  BY <1>1, <1>2, WalkEnds
<1> QED
  BY <1>2, <1>3, <1>4 DEF Listed, InList, Cyclic

LEMMA SameNextSameLine ==
  ASSUME NEW r, NEW L, Lined(r, L), NEW q, NEW M, Lined(q, M), r.next = q.next
  PROVE  L = M
<1>1. \A stops : WalkTo(r, stops) = WalkTo(q, stops)
  BY DEF WalkTo
<1>2. Listed(r) = Listed(q)
  BY <1>1 DEF Listed, InList
<1> QED
  BY <1>2, ListedIsLine

\* What a call to the list does, after its walk.
Put(r, s, n, d) ==
    [r EXCEPT !.due[n] = d, !.next = [@ EXCEPT ![n] = r.next[s], ![s] = n]]
Out(r, s, n) == [r EXCEPT !.next[s] = r.next[n], !.due[n] = 0]
Later(r, n, d) == {s \in Slot : r.next[s] \in {Nil, n} \/ d <= r.due[r.next[s]]}
To(r, n) == {s \in Slot : r.next[s] = n}

LEMMA AddedIs ==
  ASSUME NEW r, NEW n, NEW d, NEW s, s = WalkTo(r, Later(r, n, d))
  PROVE  Added(r, n, d) = IF s \in Later(r, n, d) THEN Put(r, s, n, d) ELSE Faulted(r, "hang")
BY DEF Added, At, With, Put, Later

LEMMA RemovedIs ==
  ASSUME NEW r, NEW n, NEW s, s = WalkTo(r, To(r, n))
  PROVE  Removed(r, n) = IF s \in To(r, n) THEN Out(r, s, n)
                         ELSE Faulted(r, IF s = Nil THEN "notFound" ELSE "hang")
BY DEF Removed, At, With, Out, To

Ticks == (-MaxLate .. 0) \cup Coming
Delay == AppDelay \cup TickDelay \cup AnimDelay \cup {1}
Ram == [next : [Slot -> Node \cup {Nil}], due : [Node -> Ticks],
        id : [AppTimer -> Id \cup {Nil}], onqueue : [{Tick, Anim} -> BOOLEAN],
        playing : BOOLEAN, fault : {"none", "hang", "notFound"}]

LEMMA Dues ==
  /\ Ticks \subseteq Int /\ 0 \in Ticks /\ Delay \subseteq Ticks
  /\ \A d \in Ticks : d > -MaxLate => d - 1 \in Ticks
<1>1. \A d \in Delay : d \in Nat /\ d > 0
  BY DelayAssumption DEF Delay
<1>2. Coming = UNION {1 .. d : d \in Delay}
  BY DEF Coming, Delay
<1>3. MaxLate \in Nat
  BY DelayAssumption
<1>4. \A d \in Delay : d \in Coming
  <2>1. \A d \in Delay : d \in 1 .. d
    BY <1>1
  <2> QED
    BY <1>2, <2>1
<1>5. ASSUME NEW c \in Coming
      PROVE  c \in Int /\ c > 0 /\ (c - 1 \in Coming \/ c - 1 = 0)
  <2>1. PICK d \in Delay : c \in 1 .. d
    BY <1>2, <1>5
  <2>2. d \in Nat /\ c \in Int /\ c > 0
    BY <1>1, <2>1
  <2>3. c - 1 = 0 \/ c - 1 \in 1 .. d
    BY <2>1, <2>2
  <2> QED
    BY <1>2, <2>1, <2>2, <2>3
<1>6. \A d \in -MaxLate .. 0 : d > -MaxLate => d - 1 \in -MaxLate .. 0
  BY <1>3
<1>7. 0 \in -MaxLate .. 0 /\ -MaxLate .. 0 \subseteq Int
  BY <1>3
<1> QED
  BY <1>4, <1>5, <1>6, <1>7 DEF Ticks

\* Adding and removing do not touch the flags and the blocks.
Alike(q, r) == q \in Ram /\ q.id = r.id /\ q.onqueue = r.onqueue /\ q.playing = r.playing

LEMMA PutType ==
  ASSUME NEW r \in Ram, NEW s \in Slot, NEW n \in Node, NEW d \in Delay
  PROVE  /\ Alike(Put(r, s, n, d), r)
         /\ Put(r, s, n, d).next = [r.next EXCEPT ![n] = r.next[s], ![s] = n]
         /\ Put(r, s, n, d).due = [r.due EXCEPT ![n] = d]
         /\ Put(r, s, n, d).fault = r.fault
BY Slots, Dues DEF Put, Ram, Alike

LEMMA OutType ==
  ASSUME NEW r \in Ram, NEW s \in Slot, NEW n \in Node
  PROVE  /\ Alike(Out(r, s, n), r)
         /\ Out(r, s, n).next = [r.next EXCEPT ![s] = r.next[n]]
         /\ Out(r, s, n).due = [r.due EXCEPT ![n] = 0]
         /\ Out(r, s, n).fault = r.fault
BY Slots, Dues DEF Out, Ram, Slot, Alike

LEMMA FaultedType ==
  ASSUME NEW r \in Ram, NEW f \in {"hang", "notFound"}
  PROVE  Alike(Faulted(r, f), r) /\ Faulted(r, f).next = r.next
BY DEF Faulted, Ram, Alike

LEMMA AddedType ==
  ASSUME NEW r \in Ram, NEW n \in Node, NEW d \in Delay
  PROVE  Alike(Added(r, n, d), r)
<1>1. PICK s : s = WalkTo(r, Later(r, n, d))
  OBVIOUS
<1>2. Added(r, n, d) = IF s \in Later(r, n, d) THEN Put(r, s, n, d) ELSE Faulted(r, "hang")
  BY <1>1, AddedIs
<1>3. s \in Later(r, n, d) => s \in Slot
  BY DEF Later
<1>4. CASE s \in Later(r, n, d)
  <2>1. Added(r, n, d) = Put(r, s, n, d) /\ s \in Slot
    BY <1>2, <1>3, <1>4
  <2>2. Alike(Put(r, s, n, d), r)
    BY <2>1, PutType
  <2> QED
    BY <2>1, <2>2
<1>5. CASE s \notin Later(r, n, d)
  <2>1. Added(r, n, d) = Faulted(r, "hang")
    BY <1>2, <1>5
  <2> QED
    BY <2>1, FaultedType
<1> QED
  BY <1>4, <1>5

LEMMA RemovedType ==
  ASSUME NEW r \in Ram, NEW n \in Node
  PROVE  Alike(Removed(r, n), r)
<1>1. PICK s : s = WalkTo(r, To(r, n))
  OBVIOUS
<1>2. Removed(r, n) = IF s \in To(r, n) THEN Out(r, s, n)
                      ELSE Faulted(r, IF s = Nil THEN "notFound" ELSE "hang")
  BY <1>1, RemovedIs
<1>3. s \in To(r, n) => s \in Slot
  BY DEF To
<1>4. CASE s \in To(r, n)
  <2>1. Removed(r, n) = Out(r, s, n) /\ s \in Slot
    BY <1>2, <1>3, <1>4
  <2>2. Alike(Out(r, s, n), r)
    BY <2>1, OutType
  <2> QED
    BY <2>1, <2>2
<1>5. CASE s \notin To(r, n)
  <2>1. PICK f \in {"hang", "notFound"} : Removed(r, n) = Faulted(r, f)
    BY <1>2, <1>5
  <2> QED
    BY <2>1, FaultedType
<1> QED
  BY <1>4, <1>5

\* A node put behind a slot of the line, and one taken out behind it.
LEMMA PutRanked ==
  ASSUME NEW next \in [Slot -> Node \cup {Nil}], NEW L \in SUBSET Node,
         NEW rank \in Rank, Ranked(next, L, rank),
         NEW n \in Node \ L, NEW s \in Line(L)
  PROVE  \E new \in Rank : Ranked([next EXCEPT ![n] = next[s], ![s] = n], L \cup {n}, new)
<1> DEFINE new   == [q \in Slot |-> IF q = n THEN 2 * rank[s] + 1 ELSE 2 * rank[q]]
           after == [next EXCEPT ![n] = next[s], ![s] = n]
           M     == L \cup {n}
<1>1. n \in Slot /\ n # s /\ n \notin Line(L) /\ Line(L) \subseteq Slot
  BY LineSlots, Slots DEF Slot, Line
<1>2. \A q \in Line(L) : rank[q] \in Nat /\ new[q] = 2 * rank[q] /\ q # n
  BY <1>1 DEF Rank
<1>3. new[n] = 2 * rank[s] + 1
  BY <1>1
<1>4. new \in Rank
  BY <1>1 DEF Rank
<1>5. after[n] = next[s] /\ after[s] = n /\ \A q \in Line(L) \ {s} : after[q] = next[q]
  BY <1>1
<1>6. Line(M) = Line(L) \cup {n}
  BY DEF Line
<1> HIDE DEF new, after
<1>7. n # Nil
  BY Slots
<1>8. \A q \in Line(L) : next[q] # n /\ (next[q] # Nil => next[q] \in L /\ next[q] \in Line(L))
  BY <1>7 DEF Ranked, Line
<1>0. /\ rank[s] \in Nat /\ new[s] = 2 * rank[s]
      /\ \A q \in Line(M) : q # n => q \in Line(L)
  BY <1>2, <1>6
<1>9. ASSUME NEW q \in Line(M), after[q] # Nil
      PROVE  after[q] \in M /\ new[q] < new[after[q]]
  <2>1. CASE q = n
    BY <1>2, <1>3, <1>5, <1>8, <1>9, <2>1 DEF Ranked
  <2>2. CASE q = s
    BY <1>2, <1>3, <1>5, <2>2
  <2>3. CASE q # n /\ q # s
    BY <1>2, <1>5, <1>6, <1>8, <1>9, <2>3 DEF Ranked
  <2> QED
    BY <2>1, <2>2, <2>3
<1>10. ASSUME NEW q \in Line(M), NEW t \in Line(M), new[q] < new[t]
       PROVE  after[q] # Nil /\ new[after[q]] <= new[t]
  <2>1. CASE q = n
    <3>0. t # n
      BY <1>0, <1>3, <1>10, <2>1
    <3>1. t \in Line(L) /\ rank[s] < rank[t]
      <4>1. t \in Line(L)
        BY <1>0, <3>0
      <4>2. 2 * rank[s] + 1 < 2 * rank[t] /\ rank[t] \in Nat
        BY <1>2, <1>3, <1>10, <2>1, <4>1
      <4> QED
        BY <1>0, <4>1, <4>2
    <3>2. next[s] # Nil /\ rank[next[s]] <= rank[t]
      BY <3>1 DEF Ranked
    <3> QED
      BY <1>2, <1>5, <1>8, <2>1, <3>1, <3>2
  <2>2. CASE q = s
    <3>1. CASE t = n
      BY <1>5, <1>7, <2>2, <3>1, <1>2, <1>3
    <3>2. CASE t # n
      <4>1. t \in Line(L) /\ rank[s] < rank[t]
        <5>1. t \in Line(L)
          BY <1>0, <3>2
        <5>2. 2 * rank[s] < 2 * rank[t] /\ rank[t] \in Nat
          BY <1>0, <1>2, <1>10, <2>2, <5>1
        <5> QED
          BY <1>0, <5>1, <5>2
      <4> QED
        BY <1>2, <1>3, <1>5, <1>7, <2>2, <4>1
    <3> QED
      BY <3>1, <3>2
  <2>3. CASE q # n /\ q # s
    <3>1. q \in Line(L) /\ after[q] = next[q]
      BY <1>5, <1>6, <2>3
    <3>2. CASE t = n
      <4>1. rank[q] < rank[s]
        <5>1. rank[q] <= rank[s]
          BY <1>2, <1>3, <1>10, <3>1, <3>2
        <5>2. rank[q] # rank[s]
          BY <2>3, <3>1 DEF Ranked
        <5> QED
          BY <1>2, <3>1, <5>1, <5>2
      <4>2. next[q] # Nil /\ rank[next[q]] <= rank[s]
        BY <3>1, <4>1 DEF Ranked
      <4> QED
        BY <1>2, <1>3, <1>8, <3>1, <3>2, <4>2
    <3>3. CASE t # n
      <4>1. t \in Line(L) /\ rank[q] < rank[t]
        <5>1. t \in Line(L)
          BY <1>0, <3>3
        <5>2. 2 * rank[q] < 2 * rank[t] /\ rank[q] \in Nat /\ rank[t] \in Nat
          BY <1>2, <1>10, <3>1, <5>1
        <5> QED
          BY <5>1, <5>2
      <4>2. next[q] # Nil /\ rank[next[q]] <= rank[t]
        BY <3>1, <4>1 DEF Ranked
      <4> QED
        BY <1>2, <1>8, <3>1, <4>1, <4>2
    <3> QED
      BY <3>2, <3>3
  <2> QED
    BY <2>1, <2>2, <2>3
<1>11. ASSUME NEW q \in Line(M), NEW t \in Line(M), new[q] = new[t]
       PROVE  q = t
  <2>1. CASE q # n /\ t # n
    <3>1. q \in Line(L) /\ t \in Line(L)
      BY <1>0, <2>1
    <3>2. 2 * rank[q] = 2 * rank[t] /\ rank[q] \in Nat /\ rank[t] \in Nat
      BY <1>2, <1>11, <3>1
    <3>3. rank[q] = rank[t]
      BY <3>2
    <3> QED
      BY <3>1, <3>3 DEF Ranked
  <2>2. CASE q = n /\ t # n
    <3>1. t \in Line(L) /\ 2 * rank[s] + 1 = 2 * rank[t]
      BY <1>0, <1>2, <1>3, <1>11, <2>2
    <3> QED
      BY <1>0, <1>2, <3>1
  <2>3. CASE q # n /\ t = n
    <3>1. q \in Line(L) /\ 2 * rank[s] + 1 = 2 * rank[q]
      BY <1>0, <1>2, <1>3, <1>11, <2>3
    <3> QED
      BY <1>0, <1>2, <3>1
  <2> QED
    BY <2>1, <2>2, <2>3
<1>12. ASSUME NEW q \in M
       PROVE  new[Root] < new[q] /\ \E t \in Line(M) : after[t] = q
  <2>1. Root \in Line(L)
    BY LineSlots
  <2>2. CASE q = n
    <3>1. s = Root \/ rank[Root] < rank[s]
      BY DEF Ranked, Line
    <3>2. new[Root] < new[n]
      BY <1>0, <1>2, <1>3, <2>1, <3>1
    <3>3. s \in Line(M)
      BY <1>6
    <3> QED
      BY <1>5, <2>2, <3>2, <3>3
  <2>3. CASE q # n
    <3>1. q \in L /\ q \in Line(L)
      BY <2>3 DEF Line
    <3>2. rank[Root] < rank[q]
      BY <3>1 DEF Ranked
    <3>3. PICK t \in Line(L) : next[t] = q
      BY <3>1 DEF Ranked
    <3>4. \E u \in Line(M) : after[u] = q
      <4>1. CASE t = s
        BY <1>5, <1>6, <3>3, <4>1
      <4>2. CASE t # s
        BY <1>5, <1>6, <3>3, <4>2
      <4> QED
        BY <4>1, <4>2
    <3> QED
      BY <1>2, <2>1, <3>1, <3>2, <3>4
  <2> QED
    BY <2>2, <2>3
<1>13. Ranked(after, M, new)
  BY <1>9, <1>10, <1>11, <1>12 DEF Ranked
<1> QED
  BY <1>4, <1>13 DEF after

LEMMA OutRanked ==
  ASSUME NEW next \in [Slot -> Node \cup {Nil}], NEW L \in SUBSET Node,
         NEW rank \in Rank, Ranked(next, L, rank),
         NEW n \in L, NEW s \in Line(L), next[s] = n
  PROVE  Ranked([next EXCEPT ![s] = next[n]], L \ {n}, rank)
<1> DEFINE after == [next EXCEPT ![s] = next[n]]
           M     == L \ {n}
<1>1. n \in Line(L) /\ n # Root /\ n # Nil /\ Line(L) \subseteq Slot
  BY LineSlots, Slots DEF Line
<1>2. after[s] = next[n] /\ \A q \in Line(L) \ {s} : after[q] = next[q]
  BY <1>1
<1>3. Line(M) = Line(L) \ {n}
  BY <1>1 DEF Line
<1>4. \A q \in Line(L) : rank[q] \in Nat
  BY <1>1 DEF Rank
<1> HIDE DEF after
<1>5. \A q \in Line(L) : next[q] # Nil =>
         next[q] \in L /\ next[q] \in Line(L) /\ rank[q] < rank[next[q]]
  BY DEF Ranked, Line
<1>6. rank[s] < rank[n] /\ s # n
  BY <1>1, <1>4, <1>5
<1>7. ASSUME NEW q \in Line(L), next[q] = n
      PROVE  q = s
  <2>1. ~(rank[q] < rank[s])
    <3> SUFFICES ASSUME rank[q] < rank[s] PROVE FALSE
      OBVIOUS
    <3>1. rank[next[q]] <= rank[s]
      BY DEF Ranked
    <3> QED
      BY <1>1, <1>4, <1>6, <1>7, <3>1
  <2>2. ~(rank[s] < rank[q])
    <3> SUFFICES ASSUME rank[s] < rank[q] PROVE FALSE
      OBVIOUS
    <3>1. rank[next[s]] <= rank[q]
      BY DEF Ranked
    <3>2. rank[q] < rank[n]
      BY <1>1, <1>5, <1>7
    <3> QED
      BY <1>1, <1>4, <3>1, <3>2
  <2> QED
    BY <1>4, <2>1, <2>2 DEF Ranked
<1>8. next[n] # n
  BY <1>1, <1>4, <1>5
<1>9. ASSUME NEW q \in Line(M), after[q] # Nil
      PROVE  after[q] \in M /\ rank[q] < rank[after[q]]
  <2>1. CASE q = s
    BY <1>1, <1>2, <1>4, <1>5, <1>6, <1>8, <1>9, <2>1
  <2>2. CASE q # s
    BY <1>2, <1>3, <1>5, <1>7, <1>9, <2>2
  <2> QED
    BY <2>1, <2>2
<1>10. ASSUME NEW q \in Line(M), NEW t \in Line(M), rank[q] < rank[t]
       PROVE  after[q] # Nil /\ rank[after[q]] <= rank[t]
  <2>1. next[q] # Nil /\ rank[next[q]] <= rank[t]
    BY <1>3, <1>10 DEF Ranked
  <2>2. CASE q = s
    <3>1. rank[n] < rank[t]
      <4>1. rank[n] <= rank[t] /\ t # n
        BY <1>3, <2>1, <2>2
      <4>2. rank[n] # rank[t]
        BY <1>1, <1>3, <4>1 DEF Ranked
      <4> QED
        BY <1>1, <1>3, <1>4, <4>1, <4>2
    <3>2. next[n] # Nil /\ rank[next[n]] <= rank[t]
      BY <1>1, <1>3, <3>1 DEF Ranked
    <3> QED
      BY <1>2, <2>2, <3>2
  <2>3. CASE q # s
    BY <1>2, <1>3, <2>1, <2>3
  <2> QED
    BY <2>2, <2>3
<1>11. ASSUME NEW q \in M
       PROVE  rank[Root] < rank[q] /\ \E t \in Line(M) : after[t] = q
  <2>1. q \in L /\ q # n
    OBVIOUS
  <2>2. PICK t \in Line(L) : next[t] = q
    BY <2>1 DEF Ranked
  <2>3. CASE t = n
    BY <1>2, <1>3, <1>6, <2>2, <2>3, <2>1 DEF Ranked
  <2>4. CASE t # n
    <3>1. t # s
      BY <2>1, <2>2
    <3> QED
      BY <1>2, <1>3, <2>1, <2>2, <2>4, <3>1 DEF Ranked
  <2> QED
    BY <2>3, <2>4
<1>12. \A q, t \in Line(M) : rank[q] = rank[t] => q = t
  BY <1>3 DEF Ranked
<1>13. Ranked(after, M, rank)
  BY <1>9, <1>10, <1>11, <1>12 DEF Ranked
<1> QED
  BY <1>13 DEF after

LEMMA RamParts ==
  ASSUME NEW r \in Ram
  PROVE  /\ r.next \in [Slot -> Node \cup {Nil}] /\ r.due \in [Node -> Ticks]
         /\ \A n \in Node : r.due[n] \in Int
BY Dues DEF Ram

LEMMA OutLined ==
  ASSUME NEW r \in Ram, NEW L, Lined(r, L), NEW s \in Line(L), NEW n \in L, r.next[s] = n
  PROVE  /\ Lined(Out(r, s, n), L \ {n}) /\ Out(r, s, n).next # r.next
         /\ Out(r, s, n).fault = r.fault
<1>1. L \in SUBSET Node /\ n \in Node /\ s \in Slot /\ n # Root /\ n # Nil
  BY LineSlots, Slots DEF Lined
<1>2. PICK rank \in Rank : Ranked(r.next, L, rank)
  BY DEF Lined
<1> DEFINE next == [r.next EXCEPT ![s] = r.next[n]]
           q    == Out(r, s, n)
<1>3. r.next \in [Slot -> Node \cup {Nil}] /\ \A m \in Node : r.due[m] \in Int
  BY RamParts
<1>4. Ranked(next, L \ {n}, rank)
  BY <1>1, <1>2, <1>3, OutRanked
<1>5. q.next = next /\ q.due = [r.due EXCEPT ![n] = 0] /\ q.fault = r.fault
  BY <1>1, OutType
<1>6. /\ next[s] = r.next[n] /\ \A m \in L \ {s} : next[m] = r.next[m]
      /\ \A m \in L \ {n} : q.due[m] = r.due[m]
  BY <1>1, <1>3, <1>5, RamParts
<1>7. \A m \in L : rank[m] \in Nat
  BY <1>1 DEF Rank, Slot
<1>8. r.next[n] # n
  BY <1>2, <1>7, <1>1 DEF Ranked, Line
<1>9. next # r.next
  BY <1>3, <1>1, <1>6, <1>8
<1> HIDE DEF next, q
<1>10. ASSUME NEW m \in L \ {n}, next[m] # Nil
       PROVE  q.due[m] <= q.due[next[m]]
  <2>1. next[m] \in L \ {n}
    BY <1>4, <1>10 DEF Ranked, Line
  <2>2. CASE m = s
    <3>1. r.due[m] <= r.due[n]
      BY <1>1, <1>10, <2>2 DEF Lined
    <3>2. next[m] = r.next[n] /\ r.due[n] <= r.due[r.next[n]]
      BY <1>6, <1>10, <2>2 DEF Lined
    <3> QED
      BY <1>1, <1>3, <1>6, <2>1, <3>1, <3>2
  <2>3. CASE m # s
    <3>1. r.due[m] <= r.due[next[m]]
      BY <1>6, <1>10, <2>3 DEF Lined
    <3> QED
      BY <1>6, <2>1, <3>1
  <2> QED
    BY <2>2, <2>3
<1>11. Lined(q, L \ {n})
  BY <1>1, <1>4, <1>5, <1>10 DEF Lined
<1> QED
  BY <1>5, <1>9, <1>11 DEF q

\* A removal that finds its node.
LEMMA RemovedLined ==
  ASSUME NEW r \in Ram, NEW L, Lined(r, L), NEW n \in L
  PROVE  /\ Lined(Removed(r, n), L \ {n}) /\ Removed(r, n).next # r.next
         /\ Removed(r, n).fault = r.fault
<1>1. PICK rank \in Rank : Ranked(r.next, L, rank)
  BY DEF Lined
<1>2. L \in SUBSET Node
  BY DEF Lined
<1>3. PICK t \in Line(L) : r.next[t] = n
  BY <1>1 DEF Ranked
<1>4. t \in Line(L) \cap To(r, n)
  BY <1>2, <1>3, LineSlots DEF To
<1>5. PICK s : s = WalkTo(r, To(r, n))
  OBVIOUS
<1>6. s \in Line(L) \cap To(r, n)
  BY <1>1, <1>2, <1>4, <1>5, WalkEnds
<1>7. Removed(r, n) = Out(r, s, n)
  BY <1>5, <1>6, RemovedIs
<1>8. s \in Line(L) /\ r.next[s] = n
  BY <1>6 DEF To
<1> QED
  BY <1>7, <1>8, OutLined

LEMMA AddedLined ==
  ASSUME NEW r \in Ram, NEW L, Lined(r, L), NEW n \in Node \ L, NEW d \in Delay
  PROVE  /\ Lined(Added(r, n, d), L \cup {n}) /\ Added(r, n, d).next # r.next
         /\ Added(r, n, d).fault = r.fault
<1>1. PICK rank \in Rank : Ranked(r.next, L, rank)
  BY DEF Lined
<1>2. L \in SUBSET Node
  BY DEF Lined
<1>3. Line(L) \subseteq Slot /\ Root \in Line(L) /\ n \notin Line(L) /\ n # Nil /\ n \in Slot
  BY <1>2, LineSlots, Slots DEF Line, Slot
<1>4. r.next \in [Slot -> Node \cup {Nil}] /\ \A m \in Node : r.due[m] \in Int
  BY RamParts
<1>5. PICK s : s = WalkTo(r, Later(r, n, d))
  OBVIOUS
<1>6. /\ s \in Line(L) \cap Later(r, n, d)
      /\ \A t \in Line(L) : rank[t] < rank[s] => t \notin Later(r, n, d)
  <2>1. \/ /\ s \in Line(L) \cap Later(r, n, d)
           /\ \A t \in Line(L) : rank[t] < rank[s] => t \notin Later(r, n, d)
        \/ Line(L) \cap Later(r, n, d) = {}
    BY <1>1, <1>2, <1>5, WalkEnds
  <2>2. \E t \in Line(L) : r.next[t] = Nil
    <3>1. \/ WalkTo(r, {}) \in Line(L) \cap {}
          \/ \E t \in Line(L) : r.next[t] = Nil
      BY <1>1, <1>2, WalkEnds
    <3> QED
      BY <3>1
  <2>3. \E t \in Line(L) : t \in Later(r, n, d)
    BY <1>3, <2>2 DEF Later
  <2> QED
    BY <2>1, <2>3
<1> DEFINE next == [r.next EXCEPT ![n] = r.next[s], ![s] = n]
           q    == Put(r, s, n, d)
<1>7. Added(r, n, d) = q
  BY <1>5, <1>6, AddedIs
<1>8. s \in Slot /\ s # n /\ s \in Line(L)
  BY <1>3, <1>6
<1>9. q.next = next /\ q.due = [r.due EXCEPT ![n] = d] /\ q.fault = r.fault
  BY <1>2, <1>8, PutType
<1>10. PICK new \in Rank : Ranked(next, L \cup {n}, new)
  BY <1>1, <1>2, <1>4, <1>8, PutRanked
<1>11. /\ next[s] = n /\ next[n] = r.next[s] /\ \A m \in L \ {s} : next[m] = r.next[m]
       /\ q.due[n] = d /\ \A m \in L : q.due[m] = r.due[m]
  <2>1. next[s] = n /\ next[n] = r.next[s] /\ \A m \in L \ {s} : next[m] = r.next[m]
    BY <1>2, <1>3, <1>4, <1>8 DEF Line
  <2>2. q.due[n] = d /\ \A m \in L : q.due[m] = r.due[m]
    BY <1>2, <1>9, RamParts
  <2> QED
    BY <2>1, <2>2
<1>12. r.next[s] # n
  BY <1>1, <1>3, <1>8 DEF Ranked
<1>13. next # r.next
  BY <1>11, <1>12
<1> HIDE DEF next, q
<1>14. d \in Int
  BY Dues
<1>15. ASSUME NEW m \in L \cup {n}, next[m] # Nil
       PROVE  q.due[m] <= q.due[next[m]]
  <2>1. CASE m = n
    <3>1. r.next[s] \in L /\ d <= r.due[r.next[s]]
      BY <1>1, <1>3, <1>6, <1>8, <1>11, <1>15, <2>1 DEF Ranked, Later
    <3> QED
      BY <1>11, <2>1, <3>1
  <2>2. CASE m = s
    <3>1. s \in L
      BY <1>3, <2>2, <1>15, <1>8
    <3>2. PICK p \in Line(L) : r.next[p] = s
      BY <1>1, <3>1 DEF Ranked
    <3>3. s # Nil /\ rank[p] < rank[s]
      BY <1>1, <1>2, <3>1, <3>2, Slots DEF Ranked
    <3>4. p \notin Later(r, n, d)
      BY <1>6, <3>3
    <3>5. ~(d <= r.due[s])
      BY <1>3, <3>2, <3>4 DEF Later
    <3> QED
      BY <1>2, <1>4, <1>11, <1>14, <2>2, <3>1, <3>5
  <2>3. CASE m # n /\ m # s
    <3>1. m \in L /\ next[m] = r.next[m]
      BY <1>11, <2>3
    <3>2. r.next[m] \in L
      BY <1>1, <1>15, <3>1 DEF Ranked, Line
    <3>3. r.due[m] <= r.due[r.next[m]]
      BY <1>15, <3>1 DEF Lined
    <3> QED
      BY <1>11, <3>1, <3>2, <3>3
  <2> QED
    BY <2>1, <2>2, <2>3
<1>16. L \cup {n} \subseteq Node
  BY <1>2
<1>17. Lined(q, L \cup {n})
  BY <1>9, <1>10, <1>15, <1>16 DEF Lined
<1> QED
  BY <1>7, <1>9, <1>13, <1>17

Hits(r, h) == {s \in Slot : r.next[s] # Nil /\ HasId(r, r.next[s], h)}

LEMMA ByIdIs ==
  ASSUME NEW r, NEW h, NEW n \in ById(r, h)
  PROVE  \E s \in Hits(r, h) : s = WalkTo(r, Hits(r, h)) /\ n = r.next[s]
BY DEF ById, With, Hits

LEMMA RescheduledIs ==
  ASSUME NEW r, NEW h, NEW d, NEW c \in Rescheduled(r, h, d)
  PROVE  c = r \/ \E n \in ById(r, h) : c = Added(Removed(r, n), n, d)
BY DEF Rescheduled, With

LEMMA QueuedIs ==
  ASSUME NEW r, NEW n, NEW d
  PROVE  Queued(r, n, d) = OnQueue(Added(OffQueue(r, n), n, d), n, TRUE)
BY DEF Queued, With

\* A call that leaves c, with or without harm.
Outcome(r, c, h) == Call(r, LAMBDA q, g : q = c /\ g = h)

LEMMA OutcomeIs ==
  ASSUME NEW r, NEW c, NEW g, Outcome(r, c, g)
  PROVE  \/ c = r
         \/ \E n \in AppTimer, i \in Id, d \in AppDelay :
               r.id[n] = Nil /\ c = Registered(r, n, i, d)
         \/ \E h \in Id : \E n \in ById(r, h) :
               c = Freed(Removed(r, n), n) /\ (g <=> Anim \in ById(r, h))
         \/ \E h \in Id, d \in AppDelay : \E n \in ById(r, h) : c = Added(Removed(r, n), n, d)
         \/ \E d \in TickDelay : c = TickAdded(r, d)
         \/ c = TickStopped(r)
         \/ \E d \in AnimDelay : c = Scheduled(r, d)
         \/ c = Unscheduled(r) /\ (g <=> r.playing /\ InList(r, Anim))
<1>1. \/ c = r
      \/ \E n \in AppTimer, i \in Id, d \in AppDelay :
            r.id[n] = Nil /\ c = Registered(r, n, i, d)
      \/ \E h \in Id : \E n \in ById(r, h) :
            c = Freed(Removed(r, n), n) /\ (g <=> Anim \in ById(r, h))
      \/ \E h \in Id, d \in AppDelay : c \in Rescheduled(r, h, d)
      \/ \E d \in TickDelay : c = TickAdded(r, d)
      \/ c = TickStopped(r)
      \/ \E d \in AnimDelay : c = Scheduled(r, d)
      \/ c = Unscheduled(r) /\ (g <=> r.playing /\ InList(r, Anim))
  BY DEF Outcome, Call, Cancelled
<1>2. ASSUME NEW h \in Id, NEW d \in AppDelay, c \in Rescheduled(r, h, d)
      PROVE  c = r \/ \E n \in ById(r, h) : c = Added(Removed(r, n), n, d)
  BY <1>2, RescheduledIs
<1> QED
  BY <1>1, <1>2

LEMMA ExpireAppTimerIs ==
  ASSUME ExpireAppTimer
  PROVE  \E c, h : Outcome(Dequeued, c, h) /\ Leaves(Freed(c, First), h)
BY DEF ExpireAppTimer, Outcome, Call

LEMMA DelaysIn == AppDelay \subseteq Delay /\ TickDelay \subseteq Delay /\ AnimDelay \subseteq Delay /\ 1 \in Delay
BY DEF Delay

\* The list of q is that of r.
SameList(q, r) == q.next = r.next /\ q.due = r.due /\ q.fault = r.fault

LEMMA OnQueueType ==
  ASSUME NEW r \in Ram, NEW n \in {Tick, Anim}, NEW b \in BOOLEAN
  PROVE  /\ OnQueue(r, n, b) \in Ram /\ SameList(OnQueue(r, n, b), r)
         /\ OnQueue(r, n, b).id = r.id /\ OnQueue(r, n, b).playing = r.playing
         /\ OnQueue(r, n, b).onqueue = [r.onqueue EXCEPT ![n] = b]
BY DEF OnQueue, Ram, SameList

LEMMA FreedType ==
  ASSUME NEW r \in Ram, NEW n \in AppTimer
  PROVE  /\ Freed(r, n) \in Ram /\ SameList(Freed(r, n), r)
         /\ Freed(r, n).id = [r.id EXCEPT ![n] = Nil] /\ Freed(r, n).playing = r.playing
         /\ Freed(r, n).onqueue = r.onqueue
BY DEF Freed, Ram, SameList

LEMMA PlayingType ==
  ASSUME NEW r \in Ram, NEW b \in BOOLEAN
  PROVE  LET q == [r EXCEPT !.playing = b]
         IN  /\ q \in Ram /\ SameList(q, r)
             /\ q.id = r.id /\ q.onqueue = r.onqueue /\ (q.playing <=> b)
BY DEF Ram, SameList

LEMMA IdType ==
  ASSUME NEW r \in Ram, NEW n \in AppTimer, NEW i \in Id
  PROVE  LET q == [r EXCEPT !.id[n] = i]
         IN  /\ q \in Ram /\ SameList(q, r) /\ q.id = [r.id EXCEPT ![n] = i]
             /\ q.onqueue = r.onqueue /\ q.playing = r.playing
BY DEF Ram, SameList

LEMMA SameListLined ==
  ASSUME NEW r, NEW q, SameList(q, r), NEW L, Lined(r, L)
  PROVE  Lined(q, L)
BY DEF SameList, Lined

LEMMA FreedAny ==
  ASSUME NEW r \in Ram, NEW n \in Node
  PROVE  Freed(r, n) \in Ram
<1>1. CASE n \in AppTimer
  BY <1>1, FreedType
<1>2. CASE n \notin AppTimer
  BY <1>2 DEF Freed
<1> QED
  BY <1>1, <1>2

LEMMA OffQueueType ==
  ASSUME NEW r \in Ram, NEW n \in {Tick, Anim}
  PROVE  OffQueue(r, n) \in Ram
<1>1. n \in Node
  BY Slots
<1>2. Removed(r, n) \in Ram
  BY <1>1, RemovedType DEF Alike
<1>3. \A q \in Ram : OnQueue(q, n, FALSE) \in Ram
  BY OnQueueType
<1> QED
  BY <1>2, <1>3 DEF OffQueue

LEMMA QueuedType ==
  ASSUME NEW r \in Ram, NEW n \in {Tick, Anim}, NEW d \in Delay
  PROVE  Queued(r, n, d) \in Ram
<1>1. n \in Node /\ OffQueue(r, n) \in Ram
  BY Slots, OffQueueType
<1>2. Added(OffQueue(r, n), n, d) \in Ram
  BY <1>1, AddedType DEF Alike
<1> QED
  BY <1>2, OnQueueType, QueuedIs

LEMMA ByIdType ==
  ASSUME NEW r \in Ram, NEW h, NEW n \in ById(r, h)
  PROVE  n \in Node
<1>1. PICK s \in Slot : r.next[s] # Nil /\ n = r.next[s]
  BY ByIdIs DEF Hits
<1> QED
  BY <1>1, RamParts

LEMMA OutcomeType ==
  ASSUME NEW r \in Ram, NEW c, NEW g, Outcome(r, c, g)
  PROVE  c \in Ram
<1>1. ASSUME NEW n \in AppTimer, NEW i \in Id, NEW d \in AppDelay
      PROVE  Registered(r, n, i, d) \in Ram
  <2>1. Added(r, n, d) \in Ram
    BY AddedType, DelaysIn DEF Alike, Node
  <2> QED
    BY <2>1, IdType DEF Registered
<1>2. ASSUME NEW h, NEW n \in ById(r, h)
      PROVE  Freed(Removed(r, n), n) \in Ram
  BY <1>2, ByIdType, RemovedType, FreedAny DEF Alike
<1>3. ASSUME NEW h, NEW d \in AppDelay, NEW n \in ById(r, h)
      PROVE  Added(Removed(r, n), n, d) \in Ram
  BY <1>3, ByIdType, RemovedType, AddedType, DelaysIn DEF Alike
<1>4. \A d \in TickDelay : TickAdded(r, d) \in Ram
  BY QueuedType, DelaysIn DEF TickAdded
<1>5. TickStopped(r) \in Ram
  BY OffQueueType DEF TickStopped
<1>6. ASSUME NEW d \in AnimDelay
      PROVE  Scheduled(r, d) \in Ram
  <2>1. Queued(r, Anim, d) \in Ram
    BY QueuedType, DelaysIn
  <2> QED
    BY <2>1, PlayingType DEF Scheduled
<1>7. Unscheduled(r) \in Ram
  <2>1. [r EXCEPT !.playing = FALSE] \in Ram
    BY PlayingType
  <2> QED
    BY <2>1, OnQueueType DEF Unscheduled
<1> QED
  BY <1>1, <1>2, <1>3, <1>4, <1>5, <1>6, <1>7, OutcomeIs

\* What a call to the list leaves: Told of what it was told, or of that and the
\* tick timer, whose flag a call that asks for ticks will set.
LEMMA AddedTold ==
  ASSUME NEW r \in Ram, NEW L, Lined(r, L), NEW n \in Node \ L, NEW d \in Delay,
         NEW q, q = Added(r, n, d)
  PROVE  Alike(q, r) /\ Lined(q, L \cup {n}) /\ q.fault = r.fault
BY AddedLined, AddedType

LEMMA RemovedTold ==
  ASSUME NEW r \in Ram, NEW L, Lined(r, L), NEW n \in L, NEW q, q = Removed(r, n)
  PROVE  Alike(q, r) /\ Lined(q, L \ {n}) /\ q.fault = r.fault
<1>1. n \in Node
  BY DEF Lined
<1> QED
  BY <1>1, RemovedLined, RemovedType

LEMMA RegisteredKeeps ==
  ASSUME NEW r \in Ram, NEW e \in BOOLEAN, NEW L, NEW x, Told(r, e, L, x),
         NEW n \in AppTimer, NEW i \in Id, NEW d \in AppDelay, r.id[n] = Nil,
         NEW c, c = Registered(r, n, i, d)
  PROVE  \E M : /\ Told(c, e, M, x)
                /\ \A m : Kept(r, e, L, x, m) => Kept(c, e, M, x, m)
<1> DEFINE M == L \cup {n}
<1>1. Lined(r, L) /\ n \in Node \ L /\ n # Tick /\ n # Anim
  BY Slots DEF Told, Node
<1>2. PICK q : q = Added(r, n, d)
  OBVIOUS
<1>3. /\ q \in Ram /\ Lined(q, M) /\ q.fault = r.fault
      /\ q.id = r.id /\ q.onqueue = r.onqueue /\ q.playing = r.playing
  <2>1. Alike(q, r) /\ Lined(q, M) /\ q.fault = r.fault
    BY <1>1, <1>2, AddedTold, DelaysIn
  <2> QED
    BY <2>1 DEF Alike
<1>4. /\ SameList(c, q) /\ c.id = [q.id EXCEPT ![n] = i]
      /\ c.onqueue = q.onqueue /\ c.playing = q.playing
  BY <1>2, <1>3, IdType DEF Registered
<1>5. Lined(c, M) /\ c.fault = r.fault
  BY <1>3, <1>4, SameListLined DEF SameList
<1>6. i # Nil /\ c.id[n] = i /\ \A m \in AppTimer \ {n} : c.id[m] = r.id[m]
  BY <1>3, <1>4, TimerAssumption DEF Ram
<1>7. Told(c, e, M, x)
  <2>1. \A m \in AppTimer : m \in M <=> c.id[m] # Nil /\ m \notin x
    BY <1>6 DEF Told
  <2>2. \A m \in x : m \in AppTimer /\ c.id[m] # Nil
    BY <1>6 DEF Told
  <2>3. Tick \in M <=> Tick \in L
    BY <1>1
  <2>4. Anim \in M <=> Anim \in L
    BY <1>1
  <2> QED
    BY <1>3, <1>4, <1>5, <2>1, <2>2, <2>3, <2>4 DEF Told
<1> QED
  BY <1>1, <1>3, <1>4, <1>5, <1>7 DEF Kept

\* A handle is looked up in the line.
LEMMA ByIdInLine ==
  ASSUME NEW r \in Ram, NEW L, Lined(r, L), NEW h, NEW n \in ById(r, h)
  PROVE  n \in L /\ (n \in AppTimer \/ n = Anim)
<1>1. PICK s \in Hits(r, h) : s = WalkTo(r, Hits(r, h)) /\ n = r.next[s]
  BY ByIdIs
<1>2. PICK rank \in Rank : Ranked(r.next, L, rank)
  BY DEF Lined
<1>3. L \in SUBSET Node
  BY DEF Lined
<1>4. s # Nil
  BY <1>1, Slots DEF Hits
<1>5. s \in Line(L)
  <2>1. \/ WalkTo(r, Hits(r, h)) \in Line(L) \cap Hits(r, h)
        \/ WalkTo(r, Hits(r, h)) = Nil
    BY <1>2, <1>3, WalkEnds
  <2> QED
    BY <1>1, <1>4, <2>1
<1>6. n # Nil /\ HasId(r, n, h)
  BY <1>1 DEF Hits
<1>7. n \in L
  BY <1>1, <1>2, <1>5, <1>6 DEF Ranked
<1> QED
  BY <1>6, <1>7 DEF HasId

LEMMA CancelledKeeps ==
  ASSUME NEW r \in Ram, NEW e \in BOOLEAN, NEW L, NEW x, Told(r, e, L, x),
         NEW n \in L, n \in AppTimer, NEW c, c = Freed(Removed(r, n), n)
  PROVE  \E M : /\ Told(c, e, M, x)
                /\ \A m : Kept(r, e, L, x, m) => Kept(c, e, M, x, m)
<1> DEFINE M == L \ {n}
<1>1. Lined(r, L) /\ n # Tick /\ n # Anim /\ n \notin x
  BY Slots DEF Told
<1>2. PICK q : q = Removed(r, n)
  OBVIOUS
<1>3. /\ q \in Ram /\ Lined(q, M) /\ q.fault = r.fault
      /\ q.id = r.id /\ q.onqueue = r.onqueue /\ q.playing = r.playing
  <2>1. Alike(q, r) /\ Lined(q, M) /\ q.fault = r.fault
    BY <1>1, <1>2, RemovedTold
  <2> QED
    BY <2>1 DEF Alike
<1>4. /\ SameList(c, q) /\ c.id = [q.id EXCEPT ![n] = Nil]
      /\ c.onqueue = q.onqueue /\ c.playing = q.playing
  BY <1>2, <1>3, FreedType
<1>5. Lined(c, M) /\ c.fault = r.fault
  BY <1>3, <1>4, SameListLined DEF SameList
<1>6. c.id[n] = Nil /\ \A m \in AppTimer \ {n} : c.id[m] = r.id[m]
  BY <1>3, <1>4 DEF Ram
<1>7. Told(c, e, M, x)
  <2>1. \A m \in AppTimer : m \in M <=> c.id[m] # Nil /\ m \notin x
    BY <1>6 DEF Told
  <2>2. \A m \in x : m \in AppTimer /\ c.id[m] # Nil
    BY <1>1, <1>6 DEF Told
  <2>3. Tick \in M <=> Tick \in L
    BY <1>1
  <2>4. Anim \in M <=> Anim \in L
    BY <1>1
  <2> QED
    BY <1>3, <1>4, <1>5, <2>1, <2>2, <2>3, <2>4 DEF Told
<1> QED
  BY <1>1, <1>3, <1>4, <1>5, <1>7 DEF Kept

LEMMA RescheduledKeeps ==
  ASSUME NEW r \in Ram, NEW e \in BOOLEAN, NEW L, NEW x, Told(r, e, L, x),
         NEW n \in L, NEW d \in Delay, NEW c, c = Added(Removed(r, n), n, d)
  PROVE  /\ Told(c, e, L, x)
         /\ \A m : Kept(r, e, L, x, m) => Kept(c, e, L, x, m)
<1>1. Lined(r, L) /\ n \in Node
  BY DEF Told, Lined
<1>2. PICK q : q = Removed(r, n)
  OBVIOUS
<1>3. Alike(q, r) /\ Lined(q, L \ {n}) /\ q.fault = r.fault
  BY <1>1, <1>2, RemovedTold
<1>4. Alike(c, q) /\ Lined(c, (L \ {n}) \cup {n}) /\ c.fault = q.fault
  <2>1. n \in Node \ (L \ {n}) /\ c = Added(q, n, d) /\ q \in Ram
    BY <1>1, <1>2, <1>3 DEF Alike
  <2> QED
    BY <1>3, <2>1, AddedTold
<1>5. (L \ {n}) \cup {n} = L
  OBVIOUS
<1>6. Told(c, e, L, x)
  BY <1>3, <1>4, <1>5 DEF Told, Alike
<1> QED
  BY <1>3, <1>4, <1>6 DEF Kept, Alike

LEMMA RemovedMisses ==
  ASSUME NEW r \in Ram, NEW L, Lined(r, L), NEW n \in Node \ L
  PROVE  Removed(r, n).next = r.next /\ Removed(r, n).due = r.due
<1>1. PICK rank \in Rank : Ranked(r.next, L, rank)
  BY DEF Lined
<1>2. L \in SUBSET Node
  BY DEF Lined
<1>3. PICK s : s = WalkTo(r, To(r, n))
  OBVIOUS
<1>4. Line(L) \cap To(r, n) = {}
  BY <1>1, Slots DEF Ranked, To
<1>5. s = Nil
  BY <1>1, <1>2, <1>3, <1>4, WalkEnds
<1>6. s \notin To(r, n)
  BY <1>5, Slots DEF To
<1>7. Removed(r, n) = Faulted(r, "notFound")
  BY <1>3, <1>5, <1>6, RemovedIs
<1> QED
  BY <1>7 DEF Faulted, Ram

\* Only the flag of n differs, and is b.
Flag(q, r, n, b) ==
    /\ q.id = r.id /\ q.playing = r.playing
    /\ q.onqueue[n] <=> b
    /\ \A m \in {Tick, Anim} \ {n} : q.onqueue[m] <=> r.onqueue[m]

LEMMA FlagType ==
  ASSUME NEW r \in Ram, NEW n \in {Tick, Anim}, NEW b \in BOOLEAN, NEW q, q = OnQueue(r, n, b)
  PROVE  q \in Ram /\ SameList(q, r) /\ Flag(q, r, n, b)
<1>1. q.onqueue = [r.onqueue EXCEPT ![n] = b]
  BY OnQueueType
<1>2. q \in Ram /\ SameList(q, r) /\ q.id = r.id /\ q.playing = r.playing
  BY OnQueueType
<1>3. r.onqueue \in [{Tick, Anim} -> BOOLEAN]
  BY DEF Ram
<1>4. (q.onqueue[n] <=> b) /\ \A m \in {Tick, Anim} \ {n} : q.onqueue[m] <=> r.onqueue[m]
  BY <1>1, <1>3
<1> QED
  BY <1>2, <1>4 DEF Flag

LEMMA FlagAlike ==
  ASSUME NEW r, NEW p, NEW q, NEW n, NEW b, Flag(q, p, n, b), Alike(p, r)
  PROVE  Flag(q, r, n, b)
BY DEF Flag, Alike

Flags == {Tick, Anim}
Flagged(r, L, n) == n \in L => r.onqueue[n]
Present(r, L, n) == r.onqueue[n] => n \in L

\* A flagged node is taken out, and the tick timer, when it is not there after
\* all, looked for in vain.
LEMMA OffQueueTold ==
  ASSUME NEW r \in Ram, NEW L, Lined(r, L), NEW n \in Flags,
         Flagged(r, L, n), NEW q, q = OffQueue(r, n)
  PROVE  /\ q \in Ram /\ Lined(q, L \ {n}) /\ Flag(q, r, n, FALSE)
         /\ Present(r, L, n) => q.fault = r.fault
<1>1. n \in Node
  BY Slots DEF Flags
<1>2. PICK p : p = IF r.onqueue[n] THEN Removed(r, n) ELSE r
  OBVIOUS
<1>3. /\ Alike(p, r) /\ Lined(p, L \ {n})
      /\ Present(r, L, n) => p.fault = r.fault
  <2>1. CASE n \in L
    <3>1. p = Removed(r, n)
      BY <1>2, <2>1 DEF Flagged
    <3> QED
      BY <2>1, <3>1, RemovedTold
  <2>2. CASE n \notin L /\ ~r.onqueue[n]
    <3>1. p = r /\ L \ {n} = L
      BY <1>2, <2>2
    <3> QED
      BY <3>1 DEF Alike
  <2>3. CASE n \notin L /\ r.onqueue[n]
    <3>1. p = Removed(r, n) /\ L \ {n} = L
      BY <1>2, <2>3
    <3>2. Alike(p, r)
      BY <1>1, <3>1, RemovedType
    <3>3. p.next = r.next /\ p.due = r.due
      BY <1>1, <2>3, <3>1, RemovedMisses
    <3>4. ~Present(r, L, n)
      BY <2>3 DEF Present
    <3> QED
      BY <2>3, <3>1, <3>2, <3>3, <3>4 DEF Lined
  <2> QED
    BY <2>1, <2>2, <2>3
<1>4. q = OnQueue(p, n, FALSE) /\ p \in Ram
  BY <1>2, <1>3 DEF OffQueue, Alike
<1>5. q \in Ram /\ SameList(q, p) /\ Flag(q, p, n, FALSE)
  BY <1>4, FlagType DEF Flags
<1>6. Lined(q, L \ {n}) /\ q.fault = p.fault
  BY <1>3, <1>5, SameListLined DEF SameList
<1> QED
  BY <1>3, <1>5, <1>6, FlagAlike

LEMMA QueuedTold ==
  ASSUME NEW r \in Ram, NEW L, Lined(r, L), NEW n \in Flags,
         Flagged(r, L, n), NEW d \in Delay, NEW c, c = Queued(r, n, d)
  PROVE  /\ c \in Ram /\ Lined(c, L \cup {n}) /\ Flag(c, r, n, TRUE)
         /\ Present(r, L, n) => c.fault = r.fault
<1>1. n \in Node \ (L \ {n})
  BY Slots DEF Flags
<1>2. PICK q : q = OffQueue(r, n)
  OBVIOUS
<1>3. /\ q \in Ram /\ Lined(q, L \ {n}) /\ Flag(q, r, n, FALSE)
      /\ Present(r, L, n) => q.fault = r.fault
  BY <1>2, OffQueueTold
<1>4. PICK p : p = Added(q, n, d)
  OBVIOUS
<1>5. Alike(p, q) /\ Lined(p, (L \ {n}) \cup {n}) /\ p.fault = q.fault
  <2>1. q \in Ram /\ Lined(q, L \ {n})
    BY <1>3
  <2> QED
    BY <1>1, <1>4, <2>1, AddedTold
<1>6. (L \ {n}) \cup {n} = L \cup {n}
  OBVIOUS
<1>7. c = OnQueue(p, n, TRUE) /\ p \in Ram
  BY <1>2, <1>4, <1>5, QueuedIs DEF Alike
<1>8. c \in Ram /\ SameList(c, p) /\ Flag(c, p, n, TRUE)
  BY <1>7, FlagType DEF Flags
<1>9. Flag(c, r, n, TRUE)
  BY <1>3, <1>5, <1>8 DEF Flag, Alike
<1>10. Lined(c, L \cup {n}) /\ c.fault = p.fault
  BY <1>5, <1>6, <1>8, SameListLined DEF SameList
<1> QED
  BY <1>3, <1>5, <1>8, <1>9, <1>10

LEMMA TickAddedKeeps ==
  ASSUME NEW r \in Ram, NEW e \in BOOLEAN, NEW L, NEW x, Told(r, e, L, x),
         NEW d \in Delay, NEW c, c = TickAdded(r, d)
  PROVE  /\ Told(c, e, L \cup {Tick}, x)
         /\ \A m : m # "clear" /\ Kept(r, e, L, x, m) => Kept(c, e, L \cup {Tick}, x, m)
<1> DEFINE M == L \cup {Tick}
<1>1. Lined(r, L) /\ Flagged(r, L, Tick)
  BY DEF Told, Flagged
<1>2. /\ c \in Ram /\ Lined(c, M) /\ Flag(c, r, Tick, TRUE)
      /\ Present(r, L, Tick) => c.fault = r.fault
  BY <1>1, QueuedTold DEF TickAdded, Flags
<1>3. Tick # Anim /\ Tick \notin AppTimer
  BY Slots DEF Flags
<1>4. Told(c, e, M, x)
  BY <1>2, <1>3 DEF Told, Flag
<1> QED
  BY <1>2, <1>4 DEF Kept, Flag, Present

LEMMA TickStoppedKeeps ==
  ASSUME NEW r \in Ram, NEW e \in BOOLEAN, NEW L, NEW x, Told(r, e, L, x),
         NEW c, c = TickStopped(r)
  PROVE  /\ Told(c, e, L \ {Tick}, x) /\ ~c.onqueue[Tick]
         /\ \A m : m # "clear" /\ Kept(r, e, L, x, m) => Kept(c, e, L \ {Tick}, x, m)
<1> DEFINE M == L \ {Tick}
<1>1. Lined(r, L) /\ Flagged(r, L, Tick)
  BY DEF Told, Flagged
<1>2. /\ c \in Ram /\ Lined(c, M) /\ Flag(c, r, Tick, FALSE)
      /\ Present(r, L, Tick) => c.fault = r.fault
  BY <1>1, OffQueueTold DEF TickStopped, Flags
<1>3. Tick # Anim /\ Tick \notin AppTimer
  BY Slots DEF Flags
<1>4. Told(c, e, M, x)
  BY <1>2, <1>3 DEF Told, Flag
<1> QED
  BY <1>2, <1>4 DEF Kept, Flag, Present

LEMMA ScheduledKeeps ==
  ASSUME NEW r \in Ram, NEW e \in BOOLEAN, NEW L, NEW x, Told(r, e, L, x),
         NEW d \in Delay, NEW c, c = Scheduled(r, d)
  PROVE  \E M : /\ Told(c, e, M, x)
                /\ \A m : Kept(r, e, L, x, m) => Kept(c, e, M, x, m)
<1>1. CASE r.playing
  BY <1>1 DEF Scheduled
<1>2. CASE ~r.playing
  <2> DEFINE M == L \cup {Anim}
  <2>1. Lined(r, L) /\ Anim \notin L /\ ~r.onqueue[Anim] /\ Flagged(r, L, Anim)
    BY <1>2 DEF Told, Flagged
  <2>2. PICK q : q = Queued(r, Anim, d)
    OBVIOUS
  <2>3. /\ q \in Ram /\ Lined(q, M) /\ Flag(q, r, Anim, TRUE)
        /\ q.fault = r.fault
    <3>1. Present(r, L, Anim)
      BY <2>1 DEF Present
    <3> QED
      BY <2>1, <2>2, <3>1, QueuedTold DEF Flags
  <2>4. c = [q EXCEPT !.playing = TRUE]
    BY <1>2, <2>2 DEF Scheduled
  <2>5. SameList(c, q) /\ c.id = q.id /\ c.onqueue = q.onqueue /\ c.playing
    BY <2>3, <2>4, PlayingType
  <2>6. Lined(c, M) /\ c.fault = r.fault
    BY <2>3, <2>5, SameListLined DEF SameList
  <2>7. Tick # Anim /\ Anim \notin AppTimer
    BY Slots DEF Flags
  <2>8. Told(c, e, M, x)
    BY <2>3, <2>5, <2>6, <2>7 DEF Told, Flag
  <2> QED
    BY <2>3, <2>5, <2>6, <2>7, <2>8 DEF Kept, Flag
<1> QED
  BY <1>1, <1>2

\* Unscheduling does no harm only when there is nothing to do.
LEMMA UnscheduledKeeps ==
  ASSUME NEW r \in Ram, NEW e \in BOOLEAN, NEW L, NEW x, Told(r, e, L, x),
         ~(r.playing /\ InList(r, Anim))
  PROVE  Unscheduled(r) = r
<1>1. Listed(r) = L
  BY ListedIsLine DEF Told
<1>2. Anim \in Node
  BY Slots DEF Flags
<1>3. InList(r, Anim) <=> Anim \in L
  BY <1>1, <1>2 DEF Listed
<1>4. r.playing => Anim \in L
  BY DEF Told
<1> QED
  BY <1>3, <1>4 DEF Unscheduled

LEMMA OutcomeKeeps ==
  ASSUME NEW r \in Ram, NEW e \in BOOLEAN, NEW L, NEW x, Told(r, e, L, x),
         NEW c, NEW g, Outcome(r, c, g), ~g, NEW m
  PROVE  \E M : /\ Told(c, e, M, x)
                /\ Kept(r, e, L, x, m) =>
                      Kept(c, e, M, x, m) \/ (m = "clear" /\ (Tick \in M \/ ~c.onqueue[Tick]))
<1> DEFINE Goal == \E M : /\ Told(c, e, M, x)
                          /\ Kept(r, e, L, x, m) => Kept(c, e, M, x, m)
<1>0. Lined(r, L)
  BY DEF Told
<1>1. ASSUME NEW n \in AppTimer, NEW i \in Id, NEW d \in AppDelay,
             r.id[n] = Nil, c = Registered(r, n, i, d)
      PROVE  Goal
  BY <1>1, RegisteredKeeps
<1>2. ASSUME NEW h \in Id, NEW n \in ById(r, h),
             c = Freed(Removed(r, n), n), Anim \notin ById(r, h)
      PROVE  Goal
  <2>1. n \in L /\ n \in AppTimer
    BY <1>0, <1>2, ByIdInLine
  <2> QED
    BY <1>2, <2>1, CancelledKeeps
<1>3. ASSUME NEW h \in Id, NEW d \in AppDelay, NEW n \in ById(r, h),
             c = Added(Removed(r, n), n, d)
      PROVE  Goal
  <2>1. n \in L /\ d \in Delay
    BY <1>0, ByIdInLine, DelaysIn
  <2> QED
    BY <1>3, <2>1, RescheduledKeeps
<1>4. ASSUME NEW d \in TickDelay, c = TickAdded(r, d)
      PROVE  \E M : /\ Told(c, e, M, x)
                    /\ Kept(r, e, L, x, m) => Kept(c, e, M, x, m) \/ (m = "clear" /\ Tick \in M)
  <2>1. /\ Told(c, e, L \cup {Tick}, x)
        /\ \A k : k # "clear" /\ Kept(r, e, L, x, k) => Kept(c, e, L \cup {Tick}, x, k)
    BY <1>4, TickAddedKeeps, DelaysIn
  <2>2. Tick \in L \cup {Tick}
    OBVIOUS
  <2>3. CASE m = "clear"
    BY <2>1, <2>2, <2>3
  <2>4. CASE m # "clear"
    BY <2>1, <2>4
  <2> QED
    BY <2>3, <2>4
<1>5. ASSUME c = TickStopped(r)
      PROVE  \E M : /\ Told(c, e, M, x)
                    /\ Kept(r, e, L, x, m) =>
                          Kept(c, e, M, x, m) \/ (m = "clear" /\ ~c.onqueue[Tick])
  <2>1. /\ Told(c, e, L \ {Tick}, x) /\ ~c.onqueue[Tick]
        /\ \A k : k # "clear" /\ Kept(r, e, L, x, k) => Kept(c, e, L \ {Tick}, x, k)
    BY <1>5, TickStoppedKeeps
  <2>2. CASE m = "clear"
    BY <2>1, <2>2
  <2>3. CASE m # "clear"
    BY <2>1, <2>3
  <2> QED
    BY <2>2, <2>3
<1>6. ASSUME NEW d \in AnimDelay, c = Scheduled(r, d)
      PROVE  Goal
  BY <1>6, ScheduledKeeps, DelaysIn
<1>7. ASSUME c = Unscheduled(r), ~(r.playing /\ InList(r, Anim))
      PROVE  Goal
  <2>1. c = r
    BY <1>7, UnscheduledKeeps
  <2> QED
    BY <2>1
<1>8. c = r => Goal
  OBVIOUS
<1>9. Goal => \E M : /\ Told(c, e, M, x)
                     /\ Kept(r, e, L, x, m) =>
                           Kept(c, e, M, x, m) \/ (m = "clear" /\ (Tick \in M \/ ~c.onqueue[Tick]))
  OBVIOUS
<1> HIDE DEF Goal
<1> QED
  BY <1>1, <1>2, <1>3, <1>4, <1>5, <1>6, <1>7, <1>8, <1>9, OutcomeIs

-----------------------------------------------------------------------------
(***************************************************************************)
(* Types.                                                                  *)
(***************************************************************************)
ElseType ==
    /\ endless \in BOOLEAN /\ clean \in BOOLEAN
    /\ owner \in {"runs", "told", "left", "done"}
    /\ mstep \in {"idle", "walk", "unlink", "clear", "tell"}
    /\ at \in Slot

LEMMA TimersTypeParts == TimersTypeOK <=> ram \in Ram /\ ElseType
BY DEF TimersTypeOK, Ram, Ticks, ElseType

LEMMA LeavesType ==
  ASSUME ElseType, NEW r, NEW g, Leaves(r, g),
         UNCHANGED <<endless, owner, mstep, at>>
  PROVE  ram' = r /\ ElseType'
BY DEF Leaves, ElseType

LEMMA ExpireTickIs ==
  ASSUME ExpireTick
  PROVE  \E d \in TickDelay : \E c, h :
            /\ Outcome(TickAdded(OnQueue(Dequeued, Tick, FALSE), d), c, h)
            /\ Leaves(c, h)
<1>1. PICK d \in TickDelay : \E r \in {TickAdded(OnQueue(Dequeued, Tick, FALSE), d)} :
                                Call(r, Leaves)
  BY DEF ExpireTick
<1>2. PICK r : r = TickAdded(OnQueue(Dequeued, Tick, FALSE), d) /\ Call(r, Leaves)
  BY <1>1
<1>3. \E c, h : Outcome(r, c, h) /\ Leaves(c, h)
  BY <1>2 DEF Outcome, Call
<1> QED
  BY <1>2, <1>3

AnimStopped == [OnQueue(Dequeued, Anim, FALSE) EXCEPT !.playing = FALSE]
LEMMA AnimDoneIs ==
  ASSUME AnimDone
  PROVE  \E c, h : Outcome(AnimStopped, c, h) /\ Leaves(c, h)
BY DEF AnimDone, Outcome, Call, AnimStopped

LEMMA HandleIs ==
  ASSUME Handle
  PROVE  \E c, h : Outcome(ram, c, h) /\ Leaves(c, h)
BY DEF Handle, Outcome, Call

LEMMA DequeuedType ==
  ASSUME ram \in Ram, First \in Node
  PROVE  Dequeued = Out(ram, Root, First) /\ Dequeued \in Ram
<1>1. Dequeued = Out(ram, Root, First)
  BY DEF Dequeued, Out
<1> QED
  BY <1>1, OutType, Slots DEF Alike

LEMMA AnimStoppedType ==
  ASSUME ram \in Ram, First = Anim
  PROVE  AnimStopped \in Ram
<1>1. Dequeued \in Ram
  BY DequeuedType, Slots
<1>2. OnQueue(Dequeued, Anim, FALSE) \in Ram
  BY <1>1, OnQueueType
<1> QED
  BY <1>2, PlayingType DEF AnimStopped

LEMMA ExpireType ==
  ASSUME ram \in Ram, ElseType, Expire
  PROVE  ram' \in Ram /\ ElseType'
<1>0. UNCHANGED <<endless, owner, mstep, at>>
  BY DEF Expire
<1>1. CASE ExpireAppTimer
  <2>1. First \in AppTimer /\ Dequeued \in Ram
    BY <1>1, DequeuedType DEF ExpireAppTimer, Node
  <2>2. PICK c, h : Outcome(Dequeued, c, h) /\ Leaves(Freed(c, First), h)
    BY <1>1, ExpireAppTimerIs
  <2>3. c \in Ram
    BY <2>1, <2>2, OutcomeType
  <2>4. \A n \in AppTimer : Freed(c, n) \in Ram
    BY <2>3, FreedType
  <2>5. ram' = Freed(c, First) /\ ElseType'
    BY <1>0, <2>2, <2>3, LeavesType
  <2> QED
    BY <2>1, <2>4, <2>5
<1>2. CASE ExpireTick
  <2>1. Dequeued \in Ram
    BY <1>2, DequeuedType, Slots DEF ExpireTick
  <2>2. PICK d \in TickDelay : \E c, h :
            /\ Outcome(TickAdded(OnQueue(Dequeued, Tick, FALSE), d), c, h)
            /\ Leaves(c, h)
    BY <1>2, ExpireTickIs
  <2>3. PICK c, h : /\ Outcome(TickAdded(OnQueue(Dequeued, Tick, FALSE), d), c, h)
                    /\ Leaves(c, h)
    BY <2>2
  <2>4. OnQueue(Dequeued, Tick, FALSE) \in Ram
    BY <2>1, OnQueueType
  <2>5. TickAdded(OnQueue(Dequeued, Tick, FALSE), d) \in Ram
    BY <2>4, QueuedType, DelaysIn DEF TickAdded
  <2>6. c \in Ram
    BY <2>3, <2>5, OutcomeType
  <2>7. ram' = c /\ ElseType'
    BY <1>0, <2>3, <2>6, LeavesType
  <2> QED
    BY <2>6, <2>7
<1>3. CASE AnimDone
  <2>1. AnimStopped \in Ram
    BY <1>3, AnimStoppedType DEF AnimDone
  <2>2. PICK c, h : Outcome(AnimStopped, c, h) /\ Leaves(c, h)
    BY <1>3, AnimDoneIs
  <2>3. c \in Ram
    BY <2>1, <2>2, OutcomeType
  <2>4. ram' = c /\ ElseType'
    BY <1>0, <2>2, <2>3, LeavesType
  <2> QED
    BY <2>3, <2>4
<1>4. CASE AnimNext
  <2>1. Dequeued \in Ram
    BY <1>4, DequeuedType, Slots DEF AnimNext
  <2>2. Added(Dequeued, Anim, 1) \in Ram
    BY <2>1, AddedType, DelaysIn, Slots DEF Alike
  <2>3. OnQueue(Added(Dequeued, Anim, 1), Anim, ~endless) \in Ram
    BY <2>2, OnQueueType DEF ElseType
  <2>4. ram' = OnQueue(Added(Dequeued, Anim, 1), Anim, ~endless) /\ ElseType'
    <3>1. Leaves(OnQueue(Added(Dequeued, Anim, 1), Anim, ~endless), FALSE)
      BY <1>4 DEF AnimNext
    <3> QED
      BY <1>0, <3>1, LeavesType
  <2> QED
    BY <2>3, <2>4
<1> QED
  BY <1>1, <1>2, <1>3, <1>4 DEF Expire

LEMMA HandleType ==
  ASSUME ram \in Ram, ElseType, Handle
  PROVE  ram' \in Ram /\ ElseType'
<1>1. PICK c, h : Outcome(ram, c, h) /\ Leaves(c, h)
  BY HandleIs
<1>2. c \in Ram
  BY <1>1, OutcomeType
<1>3. ram' = c /\ ElseType'
  BY <1>1, <1>2, LeavesType DEF Handle
<1> QED
  BY <1>2, <1>3

LEMMA ManagerType ==
  ASSUME ram \in Ram, ElseType,
         AskQuit \/ WalkOn \/ WalkFinds \/ Unlink \/ ClearFlag \/ Tell
  PROVE  ram' \in Ram /\ ElseType'
<1>1. CASE AskQuit
  BY <1>1, Slots DEF AskQuit, ElseType
<1>2. CASE WalkOn
  <2>1. at \in Slot /\ ram.next[at] \in Node \cup {Nil} /\ Node \subseteq Slot
    BY RamParts DEF ElseType, Slot
  <2>2. Faulted(ram, "notFound") \in Ram
    BY FaultedType DEF Alike
  <2> QED
    BY <1>2, <2>1, <2>2 DEF WalkOn, ElseType
<1>3. CASE WalkFinds
  BY <1>3 DEF WalkFinds, ElseType
<1>4. CASE Unlink
  <2>1. ram' = Out(ram, at, Tick)
    BY <1>4 DEF Unlink, Out
  <2>2. ram' \in Ram
    BY <2>1, OutType, Slots DEF Alike, ElseType
  <2> QED
    BY <1>4, <2>2 DEF Unlink, ElseType
<1>5. CASE ClearFlag
  BY <1>5, OnQueueType, Slots DEF ClearFlag, ElseType
<1>6. CASE Tell
  BY <1>6 DEF Tell, ElseType
<1> QED
  BY <1>1, <1>2, <1>3, <1>4, <1>5, <1>6

LEMMA RestartType ==
  ASSUME ram \in Ram, ElseType, Restart
  PROVE  ram' \in Ram /\ ElseType'
<1> DEFINE next == [s \in Slot |-> IF s = Tick THEN ram.next[s] ELSE Nil]
<1>1. ram' = [ram EXCEPT !.next = next, !.due = [n \in Node |-> 0],
                         !.id = [n \in AppTimer |-> Nil], !.onqueue[Anim] = FALSE,
                         !.playing = FALSE]
  BY DEF Restart
<1>2. next \in [Slot -> Node \cup {Nil}]
  BY RamParts
<1> HIDE DEF next
<1>3. ram' \in Ram
  BY <1>1, <1>2, Dues DEF Ram
<1> QED
  BY <1>3 DEF Restart, ElseType

LEMMA TimePassesType ==
  ASSUME ram \in Ram, ElseType, TimePasses
  PROVE  ram' \in Ram /\ ElseType'
<1>1. PICK waits : ram' = [ram EXCEPT !.due = [n \in Node |->
                     IF n \in waits /\ @[n] > -MaxLate THEN @[n] - 1 ELSE @[n]]]
  BY DEF TimePasses
<1> DEFINE due == [n \in Node |->
                     IF n \in waits /\ ram.due[n] > -MaxLate THEN ram.due[n] - 1 ELSE ram.due[n]]
<1>2. ram' = [ram EXCEPT !.due = due]
  BY <1>1 DEF Ram
<1>3. due \in [Node -> Ticks]
  BY RamParts, Dues
<1> HIDE DEF due
<1>4. ram' \in Ram
  BY <1>2, <1>3 DEF Ram
<1> QED
  BY <1>4 DEF TimePasses, ElseType

LEMMA TimersInitType == TimersInit => TimersTypeOK
<1> SUFFICES ASSUME TimersInit PROVE ram \in Ram /\ ElseType
  BY TimersTypeParts
<1>1. ram \in Ram
  BY Dues DEF TimersInit, Ram
<1> QED
  BY <1>1, Slots DEF TimersInit, ElseType

LEMMA TimersStepType == TimersTypeOK /\ [TimersNext]_timersVars => TimersTypeOK'
<1> SUFFICES ASSUME ram \in Ram, ElseType, [TimersNext]_timersVars
    PROVE  ram' \in Ram /\ ElseType'
  BY DEF TimersTypeOK, Ram, Ticks, ElseType
<1>1. CASE LeaveLoop \/ EndMain
  BY <1>1 DEF LeaveLoop, EndMain, ElseType
<1>2. CASE UNCHANGED timersVars
  BY <1>2 DEF timersVars, ElseType
<1> QED
  BY <1>1, <1>2, ExpireType, HandleType, ManagerType, RestartType, TimePassesType DEF TimersNext

(* The types are kept whatever goes wrong with the list: a walk that misses   *)
(* or goes round (appmanager_app_timer.c:64, 85) stops the model there, and a *)
(* timer is never more than MaxLate late.                                     *)
THEOREM TimersTypeCorrect == TimersSpec => []TimersTypeOK
<1>1. TimersInit => TimersTypeOK
  BY TimersInitType
<1>2. TimersTypeOK /\ [TimersNext]_timersVars => TimersTypeOK'
  BY TimersStepType
<1> QED
  BY <1>1, <1>2, PTL DEF TimersSpec

-----------------------------------------------------------------------------
(***************************************************************************)
(* The steps of the application keep the line.                             *)
(***************************************************************************)
LEMMA FirstInLine ==
  ASSUME NEW L, Lined(ram, L), First # Nil
  PROVE  First \in L /\ ram.next[Root] = First /\ Root \in Line(L)
BY DEF Lined, Ranked, First, Line

\* What the steps of the application leave, after their call.
Left(c, M) ==
    /\ Told(c, endless, M, {})
    /\ \/ Kept(c, endless, M, {}, mstep)
       \/ mstep = "clear" /\ (Tick \in M \/ ~c.onqueue[Tick])

LEMMA LeavesKeeps ==
  ASSUME LineInv, NEW c, NEW g, Leaves(c, g), UNCHANGED <<endless, owner, mstep, at>>,
         clean' => \E M : Left(c, M)
  PROVE  LineInv'
<1> SUFFICES ASSUME clean'
    PROVE  /\ \E M \in SUBSET Node : Kept(c, endless, M, {}, mstep) /\ Position(c.next, M, mstep, at)
           /\ Removing => c.onqueue[Tick]
  BY DEF LineInv, Leaves, Kept, Told, Position, Removing
<1>1. clean /\ (Removing => c.next = ram.next /\ c.onqueue = ram.onqueue)
  BY DEF Leaves
<1>2. PICK L \in SUBSET Node : Kept(ram, endless, L, {}, mstep) /\ Position(ram.next, L, mstep, at)
  BY <1>1 DEF LineInv
<1>3. Removing => ram.onqueue[Tick]
  BY <1>1 DEF LineInv
<1>4. PICK M : Left(c, M)
  OBVIOUS
<1>5. M \in SUBSET Node /\ Lined(c, M) /\ Lined(ram, L)
  BY <1>2, <1>4 DEF Left, Told, Kept, Lined
<1>6. CASE Removing
  <2>1. M = L
    BY <1>1, <1>5, <1>6, SameNextSameLine
  <2>2. mstep = "clear" => Tick \notin M /\ c.onqueue[Tick]
    BY <1>1, <1>2, <1>3, <1>6, <2>1 DEF Kept
  <2>3. Kept(c, endless, M, {}, mstep)
    BY <1>4, <2>2 DEF Left
  <2> QED
    BY <1>1, <1>2, <1>3, <1>5, <1>6, <2>1, <2>3
<1>7. CASE ~Removing
  <2>1. Kept(c, endless, M, {}, mstep)
    BY <1>4, <1>7 DEF Left, Removing
  <2>2. Position(c.next, M, mstep, at)
    BY <1>7 DEF Position, Removing
  <2> QED
    BY <1>5, <1>7, <2>1, <2>2
<1> QED
  BY <1>6, <1>7

\* The line of a list that is kept, of which the first is taken.
LEMMA DequeuedKeeps ==
  ASSUME ram \in Ram, NEW L, Kept(ram, endless, L, {}, mstep), First # Nil
  PROVE  /\ First \in L /\ Dequeued \in Ram /\ Lined(Dequeued, L \ {First})
         /\ Dequeued.fault = "none" /\ Dequeued.id = ram.id
         /\ Dequeued.onqueue = ram.onqueue /\ Dequeued.playing = ram.playing
<1>1. Lined(ram, L)
  BY DEF Kept, Told
<1>2. First \in L /\ ram.next[Root] = First /\ Root \in Line(L) /\ First \in Node
  BY <1>1, FirstInLine DEF Lined
<1>3. Dequeued = Out(ram, Root, First) /\ Dequeued \in Ram
  BY <1>2, DequeuedType
<1>4. Lined(Dequeued, L \ {First}) /\ Dequeued.fault = ram.fault
  BY <1>1, <1>2, <1>3, OutLined
<1>5. Alike(Dequeued, ram)
  BY <1>2, <1>3, OutType, Slots
<1> QED
  BY <1>2, <1>3, <1>4, <1>5 DEF Alike, Kept

LEMMA HandleKeeps ==
  ASSUME ram \in Ram, ElseType, LineInv, Handle
  PROVE  LineInv'
<1>1. PICK c, h : Outcome(ram, c, h) /\ Leaves(c, h)
  BY HandleIs
<1>2. ASSUME clean'
      PROVE  \E M : Left(c, M)
  <2>1. clean /\ ~h
    BY <1>1, <1>2 DEF Leaves
  <2>2. PICK L : Kept(ram, endless, L, {}, mstep)
    BY <2>1 DEF LineInv
  <2>3. endless \in BOOLEAN /\ Told(ram, endless, L, {})
    BY <2>2 DEF Kept, ElseType
  <2>4. PICK M : /\ Told(c, endless, M, {})
                 /\ Kept(ram, endless, L, {}, mstep) =>
                      \/ Kept(c, endless, M, {}, mstep)
                      \/ mstep = "clear" /\ (Tick \in M \/ ~c.onqueue[Tick])
    BY <1>1, <2>1, <2>3, OutcomeKeeps
  <2> QED
    BY <2>2, <2>4 DEF Left
<1> QED
  BY <1>1, <1>2, LeavesKeeps DEF Handle

LEMMA ExpireAppTimerKeeps ==
  ASSUME ram \in Ram, ElseType, LineInv, ExpireAppTimer, UNCHANGED <<endless, owner, mstep, at>>
  PROVE  LineInv'
<1>1. PICK c, h : Outcome(Dequeued, c, h) /\ Leaves(Freed(c, First), h)
  BY ExpireAppTimerIs
<1>2. ASSUME clean'
      PROVE  \E M : Left(Freed(c, First), M)
  <2>1. clean /\ ~h
    BY <1>1, <1>2 DEF Leaves
  <2>2. PICK L : Kept(ram, endless, L, {}, mstep)
    BY <2>1 DEF LineInv
  <2> DEFINE K == L \ {First}
             x == {First}
  <2>3. First \in AppTimer /\ First # Nil /\ First # Tick /\ First # Anim
    BY Slots DEF ExpireAppTimer, Node
  <2>4. /\ First \in L /\ Dequeued \in Ram /\ Lined(Dequeued, K)
        /\ Dequeued.fault = "none" /\ Dequeued.id = ram.id
        /\ Dequeued.onqueue = ram.onqueue /\ Dequeued.playing = ram.playing
    BY <2>2, <2>3, DequeuedKeeps
  <2>5. Kept(Dequeued, endless, K, x, mstep)
    BY <2>2, <2>3, <2>4 DEF Kept, Told
  <2>6. endless \in BOOLEAN /\ Told(Dequeued, endless, K, x)
    BY <2>5 DEF Kept, ElseType
  <2> HIDE DEF K
  <2>7. PICK M : /\ Told(c, endless, M, x)
                 /\ Kept(Dequeued, endless, K, x, mstep) =>
                      \/ Kept(c, endless, M, x, mstep)
                      \/ mstep = "clear" /\ (Tick \in M \/ ~c.onqueue[Tick])
    BY <1>1, <2>1, <2>4, <2>6, OutcomeKeeps
  <2>8. c \in Ram
    BY <1>1, <2>4, OutcomeType
  <2> DEFINE q == Freed(c, First)
  <2>9. /\ q \in Ram /\ SameList(q, c) /\ q.id = [c.id EXCEPT ![First] = Nil]
        /\ q.playing = c.playing /\ q.onqueue = c.onqueue
    BY <2>3, <2>8, FreedType
  <2> HIDE DEF q
  <2>10. Lined(q, M) /\ q.fault = c.fault
    BY <2>7, <2>9, SameListLined DEF Told, SameList
  <2>11. \A n \in AppTimer : n \in M <=> q.id[n] # Nil
    BY <2>3, <2>7, <2>8, <2>9 DEF Told, Ram
  <2>12. Told(q, endless, M, {})
    BY <2>7, <2>9, <2>10, <2>11 DEF Told
  <2>13. Kept(c, endless, M, x, mstep) => Kept(q, endless, M, {}, mstep)
    BY <2>9, <2>10, <2>12 DEF Kept
  <2> QED
    BY <2>5, <2>7, <2>9, <2>12, <2>13 DEF Left, q
<1> QED
  BY <1>1, <1>2, LeavesKeeps

LEMMA ExpireTickKeeps ==
  ASSUME ram \in Ram, ElseType, LineInv, ExpireTick, UNCHANGED <<endless, owner, mstep, at>>
  PROVE  LineInv'
<1>1. PICK d \in TickDelay : \E c, h :
            /\ Outcome(TickAdded(OnQueue(Dequeued, Tick, FALSE), d), c, h)
            /\ Leaves(c, h)
  BY ExpireTickIs
<1> DEFINE p == OnQueue(Dequeued, Tick, FALSE)
<1>2. PICK r : r = TickAdded(p, d)
  OBVIOUS
<1>3. PICK c, h : Outcome(r, c, h) /\ Leaves(c, h)
  BY <1>1, <1>2
<1>4. ASSUME clean'
      PROVE  \E M : Left(c, M)
  <2>1. clean /\ ~h
    BY <1>3, <1>4 DEF Leaves
  <2>2. PICK L : Kept(ram, endless, L, {}, mstep)
    BY <2>1 DEF LineInv
  <2> DEFINE K == L \ {Tick}
  <2>3. First = Tick /\ First # Nil /\ Tick \in Flags /\ Anim \in Flags /\ Tick # Anim /\ Tick \notin AppTimer
    BY Slots DEF ExpireTick, Flags
  <2>4. /\ First \in L /\ Dequeued \in Ram /\ Lined(Dequeued, K)
        /\ Dequeued.fault = "none" /\ Dequeued.id = ram.id
        /\ Dequeued.onqueue = ram.onqueue /\ Dequeued.playing = ram.playing
    BY <2>2, <2>3, DequeuedKeeps
  <2>5. mstep # "clear"
    BY <2>2, <2>3, <2>4 DEF Kept
  <2>6. p \in Ram /\ SameList(p, Dequeued) /\ Flag(p, Dequeued, Tick, FALSE)
    BY <2>4, FlagType
  <2> HIDE DEF p
  <2>7. Lined(p, K) /\ p.fault = "none"
    BY <2>4, <2>6, SameListLined DEF SameList
  <2>8. Kept(p, endless, K, {}, mstep)
    BY <2>2, <2>3, <2>4, <2>5, <2>6, <2>7 DEF Kept, Told, Flag, Flags
  <2>9. endless \in BOOLEAN /\ Told(p, endless, K, {}) /\ d \in Delay
    BY <2>8, DelaysIn DEF Kept, ElseType
  <2> HIDE DEF K
  <2>10. r \in Ram
    BY <1>2, <2>6, <2>9, QueuedType DEF TickAdded
  <2>11. /\ Told(r, endless, K \cup {Tick}, {})
         /\ Kept(r, endless, K \cup {Tick}, {}, mstep)
    BY <1>2, <2>5, <2>6, <2>8, <2>9, TickAddedKeeps
  <2>12. PICK M : /\ Told(c, endless, M, {})
                  /\ Kept(r, endless, K \cup {Tick}, {}, mstep) =>
                       \/ Kept(c, endless, M, {}, mstep)
                       \/ mstep = "clear" /\ (Tick \in M \/ ~c.onqueue[Tick])
    BY <1>3, <2>1, <2>9, <2>10, <2>11, OutcomeKeeps
  <2> QED
    BY <2>11, <2>12 DEF Left
<1> QED
  BY <1>3, <1>4, LeavesKeeps

LEMMA AnimDoneKeeps ==
  ASSUME ram \in Ram, ElseType, LineInv, AnimDone, UNCHANGED <<endless, owner, mstep, at>>
  PROVE  LineInv'
<1>1. PICK c, h : Outcome(AnimStopped, c, h) /\ Leaves(c, h)
  BY AnimDoneIs
<1>2. ASSUME clean'
      PROVE  \E M : Left(c, M)
  <2>1. clean /\ ~h
    BY <1>1, <1>2 DEF Leaves
  <2>2. PICK L : Kept(ram, endless, L, {}, mstep)
    BY <2>1 DEF LineInv
  <2> DEFINE K == L \ {Anim}
             p == OnQueue(Dequeued, Anim, FALSE)
             r == [p EXCEPT !.playing = FALSE]
  <2>3. First = Anim /\ First # Nil /\ ~endless /\ Tick # Anim /\ Anim \notin AppTimer
    BY Slots DEF AnimDone
  <2>4. /\ First \in L /\ Dequeued \in Ram /\ Lined(Dequeued, K)
        /\ Dequeued.fault = "none" /\ Dequeued.id = ram.id
        /\ Dequeued.onqueue = ram.onqueue /\ Dequeued.playing = ram.playing
    BY <2>2, <2>3, DequeuedKeeps
  <2>5. p \in Ram /\ SameList(p, Dequeued) /\ Flag(p, Dequeued, Anim, FALSE)
    BY <2>4, FlagType
  <2> HIDE DEF p
  <2>6. /\ r \in Ram /\ SameList(r, p)
        /\ r.id = p.id /\ r.onqueue = p.onqueue /\ ~r.playing
    BY <2>5, PlayingType
  <2> HIDE DEF r
  <2>7. Lined(r, K) /\ r.fault = "none"
    BY <2>4, <2>5, <2>6, SameListLined DEF SameList
  <2>8. r.id = ram.id /\ ~r.onqueue[Anim] /\ (r.onqueue[Tick] <=> ram.onqueue[Tick])
    BY <2>3, <2>4, <2>5, <2>6 DEF Flag
  <2>9. Told(r, endless, K, {})
    BY <2>2, <2>3, <2>6, <2>7, <2>8 DEF Kept, Told
  <2>10. Kept(r, endless, K, {}, mstep)
    BY <2>2, <2>3, <2>7, <2>8, <2>9 DEF Kept
  <2> HIDE DEF K
  <2>11. endless \in BOOLEAN
    BY DEF ElseType
  <2>12. Outcome(r, c, h)
    BY <1>1 DEF AnimStopped, r, p
  <2>13. PICK M : /\ Told(c, endless, M, {})
                  /\ Kept(r, endless, K, {}, mstep) =>
                       \/ Kept(c, endless, M, {}, mstep)
                       \/ mstep = "clear" /\ (Tick \in M \/ ~c.onqueue[Tick])
    BY <2>1, <2>6, <2>9, <2>11, <2>12, OutcomeKeeps
  <2> QED
    BY <2>10, <2>13 DEF Left
<1> QED
  BY <1>1, <1>2, LeavesKeeps

LEMMA AnimNextKeeps ==
  ASSUME ram \in Ram, ElseType, LineInv, AnimNext, UNCHANGED <<endless, owner, mstep, at>>
  PROVE  LineInv'
<1>1. PICK p : p = Added(Dequeued, Anim, 1)
  OBVIOUS
<1>2. PICK c : c = OnQueue(p, Anim, ~endless) /\ Leaves(c, FALSE)
  BY <1>1 DEF AnimNext
<1>3. ASSUME clean'
      PROVE  \E M : Left(c, M)
  <2>1. clean
    BY <1>2, <1>3 DEF Leaves
  <2>2. PICK L : Kept(ram, endless, L, {}, mstep)
    BY <2>1 DEF LineInv
  <2> DEFINE K == L \ {Anim}
  <2>3. First = Anim /\ First # Nil /\ Tick # Anim /\ Anim \notin AppTimer /\ Anim \in Node \ K
    BY Slots DEF AnimNext
  <2>4. /\ First \in L /\ Dequeued \in Ram /\ Lined(Dequeued, K)
        /\ Dequeued.fault = "none" /\ Dequeued.id = ram.id
        /\ Dequeued.onqueue = ram.onqueue /\ Dequeued.playing = ram.playing
    BY <2>2, <2>3, DequeuedKeeps
  <2>5. K \cup {Anim} = L
    BY <2>3, <2>4
  <2> HIDE DEF K
  <2>6. Alike(p, Dequeued) /\ Lined(p, L) /\ p.fault = "none"
    BY <1>1, <2>3, <2>4, <2>5, AddedTold, DelaysIn
  <2>7. endless \in BOOLEAN /\ (~endless) \in BOOLEAN /\ p \in Ram
    BY <2>6 DEF ElseType, Alike
  <2>8. c \in Ram /\ SameList(c, p) /\ Flag(c, p, Anim, ~endless)
    BY <1>2, <2>7, FlagType
  <2>9. Lined(c, L) /\ c.fault = "none"
    BY <2>6, <2>8, SameListLined DEF SameList
  <2>10. Flag(c, Dequeued, Anim, ~endless)
    BY <2>6, <2>8, FlagAlike
  <2>11. /\ c.id = ram.id /\ (c.playing <=> ram.playing)
         /\ (c.onqueue[Anim] <=> ~endless) /\ (c.onqueue[Tick] <=> ram.onqueue[Tick])
    BY <2>3, <2>4, <2>10 DEF Flag
  <2>12. Told(c, endless, L, {})
    BY <2>2, <2>3, <2>4, <2>7, <2>9, <2>11 DEF Kept, Told
  <2>13. Kept(c, endless, L, {}, mstep)
    BY <2>2, <2>9, <2>11, <2>12 DEF Kept
  <2> QED
    BY <2>12, <2>13 DEF Left
<1> QED
  BY <1>2, <1>3, LeavesKeeps

LEMMA ExpireKeeps ==
  ASSUME ram \in Ram, ElseType, LineInv, Expire
  PROVE  LineInv'
<1>1. UNCHANGED <<endless, owner, mstep, at>>
  BY DEF Expire
<1>2. ExpireAppTimer \/ ExpireTick \/ AnimDone \/ AnimNext
  BY DEF Expire
<1> QED
  BY <1>1, <1>2, ExpireAppTimerKeeps, ExpireTickKeeps, AnimDoneKeeps, AnimNextKeeps

-----------------------------------------------------------------------------
(***************************************************************************)
(* The steps of the manager, and time, keep the line.                      *)
(***************************************************************************)
\* What a step of the manager, or time, makes of the list.
LEMMA LineKept ==
  ASSUME clean' => /\ \E L : /\ Kept(ram', endless', L, {}, mstep')
                             /\ Position(ram'.next, L, mstep', at')
                   /\ Removing' => ram'.onqueue[Tick]
  PROVE  LineInv'
<1>1. \A L : Kept(ram', endless', L, {}, mstep') => L \in SUBSET Node
  BY DEF Kept, Told, Lined
<1>2. clean' => /\ \E L \in SUBSET Node : /\ Kept(ram', endless', L, {}, mstep')
                                          /\ Position(ram'.next, L, mstep', at')
                /\ Removing' => ram'.onqueue[Tick]
  BY <1>1
<1> QED
  BY <1>2 DEF LineInv

LEMMA AskQuitKeeps ==
  ASSUME LineInv, AskQuit
  PROVE  LineInv'
<1> SUFFICES ASSUME clean'
    PROVE  /\ \E L : /\ Kept(ram', endless', L, {}, mstep')
                     /\ Position(ram'.next, L, mstep', at')
           /\ Removing' => ram'.onqueue[Tick]
  BY LineKept
<1>1. /\ clean /\ mstep = "idle" /\ mstep' = IF ram.onqueue[Tick] THEN "walk" ELSE "tell"
      /\ at' = Root /\ ram' = ram /\ endless' = endless
  BY DEF AskQuit
<1>2. PICK L : Kept(ram, endless, L, {}, mstep)
  BY <1>1 DEF LineInv
<1>3. Kept(ram, endless, L, {}, mstep')
  BY <1>1, <1>2 DEF Kept
<1>4. ASSUME ram.onqueue[Tick], NEW rank \in Rank, Ranked(ram.next, L, rank)
      PROVE  rank[Root] < rank[Tick]
  BY <1>1, <1>2, <1>4 DEF Kept, Ranked
<1>5. Position(ram.next, L, mstep', Root)
  BY <1>1, <1>4 DEF Position, Line
<1>6. Removing' => ram.onqueue[Tick]
  BY <1>1 DEF Removing
<1> QED
  BY <1>1, <1>3, <1>5, <1>6

LEMMA WalkOnKeeps ==
  ASSUME LineInv, WalkOn
  PROVE  LineInv'
<1> SUFFICES ASSUME clean'
    PROVE  /\ \E L : /\ Kept(ram', endless', L, {}, mstep')
                     /\ Position(ram'.next, L, mstep', at')
           /\ Removing' => ram'.onqueue[Tick]
  BY LineKept
<1>1. clean /\ mstep = "walk" /\ mstep' = mstep /\ endless' = endless /\ ram.next[at] # Tick
  BY DEF WalkOn
<1>2. PICK L \in SUBSET Node : Kept(ram, endless, L, {}, mstep) /\ Position(ram.next, L, mstep, at)
  BY <1>1 DEF LineInv
<1>3. Tick \in L /\ ram.onqueue[Tick]
  BY <1>1, <1>2 DEF LineInv, Removing, Kept
<1>4. at \in Line(L) /\ Tick \in Line(L)
  BY <1>1, <1>2, <1>3 DEF Position, Line
<1>5. ASSUME NEW rank \in Rank, Ranked(ram.next, L, rank)
      PROVE  ram.next[at] # Nil /\ ram.next[at] \in L /\ rank[ram.next[at]] < rank[Tick]
  <2>1. rank[at] < rank[Tick]
    BY <1>1, <1>2, <1>5 DEF Position
  <2>2. ram.next[at] # Nil /\ rank[ram.next[at]] <= rank[Tick]
    BY <1>4, <1>5, <2>1 DEF Ranked
  <2>3. ram.next[at] \in L /\ ram.next[at] \in Line(L)
    BY <1>4, <1>5, <2>2 DEF Ranked, Line
  <2>4. rank[ram.next[at]] # rank[Tick]
    BY <1>1, <1>4, <1>5, <2>3 DEF Ranked
  <2>5. rank[ram.next[at]] \in Nat /\ rank[Tick] \in Nat
    BY <1>4, <2>3, LineSlots DEF Rank
  <2> QED
    BY <2>2, <2>3, <2>4, <2>5
<1>6. \E rank \in Rank : Ranked(ram.next, L, rank)
  BY <1>2 DEF Kept, Told, Lined
<1>7. ram.next[at] # Nil /\ ram.next[at] \in Line(L)
  BY <1>5, <1>6 DEF Line
<1>8. ram' = ram /\ at' = ram.next[at]
  BY <1>7 DEF WalkOn
<1>9. Position(ram.next, L, mstep, ram.next[at])
  BY <1>1, <1>5, <1>7 DEF Position
<1> QED
  BY <1>1, <1>2, <1>3, <1>8, <1>9

LEMMA WalkFindsKeeps ==
  ASSUME LineInv, WalkFinds
  PROVE  LineInv'
<1> SUFFICES ASSUME clean'
    PROVE  /\ \E L : /\ Kept(ram', endless', L, {}, mstep')
                     /\ Position(ram'.next, L, mstep', at')
           /\ Removing' => ram'.onqueue[Tick]
  BY LineKept
<1>1. /\ clean /\ mstep = "walk" /\ mstep' = "unlink" /\ endless' = endless
      /\ ram' = ram /\ at' = at /\ ram.next[at] = Tick
  BY DEF WalkFinds
<1>2. PICK L : Kept(ram, endless, L, {}, mstep) /\ Position(ram.next, L, mstep, at)
  BY <1>1 DEF LineInv
<1>3. ram.onqueue[Tick]
  BY <1>1 DEF LineInv, Removing
<1>4. Kept(ram, endless, L, {}, "unlink")
  BY <1>1, <1>2 DEF Kept
<1>5. Position(ram.next, L, "unlink", at)
  BY <1>1, <1>2 DEF Position
<1> QED
  BY <1>1, <1>3, <1>4, <1>5

LEMMA UnlinkKeeps ==
  ASSUME ram \in Ram, LineInv, Unlink
  PROVE  LineInv'
<1> SUFFICES ASSUME clean'
    PROVE  /\ \E L : /\ Kept(ram', endless', L, {}, mstep')
                     /\ Position(ram'.next, L, mstep', at')
           /\ Removing' => ram'.onqueue[Tick]
  BY LineKept
<1>1. clean /\ mstep = "unlink" /\ mstep' = "clear" /\ endless' = endless
  BY DEF Unlink
<1>2. PICK L : Kept(ram, endless, L, {}, mstep) /\ Position(ram.next, L, mstep, at)
  BY <1>1 DEF LineInv
<1>3. ram.onqueue[Tick] /\ Tick \in L
  BY <1>1, <1>2 DEF LineInv, Removing, Kept
<1>4. at \in Line(L) /\ ram.next[at] = Tick
  BY <1>1, <1>2 DEF Position
<1>5. Lined(ram, L)
  BY <1>2 DEF Kept, Told
<1> DEFINE q == Out(ram, at, Tick)
<1>6. ram' = q
  BY DEF Unlink, Out
<1>7. at \in Slot
  BY <1>4, <1>5, LineSlots DEF Lined
<1>8. Lined(q, L \ {Tick}) /\ q.fault = ram.fault
  BY <1>3, <1>4, <1>5, OutLined
<1>9. Alike(q, ram)
  BY <1>7, OutType, Slots
<1> HIDE DEF q
<1>10. Tick # Anim /\ Tick \notin AppTimer
  BY Slots
<1>11. Told(q, endless, L \ {Tick}, {})
  BY <1>2, <1>8, <1>9, <1>10 DEF Kept, Told, Alike
<1>12. Kept(q, endless, L \ {Tick}, {}, "clear")
  BY <1>2, <1>3, <1>8, <1>9, <1>11 DEF Kept, Alike
<1>13. Position(q.next, L \ {Tick}, "clear", at')
  BY DEF Position
<1>14. q.onqueue[Tick]
  BY <1>3, <1>9 DEF Alike
<1> QED
  BY <1>1, <1>6, <1>12, <1>13, <1>14

LEMMA ClearFlagKeeps ==
  ASSUME ram \in Ram, LineInv, ClearFlag
  PROVE  LineInv'
<1> SUFFICES ASSUME clean'
    PROVE  /\ \E L : /\ Kept(ram', endless', L, {}, mstep')
                     /\ Position(ram'.next, L, mstep', at')
           /\ Removing' => ram'.onqueue[Tick]
  BY LineKept
<1>1. /\ clean /\ mstep = "clear" /\ mstep' = "tell" /\ endless' = endless
      /\ ram' = OnQueue(ram, Tick, FALSE)
  BY DEF ClearFlag
<1>2. PICK L : Kept(ram, endless, L, {}, mstep)
  BY <1>1 DEF LineInv
<1>3. PICK q : q = OnQueue(ram, Tick, FALSE)
  OBVIOUS
<1>4. Tick \in Flags /\ Anim \in Flags /\ Tick # Anim
  BY Slots DEF Flags
<1>5. SameList(q, ram) /\ Flag(q, ram, Tick, FALSE)
  BY <1>3, FlagType
<1>6. Lined(q, L) /\ q.fault = "none" /\ Tick \notin L
  BY <1>1, <1>2, <1>5, SameListLined DEF SameList, Kept, Told
<1>7. Told(q, endless, L, {})
  BY <1>2, <1>4, <1>5, <1>6 DEF Kept, Told, Flag, Flags
<1>8. Kept(q, endless, L, {}, "tell")
  BY <1>5, <1>6, <1>7 DEF Kept, Flag
<1>9. Position(q.next, L, "tell", at') /\ ~Removing'
  BY <1>1 DEF Position, Removing
<1> QED
  BY <1>1, <1>3, <1>8, <1>9

LEMMA TellKeeps ==
  ASSUME LineInv, Tell
  PROVE  LineInv'
<1> SUFFICES ASSUME clean'
    PROVE  /\ \E L : /\ Kept(ram', endless', L, {}, mstep')
                     /\ Position(ram'.next, L, mstep', at')
           /\ Removing' => ram'.onqueue[Tick]
  BY LineKept
<1>1. clean /\ mstep = "tell" /\ mstep' = "idle" /\ endless' = endless /\ ram' = ram
  BY DEF Tell
<1>2. PICK L : Kept(ram, endless, L, {}, mstep)
  BY <1>1 DEF LineInv
<1>3. Kept(ram, endless, L, {}, "idle")
  BY <1>1, <1>2 DEF Kept
<1>4. Position(ram.next, L, "idle", at') /\ ~Removing'
  BY <1>1 DEF Position, Removing
<1> QED
  BY <1>1, <1>3, <1>4

\* An empty list, and nothing that waits.
LEMMA EmptyKept ==
  ASSUME NEW r \in Ram, NEW e, r.next[Root] = Nil, \A n \in AppTimer : r.id[n] = Nil,
         ~r.onqueue[Tick], ~r.onqueue[Anim], ~r.playing, r.fault = "none",
         NEW m, m # "clear"
  PROVE  Kept(r, e, {}, {}, m)
<1> DEFINE rank == [s \in Slot |-> 0]
<1>1. rank \in Rank /\ rank[Root] = 0
  BY Slots DEF Rank
<1>2. Ranked(r.next, {}, rank)
  BY <1>1 DEF Ranked, Line
<1>3. Lined(r, {})
  BY <1>1, <1>2 DEF Lined
<1>4. Told(r, e, {}, {})
  BY <1>3 DEF Told
<1> QED
  BY <1>4 DEF Kept

LEMMA RestartKeeps ==
  ASSUME ram \in Ram, ram' \in Ram, LineInv, Restart
  PROVE  LineInv'
<1> SUFFICES ASSUME clean'
    PROVE  /\ \E L : /\ Kept(ram', endless', L, {}, mstep')
                     /\ Position(ram'.next, L, mstep', at')
           /\ Removing' => ram'.onqueue[Tick]
  BY LineKept
<1>1. mstep = "idle" /\ mstep' = mstep /\ ~ram.onqueue[Tick] /\ ram.fault = "none"
  BY DEF Restart, Works
<1> DEFINE next == [s \in Slot |-> IF s = Tick THEN ram.next[s] ELSE Nil]
<1>2. ram' = [ram EXCEPT !.next = next, !.due = [n \in Node |-> 0],
                         !.id = [n \in AppTimer |-> Nil], !.onqueue[Anim] = FALSE,
                         !.playing = FALSE]
  BY DEF Restart
<1>3. next[Root] = Nil /\ Tick # Anim
  BY Slots
<1> HIDE DEF next
<1>4. PICK q \in Ram : q = ram'
  OBVIOUS
<1>5. /\ q.next[Root] = Nil /\ \A n \in AppTimer : q.id[n] = Nil
      /\ ~q.onqueue[Tick] /\ ~q.onqueue[Anim] /\ ~q.playing /\ q.fault = "none"
  BY <1>1, <1>2, <1>3, <1>4 DEF Ram
<1>6. Kept(q, endless', {}, {}, "idle")
  BY <1>5, EmptyKept
<1>7. Position(q.next, {}, "idle", at') /\ ~Removing'
  BY <1>1 DEF Position, Removing
<1> QED
  BY <1>1, <1>4, <1>6, <1>7

LEMMA TimePassesKeeps ==
  ASSUME ram \in Ram, LineInv, TimePasses
  PROVE  LineInv'
<1> SUFFICES ASSUME clean'
    PROVE  /\ \E L : /\ Kept(ram', endless', L, {}, mstep')
                     /\ Position(ram'.next, L, mstep', at')
           /\ Removing' => ram'.onqueue[Tick]
  BY LineKept
<1>1. /\ clean /\ endless' = endless /\ mstep' = mstep /\ at' = at
      /\ ram' = [ram EXCEPT !.due = [n \in Node |->
                     IF n \in Listed(ram) /\ @[n] > -MaxLate THEN @[n] - 1 ELSE @[n]]]
  BY DEF TimePasses
<1>2. PICK L \in SUBSET Node : Kept(ram, endless, L, {}, mstep) /\ Position(ram.next, L, mstep, at)
  BY <1>1 DEF LineInv
<1>3. Lined(ram, L) /\ Listed(ram) = L
  BY <1>2, ListedIsLine DEF Kept, Told
<1> DEFINE due == [n \in Node |->
                     IF n \in L /\ ram.due[n] > -MaxLate THEN ram.due[n] - 1 ELSE ram.due[n]]
<1>4. PICK q : q = [ram EXCEPT !.due = due]
  OBVIOUS
<1>5. ram' = q
  BY <1>1, <1>3, <1>4
<1>6. \A n \in L : due[n] = IF ram.due[n] > -MaxLate THEN ram.due[n] - 1 ELSE ram.due[n]
  OBVIOUS
<1> HIDE DEF due
<1>7. /\ q.next = ram.next /\ q.due = due /\ q.id = ram.id /\ q.onqueue = ram.onqueue
      /\ (q.playing <=> ram.playing) /\ q.fault = ram.fault
  BY <1>4 DEF Ram
<1>8. ASSUME NEW n \in L, q.next[n] # Nil
      PROVE  q.due[n] <= q.due[q.next[n]]
  <2>1. q.next[n] \in L
    BY <1>3, <1>7, <1>8 DEF Lined, Ranked, Line
  <2>2. ram.due[n] <= ram.due[q.next[n]]
    BY <1>3, <1>7, <1>8 DEF Lined
  <2>3. ram.due[n] \in Int /\ ram.due[q.next[n]] \in Int /\ MaxLate \in Nat
    BY <2>1, RamParts, DelayAssumption
  <2> QED
    BY <1>6, <1>7, <2>1, <2>2, <2>3
<1>9. Lined(q, L)
  BY <1>3, <1>7, <1>8 DEF Lined
<1>10. Told(q, endless, L, {})
  BY <1>2, <1>7, <1>9 DEF Kept, Told
<1>11. Kept(q, endless, L, {}, mstep)
  BY <1>2, <1>7, <1>10 DEF Kept
<1>12. Position(q.next, L, mstep, at)
  BY <1>2, <1>7
<1>13. Removing' => q.onqueue[Tick]
  BY <1>1, <1>7 DEF LineInv, Removing
<1> QED
  BY <1>1, <1>5, <1>11, <1>12, <1>13

LEMMA TimersInitKeeps == TimersInit => LineInv
<1> SUFFICES ASSUME TimersInit PROVE LineInv
  OBVIOUS
<1>1. ram \in Ram
  BY TimersInitType, TimersTypeParts
<1>2. /\ ram.next[Root] = Nil /\ \A n \in AppTimer : ram.id[n] = Nil
      /\ ~ram.onqueue[Tick] /\ ~ram.onqueue[Anim] /\ ~ram.playing /\ ram.fault = "none"
  BY Slots DEF TimersInit
<1>3. mstep = "idle"
  BY DEF TimersInit
<1>4. Kept(ram, endless, {}, {}, mstep)
  BY <1>1, <1>2, <1>3, EmptyKept
<1>5. Position(ram.next, {}, mstep, at) /\ ~Removing
  BY <1>3 DEF Position, Removing
<1> QED
  BY <1>4, <1>5 DEF LineInv

LEMMA TimersStepKeeps == TimersInv /\ [TimersNext]_timersVars => LineInv'
<1> SUFFICES ASSUME TimersTypeOK, ram \in Ram, ElseType, LineInv, [TimersNext]_timersVars
    PROVE  LineInv'
  BY TimersTypeParts DEF TimersInv
<1>0. ram' \in Ram
  BY TimersStepType DEF TimersTypeOK, Ram, Ticks
<1>1. CASE LeaveLoop \/ EndMain
  BY <1>1 DEF LeaveLoop, EndMain, LineInv, Removing
<1>2. CASE UNCHANGED timersVars
  BY <1>2 DEF timersVars, LineInv, Removing
<1> QED
  BY <1>0, <1>1, <1>2, ExpireKeeps, HandleKeeps, AskQuitKeeps, WalkOnKeeps, WalkFindsKeeps,
     UnlinkKeeps, ClearFlagKeeps, TellKeeps, RestartKeeps, TimePassesKeeps DEF TimersNext

(* As long as nothing on the list of harms has happened, there is a line of  *)
(* timers in the links, which the flags and blocks describe.                 *)
THEOREM TimersInvHolds == TimersSpec => []TimersInv
<1>1. TimersInit => TimersInv
  BY TimersInitType, TimersInitKeeps DEF TimersInv
<1>2. TimersInv /\ [TimersNext]_timersVars => TimersInv'
  BY TimersStepType, TimersStepKeeps DEF TimersInv
<1> QED
  BY <1>1, <1>2, PTL DEF TimersSpec

(* No walk hangs or misses its timer (appmanager_app_timer.c:93) unless one of *)
(* the four harms came first.                                                 *)
THEOREM FaultsNeedHarm == TimersSpec => []OnlyHarmFaults
<1>1. TimersInv => OnlyHarmFaults
  BY DEF TimersInv, LineInv, OnlyHarmFaults, Kept
<1> QED
  BY <1>1, TimersInvHolds, PTL

LEMMA LineIsWaiting ==
  ASSUME NEW L, Kept(ram, endless, L, {}, mstep)
  PROVE  L = Waiting
<1>1. Tick # Anim /\ Tick \notin AppTimer /\ Anim \notin AppTimer
  BY Slots
<1>2. ASSUME NEW n \in AppTimer
      PROVE  n \in L <=> n \in Waiting
  BY <1>1, <1>2 DEF Kept, Told, Waiting
<1>3. Tick \in L <=> Tick \in Waiting
  BY <1>1 DEF Kept, Told, Waiting
<1>4. Anim \in L <=> Anim \in Waiting
  BY <1>1 DEF Kept, Told, Waiting
<1>5. L \subseteq Node /\ Waiting \subseteq Node
  BY DEF Kept, Told, Lined, Waiting, Node
<1> QED
  BY <1>2, <1>3, <1>4, <1>5 DEF Node

(* Until a harm the list is exactly who waits, each once and in the order of  *)
(* time (appmanager_app_timer.c:57), for any number of timers and any delays. *)
THEOREM ListAlwaysWaiting == TimersSpec => []ListIsWaiting
<1>1. TimersInv => ListIsWaiting
  <2> SUFFICES ASSUME LineInv, clean
      PROVE  /\ ~Cyclic(ram)
             /\ Listed(ram) = Waiting
             /\ \A n \in Waiting : ram.next[n] # Nil =>
                   ram.next[n] # n /\ ram.due[n] <= ram.due[ram.next[n]]
    BY DEF TimersInv, ListIsWaiting
  <2>1. PICK L : Kept(ram, endless, L, {}, mstep)
    BY DEF LineInv
  <2>2. Lined(ram, L) /\ L = Waiting
    BY <2>1, LineIsWaiting DEF Kept, Told
  <2>3. Listed(ram) = L /\ ~Cyclic(ram)
    BY <2>2, ListedIsLine
  <2>4. PICK rank \in Rank : Ranked(ram.next, L, rank)
    BY <2>2 DEF Lined
  <2>5. ASSUME NEW n \in L, ram.next[n] # Nil
        PROVE  ram.next[n] # n /\ ram.due[n] <= ram.due[ram.next[n]]
    <3>1. rank[n] < rank[ram.next[n]] /\ rank[n] \in Nat
      BY <2>2, <2>4, <2>5 DEF Ranked, Line, Lined, Rank, Slot
    <3>2. ram.next[n] # n
      BY <3>1
    <3> QED
      BY <2>2, <2>5, <3>2 DEF Lined
  <2> QED
    BY <2>2, <2>3, <2>5
<1> QED
  BY <1>1, TimersInvHolds, PTL

=============================================================================
