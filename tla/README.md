# RebbleOS: models and proofs

A TLA+ development of RebbleOS, a firmware for Pebble watches, kept beside its
C code in `src/`. It models the parts of the firmware whose correctness depends
on the order of things: flash writes a power loss can separate, tasks that
share a record without a lock, messages that overtake each other. TLC checks
the models on small instances; theorems proved by TLAPS hold for every size.

Line numbers such as `fs.c:108` refer to files under `src/rcore/` unless
another directory is given.

1. [The system](#the-system)
2. [Modules](#modules)
3. [Runs](#runs)
4. [Fairness](#fairness)
5. [Proofs](#proofs)
6. [Where the code and its comments disagree](#where-the-code-and-its-comments-disagree)
7. [Not modelled](#not-modelled)
8. [Plan](#plan)

## The system

RebbleOS runs on FreeRTOS: preemptive tasks of fixed priority, queues with
timeouts, mutexes, interrupts. The drivers are in `hw/`, the core services in
`rcore/`, what applications call in `rwatch/`, the applications in `Apps/` and
`Watchfaces/`. There is one processor; a task of higher priority runs as soon as
it is ready, so races are between a task that is preempted or waits and
whatever runs meanwhile.

| part | state it keeps | operations | who meets whom |
|---|---|---|---|
| file system, `fs.c` | per flash page a header (flags, wear counter, next page) and a file header; in RAM the table of page states, the last page, the best erase count, the free counter, the sector kept for collection | mount, create, create replacing, mark written, find, delete, format, read, write, seek | every task that stores something; the power |
| record database, `rdb.c` | a log of records in one file per database; a mutex per database | create, insert, update, delete, select through iterators, garbage collection | applications, preferences, timeline, BlobDB, bonds; the power |
| notification list, `notification_manager.c`, `Apps/System/notification.c` | a list of selected records with their iterators | list, show, dismiss, clear all | overlay task, phone |
| application manager, `appmanager*.c` | a thread record (`status`, `task_handle`, `shutdown_at_tick`, application) per thread; a queue of three commands; the application to load; a message queue of five per application | start, quit, tear down, heartbeat, download complete, draw, post button, event | manager task (priority 5), application task (6), overlay, worker, buttons, phone |
| timers, `appmanager_app_timer.c`, `rwatch/event/app_timer.c`, `tick_timer_service.c` | an ordered list per thread; one tick timer for the watch | register, reschedule, cancel, expire, subscribe | callbacks that change the list; the manager, which unsubscribes |
| overlay manager, `overlay_manager.c` | a list of windows; a queue of one | create, destroy, draw, button, event | any task and the overlay task |
| event service, `rwatch/event/event_service.c` | one list of subscribers of all threads | subscribe, post, trigger, unsubscribe | application, overlay, phone |
| protocol, `protocol/protocol.c`, `service/protocol_service.c` | a receive buffer with its mutex and expiry; queues rx (4) and tx (3); a transaction mutex | append, parse, dispatch, consume, reply, send | bluetooth task, rx task, tx task |
| PutBytes, `protocol/protocol_transfer.c` | the transaction: state, file, bytes, cookie, timer | init, transfer, commit, install, abort, time out | phone, file system, application manager, tx task |
| PPoGATT, `ppogatt.c` | queues rx (8) and tx (4), a sequence number, whether the reset was answered | connect, disconnect, receive, acknowledge, send | radio interrupt, service task, two tasks of its own |
| bluetooth, `bluetooth.c` | connected, enabled, a queue of one, the bond request in progress | send, bond, connect | stack, service task, applications |
| service task, `service.c` | a queue of eight and a list by time | submit, run | interrupts, any task |
| persistent storage and preferences, `rwatch/storage/storage_persist.c`, `prefs.c` | none of their own | read, write, exists, delete, size | applications |
| display and drawing, `display.c`, `rwatch/ui/window.c` | the frame buffer lock, `_last_state` of `_draw` | draw, lock, done | application, overlay, manager, display interrupt |
| buttons, `buttons.c` | per button a debounce and repeat machine; one message | press, release, repeat, subscribe | interrupt, button task, application |
| flash driver, `flash.c` | a mutex and a semaphore from the interrupt | read, write, erase | any task, interrupt |
| allocator, `lib/minilib/qalloc.c`, `rebble_memory.c` | a row of blocks per heap, each with a header; a mutex per heap | allocate, free, resize, join | everything an application calls; the next application on the same heap |
| animations, `rwatch/ui/animation/animation.c` | per animation whether it is scheduled and in the timer list | schedule, frame, unschedule | handlers, the timer list |
| the rest | | | see [Not modelled](#not-modelled) |

Hard behaviours: a power loss between any two flash writes; a mount that must
make sense of whatever an earlier, interrupted run left; calls that give a mutex
back and later use what they read under it; a manager that changes a thread
record which the thread changes too; messages that are posted after a check, to
a queue that has a new owner by then; queues that are full; timeouts that race
the answer. `PROJECT.json` lists them as hazards, each at its line.

What makes the parts correct:

- *file system*: what was committed is found, whole, once, after any power loss;
  what was not committed is gone; a mount and a call end; no assertion fails;
- *record database*: a walk over the log never reads data as a header; a record is
  there wholly or not at all; keys are unique; an answer tells what happened;
- *application manager*: one task at a time uses the stack and heap; messages reach
  the application they are for; the last request wins; an application that does not
  close is closed; the manager survives;
- *protocol, PutBytes, PPoGATT*: bytes are delivered in order and once, a lost piece
  does not block the link for ever, locks are released by those who hold them, nobody
  believes in a connection that is gone;
- *drawing and events*: one task at a time has the frame buffer, frames go on after any
  message was lost, an event is destroyed once;
- *buttons*: no edge is left unseen, a press is long or short, the handler that runs is
  the one that was sent (it is not: one message is shared);
- *timers*: the list holds who waits, once and in order, and who is due is called;
- *allocator*: nobody's words are another's, and the row of blocks is whole.

## Modules

| module | what it is |
|---|---|
| `PebbleFS` | the file system, one step per flash write |
| `MCPebbleFS` | constants of its instances |
| `PebbleFSProofs` | theorems about it |
| `RecordDb` | a record database, one step per flash write or header read |
| `RecordStore` | what a record database promises: the abstract specification |
| `MCRecordDb` | constants of its instances |
| `RecordDbProofs` | theorems about it |
| `AppManager` | the application manager, the application's task and those who post to them |
| `MCAppManager` | constants of its instances |
| `AppManagerProofs` | theorems about it, and about `Timers`, which its tasks share |
| `ProtocolLink` | the receive buffer, the bluetooth, rx and tx tasks, and PutBytes transfers, with the phone at the other end |
| `MCProtocolLink` | constants of its instances |
| `ProtocolLinkProofs` | a theorem about it |
| `Ppogatt` | PPoGATT: the radio's interrupts, the service task, the rx and tx tasks, the command task |
| `Channel` | what one direction of a link promises: an abstract specification |
| `MCPpogatt` | its instance |
| `PpogattProofs` | theorems about it |
| `Drawing` | a frame and an event between manager, application and overlay thread |
| `MCDrawing` | its instance |
| `DrawingProofs` | theorems about it |
| `Buttons` | from a button's level to its handler |
| `MCButtons` | constants of its instance |
| `Timers` | the timer list of a thread, the tick timer and an animation in it; also checked as it is; theorems in `AppManagerProofs` |
| `QArena` | a heap of `qalloc.c`, one block of a walk per step |
| `Heap` | what an allocator promises: an abstract specification |
| `MCQArena` | its instances |
| `QArenaProofs` | theorems about it, and that it implements `Heap` |

### PebbleFS

NOR flash is programmed by clearing bits, and a flag of a header is true when its
bit is cleared (`fs.c:17`); so a header is a growing set `flags[p]` and only
erasing a sector empties it. `next`, `fname` and `wear` are the other fields of a
header. `pstate`, `lastpg`, `bestErase`, `lastAlloc`, `freePages` and `gcSector` are
the variables fs.c keeps in RAM, `op` the locals of the call in progress and `pc`
where it is. `saved`, `forfeit` and `lost` are history variables that only properties read:
which version of a name was committed last; whether the code may lose that version from intact flash all the
same, and why; what a mount so far failed to find. A version is forfeit when it was begun on a page that
already carried the dead flag (`stale`), or when the power failed between the two writes of its
commit (`window`).

A step writes the flash once and changes the RAM that the code between this write
and the next changes. `Boot` is `fs_init` with the scan of all headers;
`Recover`, `Erase` and `Erased` are its clean-up; `FindGcSector`, `GcSentinel` and
`GcHeader` the choice and marking of the sector to keep; `Create`, `Replace`,
`CreatSentinel`, `CreatHeader` and `CreatDone` are `fs_creat_replacing`; `MarkWritten`
and `MarkNew` its commit; `Format`, `WipeErase` and `WipeHeader` are `fs_format`.
`Crash` may come anywhere and empties the RAM. Calls run one at a time, in the
caller's task: `fs.c` has no mutex (`fs.c:501` asks for one), and two tasks that
create files at once are not in the model; the hazard is listed.

Page -1 stands for 0xFFFF, `NoErase` for the counter 0xFFFFFFFF of an erased header,
and the slot after the last page for the flash behind the region, which fs.c:555
writes to.

### RecordDb and RecordStore

The file is an array of cells: a header takes one, a key one, a unit of data one.
`Insert`, `Lookup` (for delete, update and select), `SelectAll` and `DismissAll` begin
calls; the `Scan...` actions are one turn of the loop of `rdb_select` or
`rdb_insert`; `WriteHeader`, `WriteHeaderFlag`, `WritePayload` and `WriteFlag` are
the four kinds of write of an insertion; the `Gc...` actions are `_rdb_gc`, from the
count of what is alive to the commit of the new file, in two writes as in
`fs_mark_written`; `Dismiss` is the deletion through iterators made before.
`heads` is a history variable: where insertions really put headers.

Of the file system this uses what `PebbleFS` establishes: a file not committed is
gone after a power loss, and a replacement is safe but for the power loss between the
deletion of the old file and the flag of the new one.

`RecordStore` has only the set of records and whether a call runs. A record is added
or erased at once or not at all, and only a power loss while the database moves takes
what nobody erased. `ImplementsStore` is the refinement: `records <- Records`, what the
log holds for a reader, and `phase <- Phase`.

### AppManager

`mq` is the manager's queue and `aq` the application's; `status`, `handle`, `app`,
`deadline` and `startTick` are the thread record; `task` is where the application's
task is, `mpc` where the manager is. The manager waits, receives, and then runs
`_appmanager_thread_state_update`; a step ends wherever the application may come in
between: at a queue, a task creation, a deletion. `posting` is a task preempted inside
`appmanager_post_generic_app_message` between the check of the status and the send.
An application sets its status and empties its queue (`EnterLoop`), then each turn
posts a heartbeat (`Beat`) and takes a message (`Turn`), until a quit; then it posts
a teardown and waits to be deleted (`Finish`).

Times are abstracted to whether they have been reached: `deadline` and `startTick` may
be reached early only when the surroundings are late. `_delay` (`appmanager.c:397`, 456)
is an absolute tick that is passed as a delay, so a sleep may last longer than meant; but it
is finite, and the conversion to ticks overflows after about 71 minutes of uptime, so that
it may also be shorter. So the manager also wakes without a message (`Wake`), when a thread has to be killed, when the
phone sent nothing, or when the thread of a killed application is still unused. `next_heartbeat` is set once and never moved, so a running
application sends a heartbeat in every turn of its loop; the model does so.

What the world may do is chosen once per behaviour, in `env`: `blocks` (an application
waits before its loop, so that the manager runs in between), `late` (time limits are
overrun, applications hang), `busy` (queues fill), `early` (no heartbeat in the first two
seconds), `broken` (an application does not load or returns at once), `transfer` (the phone
installs what nobody waits for). Properties say in which of these they hold.

### ProtocolLink

The stream is a sequence of pieces, a header or a body each, and `cells`, `used` and
`aged` are `_rx_buffer`, `_buf_ptr` and whether `_last_rx` is 500 ms ago. The bluetooth
task takes one or two pieces (`BtData`: the tests for room and for age, before the lock),
appends them under the lock (`BtAppend`) and wakes the rx task (`BtKick`). The rx task
reads a header (`RxRead`), tests it under the lock (`RxTest`), takes the lock again,
handles the packet in place and consumes it (`RxLock`, `Handled`, `RxConsume`); each is a
step because the bluetooth task has the higher priority. What was consumed stays in the
cells, so a header that is read too early is that of the packet before. A body that stands where
a header should be reads as a header of any length of `JunkLen`; a header that stands where a
command should be reads as any command.

`txn`, `timer`, `file` and `txnLock` are the transaction, its timer, whether its file is marked as
written, and the mutex it holds from `PutInit` to `PutInstall` or `Terminate`. The tx task
(`TxReceive`, `TxLock`, `TxSend`, `TxRequeue`) takes the same mutex for each packet. Giving
a mutex back that another task holds fails an assertion of FreeRTOS; giving one back
that nobody holds does nothing (`GiveTxn`). Where the code follows `_txn` while it is NULL, the
outcomes are a fault or going on. `Init` writes through it in every first transfer; that
is harmless where address 0 is flash that ignores the write, and `strict` has the other case.

`env` says what this behaviour's surroundings may do: pause (`late`), give a transfer up
(`quits`), be slow (`slow`), lose pieces (`loss`), send packets of other tasks (`busy`), or send messages
that are no part of a transfer (`chats`). `PutInit` looks the name up before it creates the file
(`protocol_transfer.c:177`); both ways to fail, a file that is there and a creation that is refused, are one answer.
`harm` records that bytes were dropped or expired, or were appended between the reading of a header
and its test; from then on the stream is not what the phone sent, and the code has no means to
find its place again but 500 ms of silence.

### Ppogatt and Channel

`link` is the radio's connection and `connected` what `bluetooth.c` believes; between them stand
`svc`, the queue of the service task, which loses what it cannot hold (`Submit`), and the callbacks
`SvcConnected` and `SvcDisconnected`, each one step because no task has a higher priority. `rxq`,
`txq` and `open` are the queues of `ppogatt.c`, `rx`, `tx` and `cmd` where its two tasks and the command task of
`bluetooth.c` are. A packet gets its number (`CmdFill`), waits for room (`CmdPut`), and only then the number goes up
(`CmdCount`); the service task, of higher priority, may begin a session between any two of these. `torn` says that a session began or
ended while the command task had a message in hand, and is about the current session only. What
`_ppogatt_shutdown` leaves behind is in the model: the handle of the tx task, which
a typing slip at `ppogatt.c:220` never clears (`txh`), a mutex a deleted task held, a command task that waits for ever in a
queue that was deleted (`"stuck"`).

The phone is one that sends nothing twice, as the comment at `ppogatt.c:120` says of Gadgetbridge:
nothing in the code looks at the number of a packet received, so what is sent twice is delivered twice.
`said`, `taken`, `put` and `heard` are histories of a session. `Channel` is the abstract specification of one direction,
instantiated twice: `In`, which may lose packets, and `Out`, which may not.

### Drawing

`_draw` of the manager is called with a request, with the application's answer and with the
overlay's; `last` is its `_last_state` and `lock` the mutex of the display. `ManRequest`, `ManApp`,
`ManOverlay` and `FrameDone` are the manager's turns, `AppDraw` and `AppPainted`, `OvDraw` and `OvPainted` the painters'.
Every message is lost when its queue is full (`Room`), as the code ignores what its posts return. `aged` says
that 250 ms went by since the last frame, after which the manager gives a frame up;
`late` records that this happened while somebody still had it.

The same queues carry events: `PostEvent` (to the application, or to the overlay when there is
none), `AppEvent` and `AppForwards` (one message to the overlay per subscriber), `OvEvent`, `OvFree`
(destroyed once per subscriber). A notification that arrives makes the overlay thread post a window to its own queue of one
(`OvNotify`), and wait 1000 ticks for room that only it can make. The life of the
application is `AppManager`'s; here it starts, quits and is deleted.

### Buttons

The task wakes by a notification or because something is due (`WakeUp`), looks at each button in turn
(`Look`, `NoOwner`), and works through what it has to consider for it (`todo`): an edge, a click, a
long click, a repeat. The interrupt (`Toggle`) may come at any step, and so may the threads that handle messages or change
subscriptions. `hold` is `button_t`, with times as ages up to the age that makes a difference;
`msg` is the one `_button_message`, whose address the queues hold; `aq` and `oq` remember what each address was sent for,
which the code does not. Clicks are sent with a wait
of 100 ticks to the application and none to the overlay.

### Timers

The list is kept as in memory: `next`, from the slot `Root` on, with `due` for `when`. `Added` and `Removed` are
`appmanager_timer_add` and `_remove`; `WalkTo` is their walk, a recursive function of the number of steps. A walk that
misses runs off the end, into the assertion at `appmanager_app_timer.c:93`, or goes round for ever (`fault`): a walk that
has not ended after as many steps as there are slots has been at one of them twice. `Call` is one call out of a callback or
handler: register, cancel, reschedule, subscribe to ticks, schedule or unschedule an animation.
`Expire` is a turn of the application's loop, one step, since the manager has the lower priority; the manager's removal of the tick timer (`AskQuit` to `Tell`)
is one step per access. `Restart` is the next application on the same thread, with an empty list, while the tick timer
keeps its fields.

Four things do harm to the list, and `clean` records that none has happened: cancelling handle 0 finds an
animation, because the lookup takes every node for an `AppTimer` (`app_timer.c:96`); unscheduling an animation leaves
it in the list (`animation.c:477`); the application changes the list while the manager walks it
(`tick_timer_service.c:133`); a tick subscription made after the manager's removal outlives its application.

### QArena and Heap

`hdr` is the headers, by address, and nothing else: a block's size leads to the next. A call takes the mutex, walks
(`FindOn`, `JoinOn`) and changes (`FindTake`, `JoinTwo`); `Restart` may come anywhere, as an application may be killed
anywhere and its heap is laid out anew. `own` is what the callers hold. `Resize...` is `qrealloc` of a block.

It takes the words it lacks from the block behind, free or not (`qalloc.c:148`), and leaves what
remains even where that is smaller than a header. So callers are `Careful` or not: careful ones resize only where
`SafeResize` says that neither happens. Nobody in the repository looks; the run `grow` shows what it costs, and the rest is stated for careful callers. `Heap` is the abstract specification: pointers and
how many words each stands for.

## Runs

A passing run checks that the properties hold in every state or behaviour of the
instance. A violation run shows one property, a statement of a comment or a test of
the code, that the code does not keep; TLC's counterexample is the scenario.

| run | instance | what it shows |
|---|---|---|
| `files` | 4 pages, each a sector, 2 names (a file with versions, a file of PutBytes), files of 1 to 3 pages, 2 open at a time, a user who wipes at any time; 221,000 states | `FoundFilesAreWhole`, `CommitsAreAtomic`, `NoAssertFails`, and, under fairness, `CallsEnd` |
| `log` | 6 cells, 2 keys, a value without data and one of 2 cells; 186,000 states up to symmetry of keys | `LogIsReadable`, `AnswersAreTrue`, `ImplementsStore` |
| `apps` | 2 applications, queues of 2, 1 or 2 requests, 7 surroundings; 208,000 states | `CleanStart`, `ManagerSurvives`, and, under fairness, `LastRequestWins`, `ClosesEvenIfHung` |
| `link` | a buffer of 4 pieces, queues of 1, a phone with the 4 messages of an installation, undisturbed or in one of four kinds of trouble, 3 when it or other tasks send beside it, and 2 when two of these meet; 1,891,000 states | `LockMatchesTransfer`, `StreamIsRead`, `LinkSurvives`, `DownloadIsWhole`, and, under fairness, `LinkGoesOn` |
| `gatt` | queues of 1, 2 and 2, 3 sequence numbers, and three mixtures of up to 2 messages of 2 pieces out, 2 packets in and 5 events of the radio; 520,000 states | `ConnectedIsTrue`, `KeepsOrder`, and, under fairness, `SendsEnd` |
| `draw` | queues of 2, 1 and 1, one overlay window, 1 subscription of the application and 1 of the overlay, 2 troubles; 202,000 states | `OnePainter`, `EventsDieOnce`, and, under fairness, `FramesGoOn` |
| `buttons` | 2 buttons, one clicked or held and one repeating, one change of subscriptions, queues of 1; 63,000 states | `LongXorShort`, and, under fairness, `LevelIsSeen`, `HeldIsLong` |
| `timers` | 2 timers, 2 handles, the tick timer and an animation, delays of 1 and 2; 86,000 states | `ListIsWaiting`, `OnlyHarmFaults`, and, under fairness, `TimersFire` |
| `heap` | 26 words, headers of 3, requests of 1, 4 and 7; 31,431 states | `ArenaStands`, `IsAHeap` |
| `update` | violation of `UpdateStores` | an update answers success and the record is gone |
| `grow` | violation of `HeadersStand` | a block grows into one that another caller owns |
| `tick` | violation of `RemovedIsFound` | the manager's removal of the tick timer runs off the list |

Every passing run also checks its module's `TypeOK` (`TimersTypeOK` in `Timers`).

Bounds, and why they are enough:

- *Four pages.* One sector is kept for collection, so three pages
  remain: allocation wraps around, prefers the less worn, and runs out. Three pages
  is the longest chain that still has a first, a middle and a last page; two open
  files let one be created between the creation and the commit of another, and be
  abandoned. `MaxWear` bounds how often pages are erased; at most two per page lets
  wear differ. Sectors of several pages, which collect pages dead for different reasons together,
  are covered by the proofs, which hold for every size of sector; six pages in
  three sectors of two were checked once (2,870,000 states, no violation).
- *Six cells.* Two records fit with a third's header, so that records are erased,
  insertions are refused, fit exactly, fit after a collection, or do not fit then.
  Two keys distinguish "mine" from "another's". A value without data ends where the key
  ends, where a header that claims to be empty would be misread.
- *Two applications and two requests.* One runs and one is wanted, and then the wish
  changes back. Three requests were checked once (1,952,000 states, no violation). Where
  files arrive or others fill the queues, one request meets them. The
  queues have two places: what matters is empty, not empty and
  full, and that a quit stands behind another message.
- *Four messages* are a whole transfer: init, transfer, commit, install. Four pieces of
  buffer hold two messages, so that one can be consumed in front of another and a third
  finds no room. A queue of one fills at the second wake-up. Four messages also meet a
  time-out, a lost piece, a slow task or a phone that gives up before and after each message of an
  installation. Messages that are no part of a transfer, and packets of other tasks, come beside three of its messages (`chats`, `busy`); with a trouble
  as well two are enough: a transfer is under way and something else arrives, or a body or header is missing and
  the next message is read in its place. A phone that is late or gives up, and begins a whole installation again with a fifth message,
  was checked once with a buffer of 2 pieces (4,619,000 states, no violation of `DownloadIsWhole`); the theorem holds for any number.
- The counts of requests, files, messages and wear are bounded by guards, never by a state
  constraint. `AppManager`, `ProtocolLink`, `Ppogatt` and `Timers` disable the deadlock check: after a panic,
  a fault or a harm, or when the
  manager has deleted itself and nobody may ask for anything more, the real system
  stands still too; the properties say when that may be.
- *Queues of two packets to the phone* are as short as the code allows: a new session puts two
  there at once. Two messages out and two packets in make each of the three senders wait
  for the others. Five events of the radio are a connection, its end, and another that begins before
  either callback has run. Not all of this is at its most in one behaviour: `Budgets` lists the mixtures, long in
  messages to the phone, in packets from it, or in events. Two messages of two pieces are four numbered packets, so that
  numbers modulo 3 begin again within a session, in the middle of a message.
- *One subscription* of the application and one of the overlay are none, one, and two of one command. Troubles are two:
  one that loses a message and one, like the end of the application, that meets what is left.
- *Two buttons*: while the task looks at one the other changes. Its delays are 2 and 1 ticks, and a debounce of 0 still
  ignores a second edge in the same tick; longer ones were tried and only add waiting.
- *Two timers* beside the tick timer and the animation are every place in the list: head, middle, last.
  The application's delay of 1 and the tick's of 2 make timers overtake each other. A callback is never a tick late here (`MaxLate`); that
was checked with a lateness of 1 once, and the run `tick` has it. With two handles one is free to be given again.
- *Twenty-six words* hold up to four of the smallest blocks, so that a block has neighbours on both sides, and
  a request that fits exactly, leaves just a header, or less. The proofs hold for every size.

What these properties leave open: `CommitsAreAtomic`
is stated for a flash whose mounts so far found the last page (`lost`), since a mount may take a region to be empty that is not;
and its part `CommittedIsFound` excepts a file that was begun on a page with an old dead flag, which the next mount deletes (`fs.c:117`), and, until
the name is committed again, a commit that a power loss cut in two (`fs.c:669`).
`NoAssertFails` excepts mounts that met a page without a header. `ManagerSurvives`,
`LastRequestWins` and `ClosesEvenIfHung` name the surroundings they hold in. `StreamIsRead`,
`DownloadIsWhole`, `LinkSurvives` and `LinkGoesOn` speak of streams without `harm`. `LinkSurvives` has two parts: with nothing
but other messages beside a transfer nothing fails at all; and whatever the phone does, and whatever a NULL pointer leads to, as long as
no task is slow and no other packet is sent, what fails is a command of PutBytes that finds no transaction. `OnePainter` ends when a frame takes 250 ms,
`EventsDieOnce` when a command has two subscribers. `KeepsOrder` and `SendsEnd` except what a session that begins or ends
under the command task does to it, and an end that the service queue lost; packets the phone sends twice are not in the model. The properties of `Timers` except the
four harms, and those of `QArena` are for careful callers. Each exception is what the code leaves
open and is told [below](#where-the-code-and-its-comments-disagree).

## Fairness

`PebbleFS!FairSpec` has weak fairness of `Run`: a call that has begun goes on in its
caller's task. Nothing obliges anyone to call, or the power to fail or not to;
`CallsEnd` says that a mount or call ends or the power fails again and again.

`AppManager!FairSpec` has weak fairness of the manager, of time, of a task inside a
post, and of an application that is not late. The manager's task is ready whenever its
queue has a message or its delay is over, and FreeRTOS runs it when no task above it is
ready. A late application may hang in a wait for ever; one that spins at priority 6
would keep the manager at 5 from running, and nothing here claims otherwise (hazard
`appmanager.c:66`). Requests, transfers and other posts are not fair: users and phones do
as they please.

`ProtocolLink!Fairness` has weak fairness of the bluetooth, rx and tx tasks, of the timer
and of the phone taking its answers. The three tasks wait only for queues and mutexes, each of
which is given back by a task that runs; a timer is a tick of the clock. Nothing obliges the
phone to send.

`Ppogatt!FairSpec` has weak fairness of the service task, the two tasks of PPoGATT and the command task. `TxSend` needs a
connection: while there is one the radio takes packets in the end, as the tx task assumes in its loop.
Neither the phone nor the radio owes anything.

`Drawing!FairSpec` has weak fairness of the manager, of the application inside its loop, of the overlay thread and of
time, and of the start and end of an application, which is what `AppManager` shows. `FramesGoOn` has a premise: somebody goes
on asking for frames, and the manager's queue is not full again and again exactly when a painter answers.

`Buttons!FairSpec` has weak fairness of the button task and of the tick; users and threads may do nothing.
`TimersFairSpec` of `Timers` has weak fairness of the application's turn, which has the highest priority of what is modelled, and of
the tick. `QArena` and `RecordDb` have no liveness properties and no fairness.

## Proofs

`PebbleFSProofs` (4743 obligations) assumes `SizeAssumption` and `BoundAssumption` of
`PebbleFS`: a region of whole sectors, and constants of their types; every number of
pages, size of sector and set of names is covered.

- `TypeCorrect`: `Spec => []TypeOK`. Beyond types it shows that the case analysis of
  the mount is complete and that the RAM table names only pages of the region.
- `AssertInvHolds`: `Spec => []AssertInv`. This is the inductive invariant. Its parts: the
  order in which flags of a header are written (`HeaderOrder`); a sector without live
  pages exists, and while the file system is mounted it is the one kept and none of
  its pages is clean in the table (`SpareSector`, `SectorIsKept`); the RAM table agrees with
  the flash where the choice is made (`TableIsFresh`); what is deleted is dirty
  (`DeletedIsDirty`); open files replace different files that are still alive
  (`OpenFiles`); and what the call in progress has established so far
  (`CreatPages`, `BlankFirst`, `CallInProgress`). Without `OpenFiles` two commits could
  delete one file twice; without `HeaderOrder` the spare sector could be lost to a half-written page.
- `AssertionsHold`: `Spec => []NoAssertFails`, from `AssertInv`: the assertion of
  `_delete_file_by_pg` never fails, and that of the choice of a sector only if a mount met a
  page without a header. `CountsAreWritten` is the step from "every header was written" to
  "every counter is below the erased value".
- `CommitInvHolds`: `Spec => []CommitInv`, the second inductive invariant, on top of `AssertInv`. It claims nothing once a
  mount has lost anything, nor of flash with a page without its header (`Trusted`); there, power losses break the
  properties in the code too (`lost` is what they exclude). Its parts:
  - `PagesAreOwned`: there is a function `own` from each page to the first page of the file it was given to last. A live file owns
    its first page and what follows a page of its own; one created completely owns only pages that were written. This is what keeps
    chains apart: a page that is given to a new file while an old chain still names it can only be named by a file that was not
    created completely, and of those there is one, the one being written (`NothingLeft`), or the next mount deletes it.
    `own` is not a variable of the code, so it is quantified; `CreatHeaderOwner` says how it changes when a page is given away.
  - `TableAgrees`, `CleanupInOrder`, `NothingLeft`: the table never takes a page in use for clean, and the cleanup of a mount leaves
    behind it neither a file half created nor one half deleted.
  - `CreatesNew`, `FillsBlank`, `ErasesOld`, `CommitsNew`, `OpenIsNew`: what the call in progress and the open files rely on.
  - `OneOnFlash`, `OneInTable`, `SavedOnFlash`: of each name the flash holds one version not marked dead and the table one that can be
    looked up, except while the old one is being deleted; it is the one committed last, if that is still promised
    (`Promised`: not forfeit), except between the two writes of
    `fs_mark_written`. Two versions are apart because a file is only created under a name that has no version, or the one it replaces.
- `CommitsAtomic`: `Spec => []CommitsAreAtomic`, with the exceptions that `CommittedIsFound` names, and `FilesAreWhole`: `Spec => []FoundFilesAreWhole`, from both invariants.
  `Chain` is a recursive function; that it stays in a set which `next_page` does not leave (`ChainStays`) is shown by the least
  number of steps that would leave it (`LeastNat`, from the well-foundedness of the naturals), which needs no induction scheme.
  TLC checked `CommitInv` on instances of 3 and 4 pages, with every wear and every number of headers, before it was proved.

`RecordDbProofs` (4063 obligations) assumes `CapAssumption`, `SizeAssumption` and `EmptyAssumption` of `RecordDb`: a file with at
least one cell, any keys, any number of cells of data in each value, and at most one value without data.

- The inductive invariant `Inv`. The walk over a log follows lengths that were themselves written to the log, so that it
  stops at headers only has to be carried along: `Row(f, H, e, s)` says that the headers at `H` tile the file up to `e`,
  that everything from `e` on is blank, and that `s` counts the cells of valid records before every stop. The file is such
  a row (`LogInv`), and so is the file a garbage collection writes (`CopyInv`); the walk stands at one of its stops; what a collection counts and
  copies are values of `s`, so the copy ends exactly where the count said; and whoever is about to erase points at a header (`Pointers`).
  One lemma per kind of write says what it does to the row: `RowNew`, `RowFlag`, `RowPut`, `RowWritten`, `RowErase`, `RowCopy`.
- `LogAlwaysReadable`: `Spec => []LogIsReadable`, after any interrupted writes, erasures and collections. The half of it
  about writing follows from the row of the new file: the collection starts only when what stays and the new record fit.
- `TypeCorrect`: `Spec => []TypeOK`.
- `AnswersAlwaysTrue`: `Spec => []AnswersAreTrue`. The answer says what became of the records, and nothing in the
  property says how the call knew. `Tells` carries that from its first step to its answer, on top of `Inv`: every valid header holds a
  whole record and no two the same key (`Good`); the walk has seen no record with the key of an insert behind it (`Fresh`),
  or stands on the one it found (`Hits`); what is written of the record in hand is right and the rest is blank (`Unfinished`); the new
  file of a collection holds the records behind the walk (`Copied`); the records are still those of the beginning (`Was`);
  and what an iterator of the notification list points to was shown in it (`Listed`). Uniqueness of keys
  is not a separate result that happens to be true: erasing one record takes the key only because of it, and a collection
  keeps it only because the copies are records of the old file. The lemmas say what a write does
  to the records: `OthersKept` and `AllKept` (the row keeps it inside one record), `Added`, `Removed`, `CopiedOne`.
- `StoreIsKept`: `Spec => ImplementsStore`, the refinement, from `Tells` and `StoreStep`: the flag that ends an insert is the addition, a
  flag of `rdb_delete` the erasure of at most one record, the two writes of `fs_mark_written` the move, and everything else a
  beginning, an end or a stutter of `RecordStore`.

`AppManagerProofs` (3461 obligations, 1012 of them about `AppManager`) assumes `AppAssumption` and `BoundAssumption` of
`AppManager`, for all applications, queue lengths and surroundings.

- `TypeCorrect`: `Spec => []TypeOK`, which includes that no queue outgrows its length.
- `NoTwoTasks`: `Spec => []OneTask`. The inductive invariant `TaskInv` adds
  `TaskHasHandle`: a task that exists has a live handle, so that whoever sets the handle to
  none has deleted the task. `OneTask` alone is not inductive, because the step before the stack is
  handed out looks at the handle and not at the task.
- `QuitsFindTheirTask`: `Spec => []NoErrantQuit`, from the same invariant: a quit is posted
  only to an application in its loop, and the queue is emptied between tasks.
- `ThreadsStartClean`: `Spec => []CleanStart`, the two together.
- `ManagerStays`: `Spec => []ManagerSurvives`. Whether a message does harm depends on when the manager takes it, so the inductive
  invariant `HealthInv` relates its status to everything under way: to the task and handle of the thread (`ThreadInv`), to how far the start of an
  application has come on either side (`BootInv`, `StartInv`), to every message in its queue (`MailInv`), and to the files (`FilesInv`). It was model-checked
  on a million states with several healthy surroundings at once before it was proved.

The same module proves what `Timers` is checked for, but for liveness, from `TimerAssumption` and `DelayAssumption`: any
finite set of timers, any handles with 0 among them, any delays of at least a tick, any lateness, and whether or not behaviours are
followed beyond harm.

- `TimersTypeCorrect`: `TimersSpec => []TimersTypeOK`, before and after harm.
- `TimersInvHolds`: `TimersSpec => []TimersInv`. The inductive invariant `LineInv` says that, until a harm, there is a set `L` of
  nodes that the links put in line (`Lined`): a rank of the slots grows along the links, from `Root` on, and `due` does not
  fall. Ranks stand for "reached after so many steps", so that no induction is needed where a list is changed, only where
  it is walked. `Told` says that blocks and flags tell who is in `L`, but for the timer whose callback runs; `Kept`
  adds that no walk has failed and that the tick timer is in `L` as its flag says, except between the manager's unlinking and its clearing of
  the flag; `Position` that the manager, as it walks, stands before the tick timer by every such rank, so that it cannot miss it.
  `ListIsWaiting` alone is not inductive: it says nothing of the manager's place, nor of a list in the middle of a callback.
  The invariant was model-checked on the states of `timers` before it was proved.
- `ListAlwaysWaiting`: `TimersSpec => []ListIsWaiting`; `FaultsNeedHarm`: `TimersSpec => []OnlyHarmFaults`.
  Under them lie `WalkGoesAhead` and `WalkEnds`, which say where a walk stops in a line (an induction by the least
  counterexample, `LeastNat`); `PutRanked` and `OutRanked`, that putting a node behind a slot and taking one out leave a line; and
  `OutcomeKeeps`, that any one call of a callback or handler leaves a line unless it does harm. When the manager is inside the list,
  `LeavesKeeps` uses that a step without harm changed no link: then the line is the same (`SameNextSameLine`).

`ProtocolLinkProofs` (2347 obligations) assumes `SizeAssumption` of `ProtocolLink`: a buffer with room for a message, and queues with a
place. It holds for every length of buffer, queue and conversation, and all surroundings.

- `LockIsHeldDuringTransfers`: `Spec => []LockMatchesTransfer`. The inductive invariant
  `LockInv` adds the types of `txn` and `txnLock`: the mutex has one of three holders, so that
  a task that gives it back without failing the assertion either had it for something else,
  or ends the transfer in the same step.
- `TypeCorrect`: `Spec => []TypeOK`. That the buffer neither overflows nor is consumed beyond its start is a matter of order: the test for room is a step before
  the append, and the bluetooth task is the only one that appends, so what it found free is still free.
- `StreamIsReadInOrder`: `Spec => []StreamIsRead`. The inductive invariant `StreamInv` follows every message
  that is sent and not consumed: laid end to end, the buffer, the hand of the bluetooth task and the link are exactly the
  headers and bodies of those messages, in pairs (`Pairs`), and the rx task has read the header of the first (`Reading`).
- `OnlyWholeDownloadsAreTold`: `Spec => []DownloadIsWhole`. Commands are answered one by one, but the phone may give up, and then takes the
  answer of the old transfer for one to the new. `FileInv` counts: to ask for an installation the phone needs three acknowledgements in a row, and
  as long as no file is marked as written, no three in a row are on their way, and those at the end of the row are no more than
  the transaction, as it stands, has given (`Rows`).
- `CalmLinkSurvives`: `Spec => []LinkSurvives`. `CalmInv` says what a link without trouble is: nobody waits (`Quietly`), at most one command of a
  transfer is under way (`OneAtATime`), and the transaction is where the phone believes it to be (`Answered`); that is its first part. For the second, `AloneInv` says that where
  no task is slow and nothing else is sent, the tx task neither has nor wants the mutex, so that a failure can only
  be that of a command without a transaction.

`PpogattProofs` (2020 obligations) assumes `QueueAssumption` of `Ppogatt`, for queues of every length, any number of
messages and any number of connections.

- `ConnectionIsTrue`: `Spec => []ConnectedIsTrue`. The flag alone says nothing about the events that wait. The inductive invariant
  `ConnInv` follows them: as long as the radio has no connection and lost no event, the news of the end stands in the service
  queue behind every "conn" that waits there, and anywhere in it while a session is open; and the receive queue, whose acknowledgement of
  a reset sets the flag, holds packets only while a session is open.
- `TypeCorrect`: `Spec => []TypeOK`. `TypeInv` adds what the numbers of the pieces need: what is queued, what is left
  of the message in hand and the messages still asked for, together, are never more than all messages have pieces.
- `OrderIsKept`: `Spec => KeepsOrder`, the refinement of both directions to `Channel`, initial state to initial state
  and step by step, and the numbers. To the phone (`OutInv`): what is queued and not heard is in the hand of the tx task and its queue, in
  order, without a gap, while a session is open; acknowledgements and resets stand between without disturbing it. From
  the phone (`InInv`): what was said in the session and not lost is with the protocol, the rx task and its queue, each place above the
  one before. The numbers (`SeqInv`, as long as the session is not `torn`): the next is that of the next piece, or of the one just queued
  until it is counted (`Numbered`), and the piece the command task has in hand has it; `NextRemainder` is the arithmetic of the wrap.

`DrawingProofs` (1409 obligations) assumes `DrawAssumption` of `Drawing`: queues with a place, and constants of their types.

- `BufferHasOneUser`: `Spec => []OnePainter`. Nobody who paints asks for the lock, so the mutex does not follow from it; it follows from the
  messages. The inductive invariant `FrameInv` says where the right to paint is: in one of six places (an answer in
  the manager's queue, the display, the application, its queue, the overlay thread, its queue), in one message at most,
  and only while the lock is held and was taken less than 250 ms ago. `Keeps`, `Hands` and `Makes` are the
  three things a step can do with it; the step that makes one finds the lock free, or its holder given up.
- `EventsLiveLongEnough`: `Spec => []EventsDieOnce`. An event goes by pointer through up to four places, and is destroyed by its subscribers. The
  inductive invariant `EventInv` says that, unless a command has two, the subscribers of all places together are at most one (`FewSubscribe`), an event is
  in one place that will destroy it (`OneHears`), and whatever place has it, it is alive there (`Lives`).
- `TypeCorrect`: `Spec => []TypeOK`.

`ButtonsProofs` (1113 obligations) assumes `ButtonAssumption` of `Buttons`: finitely many buttons and at least one, long and repeat delays of at
least a tick, and constants of their types.

- `TypeCorrect`: `Spec => []TypeOK`. `TypeInv` adds that the buttons the scan has yet to look at are the last ones in its order (`Remaining`), and that
  what the task has yet to consider of a button is the end of one of the lists an edge begins (`Planned`).
- `NeverBothClicks`: `Spec => []LongXorShort`. Between the long click that is sent and the short click
  that must not be lie the release, its debouncing, and other buttons. `EdgeInv` follows a press: what was sent of it is forgotten once it
  is over (`Cleared`); a long click that was sent is remembered in `did` (`LongOnce`), and a short one is sent only to who has no long click or when the
  press is over and none is remembered (`ClickOnce`); as long as the subscriptions stay what they were (`Steady`).

`QArenaProofs` (1503 obligations) assumes `SizeAssumption` of `QArena`, a heap with room for one header, and
`Careful`: callers resize only where `SafeResize` says that they may. It holds for every size of heap, header and
request, and every order of calls and restarts.

- The inductive invariant `Inv`: the headers are a row that fills the arena (`Good`), its cookies agree with its flags
  (`Marked`), the taken blocks are the callers' and large enough (`Owned`), a walk in progress stands at a header or at
  the end (`CallOK`), and no two free blocks lie side by side, as far as a join has come (`Apart`). Before it, one lemma per change to
  the row says that it leaves a row: `SplitIsGood`, `JoinIsGood`, `GrowIsGood`, `CarvedIsGood`. That tiles are not enough is why `Apart` counts up to
  where the walk is: in the middle of `qjoin` there are free neighbours.
- `ArenaTypeCorrect`, `BlocksAlwaysTile`, `OnlyOwnersTaken`, `AlwaysCoalesced`, `NeverPanics` and, together,
  `ArenaAlwaysStands`: `Spec => []ArenaStands`.
- `ArenaIsAHeap`: `Spec => IsAHeap`, the refinement: initial states map to initial states, and every step
  (`NextIsHeap`) to an allocation, a resize, a release, a restart or a stutter of `Heap`, with pointers one header behind
  their blocks.

Only model-checked: the liveness properties (`CallsEnd`, `LastRequestWins`, `ClosesEvenIfHung`, `LinkGoesOn`, `SendsEnd`,
`FramesGoOn`, `LevelIsSeen`, `HeldIsLong`, `TimersFire`), which are out of the prover's reach. Every invariant and every safety property over steps that a passing run checks is also a theorem.

## Where the code and its comments disagree

The three violation runs, with their scenarios, are under "findings" in `PROJECT.json`:
`rdb.c:570` (`update`), `lib/minilib/qalloc.c:148` (`grow`), `rwatch/event/tick_timer_service.c:133` (`tick`).

Met while modelling, in the models as the code does it, without a run of their own:

- A page is marked as having a page behind it when that one is created (`fs.c:555`), the last page of the region included. When a
  file ends there, no allocated page is without the mark, and the next mount takes the region to be empty (`fs.c:108`).
- A page counts as clean, "and we can write to it" (`fs.c:48`), when its allocated or type flag is missing, whatever else was
  written there (`fs.c:117`). The power fails in the creation of a file of two pages between the headers of the first and the second;
  the recovery marks both dead (`fs.c:315`), and the next mount takes the second for clean. A file created there inherits the
  dead flag: it is written, committed and found, and deleted by the mount after that. `CommittedIsFound` excepts it by name.
- After an interrupted format, a page without a header has the erase count 0xFFFFFFFF, one more is 0, and the mount ends in the
  assertion at `fs.c:277`, at every boot.
- "Clear All" deletes through iterators made before (`notification_manager.c:302`): when the database has moved since, it
  clears nothing.
- A quit that finds the application's queue full is lost (`appmanager.c:452`), and so the application can neither be told nor,
  without a deadline, be killed.
- A message checked for one application may reach the next (`appmanager_app_runloop.c:43`).
- A thread without a task makes the manager delete itself (`appmanager.c:502`: a handle of 0 is the caller's own).
- The counter of free pages goes down at a creation and never up again (`fs.c:519`), so
  creations are refused that would fit, and dirty pages count as free although they cannot be
  allocated.
- A record that would fill the file exactly is refused at `rdb.c:415` and accepted at
  `rdb.c:499`.
- The handle of a thread whose application was deleted at its deadline stays and is
  deleted once more at the next start (`appmanager.c:323` has a FIXME).
- A download that completes while another application runs makes the manager take the
  running one for unloaded and delete its task (`appmanager.c:413`).
- A start that finds the thread between creation and loop is remembered but the
  application there is not asked to quit until the next command.
- The header of a packet is read before the lock is taken and its length tested afterwards
  (`protocol/protocol.c:222`, 227): bytes appended in between are handled with the header of the
  packet before ("seems legit", `service/protocol_service.c:114`). The `harm` of
  `ProtocolLink` begins there, in surroundings without any trouble.
- A packet that is "requeued" (`service/protocol_service.c:155`) goes back as its own first
  word, because the queue copies what it is given a pointer to.
- The handlers of Transfer, Commit and Install follow `_txn` before anything looks whether there is a transaction
  (`protocol/protocol_transfer.c:195`, 226, 256): what a phone sends after the time-out of its transfer is not refused as the test
  behind (line 200) means it to be. This is the only failure `LinkSurvives` leaves to a phone that is late or gives up.
- A transfer whose mutex is not free in time gives that mutex back all the same
  (`protocol/protocol_transfer.c:153`, 295), and so does a receive buffer that expires
  (`protocol/protocol.c:100`).
- `persist_get_size` deletes the key whose size it is asked for
  (`rwatch/storage/storage_persist.c:66`), and when there is none returns without `rdb_close` (line 62), as `persist_delete`
  does (line 150), `timeline_notifications` without a file (`service/timeline.c:213`) and `prefs.c:58`: the mutex of the database
  stays taken, and the next call waits for ever.
- The shutdown of PPoGATT clears the handle of the rx task twice and that of the tx task never (`ppogatt.c:220`), so the next
  shutdown deletes a deleted task.
- A commit kills the old version before the new one counts (`fs.c:662`, 669): a power loss in between takes both.
- PPoGATT calls itself a "reliable in-order protocol" (`ppogatt.c:14`) and never looks at the number of a packet received (`ppogatt.c:122`):
  when a full queue lost one, the next is acknowledged (line 128), although line 28 says not to.
- All clicks are sent as the address of one message (`buttons.c:246`): a click that is sent before the application has taken the raw
  press, or to the other thread, is written over it, and its handler runs twice or for the wrong button.
- The recovery of a lost frame after 250 ms takes a slow painter for a lost message, and two tasks paint (`appmanager.c:221`).
- An event with two subscribers is destroyed twice, one with none never (`rwatch/event/event_service.c:145`).
- The overlay thread waits 1000 ticks for room in its own queue (`overlay_manager.c:49`) when it shows a notification while
  another message is there.
- A handle of 0 finds an animation, and unscheduling an animation leaves it in the list (`rwatch/event/app_timer.c:96`,
  `rwatch/ui/animation/animation.c:477`).
- `qmalloc` adds the size of a header twice (`lib/minilib/qalloc.c`): every block that callers get is a header larger than it need be.

## Not modelled

By intention, for good: painting, layers, menus, fonts and graphics (data without
order); the dictionary (a serialisation); time zones, logging, boot order; system
applications and watchfaces (clients of what is modelled); register-level drivers, whose
promises are in the models' assumptions; the endpoints that parse one packet and make one call; FreeRTOS and the other vendored code,
which is most of the repository by lines.

The flash driver (a mutex and one wait for the interrupt per operation), persistent storage, preferences and
the timeline service (each call is one open, one lookup and one change of a record database) would restate `RecordDb`. Their early
returns without `rdb_close` are missing calls on one sequential path, told above.

Of modelled parts: checksums of file system pages (nothing reads them); the
selectors of `rdb.c` on data fields; `fs_read`, `fs_write` and `fs_seek` as calls of their own; a record's header torn
between its bytes; the worker thread, which nothing in the repository starts; bonding; delayed jobs of the service task, which nobody
submits; multiple clicks, whose fields the code has and nothing counts; sequences and spawns of animations, trees that one thread walks; the subscriber list as memory.

Two tasks in the file system at once: `fs.c:501` asks for the mutex that is not there, and they interleave at every access to the page table. Nothing in
the repository promises that to work, so there is no property to check.

## Plan

Done, in the order of importance: file system, record database, application manager, protocol and transfers, PPoGATT,
drawing and events, allocator, timers, buttons. Left, should the development go on:

1. A composition of `Ppogatt` with `ProtocolLink`, whose phone is `Channel` already in spirit: what PPoGATT delivers is the stream that the receive
   buffer gets.
2. Two tasks in the file system, once it has the mutex that `fs.c:501` asks for.
