# neuro-sdk-neuratro in TLA+

neuro-sdk-neuratro lets a language model play Balatro. A Lua mod inside the game
(`neuro-game/`) and a Rust process, the relay (`neuro-bridge-rs/`), talk through
two files; the relay talks to the server over a WebSocket. This directory holds a
model of that exchange, the runs of TLC over it and proofs about it.

## The system

```
 server <--websocket--> relay (Rust) <--inbox file--  mod (Lua, in the game)
                              |  ^-----outbox file----/
                              +-- cursor file, session markers, lease
```

| Part | State | Operations | Talks to |
|---|---|---|---|
| relay sessions (`session.rs`, `main.rs`, `controls.rs`) | session marker on disk, `ConsumerState`, the socket, three tasks | open a session, ask the mod to register again, send the startup ahead, read the outbox in order, stop | the mod by the files, the server by the socket |
| obligations (`obligations.rs`) | ids delivered and answered on this connection, ids of earlier ones, forces and contexts sent, the game | admit an action, suppress or refuse a result, remember a send | shared by the consumer and the receive task under a mutex |
| outbox reading (`tailer.rs`, `bootstrap.rs`, `cursor.rs`, `queue.rs`) | offset, file id and generation of two readers, a bounded queue, the durable cursor | read complete lines over a rotation, fence what is queued, save, retry | the consumer by a queue; the mod reads the cursor file before it rotates |
| inbox writing (`receive.rs`) | the open inbox and its length | append, roll back, close a torn record, rotate | the mod by the inbox |
| mod transport (`bridge.lua`, `bridge_init.lua`, `dispatcher.lua`) | fifo of lines, inbox position and anchor, session answered, ids owed and answered | send, flush, rotate the outbox, poll the inbox, answer a reconnect, pay owed results, quit | the relay by the files |
| force window and execution (`window.lua`, `execute.lua`, `validate.lua`, `staging.lua`, `plan_transaction.lua`) | the open force, the staged job | force, accept, execute, withdraw | the mod transport |
| relay process (`main.rs`, `config.rs`, `lease.rs`, `controls.rs`) | the directory of the files, its lease, session markers | choose the directory, hold the lease, take the next session number, stop within a grace period | the mod by a marker file that says where the files are |
| contexts (`context_delivery.lua`) | what waits, what was accepted, how often it was refused | tell the guide, the glossary and events once; hold a force back until they are told | the force window asks it, the mod transport carries it |
| gate, play review, catalogue (`gate.lua`, `validate.lua`, `action_registry.lua`, ...) | what was proposed and shown | decide when and what to send | the mod transport |
| game text, handlers, drawing (`facts/`, `context/`, `force/`, `handlers/`, `hud/`, `render/`, `util/`) | none of its own, or Balatro's | format, call the game, draw | the force window |

What makes it hard: two processes that may each be killed at any time and share
nothing but files; a startup that is sent ahead of older lines of the same file,
which must then not be sent; results that are due on one connection only; a file
that is renamed by one process while the other has it open, has lines of it
queued, or is down; a cursor that may fail to reach the disk; writes of half a
line; a receive task and a consumer that share one tracker; a tailer that waits for
an event, for bytes or for room while its watcher may die; session numbers that
must stay fresh over crashes and, where the platform syncs a directory, over a power
loss; contexts that are refused while the model is
paused and must neither be said twice nor be lost.

What makes each part correct:

- relay sessions: one result for an id on a connection, never one of an earlier
  connection; the startup first and once; nothing of an earlier launch on a later
  connection; forces sent once and contexts not lost.
- outbox reading: over two files and a cursor the relay reads one log.
- the way through a session: no line waits for a wakeup that was missed, the byte
  budget is what is on the way, and a tailer comes to rest.
- relay process: a number is given once for a directory, whatever a crash and, on
  unix, a loss of power leaves of the markers; both programs use one directory.
- inbox: an action reaches the mod once, between the request of its connection and
  the next; an answer to a play review comes after the review.
- the two programs together: they end connected, and an action is answered.
- contexts: told once, told before the force that needs them, told in the end, and
  never a reason for silence after a pause.
- force window: the server never has a force open that the mod does not know of; an
  action told as not executed is never executed; what an answer takes off the
  server is off before the answer, and stays off; the mod goes on asking.

## Modules

| Module | Models |
|---|---|
| `Ipc` | the records of the two files and their bounds |
| `Relay` | the relay over an outbox that only grows: process, sessions, tracker, startup lane, consumer, checkpoints, receive task |
| `Mod` | the mod's end of the files |
| `System` | `Mod` and `Relay` composed over the same two files, with a budget of failures and fairness |
| `SystemProofs` | proofs about `Relay` (one result for an action, what a connection carries, what the cursor has passed, what is known of earlier connections) and about `System` (one answer, and that its relay is the one of `Relay`) |
| `OutboxLog` | what the relay promises of the outbox: one log, read in order |
| `OutboxTailer` | the outbox as files: rotation, inodes, torn lines, readers, queue, cursor; refines `OutboxLog` |
| `OutboxTailerProofs` | proofs about `OutboxTailer`, among them the refinement |
| `InboxFile` | the inbox as files: appends with retries, roll back and rotation, the polls of the mod and the mark a play review leaves |
| `InboxFileProofs` | proofs about `InboxFile` |
| `ForceWindow` | the decision the mod asks for: registered names, the open force, validation, answers, owed results, the job |
| `ForceWindowProofs` | proofs about `ForceWindow` |
| `QueueBudget` | one session from inside: watcher, tailer task, byte budget, two lanes, consumer |
| `QueueBudgetProofs` | proofs about `QueueBudget` |
| `RelayProcess` | the relay as processes of a machine: directory, lease, session markers, power |
| `RelayProcessProofs` | proofs about `RelayProcess` |
| `ContextDelivery` | guides, glossaries and events: queue, attempts, memory, and the forces that wait for them |
| `ContextDeliveryProofs` | proofs about `ContextDelivery` |
| `NumberFacts` | lemmas for the proofs: largest and least elements, induction over numbers |
| `MC*` | instances for TLC |

### Relay

A position in the outbox is a number of complete records, in place of a byte
offset. `proc` is the process and `serve` loop of `main.rs`; `st` is
`ConsumerState`; `pending` the `PendingTracker`, made anew by `StartProcess`;
`cursor` the cursor file and `retry` the `Checkpointer`'s failed write; `lane` the
startup lane; `rx` the receive task with the action it is appending. `wire` is
history: the frames handed to the socket, with the session and whether the send
succeeded. `unsaved` is history: the forces and contexts among them after which the
cursor was not written, because the write failed or a kill came first; those, and no
others, may be sent a second time (`ForceCheckpointed`). `since` is history too: the
last session the `PendingTracker` knows nothing of. A
process begins with a new tracker and a connection for another game makes it anew
(`bind_game`), and what is stale or was sent can only be known back to there
(`NoStaleResult`, `NoReplay`).

`OpenSession` is `run_session` up to its loop; one turn of the loop is one action
for each way it may end: `Skip` (`fence_record`), `ReadTag`, `Drop` (classified
away or taken for a replay), `ReconnectForRelaunch`, `ForwardFails`, `Forward`
followed by `Observe`, `RetryCursor`, `LoseSession`, `Stop`. A send and what follows
it are two steps, as between them the task waits for the socket and for the sync of
the cursor file: the receive task may run there (a result is not yet observed), and a
kill may come (the cursor is not yet written). `Hoist`,
`Connect` and `SendStartup` are the startup that goes ahead. `ReceiveAction`,
`DeliverToInbox` and `ReceiverDies` are the receive task; an append already begun
may complete when its task is aborted (`StopReceiver`). `Crash` is possible
anywhere. In the runs of `Relay` alone the mod is an environment that appends any
member of `Writes`.

`EndConsumer` is what the end of a session and a crash have in common: the consumer,
its retry, the lane and the socket are gone, the receive task is aborted.

The lines of a record's text, the socket's time limits and the heartbeat are left
out: a send succeeds or fails, a session may be lost at the loop.

### Mod and System

`Mod` has one action for each handler: `Launch`, `Reconnect`, `RetryCatalogue`,
`TakeAction`, `Answer`, `Flush`, `Quit`, and `KillGame`. `Enqueue` lets the disk take
any number of the lines that wait, and what it does not take stays in `fifo`.
`owed` and `answered` are the table `TX`; its entries carry the session that
brought them, which no line of the code knows and the properties need.

`System` runs both. Failures of the network, of the two processes and of the
cursor file spend `MaxFaults`; starting a program is free but owed by nobody. The
server sends any id it has not used (`UsedIds`): ids are unique in the life of the
server, which is what its protocol says and the code does not check.

### OutboxTailer

A line is a serial number, a file a record with its inode, its lines and at most
one torn line at its end. The mod's `_append` is four steps (`BeginRotation`,
`RemoveRotated`, `Rename`, `AppendLine`), since the relay may read between any two;
`Draining` is `relay_draining_rotated`. Inodes of removed files may be given again.
The relay's side has the probe (`ReadAhead`), the ordered reader (`ReadInOrder`)
with its generation, the queue, `Discard` (a detached mark), `Take`, and the
cursor file with the fingerprint of what it covers (`Fences`, `SaveCursor`).

Abstractions: one read stats both files in one step; a fingerprint is the content
it is of, so no two contents collide; sizes are counted in lines.

`lagged` is history: it becomes true when the mod fills a whole file (64 MiB) in a
session whose cursor's file is already gone, which takes cursor writes that fail
for that long (a relay that is down may miss any number of rotations and does not
lag in this sense). `ImplementsLog` is stated up to that point. Past it a place may
be saved into another file that has the same inode, because `persist_cursor` takes
the fingerprint from whatever file has the inode now; the other properties are
stated for all behaviours.

### InboxFile

A record is two cells, text and newline, and offsets count cells; a cell carries the
number of the append that wrote it, since the timestamp makes every line its own.
The relay's steps are those of `append_record` in their order: `BeginAppend` (the
next record, or the same again after a transient failure), `Open` (which ends a torn
record with a newline), `OpenFails`, `Rotate`, `WriteRecord`, `WriteFails`
(a part of the record is on disk), `RollBack`, `RemoveEmpty`, and `CrashRelay`
anywhere. The mod's are one poll: `PollCurrent`, `PollRotated`, `PollStart`,
`ConsumeLine` once for each line, `StopPoll` when a handler's line waits in the
fifo, `EndPoll`; `Launch` is `_skip_stale_inbox`. The relay may move between any
two of them. A record may be of any length, so that a rename is possible as soon as
the inbox is not empty.

`review` is the mark of the play review that is open (`_inbox_present`): when the line
that asks for the answer has landed, the mod looks at the inbox (`LandReview`,
`CompareHead`, `CountRotated`, `CountInbox`, between which the relay may move) and
notes how far it reaches, counted from `serial`; `Answers` is the comparison in
`validate.lua`. What the review is about is left out: one review opens in a launch,
and `before` and `after` are history, the appends on disk when the mod began to look
and those that may have been when it was done.

`next` and `skipped` are history: which file the position belongs to and whether the
mod began one that is not the next. A mod that has read nothing of a file (its
position is 0, so it has no anchor) loses that file by one rename, while a file it
has begun survives one; `Overtaken` names that case.

### ForceWindow

The mod runs on one thread of the game, so a handler is one step; what it sends
reaches the server in order, so `server` is the state the lines sent so far leave
there. `bridge` holds the tables of `bridge.lua` and `window.lua`: the names in
`_registered_sigs` (`registered`), those the registry has for live (`live`, which
survives a reconnect), those an answer took off (`held`), the force lock, the open
window, `owed` and `answered`, and a catalogue still due (`pending`).

The operators of the second section are the functions of the code: each takes the
tables and the server and is its outcome, or the set of its outcomes. `Unregister`,
`Withdraw`, `Withdrawal`, `Catalogue`, `Deliver` and `Answer` are composed as the
functions call each other. The actions are
the entries: `Arm` and `StepWindow` (`Window.step`), `Accept`, `Refuse` and `Stall`
(`Validate.validate` with `Execute.admit`), `PayOwed`, `RunJob` and `EndJob`,
`RunReset`, `Reconnect`, `RetryCatalogue`, `Pause` and `Supersede`. An action of any
name may arrive at any time, since it may have left the server before the lines that
took it off.

Which frames may be refused (`send` returns false): the fifo has no limit, and
`Bridge:send` turns away what is no frame, is longer than a line of 1 MiB, opens a
force over another or goes round the catalogue. None of it can be an unregister of
registered names, and none a result: the relay passes on only ids the mod takes, and a
result that is too long is replaced (bridge.lua:758). So these are never refused, and
the branches of the code for it (window.lua:86, execute.lua:228, 239, bridge.lua:776)
are not modelled. A catalogue of schemas and a force of texts have no bound of their
own; `Refused` is their refusal, at most `MaxRefused` times in a behaviour.

How a result comes to be owed: the id is open from its arrival, and a handler that
raises is reported as an internal error (`Refuse` with a failure); when that report
raises too (dispatcher.lua:420), the id stays owed until its deadline (`Stall`,
`PayOwed`). The code guards against it and its tests play it
(test_inbound_obligation.lua:247); no path of today's handlers is known to raise there.

What the server does is external and taken from how the code and its tests use it: a
force ends when one of its actions succeeds or one of its names is unregistered. Ids
of one connection are not used again on a later one.

Abstractions: clocks are left out, so a timeout may come at any time after the force
was sent (it subsumes the withdrawal of a decision that has become wider), and an owed
result may be paid at any time. A refusal chooses any result `ActionResult.terminal` gives for some reason that may hold. The early
return of `register_catalogue` is its own no-op. `Offers` takes from the router that a
force offers at least one disposable action: only the shop has a decision that is none
(`buy_from_shop`), and the lock of the controller that leaves `leave_shop` out as still
settling leaves `buy_from_shop` out too. That matters: a force of reusable actions alone, crossed
by the success of a disposable one, would stay open on the server.
The guide and the glossary that `arm` sends before the force count as delivered; the
readiness of the game (cooldowns, animations, login) is a frame in which `Arm` is not
taken.

### QueueBudget

`Relay` has one step from the file to the consumer; this module is what lies in
between. `tailer.pc` is where `tailer_task` waits: `drain` (the watch channel is
emptied), `read` (`ReadOrdered`, `ReadAhead` for the startup, `ReadNothing` while it
is queued), `admit`, `await` and `parked` (`QueuedOutgoing::admit` with the permit of
`Notify`), `send` (a lane may be full), `sleep` (`select!` over the channel and the
timer). The consumer's are `next`, `recv`, `busy`, `told` (`Lanes::next` and the turn
of the loop). `WatcherDelivers` is the callback of the watcher, with the filter of
the tailer's own reads and a channel of one message.

What a line says is left out, also which lines are skipped and the generation of
the queue (they are in `Relay` and `OutboxTailer`). A line that is no UTF-8 or too
long has no bytes. Sizes are small numbers; a chunk is counted in lines. An unsent
item of a tailer that died keeps its bytes: both end with the session.

### RelayProcess

`env` and `marker` are what the two programs find on the machine; `RelayDir` and
`GameDir` are the searches of `config.rs` and `mod_paths.lua`, whose early returns
become the first value that is not `None`. An error is the value `Invalid`, and a
program that meets it does not start. `LaunchGame` leaves the directory it took by
default in the marker, if it can.

`main` is the life of a process, `Leased` the lock of `lease.rs`: it is held from
`LaunchRelay` to the return of `main` (`Leave`) or the end of the process. `task` is
the blocking task of `next_transport_session`, which goes on after `main` has
returned, until the process ends: `Scan`, `Create`, `WriteMarker`, `RemoveOlder`
(any of the older markers, one at a time, and any may stay), `GiveNumber` (the sync
of the directory, and the answer to the session, if one still waits). `TaskFails` and
`CreateUnsecured` are its errors.

`disk[d].now` is the content of a directory as programs see it, `disk[d].left` the
contents a loss of power may leave: those since the last sync. Names are taken to
reach the disk in the order of the calls, as on a journalled file system. `given` is
history.

Only a relay built for unix syncs its directory: elsewhere `sync_parent_directory`
does nothing (cursor.rs:86-90), and the program ships for Windows. `env.unix` says
which of the two runs, and `Sync` has both branches. On Windows the model knows of
nothing that keeps a marker on the disk, so that a number may be given again after a
loss of power; `LosePower` therefore starts `given` anew there, and `FreshNumbers` and
`NumbersKept` say what holds in between, over crashes of the relays. The mutant of
`NumbersKept`, `Sync_Never`, is the Windows branch on every machine: with it the
claim that is made of unix fails. The comment at cursor.rs:87 names the sync of a file
and an atomic rename as what Windows relies on; a marker is synced but created under
its name (controls.rs:35-41), so nothing is shown for it.

### ContextDelivery

`ctx` is one record with the tables of `context_delivery.lua`; the operators of the
section "The tables" are its functions, composed as the code composes them: `Offer`
is `enqueue`, `Attempt` a try, `Fail` a refusal, `Revive` the one more chance of a
guide, `Evict` the overflow, `Remember` the memory with its limit for each class,
`OpenEpoch` and `Reset` what a reconnect and a startup leave. The actions are the
callers: the startup and its catalogue, a reconnect, the pause, a change of ante
(`EnterScope`), a change of screen, an event, the frame (`StepFrame`), and `Arm`, which
offers the guide, then the glossary, then sends the force. Its two parameters are
whether the transport has room after the guide and whether it takes the force; the
rest of a force is in `ForceWindow`.

`age`, `twice` and `forced` are history: how many contexts of its class were accepted
since a context was, which were accepted while the memory still had to know them,
and the scopes with a force. One glossary stands for those of a scope; hints, a
class that differs from events by its memory only, are left out; so are texts that
change under an id and frames that are too large. `With` makes TLC evaluate a value
once and means nothing else.

## Runs

The bounds are small because the hazards need few actors: two sessions to make
"earlier connection" mean something, two launches, two files and a reused inode.

| Run | Instance | Shows |
|---|---|---|
| `relay` | 2 sessions, one id; four kinds of mod in turn: one that sends results or forces and contexts (4 records), one that changes its catalogue, or two games with torn tags, lines that are no record and contexts of each game (3); sends, cursor writes and processes fail | at most one result per id and connection, none of an earlier connection, the inbox in sessions, the startup first and once, nothing of an old launch, a stop withdraws what the connection holds, forces sent once and checkpointed, no context passed over, the cursor never on a tag |
| `relay_already_sent` | forces and contexts | *violation*: a context whose send failed is dropped as already sent |
| `system` | 2 launches, 3 sessions, one action, 1 failure of any kind | the mod answers an action once; liveness: an action taken is answered on its connection unless connection or game ends, and the two programs end connected |
| `system_stale` | 2 failures | *violation*: a relay killed and started again sends a result of a connection of the process before |
| `outbox_files` | 3 inodes, files of one line, 5 lines, 3 renames, 1 rewind | the files implement the log, no torn `.1`, a startup clears exactly the lines before it |
| `outbox_removed` | 4 lines; renames only while the relay is down (`RenamedWhileDown`) | *violation*: a relay stops with its cursor at the end of the outbox; that file is rotated away, and then the next one, which nobody has read |
| `inbox_files` | files of one or two records, 3 appends, or 2 and a launch, and a review | no line read twice or out of order, a begun file lost only by two renames, a record handled once, an answer to a review appended after the review landed; liveness: a record whose append succeeded is handled |
| `force_window` | a shop and a pack, four names, two ids, one refused catalogue or force | no force on the server unknown to the mod, the mirror of the registered names, true answers, withdrawals before answers and kept; liveness: the mod goes on asking |
| `queue_budget` | 3 lines of a startup, an unusable line, one that leaves room and one that fills the budget of 2; an outbox lane of 2, a watch channel of 1, chunks of 2 | the budget is exact, no line is lost between the readers; liveness: with a watcher no timer is needed, without one the timers do, and a silent mod lets the tailer sleep |
| `relay_process` | 2 processes, 2 directories, 2 session numbers, the machines on which the two programs may disagree, and a relay built for Windows | a number is above every one given before and the markers keep it: built for unix over any loss of power, built for Windows between two of them; relay and game meet in one directory; liveness: the search for a number ends |
| `context_delivery` | 2 events, the menus and one ante, 2 attempts, 3 waiting, 1 remembered of each class | told once, no force before its glossary and a guide; liveness: events are told over any number of reconnects, and forces come again after any pause |

`MCRelay` takes four kinds of mod in turn: its next-state relation keeps the outbox
to what one of them wrote, and actions to the first two. That run checks safety only.
The constraint of `outbox_files` shortens the outbox by two lines once the cursor has
lagged. A type invariant is a property of its own in `relay` alone; elsewhere it is a
conjunct of the invariant that says most about the state (`AnsweredOnce`,
`RotatedWhole`, `HandledOnce`, `MirrorExact`, `BudgetExact`, `NumbersKept`, `ToldOnce`).

`MaxOutbox`, `MaxSessions`, `MaxLaunches`, `MaxFaults`, `MaxLines`, `MaxRotations`,
`MaxRewinds`, `MaxAppends` and `MaxRefused` bound what would otherwise grow. In `system`
`MaxOutbox` is larger than what can be written and `MaxSessions` larger than one
failure can use up, so that a behaviour ends because it is done and not because a
bound stops it. `MaxTracked` stands for `MAX_TRACKED_ACTIONS` and is small enough to
be reached in `relay`. `MaxBytes`, `MaxQueued`, `MaxWatch`, `Chunk`, `MaxSession`,
`MaxAttempts`, `MaxPending`, `MaxRules` and `MaxTransient` are limits of the code
itself, made small enough to be met: the budget is filled by one line, the numbers
run out, and a memory of one forgets at the next context.

Deadlock is not checked, except in `context_delivery`: elsewhere the system may stop,
when the bounds are used up or when programs are down and nobody starts them.

### Fairness

`Fairness` of `System` is weak fairness of the steps of the relay and of the mod,
each as one process: the relay's tasks are polled as long as it runs, and the mod's
`update` runs every frame. `FairSpec` of `InboxFile` is weak fairness of the steps of
a poll: the game's frames go on, and the disk takes what waits in the fifo. `Fairness`
of `ForceWindow` is weak fairness of the frame, of the job and of the payment of owed
results, which `update` runs every frame: a frame in which a cooldown, an animation or a
saturated transport keeps the window from opening is followed by one in which none
does. Nothing is owed by the server, by a user who starts a
program, or by a failure; `Settles` speaks of behaviours in which both programs
stay up from some point on.

`Fairness` of `QueueBudget` is weak fairness of the tailer's and of the consumer's
task and of the watcher's thread. Receiving is strongly fair: the retry of a cursor
write may turn the consumer away from a lane that has a line, but at most once a
second. The timers are owed only where a property says so (`Timers`), so that
`PromptWhileWatched` shows they are not needed. `Fairness` of `RelayProcess` is weak
fairness of a blocking task; `TaskEnds` leaves out a marker that is made and removed
for ever. `Fairness` of `ContextDelivery` is that of the frame (`Delivers`, written
out without `ENABLED`, whose evaluation would compute the whole step again) and of
an `Arm` whose transport has room. Nobody owes a pause, a reconnect or an event.

### What the violations say

Each is a disagreement between the code and a line of the repository, quoted in
`PROJECT.json`. Each needs a failure at one point (a send, a kill, a relay that is
down for three rotations).

Observations beside them, which no run of its own shows:

- An untagged startup that lies past the cursor makes a running session reconnect
  once without need ("The game started again"), because the startup sent ahead of it
  is met again. `Settles` shows that it ends there.
- A startup sent ahead that the consumer discards as detached (session.rs:255) leaves
  a session that listens to a lane nobody fills any more, since its probe is done; it
  takes two renames between the read and the send, and the session ends with its
  connection.
- The lease goes when `main` returns, while a blocking task may still work on the
  files (the repository's README.md:114 has it released when the relay exits).
  `FreshNumbers` and `NumbersKept` hold nevertheless, over two processes.
- Contexts that wait during a pause are given up after twelve frames, so an event of
  a long pause is never told; `EventsTold` says so by its first condition.
- A record that is torn when the mod looks for the mark of a review, and taken back
  afterwards, leaves the mark too high, so that an answer sent after the review may be
  refused as sent before it (bridge.lua:711 says that what lies below the mark was
  written before). `AnswersFollowReview` excepts that case and lines lost to the mod.
- The guide is not asked for by scope: after a reconnect and a pause a force of an
  ante may go out while the guide of that ante still waits, if that of an earlier one
  was told. `RulesFirst` is stated accordingly.
- After as many newer rules as the memory holds (512) the texts of the menus may go
  out a second time, where context_delivery.lua:70 has them "once per startup".
  `ToldOnce` is stated up to the memory.

## Proofs

TLAPS checks every proof below for all values of the constants, under the
assumptions the modules name. Those say that the special values are none of the
ordinary ones (`NoGameAssumption`, `NoFileAssumption`, `GoneAssumption`, ...), that
bounds are numbers, that a capacity has room for one record (`CapacityAssumption`),
that the mod's game is a game. TLC evaluates them in the runs.

| Module | Theorem | States |
|---|---|---|
| `SystemProofs` | `TypeCorrect`, `OneResult` | `TypeOK`, `OneResultPerConnection` |
| | `FreshCatalogue`, `OneLaunch`, `StopKnowsRegistered` | `CatalogueFresh`, `OneLaunchPerConnection`, `StopUnregistersAll` |
| | `NotOnTag`, `Checkpointed`, `ContextsGiven`, `NotReplayed` | `CursorNotOnTag`, `ForceCheckpointed`, `NoContextPassed`, `NoReplay` |
| | `InSessions`, `NotStale` | `InboxInSessions`, `NoStaleResult` |
| | `OneAnswer` | `AnsweredOnce` |
| | `SystemIsRelay`, `RelayGuaranteesInSystem` | `SystemSpec` implements `Spec` of `Relay`, whose invariants hold in it |
| `OutboxTailerProofs` | `WholeLines`, `HeldBackUpToStartup` | `RotatedWhole`, `ClearsUpToStartup` |
| | `OneLog` | `ImplementsLog`: the files refine `OutboxLog` |
| `InboxFileProofs` | `InOrderRead`, `OnceHandled`, `TwoRotations` | `ReadsInOrder`, `HandledOnce`, `LostByTwoRotations` |
| | `AnswersAfterReview` | `AnswersFollowReview` |
| `ForceWindowProofs` | `ExactMirror`, `TruthfulAnswers`, `OffForGood` | `MirrorExact`, `Truthful`, `WithdrawnForGood` |
| | `NoForceUnknown` | `NoOverlap` |
| `RelayProcessProofs` | `NumbersFound`, `NumbersFresh`, `OneDirectory` | `NumbersKept`, `FreshNumbers`, `SameDirectory` |
| `QueueBudgetProofs` | `ExactBudget`, `InOrder` | `BudgetExact`, `LinesInOrder` |
| `ContextDeliveryProofs` | `OnceOnly`, `RulesBeforeForces` | `ToldOnce`, `RulesFirst` |

Next to none of these is inductive. The invariant each rests on, and why:

- **`SystemProofs`, `IInv`.** `OneResultPerConnection` speaks of `wire` only. That a
  second result is not sent rests on `pending.answered` holding every id with a
  result on the running connection (`Observed`), except the one just sent while the
  consumer is between send and observation; `WireOK`, `LaneOK` and `ConsumerOK` keep
  positions inside the outbox.
- **`SystemProofs`, `WireInv`.** A frame is right because of where the consumer
  stood: `Started` (the first frame of the connection is the startup of the lane, all
  are of its game), `Reader` (between the tail and the next record are only tags; the
  startup sent ahead is still to come or met), `LastSent` (between a send and what
  follows it the last frame is the one sent), `CaughtUp` (the last startup passed is
  on the wire), `Resting` (no place a session may resume at is a tag before its
  startup), `Behind` (the durable cursor does not run ahead of the consumer), `GivenUp`
  (a context before the tail was given to a socket),
  `Memory` (while it is not full, what the tracker remembers is what was attempted),
  `Knows` (an action in the inbox since `since` is delivered or of an earlier
  connection in the tracker), `Registered` (at every step, not only where a stop may
  come).
- **`SystemProofs`, `SystemInv`.** The outbox says too little: a line in the fifo may
  still reach the disk. `Answering` is about the log, outbox and fifo together: its
  results are of actions the mod has read and owes no more, each once, so a quit that
  writes results for what it owes adds new ones. `Delivered` says that an action is in
  the inbox once, so a poll that moves on never meets one again. A fifo is a sequence
  of sequences, so the first lemmas of that part are about `FlattenSeq`.
  For `SystemIsRelay` a step of the mod is an append of some records to the outbox, and
  every other step is one of `Relay`; its hypothesis fixes `Writes`, which `SystemSpec`
  does not use, to all sequences of records.
- **`OutboxTailerProofs`, `IInv`.** `FilesInv`: the two files are the end of the log,
  whole lines, one after the other. `CursorInv`: the cursor is of the file its
  fingerprint begins with, whichever file has its inode now. `SessionInv`: the place of
  the consumer is in a file, or at the end of one that is gone with nothing to save
  (`Live`, `Loose`), the queue is what comes next, the reader goes on behind it. The
  last two hold until `lagged`, as the refinement does: past that point the inode of
  the cursor may be another file's, see `OutboxTailer` above. Each step then maps to a
  step of `OutboxLog` or to a stutter. `StartInv` adds what is known of the startup
  that was sent ahead: a file with its inode is its file or a later one, so an offset
  below its own is a line before it.
- **`InboxFileProofs`, `RelayInv` and `ModInv`.** The relay's half: newlines are in the
  order of the appends, through both files (`Sections`), and a line ends where the
  open handle does (`Handle`). The mod's half: its position is behind the last line it
  read, in the file that was begun after `next` renames, and the bytes before it are
  the anchor (`Position`, `Anchored`); what its buffer holds comes next (`Buffered`),
  also when the relay moves during a poll (`Turned`). A step of one half keeps the
  other, so the two are proved apart.
- **`InboxFileProofs`, `MarkInv`.** For the mark of a review offsets must count lines. In
  the model a line is two cells, the second its newline (`Paired`), and the lines lie
  behind one another over the files that are gone, `.1` and the inbox (`Layout`). The
  mark is set to the lines taken plus what was measured of both files in up to four
  steps, between which the relay moves; `Measured` says what has been counted so far.
  Two facts follow once it is set. `Due`: the mod has come as far as some line `J`, and
  those behind it that were on disk when the review landed are below the mark, whichever
  of them it skips; so none of them answers. `Following`: the mark is not beyond the
  lines there were when it was set, so what comes later is not refused. The second has
  the two exceptions of the property (lines skipped, a torn record in the inbox), and one
  that is not in it: the file of the mod is gone and it has nothing left of it
  (`Doomed`), a state the mod leaves only with lines skipped, before it takes another.
- **`ForceWindowProofs`, `IInv`.** `Sound` says of tables and server together what a
  handler keeps in its middle: the mirror is exact, every open force offers a
  disposable action, an id is owed once. A handler is a composition of operators on
  tables and server, so each has a lemma and the actions follow. `Accounted` ties ids to
  the answers they got. `NoForceUnknown` rests on `Offering`: an answer that ends the
  window takes one of its disposables off, and with it the force of the server.
- **`RelayProcessProofs`, `IInv`.** `Holds`: a marker as large as the number is on
  disk and no other task is about to remove it. `Marked` says so for the number of a
  task, `Lasting` for the number given last and, on unix, every content a loss of power
  may leave, `Fresher` that the number of a task that holds the lease is larger than every
  one given; tasks that outlive their process are why the first is not about the
  lease.
- **`QueueBudgetProofs`, `IInv`.** `Shape`: what each task holds follows from where it
  waits, all of it is of lines of the file, and only startups sent ahead are in the
  first lane. `Accounts` is the budget with the sizes of the lines as a function of
  their place, so that an append to the outbox moves nothing (`HeldKept`). `Lined` says
  for each place a line may be at which one it is, counted from `handled`: in the hand of
  the consumer, in the lane, in the batch of the tailer. A step moves a line
  from one place to the next and a count with it. `Accounts` and `Lined` hold while the
  session lives; its end drops lanes and budget alike.
- **`ContextDeliveryProofs`, `IInv`.** `ToldOnce` says that `twice` is empty, which
  nothing keeps so by itself. `Good`: a context waits once and not after it was
  accepted (`Waiting`); the order of a class is its last accepted contexts, the oldest
  first, so that the age of a context is its distance from the end (`Aged`, `Known`);
  `delivered` is what the orders hold, and the guides (`Retained`). Hence a context that
  waits is not remembered, and a commit repeats nothing. `Better` says of an operation
  that it leaves the tables good and forgets no context, which the compositions of
  `enqueue`, `fail_attempt` and `step` pass on (`OfferFact`, `FailFact`, `TriedFact`), and
  with which `RulesFirst` outlives every step.

What the attempts to prove changed in the modules:

- `NoStaleResult` and `NoReplay` had been stated from the session of the process; a
  connection for another game makes the tracker anew, and from there on both failed.
  `since` now moves with it.
- `NoContextPassed` had been stated of every context; with launches of two games the
  relay drops the contexts of the game it has not bound, so it now speaks of the case
  that all launches are of one game (`OnlyGame`).
- `RegisteredOn` says by which frames a registration was withdrawn and not, by
  recursion, what is left after each frame: the same set, without the absent id.
- `BudgetExact` had excepted a tailer that died with a line reserved; that line is now
  counted where it is (`Reserved`), and the budget is exact without exception.
- `LinesInOrder` says of each place which line it holds, where it had filtered the
  queue, and says that a startup sent ahead is alone in its batch. Sums and the frame of
  `ContextDelivery` are recursive functions (`Total`, `Tried`), where they were folds with
  an operator for argument; an entry is taken out by its place.
- `OutboxTailer` and `InboxFile` compared file ids with `Gone` and offsets with
  `NoFile` without saying that these are no ids and no offsets; they assume it now.

Induction over numbers is used as a fact about sets of them: `NumberFacts` derives it
from the strict inclusion of finite sets, which is well-founded.

Only model-checked:

- liveness, which is beyond the prover (`ActionsAnswered`, `Settles`, `ForcesComeAgain`
  and the others the runs name);
- the four violations.

## Not modelled

See the components of `PROJECT.json`. In short:

- `gate.lua` and the review of plays in `validate.lua`: proposals and when to ask again
  (in the plan).
- The gameplay journal and the once-only gates of facts (in the plan).
- The transition cooldown, the signatures of schemas.
- Parsing of frames and records, the URL and the TLS and socket calls with their time
  limits: a send succeeds or fails, a session may be lost, a record is of a kind or
  is junk. `InboundSpoolBudget`, a rate of appends over time.
- Game text, handlers, drawing, recorders: no protocol of their own, or calls into
  Balatro.

## Plan

Done: `Ipc`, `Relay`, `Mod`, `System`, `OutboxLog`, `OutboxTailer`, `InboxFile`,
`ForceWindow`, `QueueBudget`, `RelayProcess`, `ContextDelivery`, and the proofs above.

Next, in this order:

1. `PlayReview`: `gate.lua` and the review in `validate.lua`, whose proposals join the
   window of a force (the mark of its answer is in `InboxFile`).
2. `GameplayJournal`: outcomes entered once, in the run they belong to.
3. `DecisionBudget`, `GameLiveness`: the limits on asking, the heartbeat judgement.
