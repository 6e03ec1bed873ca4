# A formal model of Qingqi

Qingqi is a desktop launcher with a set of plugins (Rust, GPUI). Most of it is forms and
conversions; what is hard to get right is small and sits in a few services that several
threads, tokio tasks, child processes and network connections share. This directory holds
TLA+ models of those services, the TLC configurations that check them on small instances,
and TLAPS proofs of the results that hold for every instance.

All source paths below are relative to `src/crates/`; `PROJECT.json` maps every definition to
the lines it stands for.

    tlasany M.tla                        # parse
    tlc -workers 2 -config X.cfg MCY.tla # one run, see the table of runs
    tlapm M_proofs.tla                   # the proofs of a component

---

## 1. Inventory

### The process

There is one application process. GPUI runs the **UI thread**: windows, views, and most
service calls; tasks of a view run there too, and hand slow work to a pool of threads. A multi-threaded **tokio runtime** runs the SSH plugin, the quick-launch runs
and the capture proxy; the API debugger, the application index and the downloads use plain
**threads**. Services are `Arc`s with `std::sync::Mutex`es inside, locked for short blocks and
never across an await, plus one `tokio::sync::Mutex` (the SSH connection pool) that *is* held
across awaits. Outside the process there are servers, the child processes of quick-launch
actions, and, on macOS, one **Dock agent** process per plugin that wants an icon of its own.
Everything stored goes to SQLite, one statement (or one explicit transaction) at a time.

### Components

| component | where | state | operations | talks to | hard behaviours |
|---|---|---|---|---|---|
| event bus | `qingqi-plugin/src/events.rs` | revision counter, last event, subscriber list | `publish`, `subscribe`, drop of a receiver | every plugin | `publish` is three critical sections |
| SSH and FTP sessions | `qingqi-feature-ssh/src/{service,connection}.rs`, `protocol/` | sessions, connection pool, disconnect channel, protocol objects with their handles | open, close, browse/transfer/type with reconnect, disconnect notices, shutdown | servers, russh callbacks | a lock held across dials, notices that name no connection, teardown racing reconnects |
| SSH transfer queue, terminal, views, profiles | same crate | progress table, emulator, rows | – | sessions | none of their own: progress for the view, rows of one thread |
| API debugger: sending | `qingqi-feature-api-debugger/src/service.rs`, `view/request.rs` | generation, in-flight flag, pending response and error, variable store, history | send, worker thread, cancel, drain | server, SQLite | late answers, cancel against publish, writes outside the lock |
| API debugger: workspace | same crate, `{service,data_source}.rs`, `view/` | rows of the collection and of the environments, pending reloads, the panel with its positions and editors | create, import, copy, rename, save, delete, reload, select, edit | SQLite | a thread per command, reloads that replace what positions point at, deletes of many statements |
| API debugger: importers, editors, scripts | same crate | – | parse, format | – | sequential |
| quick-launch runs | `qingqi-feature-quick-launch/src/service.rs` | execution table, pids, `Notify`s, rows | start, run, stop, time out, delete, shutdown | child processes | three tables with a lock each, `select!` |
| plugin windows and Dock agents | `qingqi-app/src/app/{window_controller,dock_agent}.rs` | window table, leases, generations, restart counts | open, activate, close, agent lines | GPUI, agent processes | deferred releases, lines of dead agents |
| application index and launcher | `qingqi-app/src/app/{app_index,app_index_store,launcher}.rs` | apps in memory and in a table, scan flags, probe; query, last and pending query, timer, results; command catalogue | probe, request and force a refresh; open, type, search, open and close a view, event loop | event bus, SQLite, disk | two refreshes at once, a debounced search, a window that subscribes late |
| clipboard history | `qingqi-feature-clipboard/src` | last seen values, config, rows with a full-text index, picture files; list, load and task of the panel | poll, capture, pin, delete, prune, search, page | OS clipboard, SQLite | a snapshot read under a lock that is released before it is used; commands of several statements |
| UI toolkit: text input | `qingqi-ui/src/components/input/` | text, composition, undo and redo stacks, mask, lock | typing, editing, undo, input-method calls, calls of the owner | every form | four callers of one document, grouped changes, marked text |
| HTTP capture | `qingqi-feature-http-capture/src/{engine,proxy_handler,store,view}.rs` | engine state, proxy threads, stored exchanges; page, filter, selection and task of the panel | start, stop, record, announce; refresh, turn, filter, select, clear | proxy threads, SQLite, event bus | a start that times out, reads that overtake events, a task that replaces another |
| tray, network speed | `qingqi-feature-tray/src/service.rs` | address, generation, popup | enable, refresh, popup | HTTP, GPUI | answer after disable |
| downloads | `qingqi-feature-download-manager/src` | active map, rows, segments | start, pause, resume, cancel, schedule | HTTP, SQLite | final status against pause |
| plugin manager, registry | `qingqi-core/src`, `qingqi-app/src/core` | plugin table, command cache | register, open, close idle, shutdown | plugins | panics of plugins |
| database pools, settings, dictionaries, themes | `qingqi-plugin/src`, `qingqi-core/src` | pools by path, rows | – | SQLite | a pool built twice |
| runtime, background loops, shortcuts | `qingqi-app/src` | – | polling and wiring | everything | none of their own |
| command catalogue, usage | `qingqi-app/src/core`, `qingqi-core` | counters | rank | launcher | none |
| remote control | `qingqi-feature-remote-control/src` | sessions of a server | forward a request | OS | none of their own |
| small tools, drawing, platform layer | the remaining crates | – | – | – | sequential, or the operating system |

### What makes each of the modelled components correct

* **Event bus.** A live subscriber gets every event drawn after it subscribed, once, and all
  subscribers get common events in one order, although that is not revision order.
* **SSH sessions.** A tab behaves as a tab: one verdict, nothing after close, failed is final.
  Nobody dials or tears down through the pool but the holder of its mutex; the pool hands out
  only connections that finished connecting, for their own profile and role; a tab works over
  its own profile's connections. Opens and teardowns end.
* **API sends.** One request at a time; a cancelled or superseded one is never shown; the slot
  is never stuck; a value extracted from a shown answer is what later requests resolve.
* **API workspace.** What the panel draws exists, whatever a reload replaced and whichever read
  failed; the one way out is a stale row of the environment editor, which ends the application.
  After commands that did not overlap, and whose reads succeeded, the panel shows what is
  stored, no row is without its parent, and an environment is left.
* **Quick-launch.** One run of an action at a time; no process survives its run, unless the
  SIGKILL to it failed, as every signal does off Unix; the pid found in the table is the current
  run's; a stop that signalled a run ends it.
* **Windows and agents.** One window per plugin; leases count windows; no icon without a window
  and no window without its icon, unless its agent failed twice or could not be spawned; a line
  of an earlier agent changes nothing; quitting the icon closes the window.
* **Index and launcher.** Once no refresh runs, memory and table agree. The list answers the
  query in the field once its search has run, and at rest it is of the tables as they are.
* **Clipboard.** Table and index stay in step, whatever was cut short. What counts as seen was
  recorded. A late command falls on the item it was meant for. A pinned item stays. On macOS
  and Windows, which count the changes of the clipboard, a copy that remains on it is recorded in
  the end, unless there is nothing of it to record or Windows refused to open the clipboard for
  the read; elsewhere only an opened panel records.
* **Text input.** Undo and redo go exactly through the documents there were, also around
  compositions, masks and refused edits, and from a selection that lies past the end. A locked
  document does not change.
* **Capture.** No proxy runs that nobody can stop. Once all is handled, the panel lists what
  the store holds. The details shown are those of the exchange selected, which need not be in
  the list: the tree view selects any that was stored.

---

## 2. Modules

| module | models | state ↔ code | actions ↔ code |
|---|---|---|---|
| `EventBus` | `AppEventBus` | `revision`, `lastEvent`, `subscribers` are its fields; `pc`, `held` the threads inside `publish`; `sent` the channels | `DrawRevision`, `StoreLast`, `Broadcast` are the three steps of `publish`; `Subscribe`, `DropReceiver` |
| `SessionLifecycle` | abstract: what one tab promises | `status`, `awaited` | `Open`, `Verdict`, `Lose`, `Restore`, `Close` |
| `SshSessions` | `SshService`, `ConnectionPool`, the SSH and FTP protocol objects | `status`, `proto`: `SessionState`; `pool`, `lock`: `ConnectionPool`; `handle`, `key`, `ready`: the protocol objects; `notices`: the broadcast channel; `task`: the tokio tasks | per task: `Reuse`/`Dial*` (`get_or_connect`), `Drop*` (`disconnect_all`), `BeginTerminal`…`Restore` (open task, operations), `Ftp*` (`connect_ftp_session`); `OpenSession`, `CloseSession`, `UseFiles`, `UseTerminal` (UI); `ServerDrops`, `HandlerEnds`, `ArcDropped` (network, russh, reference counts); `Deliver` (the listener); `Shutdown*` |
| `ApiSlot` | abstract: the request slot | `sent`, `busy`, `answer`, `error` | `Send`, `Answer`, `Cancel`, `TakeAnswer`, `TakeError` |
| `ApiSend` | `ApiService::send_request`, `cancel_request`, the drain of the view | `generation`, `inFlight`, `response`, `error` are the fields; `worker` the threads; `stored`, `history` the tables; `ui`, `view` the UI thread | `LoadStore` … `Record` (the thread, in order); `Send`, `CancelBump`, `CancelFree`; `Render`, `TakeResponse`, `TakeError`, `ShowButton` |
| `QuickRuns` | `QuickLaunchService` | `running`, `activePid`, `notify` are its tables, `permit` the state of the `Notify`s, `run` the tasks with their processes | `Start`, `MarkRunning`, `Register`; `Spawn` … `Clean` (the task); `StopMark`, `StopTerm`, `StopNotify`; `DeleteCheck`, `DeleteRow`; `ShutdownRead`, `ShutdownSignal` |
| `PluginWindows` | `WindowController`, `DockAgentManager`, the agents | `table`, `entry` are their maps, `window` the GPUI windows, `agent` the processes and the lines they wrote | `Open`, `CloseByUser`; `OnActivate`, `OnQuit`, `OnExited` (`handle_dock_agent_event`); `ClickIcon`, `QuitIcon`, `StartupFails`, `Crash`, `Obey` (the agent) |
| `ApiTree` | the collection as data: rows, the tree built of them | pure operators | – |
| `ApiWorkspace` | the commands on collection and environments, the reload, the panel | `rows`, `envs` the tables; `job` the statements each command thread has left; `pending` what a reload left for the panel; `panel` the panel with positions and editors, and `listed`, how many rows an environment editor may show; `panicked` the end by `expect` | `Insert` … `LeaveForPanel` are the statements and steps of the threads (`Commands`); `TakeGroups`, `TakeEnvs` the panel taking a reload; `Select`, `CreateEndpoint` … `Reopen` the user; `SelectMissing` a stale row of the environment editor |
| `UndoHistory` | abstract: what an editor promises about undo | `past`, `doc`, `future`: documents | `Edit`, `Amend`, `Undo`, `Redo`, `Reset` |
| `MaskPattern` | the masks of a field: pattern and number | pure operators | – |
| `TextInput` | the document of an `InputState` | `text`, `marked`, `original` (`ime_initial_state`), `undo`, `redo`, `grouping`, `locked` are its fields; `past`, `future` are history variables: the documents the stacks stand for | one action per key, menu entry, input-method call and call of the owner: `Type`, `DeleteChar`, `Enter`, `Indent`, `Compose`, `Commit`, `Unmark`, `Escape`, `SetValue`, … |
| `ClipboardStore` | `data_source.rs`: a command as the sequence of databases its statements leave | records `rows`, `index`, `next` | `AddSteps`, `DeleteSteps`, `PinSteps` |
| `ClipboardHistory` | the poll, the panel, faults, over that store | `seen`: `last_seen_*`; `loop` the poll between its lock and its use; `panel` the `ClipboardView` with its load and its task; `clip` the system clipboard; `platform` what the program is built for | `Copy` (programs); `Poll` = `PollCount`, `PollContent` and the recording; `OpenPanel` … `EndTask` (view); `Crash` |
| `AppIndex` | `AppIndexService` and its table | `memory`, `scanning`, `icons`, `error` are `AppIndexState`; `store` the table; `at`, `found` the refresh threads; `probe` | `Walk`, `PublishEarly`, `Save`, `Finish` (a refresh); `ProbeRead`, `ProbeCompare`, `ProbeRequest`; `ForceRescan`; `Install` (the world) |
| `Launcher` | extends `AppIndex` with the launcher window, its event task, the command catalogue | `window`: fields of the launcher; `events` the receiver; `offers`, `catalog` the commands of the plugins and the table of them | `OpenWindow`, `Listen`, `EditQuery`, `Timer`, `OpenView`, `CloseView`, `Show`, `CloseWindow`, `HandleEvent`; `SaveCommands`, `AnnounceCommands`; `Restart` |
| `CaptureEngine` | `CaptureEngine` | `engine`: `proxy_state` and `shutdown_tx`; `proxy` the threads; `starting`: the start that waits | `Bind`, `Build`, `Started`, `StartFails`, `StartTimesOut`, `Stop`, `Ends` |
| `Capture` | extends it with the handlers of the proxy, the store and the panel | `rows` the store; `view` the panel with its one task and its event task; `loose` clears that run on without a task | `Record`, `Announce` (proxy); `ReadPage`, `ShowPage`, `ClearStore`, `EndClear`, `ReadDetail`, `ShowDetail`, `Listen`, `Collect`, `HandleEvents` (tasks); `Open`, `Close`, `Filter`, `Turn`, `Select`, `ClearAll`, `StartProxy`, `StopProxy` (user) |
| `*_proofs` | – | – | the theorems, section 5 |
| `MC*` | – | – | the instances TLC checks |

Conventions. A block under a `std` mutex is one step, because nobody else can see its middle;
everything between two such blocks is a step of its own, and so is every SQL statement outside
a transaction where another thread or a failure may come between. A callback of the UI thread is
one step where no other thread writes what it reads; in `PluginWindows` the removals and
releases GPUI defers to the end of the callback are part of the step. A task of a view is cut at
each await. Definitions marked `(Fault: …)` are variants of the definition after them that a
plausible mistake would give; they are used by no action and serve to test that the properties
notice. Variables marked *history variable* are read by properties only: they record which
hazard of section 6 has happened, or what the implementation no longer remembers.

Abstractions worth knowing:

* Connections are objects with a handle state. A dropped connection the server ended keeps
  its handle (`lost`), since `is_connected` (`protocol/ssh.rs:547`) only tries the mutex and
  looks for `Some`; a *busy* handle counts as dead for the same reason. Objects nobody refers to
  are recycled, so three of them stand for arbitrarily many over time.
* `list_directory` ensures its connection twice; the second time is another `UseFiles`.
* The contents of terminals, files, requests and processes are nondeterministic outcomes.
* A text of a request, a variable table or an environment is named by the row it was first
  written in, so that "the editors of one request in the row of another" can be told; what is in
  a text is left out. An application is its path; a clipboard item is what of it is recorded.
* A failure or a crash inside a clipboard command ends it after any of its statements
  (`ClipboardStore` gives them as a sequence), which includes none and all of them.
* In `TextInput` offsets count characters, so that clipping to a character boundary is clipping
  to the length; every edit is one of any range, so that the selection need not be kept. A
  composition remembers any selection too, one past the end included (`Selections`), which is
  what `indent` leaves of a tab that was refused (`indent.rs:122-131`).
* A process that was sent a SIGKILL is `killed`, or `spared` when the signal failed: off Unix, or
  for a process of another user. Nothing in the code tells the two apart, since every result of
  `signal_process` is dropped.
* The environment editor is a window of its own whose rows are those of its last drawing. When
  it draws is not modelled: `listed` is the longest list since the panel last chose an
  environment, and any row up to it may be clicked.
* `stopping_action_ids` (quick-launch) is written and never read, and left out. So are
  `last_event()`, `cancel`/`dequeue_next`/`has_capacity` of the transfer queue, and
  `clear_all`/`clear_unpinned` of the clipboard, which have no caller.

### Order and plan

Done, in the order of what matters most to a user: the sessions (largest and hardest), the
request slot, the runs, the windows and the bus they all use; then the index with the launcher,
the clipboard, the document of every text field, the workspace of the API debugger, and the
capture. Next:

1. `TrayPublicIp` (`qingqi-feature-tray/src/service.rs:214-287`): disabled means the address is gone.
2. The plugin manager composed with `PluginWindows` (close-idle hooks, leases).
3. The downloads, once their store opens (section 7).

---

## 3. Runs

| run | instance | states | shows |
|---|---|---|---|
| `event_bus` | 2 publishers, 2 receivers, 3 events | 41,171 | `NothingLost`, `SameOrderEverywhere` |
| `ssh` | 1 SSH tab with its open, its close and user operations, 3 connections, channel of 1 | 1,055,603 | `OneAtATime`, `PooledIsReal`, `OwnConnection`, the refinement of `SessionLifecycle` |
| `ssh_live` | the same tab without operations, and a shutdown; fairness | 26,384 | `OpensAndClosesEnd` |
| `ftp` | 2 tabs on one FTP profile, 2 connections | 25,169 | the refinement on the FTP path, where two opens share a key |
| `api` | 3 requests, 1 cancel, 1 variable; fairness | 351,560 | `ChainedValues`, `ShownAdvances`, the refinement of `ApiSlot`, `SlotIsFreed` |
| `workspace` | 3 stored rows, 2 threads, 5 node ids, 3 environment ids, 4 clicks, 2 once commands overlapped or a read failed | 1,216,220 | `Renderable`, `ShownIsStored`, `NoOrphans`, `KeepsOne` |
| `quick` | 1 action, 2 runs, a stop, a deletion, a shutdown, signals that reach the process or fail; fairness | 1,361,442 | type, `OneRunEach`, `PidIsCurrent`, `NoOrphan`, `StopIsHeard` |
| `windows` | 1 plugin with an icon, 1 that reopens in the active space; 3 windows, 1 failed spawn, 1 unread line per agent; fairness | 42,792 | `WindowsAreCounted`, `IconFollowsWindow`, `StaleAgentIsHarmless`, `QuitCloses` |
| `launcher` | 1 application, 2 refresh threads, 3 queries, 5 events | 2,746,611 | `IndexAtRest`, `AnswersQuery`, `ListIsFresh` |
| `clipboard` | 3 platforms, 4 kinds of content, 3 copies, 1 fault, 2 actions, 4 events together, history of 2, page of 1; fairness of the poll | 685,942 | type, `InStep`, `SeenIsKept`, `SameItem`, `PinsStay`, `Watched` |
| `input` | editor, single line, masked and number field; texts of up to 3 characters (a number 2), selections up to 1 past the end, 2 changes in the stacks | 232,659 | `Consistent` (with the type), the refinement of `UndoHistory` (`UndoIsExact`), `LockedDocument` |
| `capture` | 2 proxies, 2 exchanges, page of 1, 5 clicks, 1 failed statement | 4,821,363 | `NoGhostProxy`, `ListIsCurrent`, `DetailMatches` |

**What the properties are conditional on.** Some properties hold except after a hazard the code
does not guard against, and say so by a history variable: `IndexAtRest` except when forced
refreshes overlapped; `AnswersQuery` allows the one query searched for without being remembered
(`strayed`); `ListIsFresh` except for an event published before the window subscribed (`missed`,
`unheard`) or for which the catalogue could not be rebuilt (`unheard`); `ShownIsStored`,
`NoOrphans` and `KeepsOne` for commands that did not overlap and reloads whose reads succeeded
(`orderly`); `Renderable` until a stale row of the environment editor is selected (`panicked`);
`ListIsCurrent` except after a clear whose task was dropped (`unseen`);
`NoOrphan` except for a process whose SIGKILL failed (`spared`); `Watched` only where changes
are counted, and except after a read that had nothing to record or found the clipboard closed to
it (`skipped`); `SeenIsKept` with that exception too, and except when the
disk was full and cut the file of a picture off, or a delete or a prune took the item; `HistoryFits` except when an edit took a
composition for the document (`interrupted`). Section 6 describes each of these; without its
condition each of those properties is false of the code.

**Bounds.** Every bound is a constant with the word *bound* beside it, or the size of a set of
model values.

* `event_bus`: two publishers reorder in every way two can, and the third event lets a
  subscription or a dropped receiver fall between two others.
* `ssh`: the three tasks of a tab (open, close, use) are every kind of task there is, so every
  pair of kinds meets at the pool. Three connections are the pooled one, one in use and one
  being dialled or ending; with fewer the third state is unreachable. A channel of 1 overflows
  at once, which 64 would need 65 notices for: what a lost notice does is the same. `ftp` adds
  what two tabs share.
* `api`: with three requests, an abandoned one, a published one and one in flight coexist,
  which is what `ChainedValues` relates; a second cancel repeats the first.
* `workspace`: the stored rows are a folder, a request in it and a case of that, so that each kind
  has something above or below it to lose and a delete goes three rows deep; five ids let a command
  create two rows more. Two threads
  are the overlap; after the first overlap or failed read, which ends what three of the
  properties claim, two clicks are left for `Renderable`. What those three say of overlapping
  commands is therefore nothing; what the overlaps do is in section 6.
* `quick`: two runs are the one that ends and the one that follows it; each operation that may
  interfere (stop, delete, shutdown) occurs once in every place.
* `windows`: three windows are the one replaced, its replacement and the next one; three or more
  agents of one plugin occur through restarts. No registered manifest asks for an icon *and*
  the active space, so no instance has both; more than one lease of a plugin does not occur, so
  that counting beyond one is left to the proof (`LeasesCount`).
* `ssh_live`: one tab without operations, so the waits are those of its open, whose first listing
  holds the connection, its teardown and the shutdown, for the pool and for a connection's
  mutexes. Tabs of other profiles would only wait for the same pool mutex, whose holder waits for
  nobody but a connection in use; how long they wait is not claimed. With operations the
  instance needs more connection objects than a liveness check can bear.
* `launcher`: one application present or not is two different tables; two threads overlap; three
  queries are the empty one and one that is reached from another by an edit and by closing a
  view. Five events are an opened window, an edit, a view and two changes behind its back.
* `clipboard`: the four kinds of content are those `capture_snapshot` tells apart (plain text,
  text that lists files, files, picture), and the names of the files are a text to ignore, which
  shows once files are not captured; three copies over a history of two prune
  one; four events let one be pinned, copied again and cut short.
* `input`: a text of three characters has room for an edit before, inside and after a
  composition; two changes let one be undone over another, and be dropped by a third. A number of
  two characters loses a second dot and a sign behind a digit. A selection
  one past the end is clipped like one further out (`MaxPast`; the proofs have it any number).
* `capture`: a second proxy is the one started while the first is late or ending; a page of 1
  with two exchanges has a second page; one failure, since a second starts from the same state.

**Deadlock** is checked in `ssh`, `ssh_live`, `ftp`, `api` and `input`. It is off in the others,
whose bounded instances stop when their events, runs, windows or clicks are used up.
`SshSessions` has an explicit `Rest` step for a plugin with nothing under way; a stuck task would
deadlock it. The `api` run never stops because the view may always render.

**Symmetry** is used in `ssh` (connections are interchangeable; the refinement does not speak of
them) and in `workspace` (threads), both without liveness properties.

## 4. Fairness

* `EventBus`, `TextInput`, `Launcher`, `ApiWorkspace`, `Capture`: none; no liveness is claimed.
* `SshSessions`: strong fairness of the steps of each task. tokio mutexes are FIFO, so a task
  that waits for the pool gets it however often others take it (weak fairness would not give
  that); every dial, authentication and transfer ends, by an answer, an error or a timeout.
  Nothing is asked of users, servers or the shutdown.
* `ApiSend`: weak fairness of each thread's steps (the scheduler; the HTTP client gives up after
  30 s) and of the second half of `cancel_request`, which is the same function call. Nothing is
  asked of the user, nor of the view, which renders when something makes it.
* `QuickRuns`: weak fairness of each task, except that `select!` owes a step only once its
  `Notify` was signalled: a process may run for ever, and a timeout is optional.
* `PluginWindows`: weak fairness of reading an agent's lines. Nothing has to be clicked or crash.
* `ClipboardHistory`: weak fairness of the steps of the poll (it reads the count, it reads the
  content, what it read is recorded or fails), which is a loop on the runtime with a timer. A
  crash starts it again. Nothing is asked of programs, of the user or of the panel.

---

## 5. Theorems

For every value of the constants that satisfies the named assumptions of the modules: the
constants have the types the code gives them, and `None` is none of the values it is told from
(`BusAssumption`, `SessionsAssumption`, `ApiAssumption`, `RunsAssumption`, `WindowsAssumption`,
`IndexAssumption`, `LauncherAssumption`, `WindowAssumption`, `EngineAssumption`,
`PageAssumption`, `StoreAssumption`). Three say more about the data. `ClipboardAssumption`: the
patterns that exclude content apply to texts only, as in `capture_snapshot`: no picture and no
list of files, copied or named by a text, is excluded; the hash of a picture is no change count.
`InputAssumption`: tabs and what is pasted are texts, a tab holds no line break, and a mask is made
of its separators and of the tokens that take a character. `WorkspaceAssumption`: the rows the
application starts with are what commands that did not overlap left: every row has its parent,
which is older, and ids were given out in order.

| module | theorem | states |
|---|---|---|
| `SshSessions_proofs` | `TypeCorrect` | `[]TypeOK`, with the channel within its capacity |
| | `LockExclusive` | `[]OneAtATime` |
| | `PoolSound` | `[]PooledIsReal` |
| | `ConnectionsSeparate` | `[]OwnConnection` |
| | `Implements` | `Spec => Refinement`: the sessions implement `SessionLifecycle` |
| `ApiDebugger_proofs` | `TypeCorrect` | `[]TypeOK` |
| | `SlotOwned` | `[]SlotHasOwner` |
| | `CancelFinal` | `CancelWins` |
| | `ValuesChain` | `[]ChainedValues` |
| | `ViewAdvances` | `ShownAdvances` |
| | `Implements` | `Spec => Refinement`: the sends implement `ApiSlot` |
| | `WorkspaceTyped` | `[]Runs`: the type of the workspace, until a panic |
| | `AlwaysRenderable` | `[]Renderable` |
| | `AlwaysOrderly` | `[]Remains`: the types of the rows and the invariant of commands that do not overlap |
| | `PanelShowsStored` | `[]ShownIsStored` |
| | `NoRowIsOrphaned` | `[]NoOrphans` |
| | `LastEnvironmentKept` | `[]KeepsOne` |
| `Launcher_proofs` | `TypeCorrect` | `[]TypeOK`, index and launcher together |
| | `IndexSettles` | `[]IndexAtRest` |
| | `ListAnswers` | `[]AnswersQuery` |
| | `FreshAtRest` | `[]ListIsFresh` |
| | `BusTypeCorrect` | `[]BusTypeOK` |
| | `BusComplete` | `[]NothingLost` |
| | `BusAtMostOnce` | `[]NoDuplicateDelivery` |
| | `BusOneOrder` | `[]SameOrderEverywhere` |
| `QuickRuns_proofs` | `TypeCorrect` | `[]TypeOK` |
| | `RunsAlone` | `[]OneRunEach` |
| | `PidSound` | `[]PidIsCurrent` |
| | `NothingLeft` | `[]NoOrphan` |
| `PluginWindows_proofs` | `LeasesCount` | `[]WindowsAreCounted` |
| | `IconsFollow` | `[]IconFollowsWindow` |
| | `StaleLines` | `StaleAgentIsHarmless` |
| `ClipboardHistory_proofs` | `TypeCorrect` | `[]TypeOK` |
| | `TablesAgree` | `[]InStep` |
| | `SeenKept` | `[]SeenIsKept` |
| | `SameItems` | `[]SameItem` |
| | `PinsAreSafe` | `PinsStay` |
| `Capture_proofs` | `NoGhosts` | `[]NoGhostProxy` |
| | `ListCurrent` | `[]ListIsCurrent` |
| | `DetailsBelong` | `[]DetailMatches` |
| `TextInput_proofs` | `HistoryAgrees` | `[]Consistent`, which has the type in it |
| | `UndoExact` | `Spec => UndoIsExact`: the input implements `UndoHistory` |
| | `LockedKeeps` | `LockedDocument` |

The type invariants of the bus, the sessions, the sends, the workspace and the launcher are proved
and not run; so are `BusAtMostOnce`, `SlotOwned` and `CancelFinal`. The theorems on the bus stand in
`Launcher_proofs`, over the variables of `EventBus`, which share no name with the launcher's.

**The argument for the sessions.** None of the properties is inductive by itself: that a pooled
connection is real depends on what the task that put it there held, which depends on where it
came from. The invariant `Inv` of `SshSessions_proofs` adds

* `GoalOK`: a task is where its goal may lead it and holds the connections it needs there
  (a task at `dial` has one for its role, one at `working` has one for files, …);
* `Started`: a session that was not opened has no open task and one that is not closed has no
  close task, so what `OpenSession` and `CloseSession` spawn replaces no task under way;
* `Keyed`: whoever refers to a connection — pool, session, task — refers to one created for that
  profile and role. Only `Create` writes `key`, and only for a connection nobody refers to;
* `Handles`: a connection being dialled is new and was not taken by the shutdown, one being torn
  down has left the pool, and a pooled SSH connection is up or lost. This is where the lock
  matters: the steps that break `PooledAlive` alone (`DialOk`, `DropEnd`) need `DialsNew` and
  `DropsUnpooled`, and those survive the steps of other tasks only because of `OneAtATime`.

Each part is shown to be kept by one lemma per group of actions, with a step per action; the
theorem `Invariance` puts them together, and the rest follows from it. `Implements` maps an
open task that is not idle to a session that awaits its verdict: `Publish` and `Fail` are
`Verdict`, `Deliver` is `Lose`, `Restore` is `Restore` or a stutter, a shutdown closes all.
`Started` is what makes `OpenSession` an `Open`, and `GoalOK` what tells the verdict of an open
task from the end of an operation.

**The argument for the sends.** `Inv` of `ApiDebugger_proofs` adds to the type and to `SlotHasOwner`
that only the *last* request can carry the current generation, and none does between the two
halves of a cancel (`Current`), and that the view shows a request that was sent. From `Current`
the check under the lock, `generation = worker[r].gen`, implies `r = Sent`, which is what
`Answer` of `ApiSlot` needs; and a request that is not current never becomes it again, because
the generation only grows, which is `CancelFinal`.

`ValuesChain` has an invariant of its own on top, `Chain`: the store and what the threads read from
it come from requests that were sent, and where a thread wrote a variable there is now its value,
that of a later request, or that of one that is never published (`WritesLast`, `Lasting`). It is
kept because only the last request can still be published: an earlier one that writes late is
one of those that never are.

**The argument for the workspace.** A row is newer than its parent (`Rows`), so a walk down the
collection climbs in ids and is a function that exists (`WalkIs`, from `Recursion` and a rank for
every row). `OnlySet` and `JoinSet` say what the lists hold that filters and walks make; from them
`OfIs`, `OrderIs` and `DoomedIs` say which rows are in a tree, and that a delete goes through
everything under what it deletes.

`Typed` is kept by every step but `SelectMissing`, after which there is none, and has `Drawn` in it,
that there is something at every selected position: what a reload brings goes through `Renders`,
also what a failed read leaves, and what is written into the selected request changes no
position (`SyncedIs`). `Renderable` follows, for overlapping commands too. `SelectMissing` writes
the editors into their row before it ends the application, so that the types of the rows and
`Orderly` outlast it (`Remains`).

The other three hold only while no two commands overlap and every read of a reload succeeds, and
follow from `AllWell`. Its parts:
`Alone`, one command at most is under way; `Distinct`, ids tell environments apart and rows of
different kinds; and `Well`, about the steps the command still has to take. `Fits` says what each of
these finds when it is taken (`StepFits`: a row to insert is newer than all there are and its
parent stands there or is inserted before it; the environment to drop is there and is not the only
one; a tree that was read is still the tree), that a command which has begun ends in a reload, and
that every row stands below its parent unless the command is still to delete it. `Shown` says
that the panel shows what is stored, or that what it is left does; it is given up when a command
begins and is restored by its reload. `FitsTail` carries `Fits` over a step, whatever the
command; `FitsCreate`, `FitsImport`, `FitsDelete`, `FitsNewEnv` and the like give it for each
command as it begins, and `PlaceAbove` for the parents the panel chooses.

**The argument for the bus.** `BusInv` of `Launcher_proofs` adds `OwnRevision`: publications under way
hold different revisions, none above the counter and none delivered yet. A broadcast therefore
adds to each channel a revision that is new there (`Delivers`): no duplicate, and what two
channels already shared keeps its order, the new event being last in both. `Subscribed` says
that a live receiver is still in the list when a broadcast prunes it, so the event that leaves
flight has arrived.

**The argument for the index and the launcher.** `IInv` of `Launcher_proofs` has four parts.
`IndexInv` is about the refreshes: besides the type, no flag is up when no thread runs
(`NoneRuns`); unless two have overlapped, at most one thread is under way, the table holds what a
thread that has saved found, and memory is the table when none runs (`InTurn`); and as long as
nothing overtook what the probe read, a refresh that has walked found what is on the disk
(`Heeding`). With no thread and no probe under way these give `IndexAtRest`.
`LaunchTypeOK` is the type of the launcher. `WindowInv` says of the results on show that they
are of the current tables unless an event that will refresh them is still to come — in the
receiver, in the announcement of a thread that has saved (`Awaited`) — and of the query that it
is the last one searched unless a timer runs or it strayed (`Searched`). `CatalogInv` says that
the catalogue is what the plugins offer unless the event of a save is on its way. Each step has
a lemma; `TablesKeep` and the lemmas about `Around` sum up what the steps outside the window do to
what it has read: unless a thread has saved and not yet announced it, the table is as it was. A rebuild that fails leaves the
catalogue and is counted with the events nobody heard, so `CatalogInv` claims nothing of it.

**The argument for the runs.** `Inv` of `QuickRuns_proofs` ties the tables to the tasks. `Alone`: no
two runs under way are of one action; `Marked`: the actions marked as running are those with a
run under way, from the marking in `start_action` until the task ends. `Progress` ties what a
task's process and its result can be to where the task is: no process before the spawn, none
alive once the pid is to be cleared unless its SIGKILL failed, a result from the end of the
`select!` on. With
`PidIsCurrent` this is inductive, whatever stops, deletions and the shutdown do in between.

**The argument for the windows.** `Windows` says that no plugin has two open windows, `Agents` that
an agent which says it exited is down (`Honest`). `Fine(p)` relates the rest for one plugin: if it
has an icon and an open window, its entry counts one lease and manages the only agent that may
be up (`Manages`), and if it has none the spawn failed or was tried twice (`Tried`); otherwise
it has neither entry nor agent. A step concerns one plugin: that it leaves the agents of the
others alone is what `Others` and `Fewer` say, and their lemmas keep `Fine` for them.

**The argument for the clipboard.** The database is reasoned about statement by statement. `Sound`
says of one database that content and ids are unique and the index has no entry without its row;
`Good` says of the databases a command goes through that each is `Sound` and none gives an id
again (`Evolves`). `AddSteps`, `DeleteSteps` and `PinSteps` are shown good, so that a crash after
any statement leaves a sound database, and every id that the panel or a task remembers still
stands for the same content, or for none: `Known`, in `PanelOk`, from which `SameItem` follows.
For `SeenIsKept` there is, further, what the poll read and has not used yet (`ReadOk`), what a
capture took from it (`Took`), what marks a copy as dealt with (`MarkOk`), and the files of
pictures (`DiskOk`).

**The argument for the capture.** `EngineInv`: as long as a start waits the engine is stopped,
otherwise it runs a proxy there is, or none. The panel's part is `Shape`, `Details` (what is
fetched or shown is of the selected exchange) and `Current`: a page in the panel, or on its way
to it, is that of the store, or the panel will be told so. To be told is an event still owed by
a proxy, in the receiver, or batched (`Told`); a clear whose task was dropped is the one
exception (`unseen`).

**The argument for the input.** `Consistent` is inductive as it stands; the work is in showing it. Every
change is a splice (`Splice`, `IsSplice`), its undo the splice back (`PutBack`), and joining the
changes of one run of typing makes one (`JoinedTurns`). `Fits` says of a stack and the documents
it stands for that each change turns one into the next; lemmas push, pop and join it (`FitsPush`,
`FitsPop`, `FitsJoin`, and `OnPush`, `OnPop` for redo). Indenting and outdenting change the text
line by line: that the joined change covers them all is shown by induction over the lines. The
second half of lemma `Step`, `Promised`, is the step of `UndoHistory`, which gives the
refinement; the marked text of a composition is no part of the documents.

**Induction.** The library's induction theorems take an operator as a parameter and cannot be
used. `TextInput_proofs` and `ApiDebugger_proofs` derive induction over sets of numbers from the well-foundedness of the
finite sets under inclusion (`Induction`, `InductionTo`), and from it that a function defined by
recursion over `0..n` exists (`Recursion`). Masks, indentation and the walks of the collection
are written as functions of that form.

**Only model-checked.** What holds by fairness (`OpensAndClosesEnd`, `SlotIsFreed`, `StopIsHeard`,
`QuitCloses`, `Watched`): the prover at hand does neither liveness from fairness nor ENABLED. Every
invariant and every action property that a run checks is proved. No module uses RECURSIVE
operators: recursion is written as functions and folds.

---

## 6. Where the code disagrees with its documentation or itself

Met while modelling; `PROJECT.json` has each with its lines under `findings`. No run is expected
to fail: where one of these bears on a property, the property names the condition (section 3).

*SSH.* `shutdown_all` ("disconnect all connections and clear the sessions when the application
exits", `service.rs:1215`) empties the pool once; an open or a reconnect under way registers its
connection afterwards, and it stays up. Two opens of one FTP profile at once create two
connections; the comment on the pool says FTP reuses one (`connection.rs:38`).

*API debugger, sending.* A worker checks the generation (`service.rs:1284`) and then writes its
variables one by one without another check, so a cancelled request may overwrite what a newer
one stored; the doc of `generation` (243-246) says it discards its result instead.
`ChainedValues` says what remains true.

*API debugger, workspace.* The environment editor is a second window, whose rows call
`select_environment` with their position (`view/components/env_editor.rs:459-461`). A reload that
is taken while the panel draws replaces the list (`view/request.rs:119-122`) without a notify, so a
row past its end may still be there to click: `expect("environment should exist")`
(`view/env.rs:8-16`) then ends the application. A failed read of a reload is taken for an empty
collection (`service.rs:412`) or for the default environment (435-442). A recursive delete
removes the parent first, and an error half-way leaves what is under it
(`data_source.rs:293-300`; failing writes are not in the model). Taking a reload does not fill the editors anew: after a deletion they
hold the deleted request and are written into the row now selected (`view/request.rs:91`). Two
deletions at once leave no environment (`service.rs:1501`). Of two reloads the older may be
published last (`service.rs:411`). Renaming writes back a row read before (`service.rs:785`).
`replace_env_variables` deletes and inserts without a transaction (`data_source.rs:451`). A new
panel takes a collection whose requests are all below the second level for empty (`view/mod.rs:104`).

*Quick launch.* Off Unix every `signal_process` fails (`service.rs:918-923`), and each caller drops
its result: a run that timed out or was stopped ends while its process goes on, as does the
application with its runs, against the comments "SIGTERM → 250ms → SIGKILL" (686-687) and "防止孤儿进程"
(against orphans, 417), and README.md:30 names Windows. On Unix a signal that fails is dropped
alike. A finished run marks its action finished and then removes the action's `Notify`
by id (`service.rs:320`): a run started in between loses its own, and a stop reaches it by SIGTERM
only. A stop sends SIGTERM before it signals the `Notify`: the process may end first and the run
be recorded as failed, where the test `stop_action_records_stopped_status` expects *stopped*.
`delete_action` checks that the action does not run, then deletes it under another lock.
`shutdown_all` misses a process spawned but not yet in the pid table.

*Windows.* A Dock agent that cannot configure its icon reports a quit by the user and closes the
window (`qingqi-app/src/app/dock_agent.rs:467-478`).

*Launcher and index.* Commands saved while no launcher is open are not offered until another
event finds one open (`launcher.rs:183`); nor are they when rebuilding the catalogue failed, which
is logged (`launcher.rs:199-204`). Closing a view and showing the window again search
without remembering the query (`launcher.rs:530`). Events between the window's constructor and
its subscription are lost (`launcher.rs:175`). A forced rescan overlaps a running one, and the
first to end clears the flag of both (`app_index.rs:146`).

*Clipboard.* Where changes are not counted, on Linux, the poll reads nothing (`service.rs:179-183`,
215-218), although the doc of `change_count` asks its callers to "fall back to reading the clipboard
directly" (`qingqi-platform/src/clipboard.rs:69-70`): only an opened panel records. On Windows a
clipboard another program holds open reads as empty (286-306 there), and the poll and the panel
count it as seen (`service.rs:187-196`, 212): that copy is not recorded while it stays. A picture file is written only if its name is new, so a cut-off file is taken for
the picture on the retry, and a count of an earlier login names an old one (`service.rs:386`). A
text of file paths is captured twice after a restart (`service.rs:279`). `add_item` is six
statements without a transaction (`data_source.rs:393`). A new action of the panel drops the
refresh that was to follow the last one (`view/mod.rs:599`).

*Text input.* `replacing` of the search is left set (`search.rs:56`); Tab moves the selection past
the end when the edit is refused (`indent.rs:122-131`), and a composition begun there remembers that
range (`state.rs:1859-1861`), which the model has;  accepting a composition by `unmark_text` keeps
the document before it for the next key (`state.rs:1819`); a mask that starts with a separator
masks everything away (`mask_pattern.rs:185`).

*Capture.* A refresh drops a clear (`view.rs:472`) and wipes every notice of its outcome (488);
blinking cursors reset the page (218); a clear keeps the offset (468); rewrite rules never reach
the engine, against the comment at 738; a proxy that ends by itself stays *Running*
(`engine.rs:247`).

## 7. Not modelled

* **Downloads.** The schema names a column `index`, a reserved word of SQLite
  (`qingqi-feature-download-manager/src/store.rs:373`), so the store does not open and no state of
  the service is reachable. There would be much to say about the service once it does.
* **Tray and plugin manager**: planned, section 2. The tray's lookup checks that it is still
  enabled and writes the address in two lock blocks (`qingqi-feature-tray/src/service.rs:276-287`).
* **Capture**: what the tree and performance views show (that a row of the tree selects any
  exchange is modelled), `hide_static`, which shortens a page after it was read
  (`view.rs:407-412`), breakpoints, throttling, rewriting, mock rules,
  the composer, HAR export and certificates. They transform single exchanges.
* **Workspace**: global variables, the expansion of folders, the history list and scripts; writes
  that fail, but for the one a repeated key makes fail; an environment editor that outlives the
  panel it belongs to.
* **Clipboard**: copying an item back, the settings other than what is captured, a change count
  that starts again at a login. Windows offers a picture in up to three formats, each named by a
  hash of its own (`clipboard.rs:369-401` of `qingqi-platform`); a picture of the model has one.
* **Text input**: the selection, but for what a composition remembers of it; a number mask that
  groups digits or limits the fraction, which no field is given (`number_input.rs:134-136`); the
  arithmetic of a number's step, the smallest and the largest value; search in the field,
  wrapping, folding and drawing.
* **Launcher**: ranking, icons and usage counts; the items a plugin's view lists.
* **Other views, themes, importers, small tools**: sequential code on one thread, or drawing.
  Unit tests reach it. They are most of the code by lines, which is why the map covers a small
  share of it: what is modelled is the part that has behaviour over time.
* **SQLite, russh, reqwest, GPUI, the operating system**: external. They appear as the actions
  their callers see: an outcome, a callback, a process that ends.
* **Data**: file contents, request bodies, terminal text, formatting and logs.
* **Panics and poisoned mutexes**: the code recovers poisoned locks (`lock_or_recover`) and
  isolates plugin panics; no modelled block leaves half an update behind one. The one panic
  modelled is that of `SelectMissing`, which the UI thread does not survive.
