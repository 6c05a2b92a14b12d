# DeckTerm: a verification project

TLA+ models of the parts of DeckTerm where the order of events decides whether
the program is right, TLC runs over small instances of them, and proofs that
TLAPS checks for instances of any size.  DeckTerm is a terminal workspace in
the browser: a Bun/TypeScript service (`src/backend`) that runs terminals, by
default one tmux session each, and a web client (`src/web`) that shows them.

- [1. The system](#1-the-system)
- [2. What each module models](#2-what-each-module-models)
- [3. The runs](#3-the-runs)
- [4. The proofs](#4-the-proofs)
- [5. What is not modelled](#5-what-is-not-modelled)
- [6. Reading order](#6-reading-order)

## 1. The system

`src/backend/server.ts` holds the service; everything in it runs on one event
loop, so that the hard behaviour comes from what happens between two `await`s,
from callbacks of processes that die, from timers, and from restarts.

| Component | State | Operations | Talks to | What is hard | What makes it correct |
|---|---|---|---|---|---|
| Session lifecycle (`server.ts`, `tmux-terminal-backend.ts`, `tmux-reattach-policy.ts`) | `terminals` Map, `terminalSockets`, restore flights, re-attach timers and budgets; rows of `terminal_sessions`; the tmux sessions themselves | create, restore, exit of an attach client, upgrade/open/close of a WebSocket, close-later, delete, idle and detached reapers, stop, reconcile, recover | tmux (spawn, probe, kill), SQLite, browsers | an attach dies while its successor is being built; tmux does not answer; everybody restores at once; deploys kill every client | a row ends only with its shell or on request; one client per session; deadlines survive; nothing stays half-dead |
| Pipe log and its readers (`readTmuxPipeDelta`, `pumpTmuxPipeOutput`) | offset and parser carry of a handle, the resume record of a dead one | read, hand-off, restart | the lifecycle, the shell-integration parser | two readers, a handle dropped while its read runs | each byte processed once; carry follows bytes |
| Arming the pipe (`ensurePipeCapture`) | the pane's pipe, the log file, the queue of calls | check, close, touch, `pipe-pane -o` | tmux | the command toggles; a restart between two steps | armed on return, never toggled shut |
| Admission (`getTerminalCreationError`, create path, `killUserSessions`) | Map size, rate window, `users.disabled` | create, disable, enable, sweep | lifecycle, foundation | the check is before the spawn, the registration after | caps; nothing outlives a disable |
| Reconnecting socket and replay (`ReconnectingWebSocket`, `completeTmuxReconnectReplay`) | `retryCount`, the input queue, what the overlay says; `socketReconnectState`, `terminalSockets` | open, ready, replay, input, hand-off, close, retry | browsers, tmux | output during the replay; a transport that dies with frames in flight; both ends waiting for each other | the replay once and before live output; input in order and never into a later terminal; a client that settles |
| Linked views (`/linked-view`, `killTmuxSessionIfLast`) | several handles on one session | open, exit, restore, close | lifecycle | who kills the session | the last one closed, and nobody before |
| File trash (`services/file-trash.ts`, `fs-executor.ts`, the helper) | rows of `file_trash_items`, files | move, restore, purge, reconcile | filesystem, SQLite | a crash between row and rename; a helper that outlives its service | no file lost or overwritten; a settled row tells the truth |
| Task runner (`task-runner.ts`, task routes) | `task.json`, verdict files, rounds, a chain of turns per task | start, judge, agent-done, exit, message, pause, reset, edit, delete | agents' terminals | two triggers for one end; calls outside the chain | one verdict per round; messages to the role whose turn it is |
| Agent resume (`agent-resume.ts`, resume route) | `terminal_agent_sessions`, reservations, hand-offs, queued markers | markers, tab close, resume | pipe, catalog | two taps; a write queued behind a close; a restart in between | one agent per conversation; what was closed stays closed |
| Agent status and screen rules (`agent-status.ts`, `agent-screen-*.ts`) | status, hysteresis | observe, expire | pipe, screen captures | stale observations | no flapping |
| Editor tabs (`editor-tabs.js`) | tabs, preview slot, bodies, pending mounts | open, activate, pin, close, restore, mount | the page | a mount that answers after its tab changed | no stale body; the active tab shows |
| Editor save (`file-editor.js`, `/api/files/content`) | text, mtime, dirty mark, autosave timer; the file | type, save, autosave, close | filesystem | typing during a save, two editors, a shell | no silent overwrite; nothing discarded unasked |
| Scroll control (`terminal-scroll-control.ts`) | queue, copy-mode state | scroll, leave | tmux | commands overtaking | order, coalescing |
| Foundation (`foundation-state.ts`) | users, roles, workspaces, sessions | CRUD | everything | last owner, migrations | referential rules |
| State ownership (`state-ownership.ts`) | an exclusive SQLite lock | take, release | kernel | two services on one state | one owner |
| Raw and brokered backends | a pty; a broker connection | create, attach, kill | broker | no re-attach in raw mode | as the lifecycle |
| File access and transfers (`fs-executor.ts`, `transfers.ts`) | open files | read, write, upload | filesystem | partial writes | path rules |
| Rest of the web client (`src/web`) | layout, panels, settings | render | service | little: one event at a time | what the server says is shown |
| Release scripts (`src/scripts`) | release links, backups | deploy, roll back | systemd | a script that stops half-way | one current release |

Who shares state with whom.  A handle of the lifecycle owns an offset into the
pipe log, a restore arms the pipe again, admission counts the handles in the
Map, and a linked view is a second handle on a session.  The socket of a browser
is replayed from the handle's pane.  The end of a session leaves the agent's
name in its row, which resume reads.  The exit of a terminal is one of the task
runner's two triggers.  The editor and the trash meet only in the filesystem.

`PROJECT.json` lists every component and, under `hazards`, what can go wrong in
this code and would hardly be found by a test, with the line and the property
that would catch it.

## 2. What each module models

Every state variable and action has its source lines in `PROJECT.json` (`map`).

### The event loop and atomicity

One action is one turn of the event loop: what a handler does between two
awaits that really wait (a process, a file, tmux).  Awaits on promises that are
already resolved (`getFoundationState`, the database checks, the legacy
execution context) take microtasks only; no other callback comes between, and
they are part of the action.  So the cap check and `rateLimitState.record` are
one action (`Admit`), and so are the registration of a handle, the recording of
its row and the check after it (`CreateDone`, `Spawned`).

### SessionContract

What DeckTerm promises of a session with no mechanism: `row`, `session` (the
shell), `closed` (an end was asked for), `served` (the service has a handle).
The shell outlives everything but its exit and a requested close; a row ends
only when the shell is gone or a close was asked for and never comes back; a
stop changes nothing but what is served.

### SessionLifecycle

| Variable | Code |
|---|---|
| `row`, `due` | `terminal_sessions.status`, `termination_scheduled_at` |
| `session` | the tmux session |
| `terminals`, `termDue`, `sockets`, `upgrading` | the `terminals` Map and the handle's `terminationScheduledAt`; `terminalSockets`; sockets between upgrade and `open` |
| `stage`, `live`, `exit` | one `tmux attach` client: how far its handle is, whether its process runs, the liveness probe of its exit |
| `flight` | `tmuxRestoreFlights` (phases probe, query, attach) or a create under way, with the callers that wait for it |
| `timer`, `attempts` | `tmuxReattachTimers`, `tmuxReattachAttempts` |
| `killing` | teardowns that await `kill-session` |
| `serverState`, `todo` | the start-up sequence and what its loop has yet to look at |
| `closed`, `faults` | history, bound |

| Action | Code |
|---|---|
| `Create`, `CreateDone`, `CreateDoneAfterExit`, `CreateFails` | `POST /api/terminals` down to `createManagedTerminal` and the INSERT |
| `Poll`, `Upgrade`, `TimerFires` with `Join` | the three callers of `restoreRecordedTmuxSession` |
| `FlightProbed`, `FlightSpawns`, `FlightRegisters`, `FlightFails` | `restoreRecordedTmuxSessionNow`, `attachRecordedTmuxSession`, `createManagedTerminal` |
| `AttachExits`, `ExitProbed`, `FinalizeTerminalExit`, `DetachDeadAttach` | `closeAndRemoveTerminal` and its two outcomes |
| `SocketOpens`, `SocketCloses`, `CloseLater`, `CancelCloseLater` | the WebSocket handlers and `/close-later` |
| `Delete`, `SweepCancels`, `SweepEnds`, `CleanupIdle`, `ReapDetached`, `KillDone` | teardown: the handle goes first, then the kill is awaited |
| `SessionExits`, `Stop`, `Start`, `Reconcile`, `ListSessions`, `Recover`, `Serve` | the shell's exit; `shutdownGracefully` or a crash; `startOwnedWebServer` |

Abstractions.  The close deadline is a Boolean (scheduled or not), so `SweepEnds`
may come at any time after it is set.  An attach client is a pool member that is
free again when its exit was handled and no teardown holds it; the code only
ever compares handles of the same time.  `stable` (how long the attach lived) is
a free choice.  A probe answers the truth or `unknown`.  Idle thresholds are not
modelled: a configured reaper may act whenever its other conditions hold.
`CreateFails` and the `attach` disjunct of `FlightFails` leave a client that
nobody owns, as the code does when `backend.attach` throws after its spawn;
`NoOrphanClient` names that case.

### PipeHandoff

A byte is its index in the log, a parser's carry the index it continues at.
`offset` and `carry` belong to a handle; `resume` is `tmuxPipeResume`; `reads`
is what a caller does with `readTmuxPipeDelta` (`Picks`, `ReadStarts`,
`ReadSized`, `ReadDone`).  `AttachStarts`, `AttachRegisters` and `AttachFails`
are the next attach, `PipeDetach` the death of the last.  The log only grows
(`cat >>`).  A restart loses the resume record by design, so the bytes printed
while the service is down are skipped; `base` is where the current run starts.
History: `processed`, `twice`.

### PipeCapture

`ensurePipeCaptureLocked` in the five steps that tmux and the filesystem see,
the turns of `pipeArmLocks`, and a restart after any step.  It starts from each
state an earlier release can have left: pipe closed, open here, open elsewhere.

### TerminalAdmission

A request is also the terminal it makes: new, gated, spawning, live, detached,
gone or denied.  `recent` is the rate limiter's window as counts (`Expire` lets
one leave it).  `Disable` commits `users.disabled` and takes the first list of
`killUserSessions`; `SweepKills` kills one handle of the list; `SweepGoesOn`
starts the second pass.  `overlapped` and `reattached` are histories the
properties need.

### LinkedViews

`shared` is the tmux session, `viewRow`, `place` and `tmuxClient` are the row,
the Map and the tmux client of each handle, `kills` the teardowns that await
`kill-session`.  `LinkedView`, `ClientSpawns`, `ViewRegisters` open a view;
`RestorePrimary` brings the terminal's own handle back; `SharedClientExits` and
`PrimaryExitJudged` are the two paths of `closeAndRemoveTerminal` (a view ends at
once, the terminal's own client is judged after a probe); `CloseHandle` is
DELETE up to its await, with `HasOther` for `hasOtherTerminalForSession`.  Finer
detail of the terminal's own handle (flights, probes that fail, timers, start-up)
is in `SessionLifecycle` and merged here into one step each.

### FileTrash

| Variable | Code |
|---|---|
| `at`, `half` | the files at the original, trash and quarantine paths; directories a purge has begun to empty |
| `row`, `ident` | `file_trash_items.status` and the identity columns |
| `op` | the request that holds the lock of an item (`withItemLock`): where it stands, what it goes on to, what it saw, what the helper said |
| `helper` | the helper process of an item's request, and one that outlived its service |
| `made`, `discarded`, `purgeAsked`, `meddled`, `outlived`, `faults` | histories, bound |

| Action | Code |
|---|---|
| `Identify`, `Insert` | `trashPath`: identity, INSERT |
| `Reconcile`, `Request` | `reconcileTrashItems`; `restoreTrashItem`, `purgeTrashItem` |
| `LooksTo`, `LooksFrom`, `LookFails`, `Decide*`, `Verify*` | `reconcilePendingMove`, `-Restore`, `-Purge`: the looks before and after the helper, and what they decide |
| `Resumes`, `HelperMoves`, `Empties`, `Deletes` | `op_delete_exact`, `op_atomic_move` of the helper |
| `HelperFails`, `AnswerLost`, `Restart` | the 30 s kill, an exit code after the rename, a stop or crash of the service |
| `UserWrites`, `UserRemoves` | the user's editor or shell |

Abstractions.  An identity is a file: whatever changes it makes another file.
All items share one original path, the place where they can meet.  The lock
makes one request per item, so the compare-and-set of `casStatus` never fails.
The helper's rename with its checks on both sides is one step (a change between
check and rename is undone by the helper).  The refusals of
`checkTrashDirectory` and of the binding checks happen before anything is
changed and are left out.

### ScrollControl

| Variable | Code |
|---|---|
| `queue`, `inFlight`, `heldBytes` | the fields of `TerminalScrollController`; an input counts one byte, a gesture one line |
| `drain`, `sync` | where `drain()` is; whether it has not yet awaited anything (`this.draining = run` comes after that part) |
| `mayBeInCopyMode`, `cache` | the barrier; how the cached state would route a touch gesture |
| `applied`, `read` | has tmux acted on the drain's command; the reads of the drain and of the emit chain, with `quiet` for the two comparisons of `readFresh` |
| `left` | `left()` of `confirmedExit`: open, within `EXIT_DEADLINE_MARGIN_MS`, past |
| `pane`, `active` | tmux; `isActive()` |
| `typed`, `scrolls`, `pty`, `dropped`, `unread` | what was sent, what reached the tmux client, what was dropped; has the exit just ended unread |

| Action | Code |
|---|---|
| `ScrollRelative`, `TouchScroll`, `ScrollTo` | the three scroll messages |
| `TypeNow`, `TypeHeld` | `input` |
| `LoopEnds`, `LoopStops`, `WriteHeld`, `RunHistory`, `RunExit`, `RunTouch`, `RunKeys` | the loop of `drain` up to its next await |
| `ScrollSettles`, `TouchToHistory`, `TouchToKeys` | `runScrollOp` |
| `ExitSettles`, `CancelSettles`, `LeftCopyMode`, `Unreadable`, `TryCancel`, `Retry`, `StopTrying`, `WaitEnds`, `DeadlineComesNear` | `confirmedExit` |
| `EmitReads`, `EmitReturns`, `CacheExpires` | the emit chain's read, `readFresh`, `stateCacheMs` |
| `TmuxActs`, `TmuxLooks`, `PaneLeaves` | tmux: a command takes effect, a read looks, copy-mode ends |

Abstractions.  `drain = "loop"` is the part of the drain that runs without
waiting; no handler runs in it.  A command or read that is aborted may have
taken effect before it settled, not after it.  Only this controller's commands
enter copy-mode (the service turns tmux's mouse off), and the pane starts out of
it; whether its app takes keys is chosen at the start.  The chain runs one read
at a time; as a page that reconnects asks for one at any moment, so does
`EmitReads`, and the frames, `seq` and the output throttle are left out.  A
terminal reply on a touch page is treated by the code as input of a desktop page
(`"other"`).  The variant without scroll control (brokered and raw) is left out.

### ClientConnection

| Variable | Code |
|---|---|
| `transport`, `link`, `frames`, `upstream` | the WebSocket objects of the page, the network, what is in flight either way |
| `sockets`, `closing`, `replay`, `alive`, `hadSocketConnection` | `terminalSockets`, the 25 ms timer of a hand-off, `socketReconnectState`, the terminal |
| `ws`, `clientStatus`, `behavior`, `retryCount`, `openedOnce`, `awaitingReconnectReady`, `intentionallyClosed`, `reconnect` | the fields of `ReconnectingWebSocket` |
| `inputQueue`, `typed`, `received`, `void` | `InputQueue`; histories of keys typed, received, and queued when the terminal was closed or over |

Client: `TransportOpens`, `FrameArrives`, `TransportLost`, `Classified`,
`ReconnectTimer`, `RetryConnection`, `ApplyReconnectBehavior`, `UserDisconnects`,
`SendInput`, `InputExpires`.  Server: `SocketOpen`, `SocketMessage`,
`ReplayTimeout` (750 ms), `ReplayCompletes`, `ReplayReady`,
`BroadcastTerminalOutput`, `SocketClose`, `SessionHandoff`, `HandoffCloses`,
`TerminalExits`, `Restarts`.  A transport may lose its network at any time
(`LinkDies`): the two ends then learn of it separately.  What the capture
contains is not modelled; a replay is the frames `replay-start`, `screen`,
`replay-complete`, `ready`.

### AgentResume

A conversation is a number; which one `codex resume --last` opens is
`lastCodex`.  Rows: `sessionRow`, `scheduled`, `agentName`, `reservedAt`.
Process memory, gone with a restart: `terminals`, `agentResumeWrite` (the queue
of writes behind markers), `handoff`.  `request` is a resume request between its
awaits: it reserves (`ResumeReserves`), a terminal is created (`CreateDone`), the
command is typed (`Enter`), and every other way out is `ResumeOver`,
`ResumeFails` or `EnterFails`.  `handoff` is the folder's one entry of
`codexResumeHandoffs`, `forgotten` the history of a hand-over that lost it while
its own agent was still to show (`StillOpens`).  The module's header states what is assumed of
people: a conversation begun by hand is a new one, and nobody taps Resume before
the marker of a start by hand was read.

### TaskRunner

`task` is `task.json`; `queue` the calls behind `runExclusive`, each of which
loads, decides and saves with an await between (`Load`, `SettleDone`, `Deliver`,
`MarkStarted`, `Save`); `edit` a call that loads and saves without the chain
(`updateTask`, `runChecks`, `deleteTask`); `triggers` the events whose scan has
not answered.  `Races` names two overlaps that the chain does not exclude:
`"edit"`, such a call while others are under way, and `"earlyExit"`, a terminal
that is gone before its start is recorded.

### EditorTabs

`tabs`, `active` are the model; `page` the controller: cached bodies, pending
mounts and whether their body is still in the page, `mountedKey`, and what the
user sees.  `RenderActiveBody` is the part up to the await, `Mounted` the part
after it, and `Render` puts it together with `DropBodies`, as `setState` does.

### EditorSave

A text is the number of the edit that made it, an mtime the number of the write.
`Stats` and `Reads` open a file; `SendsPut`, `PutChecks`, `PutWrites`, `PutStats`,
`Answer` are one save with its awaits; `SavedAs` and `FailedSave` what the editor
makes of the answer.  `SaveOverlaps` names what may happen while a PUT is under
way: `"typing"` in its tab, a `"writer"` between its check and its answer.

### MCServices

Not a composition: the models above that share no state with one another run side
by side in one TLC instance.  The variable `part` chooses at the start which one
takes the steps; the others stand still.  Each part keeps its own specification,
fairness included, for the behaviours that chose it.

## 3. The runs

| Run | Instance | Checks |
|---|---|---|
| `session_safety` | 1 terminal, 3 attaches, 2 sockets, 2 retries, 3 faults, reapers on | `EndedIsJustified`, `NoOrphanClient`, `NoDeadHandle`, `DeadlinesAgree`, `OnlyItsOwnExitDetaches`, `KeepsContract` (refinement of `SessionContract`) |
| `session_liveness` | 1 terminal, 4 attaches, 1 socket, 3 faults, fair | `ServedOrEnded`, `GoneIsEnded`, `ClosedTabEnds`, `UnattendedReattach` |
| `trash_safety` | 2 items, 2 files, 1 fault | `NothingLost`, `HalfStaysHidden`, `ListTellsTheTruth` |
| `scroll_control` | 4 gestures or inputs, queue of 1, 2 held inputs, fair | `BarrierUp`, `KeysNotEaten`, `KeysInOrder`, `NoInputLost`, `DrainEnds` |
| `services_safety` | `ClientConnection`: 2 transports, 2 retries, 2 keys, 1 output, 2 disturbances | `InputSafe`, `ReplayFirst` |
| | `AgentResume`: 2 open and 2 new terminals, 2 conversations, 2 requests, 3 ends or restarts | `OneAgentEach`, `ClosedStaysClosed` |
| | `TaskRunner`: 2 rounds, 2 agents, 1 message or edit, `"earlyExit"` | `VerdictOnce`, `ToldRightRole` |
| | `EditorTabs`: 3 files, 2 stored | `NoStaleBody` |
| | `EditorSave`: 2 editors, one with autosave, 2 PUTs, 4 edits, `"typing"` | `NoSilentOverwrite` |
| | `PipeCapture`: 3 calls, 2 restarts | `ArmedOnReturn`, `StaysArmed` |
| | `PipeHandoff`: 2 bytes, 3 handles | `ExactlyOnce`, `CarryFollows` |
| | `TerminalAdmission`: 2 creates of a member, 1 of the owner, caps 2/1, rates 2/2 | `CapsHoldOneByOne`, `NoCreateOutlivesDisable` |
| | `LinkedViews`: 2 views, 2 faults | `LastCloseEndsSession` |
| | each of them | `ServicesTypeOK` |
| `services_liveness` | `ClientConnection`, `TaskRunner`, `EditorSave`, `PipeCapture`, `PipeHandoff` (3 bytes, 2 handles), `FileTrash` (1 item, 3 faults), fair | `ConnectionSettles`, `ExitAdvances`, `TypedIsStored`, `EveryCallReturns`, `Drained`, `PendingSettles` |
| `agent_resume_handoff` | `AgentResume` with 3 requests, 2 ends or restarts | `NeverTwoAgents`, violated |
| `trash_restart` | as `trash_safety` | `RecoversFromRestart`, violated |
| `scroll_stale_route` | 3 gestures or inputs, queue of 2 | `KeysReachTheApp`, violated |
| `editor_tabs_blank` | 3 files, 2 stored | `ActiveTabShows`, violated |
| `editor_save_typing` | 2 editors, 5 edits | `NothingDiscardedUnasked`, violated |
| `linked_views_close` | 2 views, 2 faults | `OnlyCloseEndsSession`, violated |

**Bounds.**  Terminals share only the start-up loop and the fault budget, so one
terminal has every interleaving of its own handlers; the theorems cover any
number of them.  Three attaches let a dying client, its successor and one under
teardown exist at once; three faults allow a stray death, an unknown answer and
a restart in one behaviour.  The liveness run has more attaches than faults, for
a failed attach keeps a pool member.  Two sockets tell the first from the last.

- `PipeHandoff`: three handles make two hand-offs; with three bytes (in the
  liveness run) one comes before, one between and one after a hand-off.
- `TerminalAdmission`: the caps are below the number of requests and the window
  below the number of a user's requests, so each limit is reached.
- `FileTrash`: two items collide on the original path, the second file is what
  the user puts there meanwhile; three faults allow a lost answer, a failed retry
  and a restart in one operation.
- `ScrollControl`: four requests put one in flight, fill the queue, overflow the
  held input and join or cancel a queued gesture.  Input goes past the queue's
  limit by the exit and the two inputs around it, the 3 in `NoInputLost`.
- `ClientConnection`: the pool gives a transport that dies and its successor,
  with frames of both in flight; two retries reach the retry limit.
- `AgentResume`: two tabs and two requests are the race for one conversation,
  each with a terminal of its own to create.  `WithId = {}` makes every
  conversation a codex run without an id, where the shared folder matters.  The
  third request, which a deleted entry takes, is in `agent_resume_handoff`.
- `TaskRunner`: two rounds are a verdict and the next one, two agents a worker
  and a judge, whose ends overlap.
- `EditorTabs`: three files give a tab that is left, one that replaces the
  preview and one that comes from the stored list.
- `EditorSave`: two PUTs of two tabs, or two of one tab, are in flight at once.
- `LinkedViews`: the terminal and two views, so that a close leaves none, one or
  two others; a fault is a lost client, a failed kill or a restart.

**Deadlock** is off: the system may rest once the bounds are spent.

**Fairness.**  `Fairness` of `SessionLifecycle`: the service is restarted
(systemd, `Restart=always`), the event loop runs its callbacks and timers,
probes, spawns and kills return, the sweep keeps running.  Reapers, requests and
faults are never forced, and faults are finitely many.  Where a property needs a
browser that keeps asking for the list of terminals, as the web client does, it
says so (`BrowserPolls => ...`).  `PipeHandoff`: the pump's interval, and a read
goes on.  `PipeCapture`: the tmux commands of a started call return.
`FileTrash`: a request that was begun goes on, its helper ends (the service kills
it after 30 s), and somebody lists the trash now and then, which is what
reconciles it.  `ScrollControl`: promises run on, every command and read ends (it
is killed at its deadline), and the exit's deadline comes; tmux need never act.
`ClientConnection`: timers fire, frames arrive or the loss of the transport is
noticed (the heartbeat), handlers run; a user need do nothing.  `TaskRunner` and
`EditorSave`: the awaits of the server's and the editor's own work answer, and
the autosave timer fires; agents and people need do nothing.

### What the violated runs show

**`agent_resume_handoff`.**  "Only our own entry: another hand-over in this folder
keeps its" (`server.ts:9159`), so that two requests "never start two agents on one
conversation" (9063-9064).  There is one entry per owner and folder: a second
hand-over overwrites the first one's, and when it fails it deletes that as its
own.  A third request then sees nothing of the first one until the marker of its
terminal is read, and `codex resume --last` opens the conversation once more.
`forgotten` records that this has happened; `OneAgentEach` is what holds until
then.

**`trash_restart`.**  `docs/plans/2026-09-05-audit-repairs.md:35` asks the trash
for "crash-recoverable metadata transitions".  They are (`PendingSettles`,
`ListTellsTheTruth`), for items none of whose helpers outlived a restart.  The
production unit has `KillMode=process`
(`deploy/systemd/deckterm-prod.service.example:29`), so a helper may outlive one,
and rename between the two looks of the new service's reconciliation, which then
writes `source_missing`: the file lies in the trash directory, the row is an
error that is neither listed nor reconciled again.  Nothing is overwritten or
deleted.

**`scroll_stale_route`.**  `terminal-scroll-control.ts:209` says that a pane in
copy-mode keeps scrolling history, for wheel reports or keys "would land in
tmux's copy-mode, not in the app".  `readFresh` asks whether a read was quiet
before it moves the barrier, but fills the routing cache in any case: a read that
looked before a scroll entered copy-mode and returns after the drain had cleared
the cache routes touch gestures to the app for 250 ms.  Typed input is not
affected (`KeysNotEaten`).

**`editor_tabs_blank`.**  `editor-tabs.js:859-860` says that "the pending mount's
own post-await re-check reveals the correct body when it resolves".  A tab that is
closed and opened again while its mount is under way gets a new body, and the
mount fills and reveals the old one, which is no longer in the page; a tab that
is left and entered again while another mounts returns early, hidden.  Either way
the active tab is blank and `mountedKey` says that it is shown.

**`editor_save_typing`.**  `file-editor.js:517` says of `isDirty` that it "returns
true when the file has unsaved changes".  A save that succeeds clears the mark
and the autosave timer, also for what was typed while it was under way; the tab
then closes without a question.

**`linked_views_close`.**  "Only an explicit close ends a session"
(`docs/plans/2026-08-30-session-lifetime-defaults-design.md:44`).  The look for
other handles sees the Map only.  While the terminal's own client is lost and its
re-attach scheduled, closing a view finds nobody else and kills the session of
an open terminal.

### Limits found while modelling

These are not runs of the project; they mark where a property stops holding, and
each can be seen by changing the constant or adding the invariant.

- `AtMostMaxTerminals` fails: "Up to 10 concurrent terminals by default"
  (`README.md:75`), but the cap is compared with the Map when a create is admitted,
  the handle is entered after the spawn (`server.ts:5149`, `6438`), and a restore
  looks at no cap.  `CapsHoldOneByOne` is what does hold.
- `NoSilentOverwrite` fails with `"writer"` in `SaveOverlaps`: the PUT checks the
  mtime, writes, and stats for its answer in three steps (`server.ts:9870-9918`),
  and a shell or another program may write between them.
- `VerdictOnce` fails with `"edit"` in `Races`: `updateTask`, `runChecks` and
  `deleteTask` save what they loaded before, outside `runExclusive`.
- `ExitAdvances` fails with `"earlyExit"`: the exit of a terminal that is gone
  before the task names it is not looked at again.
- `TypedIsStored` fails with `"typing"`, for the reason of `editor_save_typing`.
- `EndedHadItsAgent` (`server.ts:964-968`) fails when a session dies with markers
  that were not read.  With `ManualStarts = TRUE`, `OneAgentEach` fails: an agent
  started by hand while a Resume request is under way is what `--last` opens; the
  plan names `--last` a known limitation
  (`docs/plans/2026-10-22-agent-attention-design.md:342`).
- `LeftWaiting` is the exception in `ConnectionSettles`: a client
  whose first connection to a new terminal failed reconnects and waits for a
  "ready" that the server, which saw no socket before, does not send.
- `ViewExitEndsView` fails: the direct exit path does not wait for the handle
  (`server.ts:6282-6285`), so a view whose client dies before it is registered
  is registered dead, and its row stays active.

**Mutants.**  Each property has a mutant in the module of the definition it
changes: a dropped identity guard, a restore that is not single-flight, an exit
judged before its handle settled, a stop that writes "ended" (what release
a006ae6 did), a deadline that is not carried over, a toggle without turns, a
verdict that is applied again, a replay that live output overtakes, a conflict
whose mtime is adopted, a handle that counts itself when it is closed.

## 4. The proofs

TLAPS proves these for every value of the constants that the named `ASSUME`s
allow: any set of terminals, attaches, users, requests, transports and views, any
bounds.  The assumptions say that bounds are natural numbers, that pools and
"none" values do not overlap, and what each module's header names.

| Theorem | Module | States |
|---|---|---|
| `TypeCorrect` | `SessionLifecycleProofs` | `Spec => []TypeOK` |
| `LifecycleInvariant` | `SessionLifecycleProofs` | `Spec => []IInv` |
| `LifecycleEndedIsJustified`, `LifecycleNoOrphanClient`, `LifecycleNoDeadHandle`, `LifecycleDeadlinesAgree` | `SessionLifecycleProofs` | the four invariants |
| `LifecycleKeepsContract` | `SessionRefinementProofs` | `Spec => KeepsContract` |
| `LifecycleOnlyItsOwnExit` | `SessionRefinementProofs` | `Spec => OnlyItsOwnExitDetaches` |
| `PipeExactlyOnce`, `PipeCarryFollows` | `PipeHandoffProofs` | the two invariants |
| `TrashTypeCorrect`, `TrashInvariant`, `TrashNothingLost`, `TrashHalfStaysHidden` | `FileTrashProofs` | types and the two invariants, whether helpers outlive the service or not |
| `TrashListTellsTheTruth` | `FileTrashProofs` | `ListTellsTheTruth` |
| `BarrierInvariant`, `BarrierAlwaysUp` | `ScrollControlProofs` | the barrier in front of typed input is up while the pane is in copy-mode |
| `QueueInvariant`, `ScrollKeysInOrder`, `ScrollNoInputLost`, `ScrollKeysNotEaten` | `ScrollControlProofs` | the shape of the queue and where every input is; the two invariants and the action property |
| `CaptureArmed`, `CaptureStaysArmed` | `ServerProofs` | arming the pipe |
| `AdmissionTypeCorrect`, `AdmissionCaps`, `AdmissionSwept` | `ServerProofs` | rate windows, caps, sweep |
| `TaskVerdictOnce`, `TaskToldRightRole` | `ServerProofs` | the two invariants, if `"edit" \notin Races` |
| `ResumeReservations`, `ResumeClosedStaysClosed` | `ServerProofs` | a row is reserved for the request at work on it; what was closed stays closed |
| `ResumeInvariant`, `ResumeOneAgentEach` | `ServerProofs` | no two agents work on one conversation, if an agent started by hand is never a codex run without an id |
| `ViewsLastClose` | `ServerProofs` | `LastCloseEndsSession` |
| `ConnectionReplayFirst`, `ConnectionInputSafe` | `WebProofs` | `ReplayFirst`; `InputSafe` |
| `TabsNoStaleBody` | `WebProofs` | `NoStaleBody` and the types of the tabs |
| `SaveNoSilentOverwrite` | `WebProofs` | `NoSilentOverwrite`, if `"writer" \notin SaveOverlaps` |
| `TaskTypeCorrect`, `ResumeTypeCorrect`, `ViewsTypeCorrect` | `ServerProofs` | types |
| `ConnectionTypeCorrect`, `SaveTypeCorrect` | `WebProofs` | types |
| `PipeTypeCorrect` | `PipeHandoffProofs` | types |
| `ServicesTypeCorrect` | `ServicesProofs` | `ServicesSpec => []ServicesTypeOK`: the part that runs keeps its types |

**Lifecycle.**  The invariants are not inductive alone.  That an exit may end a
row needs `MissingIsGone` (an answer "missing" is proof, for a session never
comes back) and `LostSlotIsClosed` (a registered handle that lost its slot was
torn down).  That no client is orphaned needs `FlightFillsEmptySlot`: the one
flight of an id fills an empty slot, and no other member is under construction.
That the deadlines agree needs `DeadlineCarried`: while nothing is attached, the
flight carries the row's deadline.  `IInv` is their conjunction; every conjunct
speaks of one terminal, so the proof has one lemma per action for that terminal
and frame lemmas for all the others.  The refinement adds that a recorded row
keeps its session and that a stopped service holds no handles.

**Pipe hand-off.**  The inductive part is that a read under way for the
registered handle starts at its offset, and that there is at most one of them,
so that a chunk never covers what was processed.

**Arming.**  `DecisionStands`: what a call decided by looking still holds when it
acts, because its turn lasts.  `FileTells` and `ElsewhereTells`: the log file
exists exactly for the pipe that writes here, which is why looking at the file
is enough.

**Admission.**  Counting: a create that was admitted with room leaves room for
itself until it is registered, unless another was under way (`overlapped`).

**Trash.**  `OnePlaceEach`: no two paths hold one file, so a rename to a free path
neither copies nor loses it.  `RowComesFirst`: nothing of an item exists before
its row, and a request waits while its helper runs.  `PurgeIsAskedFor`: what is
in quarantine is the item's own file and somebody asked to purge it.  Then the
only step that takes a file away takes it from quarantine.

**The trash list.**  `ListTellsTheTruth` speaks of an item that nobody but its own
requests has a hand in (`Alone`: no helper outlived the service for it, no user
wrote into the trash directory).  `Told` says of such an item that its path in
the trash holds the recorded file or nothing, and a row that is not pending is
"ready" exactly when it does (`PlaceTold`); that what a request has seen there
and in quarantine is still so, for only its own helper changes it and that one
runs while the request waits (`LooksTold`); and that what the helper said is so
(`ResultTold`).  A row is then settled from facts that still hold.

**Scroll barrier.**  `QuietTells`: while a read is quiet no command is under way,
so what it saw of a pane out of copy-mode is still so when it lowers the
barrier; `ScrollRaises`: a command that may enter copy-mode raised it at its start.

**Typed input.**  `Shaped` is what the queue looks like: every op but input turns
the pane, and no two inputs are adjacent, because one that follows another joins
it (`Alternates`); beyond `MaxOps` stand only input and one exit (`Bounded`),
which with the first gives the `MaxOps + 3` of `NoInputLost`; what is typed on a
touch page stands behind an exit (`Cleared`), or it is first, and then the exit
is being run, or the pane is out of copy-mode or could not be read
(`HeadClear`): this is `KeysNotEaten`, and it uses the barrier's invariant for
the reads.  `Projected`, what the pane will be once all that is queued has run,
is decided by the last op that turns it; that one exists because a bounded set
of numbers has a greatest.  `Accounted` says that waiting, written and dropped
inputs divide `1..typed` among them, `InOrder` that what waits comes after what
is written.  All of it is stated by positions and sets of inputs, so that no
induction over the queue is needed.

**Tasks.**  `HeadWorks`: only the head of the chain is at work, and no edit is.
`CopyStands`: so what it loaded is still what is stored when it decides.
`JudgedKnown`: the rounds already judged are at most the `processed` mark of the
record that will be stored, so the guard on it rejects a second verdict.

**Resume.**  `ReservedByItsRequest` is inductive with the types of the requests: a
token is written by its own request only, and each way out of a request releases
or hands over what it holds.  `ResumeClosedStaysClosed` then follows step by
step: only the write behind a marker names an agent, and none is made in an ended row;
all other writes clear a name, a resume's those of its own reservation only.

That one conversation has one agent (`ResumeInv`) needs that a conversation is
known in one session only, by its row, a marker, a write or its agent
(`OneHome`), and that while a request is to type `--last` no other session knows
a conversation without an id (`LastAlone`), so that the latest one in the folder
is its own.  The steps that keep it rest on what the code waits for: an agent
without an id shows in its tab or has a marker coming (`MarkerAwaited`), and
while a request still has to show its agent the folder has its entry
(`EntryKept`), which is why the next request finds it.  The run
`agent_resume_handoff` shows the one way to lose that entry; `forgotten` records
it, and the theorem is about the behaviours without it.  Its premise excludes the
known limitation named in section 3: an agent without an id that somebody starts
by hand is in no entry.

**Linked views.**  `SomeoneIsLeft`: a session that lives and whose kill did not
fail is being killed, or has a handle with a row that nobody has closed.  A close
that leaves the kill to another sees that other in the Map, and what is in the
Map was not closed (`ClosedIsOut`).

**Replay.**  `OutputLast`: in a socket's frames nothing of a replay comes after
live output, and there is none while a replay is to come; a socket starts its
replay once.

**Keys.**  Keys were typed in the order received, under way, queued (`InOrder`).
That one transport does not overtake another needs `OneWire` (the client writes
to the transport it opened last, and not before it is open) and `OneSource`:
what is left on an earlier transport is read before a later one is accepted, or
its network is gone and it is never read. `VoidIsGone`: what was queued when the
terminal was closed or over is in no queue and no frame any more.

**Tabs.**  The body that is shown is cached, and it is the mounted one or one that
fills at this moment (`PageFits`, `ShownFits`); a mount whose body was dropped
meanwhile has none, so that its end changes nothing the user sees.  The list has
each file once and one preview at most (`TabsFit`), which the stored layout is
assumed to have too (`TabsAssumption`: `serializeTabs` wrote it).

**Saving.**  `TabKnows`, `PutKnows`: a tab or a PUT whose mtime is the disk's knows
the text on the disk; `OneWriter`: one PUT at a time is between its check and its
stat.  That and no
other program's write in between are what the premise on `"writer"` gives.

**Types.**  Few of the types are inductive alone.  A PUT that belongs to a tab
belongs to an open one, and what a PUT wrote is among the texts that were on the
disk (`PutFits`), or an answer could give a tab a base that never was; a verdict
that opens another round is applied only before the last one (`AppliedTypes`); a
resume request at work names a session (`HasRow`); that what is
queued, under way and received are keys that were typed follows from the
invariant of the keys.  `ServicesInv` says that the part that runs in
`MCServices` keeps its own invariant, and `PartSteps` that a step of the
composition is one of that part.

**Left to TLC.**  Every liveness property (`ServedOrEnded`, `GoneIsEnded`,
`ClosedTabEnds`, `UnattendedReattach`, `DrainEnds`, `ConnectionSettles`,
`ExitAdvances`, `TypedIsStored`, `EveryCallReturns`, `Drained`, `PendingSettles`):
fairness and ENABLED are out of the prover's reach.  Every invariant and every
action property of the passing runs is a theorem; where one has a premise, the
table names it.

## 5. What is not modelled

What is left has no order of events to get wrong, or its correctness is that of
formats.  Each row of `PROJECT.json` says why for its component; the largest:

- The rest of the web client (`app.js` with nineteen thousand lines,
  `file-explorer.js`, `ide-shell.js`, `git-scm-view.js`): rendering, layout,
  gestures, panels and settings, one event at a time.
- Formats: the escape sequences of the shell integration, the screen rules that
  tell an agent's status from pane text, names, sizes, prompts, and how a pane
  capture is cut for a replay.
- Clock values: deadlines, thresholds and backoffs are "may happen from now on".
- `onboarding-doctor.ts`, `telemetry.ts`, push and retention, git reads, guards,
  directory listings, transfers: single requests or sweeps that stand alone.
- `foundation-state.ts` beyond the rows of sessions and agents: SQL statements
  and migrations, each one transaction.
- The raw backend, where nothing survives its process; the broker and the
  OS-isolation mode, which run the same commands as another user.
- The chunk boundary inside a UTF-8 character (`readPipeDelta`).
- The client that a `backend.attach` leaves when it throws after its spawn: the
  code has no owner for it, and `NoOrphanClient` names the case.

The models are of the control that is shared between awaits, callbacks, processes
and restarts; that is a small share of the repository's lines, and the mapped
lines are those the definitions stand for and no others.

## 6. Reading order

`SessionContract` and `SessionLifecycle` first, with `SessionLifecycleProofs`; then
`PipeHandoff`, `PipeCapture` and `LinkedViews`, which share its handles;
`TerminalAdmission`; `ClientConnection` for the browser's side; `AgentResume` and
`TaskRunner` for agents; `FileTrash`, `ScrollControl`, `EditorTabs` and
`EditorSave` by themselves.
