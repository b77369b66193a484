# A formal model of the OpenDray gateway

OpenDray is a gateway, written in Go, that runs coding agents in pseudo terminals and
serves them to browsers, phones and Telegram; plugins extend it, a wizard sets it up. This
directory holds TLA+ modules of the parts of it in which goroutines, processes, timeouts,
failures and crashes meet; the TLC configurations that model-check them on small
instances; and theorems about them, with proofs that TLAPS checks. `PROJECT.json` is the
index: components, runs, mutants, the lines of code behind every definition, findings,
hazards and theorems.

To repeat the checks: `tlc -config SessionHub.cfg MCSessionHub.tla` and so on for the runs
of section 3, `tlapm SessionHubProofs.tla` and so on for the proofs.

## 1. Inventory

Paths are under `src/`. "Correct when" names the properties that say so.

### Sessions

| Component | State | Operations | Talks to | What is hard | Correct when |
|---|---|---|---|---|---|
| **Session hub** `kernel/hub/hub.go` | map of live sessions, stop flags, `sessions` table | Create, Start, Stop, Delete, SwitchAccount, RecoverOnStartup, StopAll, exit callback | HTTP and Telegram handlers, terminal, store, MCP injector, hook bus | check and act in different critical sections; the exit callback runs on its own; five-second waits; crash and recovery | no process is lost or doubled, flags and statuses belong to the right run, requests return, exits are announced |
| **Terminal session** `kernel/terminal/session.go`, `hub.watchIdle`, notifier of `gateway/ws.go` | lastOutput, state, idle channel, done | readLoop, idleLoop, waitLoop, two listeners | engine, hook bus, WebSocket clients | five goroutines over two atomics and a channel under a mutex | each silence is reported once, loops end |
| **PTY engine** `kernel/terminal/engine.go` | a process and its terminal | Spawn, Read, Write, Stop, Wait | session | signal escalation against a poll | Stop ends |
| **Terminal stream** `kernel/terminal/buffer.go`, `gateway/ws.go` | byte ring, subscriber channels | Write, Snapshot, Subscribe, Unsubscribe, replay and live stream | session, clients | subscribe before snapshot, full channels, end of process | what a client sees is a stretch of the output, up to what a full channel dropped |
| **Task runner** `gateway/tasks/runner.go`, `gateway/tasks_handlers.go` | active count, runs, output buffer, subscribers | Start, Stop, Subscribe, reap, pumps, waiter | HTTP and WebSocket handlers, processes | cap across a spawn, channels closed by one goroutine and sent to by another, late Stop | count exact, status final, no silent gap, done means closed |
| **MCP injection** `gateway/mcp/runtime.go` | a directory per session | RenderFor, Cleanup | hub | keyed by session, not by run | a run has its files |
| **Claude accounts** `gateway/claude_accounts*.go` | flows with a process and a directory each, token files, table | start, complete, cancel, create, import, toggle, delete | Claude's command line, hub | request, timeout and janitor end the same flow | no residue, no credentials lost |

### Plugins

| Component | State | Operations | Talks to | What is hard | Correct when |
|---|---|---|---|---|---|
| **Host supervisor** `plugin/host/supervisor.go` | map of sidecars, stopped flag, wait group | Ensure, Kill, Stop, waiter | command dispatcher, plugin configuration, `main` | spawn without the lock, a process bound to a request, shutdown with spawns in flight | one sidecar per plugin, none lost, nothing after Stop |
| **JSON-RPC mux** `plugin/host/mux.go`, `jsonrpc.go`, `host_rpc_handler.go` | pending calls, done, writer lock | Call, Notify, readLoop, dispatch | supervisor, sidecar | late answers, full pipes, cancelled contexts, requests both ways | each call ends with its own answer |
| **Plugin bridge** `plugin/bridge/`, `gateway/plugins_bridge.go`, `plugins_consents*.go` | connections, streams, consents, slots | Register, Subscribe, Close, Invalidate, events, exec, fs.watch | hook bus, plugins' web views | revocation, release and close against subscription; a peer that does not read | ended streams stay ended, slots exact |
| **Installer and runtime** `plugin/install/`, `plugin/runtime.go`, `gateway/plugins_install.go` | staged directories, pending tokens, rows, consents, runtime map | Stage, Confirm, Uninstall, Register, Remove, LoadAll | store, file system, contributions | two stores, no common transaction; expiry; crash in between | what was answered holds, tokens and bundles go together |
| **Marketplace** `plugin/market/remote`, `local`, `signing`, `plugin/install/source.go` | cache, temporary files | list, resolve, download, verify, stage | registry and mirrors, installer | caches, mirrors, cut or replaced downloads | what is staged is what was resolved, nothing is left |
| **Revocation** `plugin/market/revocation`, `actions` | what was done | poll, act | runtime, workbench | acts beside requests | as for the installer |
| **Commands, contributions, workbench stream** `plugin/commands`, `plugin/contributions`, `gateway/workbench_stream.go` | registry, subscribers, a copy at each client | Set, Remove, Invoke, Publish, Subscribe | runtime, supervisor, Flutter client | events dropped on full queues, channels closed by another goroutine | a quiet client is up to date |
| **Storage, secrets, configuration** `kernel/store/plugin_*.go`, `plugin/bridge/api_secret.go`, `api_storage.go`, `gateway/plugins_config.go` | values under wrapped keys, quotas, forms | set, get, delete, Configure, restart | authentication, supervisor | a key is read, drawn, wrapped and stored in steps of its own | stored secrets stay readable, quota, current sidecars |
| **Hook bus** `plugin/hooks.go` | listeners | Subscribe, Dispatch | hub, Telegram, bridge | a goroutine per event: no order | every listener hears every event |

### The rest

| Component | State | Operations | Talks to | What is hard | Correct when |
|---|---|---|---|---|---|
| **Telegram bridge** `gateway/telegram/` | bot, links, cooldowns, forwarder baselines, pending prompts | poll, dispatch, notify, forward, reply, tick, submit | hub, hook bus, Telegram | redelivery, reload, replies to messages that are being sent, taps during a submit | typed once, pushed once, answerable |
| **Authentication** `kernel/auth/` | `admin_auth`, the key derived from its hash | bootstrap, login, change of credentials with rotation | store, wizard, secrets | the rotation meets first writes and other rotations | a rotation goes through |
| **Setup, service, uninstall** `cmd/opendray/setup_cli.go`, `service_cli.go`, `uninstall_cli.go`, `kernel/config` | configuration files, admin row, unit, binary | wizard, scripted form, hand-over, boot, removal | PostgreSQL, systemd | interrupts and crashes between the steps, two homes | what was applied stays true |
| **Embedded PostgreSQL** `kernel/pg/embedded.go` | data directory and its password, process | Start, Stop | wizard, server | the password is drawn at creation and written down later | the cluster opens |
| **LLM proxy** `gateway/llm_proxy/` | the blocks of one answer | translate, stream | upstream model | tool calls interleaved, cut streams | well-formed, same answer |
| **Log viewer** `gateway/logs/` | position in a file | tail, filter | file system, clients | truncation, rotation, a reader that reads ahead | a stretch without a gap |
| **Source control panel** `gateway/sourcecontrol*` | forges, tokens, saved repositories, bookmarks, baselines | CRUD, scan, diff | git, store | lists read, changed and written back in two queries, rollback by hand | rows as if one at a time |
| **Store** `kernel/store/` | tables | queries, migrations | all | what is one statement and what is two | |

Task discovery, the screen parser of Telegram, the stateless namespaces of the bridge, LLM
providers, the file, git, forge, docs and database browsers, simulator and preview,
manifest validation and most of the Flutter client complete the list; section 8 says why
they have no module.

## 2. Modules

| Module | Models | Checked by | Proved in |
|---|---|---|---|
| `SessionSlots` | abstract specification: a session is a slot that one process holds at a time | `SessionHub` (refinement) | `SessionHubProofs` |
| `SessionHub` | the hub with its table, config files, agent processes, exit callbacks, gateway life cycle | `SessionHub`, `SessionHubCap` | `SessionHubProofs` |
| `TaskRunner` | task runner with output buffer and subscribers | `TaskRunner` | `TaskRunnerProofs` |
| `HostSupervisor` | sidecar supervisor | `HostSupervisor` | `HostSupervisorProofs` |
| `PluginBridge` | connections, streams, consents, slots of the bridge | `PluginBridge` | `PluginBridgeProofs` |
| `PluginLifecycle` | one plugin name from stage to uninstall, with restarts and the revocation poller | `PluginLifecycle` | `PluginLifecycleProofs` |
| `PluginData` | secrets, key-value rows, forms, credentials and their rotation | `PluginData` | `PluginDataProofs` |
| `Telegram` | manager, bot, notifier, forwarder, links, multi-select | `Telegram` | `SurfacesProofs` |
| `ModelProxy` | translation of a request and of a streamed answer | `ModelProxy` | |
| `Surfaces` | composes `SidecarMux`, `Market`, `Accounts`, `Telegram`: what the gateway asks of others | `Surfaces`, `Telegram` | `SurfacesProofs` |
| `Displays` | composes `OutputStream`, `TerminalSession`, `LogTail`, `SourceControl`, `Workbench`, `Setup`: what clients and the administrator are shown | `Displays` | `DisplaysProofs` |
| `TerminalSession` | idle detector and its listeners | `TerminalSession` (liveness), `Displays` | `DisplaysProofs` |

The `MC` modules hold the values of constants, and the mixes of operations that a
behaviour may consist of. Many modules have such `Scenarios`: a behaviour picks one at its
start, so that operations which can disturb each other are checked together and the others
do not multiply the states. `Surfaces` and `Displays` compose modules that share nothing
as *lanes*: `Init` picks a lane, a behaviour is a behaviour of that lane's module, taken with
`INSTANCE`, and the variables of the others keep the value `None`. So a state machine per
component is checked, and proved about, without the product of all of them; variables that
two lanes call by the same name are one variable.

Three conventions hold throughout. A step is what a goroutine does between two points
where another can get in: a critical section, a statement of the database, an access to a
file, a send or a receive. An error of a query, a rename or a spawn is a disjunct of the
step it belongs to. Variables marked *history* record what happened for properties to read
and are read by no guard.

### SessionHub

| State | Code |
|---|---|
| `sessions`, `stopRequested` | the fields of `Hub` under `h.mu` |
| `row` | the `sessions` table: status, pid, account |
| `rendered` | sessions with config files on disk (MCP and OpenCode) |
| `proc[p]` | an agent process; its `stage` is also how far `waitLoop` and the exit callback are |
| `thread[t]` | where a request goroutine, or `main`, is inside Start, Stop, Delete, SwitchAccount, recovery or StopAll |
| `gateway`, `todo` | recovering, up, stopping or down, and what recovery or StopAll has still to go through |
| `asked`, `overlapped` | history |

Start is `StartCheck` (first critical section), `StartLoad` (queries, account and token),
`StartLaunch` (config files, spawn), `StartRegister` (second critical section),
`StartStatus`. Stop, Delete and SwitchAccount share `MarkStop`, their critical section, and
`SignalReturns`, the return of `Engine.Stop`; then come `DeleteWait`, `DeleteRow`, or
`SwitchLoad`, `SwitchLook`, `SwitchPoll`, `SwitchBind` and the steps of Start.
The exit callback is `ExitUnregister`, `ExitCleanup`, `ExitStatus`, `ExitEmit`.
`Crash`, `Shutdown`, `StopAllNext`, `Exit`, `Boot`, `RecoverNext`, `RecoverGiveUp` and
`Serve` are the gateway's. Writes of a status may be lost, since their errors are logged
only.

`UndisturbedRequests` and `ImplementsSlots` are stated for sessions on which no two
requests have overlapped since the gateway was booted (`overlapped`). With overlap they
fail, and the code does not promise them: two Starts of one session replace each other's
entry, since the check and the registration are in different critical sections. The
interesting part remains inside the condition: exit callbacks and timed-out waits of
earlier runs interleave freely with the later ones.

`SessionSlots` says what then holds: a process is attached to an empty slot only, and
detached only once it has exited. `ImplementsSlots` is the refinement under the mapping of
`slot` to the map entry.

### TerminalSession

`readLoop`, `idleLoop`, `watchIdle` and the notifier access two atomics and a channel, so
every access is an action. The channel is a number with a closed flag; a new one is made
by `Rearm`. Time is counted in ticks of two seconds, the period of `idleLoop` and of both
polls; in a tick each polling loop polls once, in any order, and the reader comes to rest
(the tick does not pass over a chunk half handled). `told` is the last channel a listener
has reported. The notifier's report is a write to the socket of its client, without a
deadline and under the lock of the connection, so it has a state of its own (`write`), which
`Sent` leaves when the client reads.

### TaskRunner

A run goes through the stages of its waiter; `Write` and `Send` are the pump, the first
with the buffer's lock and the second without it, per subscriber. A subscription is taken
in two steps, as the code does (`Subscribe`, `Snapshot`). `given` is what a subscriber has
in its snapshot, got through its channel, or lost because the channel was full, the loss
the code states. A panic ends the gateway, so `Next` stops there. The capped buffer is a
set of chunks: that its oldest bytes fall out is left out (`OutputStream` has a ring that
forgets). `cfg.MaxConcurrent` of zero, which means no cap, is left out too.

### HostSupervisor

Ensure is `EnsureBegin` (first look), `Spawn`, `Insert` (second look) and `Drop` (the late
sidecar is shut down); Kill and Stop are a critical section and a wait each; a process dies
(`Die`), then its waiter closes `exited` and removes the entry (`Exited`, `Remove`). A
request ends after its call; the context of the request that spawned a sidecar ends with
it (`cut`). Names of sidecars are reused once nobody remembers them, so runs of any length
fit in a finite state space. The `plugin_host_state` table, written best effort and read by
nobody, is left out; so are the idle shutdown and the restart backoff, which are configured
and never used.

### PluginBridge

| State | Code |
|---|---|
| `consent` | the plugin's row of `plugin_consents`: the capabilities, or no row |
| `conn`, `registered`, `stalled` | a WebSocket, `Manager.byPlugin`, and whether a write on it hangs holding `writeMu` |
| `subs`, `done` | the registry of a connection and the closed `done` channels |
| `listed` | the maps of the namespaces, keyed by the client's envelope number |
| `call[c]` | an inbound envelope: its handler goroutine and what feeds the stream it opened |
| `inflight` | `ExecAPI.inflight` |
| `handler`, `changes` | the consent endpoints |

An envelope opens a stream or runs a command in `Check`, `Register`, `Store` and `RunEnds`,
or releases a stream in `Lookup` and `Detach`; `PumpEnds`, `ProcessExits` and `WaiterEnds`
are the goroutines behind a stream; `Load`, `WriteRow`, `Invalidate` for each connection
and `Answer` are a consent handler. `Close` ends a connection;
`late` names the calls that were on their way when it drained the registry.
What is written is left out, but not that a write to a peer that does not read holds a
lock. `ReleasedStaysReleased` leaves two cases out by name: a number that two connections
use for the same kind, which the maps confuse, and a stream that another release is still
detaching, which the state shows as such.

### PluginLifecycle

`row`, `grant`, `tomb`, `dir` and `staged` survive a restart (the rows of `plugins`,
`plugin_consents` and `plugin_tombstone`, the bundle directories); `mem`, `contrib`,
`pending` and `tx` do not. A request goes step by step through Confirm (`Take`, `Move`,
`Commit`, register, or back through `GiveUp`), Uninstall, Remove, Toggle, the restore of a
built-in, or a POST; `Boot` is LoadAll with the seeding of built-ins and with its failures,
none of which keeps the gateway from serving: without the rows nothing is loaded (`blind`),
without the list of tombstones an uninstalled built-in is seeded again, a manifest may stay
as it was, a seed may be missing; `Expire`, `Reap` and
`TakeExpired` are the pending store; `Sweep` is the revocation poller. A request that is
refused before it has changed anything is no step. `said` is what the last request
answered when no other overlapped it, which is what `AcknowledgedHolds` compares.

### PluginData

A hash of the password and a data key are numbers never drawn twice; `kek[p]` is a data
key and the hash that wraps it; `secret[p][k]` the data key that sealed a value. `proc[x]`
is a call (set, get, delete, the two of the key-value store, a Configure form) at the
grain of one query; `rot[r]` the transaction of `RotateCredentials` with its row locks;
`Wizard` and `Boot` replace or make the credentials; `Uninstall` removes rows; `Enter` and
`Killed` are the sidecar, reduced to how many form writes it has seen. Encryption is modelled
by what opens what. A wizard that saves a password over another rewraps nothing: no step has
to overlap it for every key under the old hash to be locked out. `replaced` holds the hashes
it has overwritten; `raced` the plugins whose key two overlapping steps have written.

### Telegram

A bot has its own notifier, forwarder and multi-select store, so these are functions of
the bot's number, and those of a stopped bot live on in goroutines that use them.
`handlers` are the goroutines of updates, `idlers` those of idle and stop events; `log` is
what the chats show, each message with its kind: a push of what is new, a notification that a
session is idle, the notice that it has exited (`Bye`), which nobody remembers, and the
earlier parts of a body above 4000 characters (`Part`), of which `Send` returns the last
only. The text of a session is a set of lines,
each with the number of its terminal: of a Claude session the last response of the
transcript, of another all that its present terminal has written. The cut to the last 80
lines is left out, so what is said of terminals is said of outputs up to that length. A
push is marked with the `turn` of the baseline it was compared with, taken in `Diff` under
the same lock, not when the message goes out: the baseline may be set back in between. A
baseline also ends its turn when it gives way to that of another terminal: the text is read
before the lock is taken, so a handler that read the old terminal may compare after one that
read the new, push its lines again, and leave a baseline that lacks those of the new, which
are then pushed twice (two idle events that overlap a restart of the session, and a third
one). Each scenario has a budget of what may still happen.

### Setup

`wiz`, `srv` and `un` are the programs, each with the copy of the configuration it has in
memory; `config` is the file of each home, `cluster` the password the data directory was
made with, `rows` the admin row of each database. The wizard's stages are actions of their
own, so that `Interrupt` and `KillServer` fall between any two. `dropped` names how a
password was given up, `overtaken` the databases whose row came between a boot's look and
its write.

### Workbench

`Change`, `Publish`, `Offer`, `DropOldest`, `OfferAgain` are a writer: the registry first,
then the copy of the subscribers, then for each a send that may find the channel full. The
endpoints of the providers change the registry too and publish nothing; `unannounced` holds
the plugins whose last change was theirs, or of an Uninstall that failed after its removal,
or whose publisher panicked.
`Subscribe`, `Refresh`, `Receive`, `Flatten`, `Apply`, `Leave`, `Unsubscribe` are a client
with its two views and its requests under way. `Invoke` and what follows is a command.

### ModelProxy

A translated request, and an answer taken delta by delta; the client's view is rebuilt from
the events sent.

### The lanes of Surfaces

* `SidecarMux` ("Mux"): callers, the writer's lock, two pipes with little room, the read
  loop, the goroutine of each request the sidecar makes, cancellation, malformed and
  oversize frames.
* `Market` ("Catalog"): files of a registry and its mirrors, cached or not, of any age;
  download, extraction, signature, staging; the temporary directory.
* `Accounts` ("Login"): a flow with its process and directory, the three requests and two
  timers that may end it, the move of the credentials, the CRUD requests around it; `fate`
says how a sign-in lost its credentials, `undone` those that a second Complete of the same
flow has moved aside.
* `Telegram` ("Bridge"): see above. The run `Telegram` has this lane alone, and the run
  `Surfaces` the other three.

### The lanes of Displays

`TerminalSession` ("Notice"), `Workbench` ("Bench") and `Setup` ("Install") are described
above; the others are:

* `OutputStream` ("Stream"): the byte ring with its head, the subscribers' channels, and a
  client that subscribes, takes the snapshot and follows.
* `LogTail` ("Viewer"): a file whose bytes are numbered, that is written, cut and replaced
  under `Tail`.
* `SourceControl` ("Panel"): the rows of `plugin_kv` that the panel's requests read, change
  and write back, beside what they would be had each request been one step (`ideal`). What an
update gives a forge is in `fields`, beside `agreed`, what the answers to the requests say;
an update that cannot write its token leaves the two apart (`halfway`).

## 3. Runs

All twelve pass. States are distinct states; a run takes between 10 seconds and
three and a half minutes with two workers.

| Run | Shows | Bounds and why they are enough | States |
|---|---|---|---|
| `SessionHub` | every exit is announced unless the gateway dies and every request returns although processes may ignore signals (`EverythingEnds`); the hub implements `SessionSlots` (`ImplementsSlots`) | one session, two requests in flight, two processes, one crash or shutdown: an old run, a new run, a request on each and a recovery meet; the cap of two is not reached, so it is the check for a running session that keeps the slot | 107 k |
| `SessionHubCap` | `StopRequestedOnlyRegistered`, `CapacityOvershoot`, `UndisturbedRequests` (no process is lost, and a requested stop is reported as one), `SwitchRunsNewAccount` | cap of one, two sessions, two callers: the smallest instance in which the cap can be exceeded; three requests and two processes: start, stop or switch, start again. Sessions, callers and accounts are symmetric; no liveness is checked here | 1.5 M |
| `TaskRunner` | `ActiveExact`, `SubscriberServed` (no silent gap, done means closed), `StopEnds` | two runs and callers with a cap of one; two pumps, two chunks and a channel of one, so that both pumps write at once and a channel fills; one subscriber | 670 k |
| `TerminalSession` | `ClientInformed` (a client that reads its socket is told of every silence or the reader is at work again), `LoopsEnd` (the loops of the session whatever the client does, its notifier if the client reads) | a threshold of two ticks and three chunks: silence, output, silence, with the detector caught in the middle each time | 54 k |
| `HostSupervisor` | `EverySidecarHeld`, `NothingListedAfterStop`, `EverybodyReturns` | two requests on one plugin, three sidecars: one listed, one late, one dying. Plugins do not interact | 69 k |
| `PluginBridge` | `EndedStreamsStayEnded`, `SlotsExact`, `FeedsCanEnd`, `ChangesNeverWait` | two connections; the first opens an event stream or a command, then releases it or opens a file stream; the second connection opens a command, numbered like the first's; one slot; one peer that stops reading; one change of consents | 1.59 M |
| `PluginLifecycle` | `AcknowledgedHolds`, `StagingAccounted`, `GrantMatches` | two bundles of one version of a built-in plugin, one of them revoked; two request goroutines, three requests, one failing query or rename, one restart: a failure and a crash inside a request that another one meets, or a query of LoadAll that fails | 674 k |
| `PluginData` | `SecretsReadable`, `RotationGoesThrough`, `SidecarCurrent`, `QuotaOvershoot` | two plugins, three keys, two goroutines and two rotations, a quota of two, in ten mixes of calls: each mix has the calls that touch the same rows, with a restart or an uninstall where they are exposed to one | 697 k |
| `Telegram` | `SubmittedOnce`, `SelectionKept`, `PushedOnce`, `Answerable` | two chats, a session read from JSONL that asks and one read from its screen, eight scenarios: a prompt with taps and two submits, overlapping pushes with a text sent, with a failing call, or with the session ended and started again, replies to two sessions, a split body and the notice of an exit, links, a reload with a failing bot or a restart, a button during a reload. Lines, updates and bots up to three: a second push meets the first, a second submit a taken prompt, a stopped bot its successor | 738 k |
| `ModelProxy` | `AnswersFaithful` (well-formed blocks, the same answer as without a stream, no block of a request dropped) | six requests with texts, calls, results and an image in either order; six deltas and two tools, so that two calls interleave with text | 158 k |
| `Surfaces` | `SidecarAnswers`, `InstallsStaged`, `SignInsClean` | three lanes of four; three calls on a mux, so that one waits for the lock behind one that hangs; two requests to the market with versions ordered otherwise than their strings ("1.10.0"); two sign-ins for the same account name; pipes and buffers of one or two so that they fill; in each one fault or crash where the code handles one | 973 k |
| `Displays` | `OutputShown`, `LogShown`, `PanelExact`, `ClientsFresh`, `ClusterOpens`, `AppliedHolds`, `ClientNeverRepeats` | six lanes; a ring of three bytes that wraps under a client with a channel of two; the detector as in `TerminalSession`; a log that is cut or rotated once under a reader that reads ahead; two requests of the panel in six mixes; two writers, a client that may come back and a queue of one in seven mixes; seven mixes of two wizards, two boots, interrupts, crashes, the service and the uninstaller, where a second wizard or boot meets what the first left | 1.72 M |

Deadlock is not checked: every one of these systems may come to rest, with no request, no
output and no process left, or with the bound on requests used up. Where rest would hide a
goroutine that waits for ever, a property says so instead (`EverythingEnds`,
`EverybodyReturns`, `SidecarAnswers`, `ChangesNeverWait`).

A property of `Surfaces` or `Displays` speaks of one lane, and most conjoin what is to be
said of it with the lane's type invariant; some other properties conjoin two named halves,
which their modules define one after the other. Every module has a type invariant. Those of
`SessionHub`, `TaskRunner`, `HostSupervisor`, `PluginBridge`, `PluginLifecycle` and
`PluginData` are theorems of their own (section 6), the others part of what is checked
(`Telegram`'s of `SubmittedOnce`) and, but for `LogTail` and `ModelProxy`, proved.

Each property of a run has a mutant in the module, an operator before the one it changes
that has a plausible bug in it (a dropped guard, a swapped order, a missing reset); with
the mutant in place the property fails.

## 4. Where the code and its documents disagree

While the modules were written, some statements of comments, messages and of `README.md`
turned out not to hold of the code. Each is a formula in its module, after the properties,
under a comment that begins or goes on with "Refuted", and quoted with its place under
`findings` in `PROJECT.json`. To see one fail, name it as the only `INVARIANT` (or
`PROPERTY`, when it has `[]`, `~>` or a prime) in the `cfg` of its module's run. A formula of
a lane is named with the prefix of its instance, in a definition of the `MC` module such as
`Seen == lane = "Install" => Install!NoOrphan`; the temporal ones of `Workbench` and
`SidecarMux` want their `FairSpec` (`Bench!FairSpec`, `Mux!FairSpec`) beside `Spec` as the
specification. In short:

* **Hub.** An agent that dies at once stays in the map for ever (`ExitLeavesMap`); the
  callback of an old run deletes the config files of the new one (`ConfigLasts`); recovery
  does not re-attach (`RecoveryReattaches`).
* **Terminal.** The onIdle hook may repeat (`HookNeverRepeats`), a silence may never be
  reported (`SilenceReported`); what is left in a client's channel when the process ends is
  not sent (`NoDataLost`).
* **Tasks.** A pump may send on a closed channel (`NeverPanics`).
* **Sidecars.** One dies with the request that spawned it (`CallsUndisturbed`); a cancelled
  call hangs in a full pipe (`CancelEnds`); a frame too large closes the mux and leaves the
  process (`MuxLivesWithSidecar`), whose output nobody reads from then on, so that it may stop
  reading and a later call hang in its write.
* **Bridge.** A subscribe that was checked before a revocation registers after it
  (`EveryLiveSubRevoked`); one that comes after its connection was closed and drained feeds a
  dead socket for ever (`NoFeedLeft`).
* **Plugin data.** Two first writes draw two keys (`SecretsSurvive`), after which a
  rotation cannot be made again (`RotateAgain`); a wizard overwrites a password changed
  by a request (`WizardKeeps`), and locks every stored secret out, with nothing overlapping it
  (`WizardSpares`); a form finds no sidecar to kill while one starts
  (`FormRestarts`).
* **Telegram.** Replies to a message that is being sent go elsewhere (`RepliesArrive`); an
  exit notice and the earlier parts of a split body can never be replied to
  (`NoticesAnswerable`); an idle event may be held back (`NextIdleHeard`).
* **Setup.** The service is installed after an aborted wizard (`ServiceConfigured`);
  PostgreSQL may be left an orphan (`NoOrphan`).
* **Workbench.** A publisher may send on a closed channel (`BusNeverPanics`); the newest
  event may be the one dropped (`NewestKept`); a provider registered or deleted is announced
  to nobody (`ChangesAnnounced`); the timeout of a command does not end it
  (`ExecEnds`).
* **The rest.** A timeout never reaches a mirror (`TimeoutTriesMirror`), a bad row fails the
  list (`BadRowDropped`); the cap on sign-ins is overshot (`CapHolds`), a cancelled one may
  leave its account (`CancelHolds`), a second Complete of one flow moves the credentials of
  the first aside (`RegisteredStays`); tool blocks stay open side by side
  (`BlocksSequential`); a message does not cancel the tail (`MessageCancels`); saved
  repositories outlive their forge (`NoOrphans`), invalid bookmarks are not returned
  (`InvalidListed`), counts and patch are of two moments (`CountsOfPatch`).

Where such a statement fails for one named reason, the property a run checks is stated with
that reason excluded, so that it still says that nothing else goes wrong.

## 5. Fairness

Weak fairness of the goroutines: Go's scheduler runs a goroutine that can run, and the
steps assumed fair wait only for channels, timers, processes or locks that the model makes
explicit. A write to a socket is not among them, as it has no deadline and its peer need not
read. In `TerminalSession` the write of the notifier (`Sent`) has no fairness, so a client
that stops reading keeps the notifier for ever; that it reads (`ClientReads`, weak fairness
of `Sent`) is a premise of `ClientInformed` and of the notifier's part in `LoopsEnd`, and of
nothing else there: the loops of the session end whatever the client does. Ticks are fair:
time passes. A process need not exit by itself, with two
exceptions where SIGKILL is certain: a task that was stopped (`exec.CommandContext`), and
a sidecar that was shut down or whose context is done. For a terminal there is no such
assumption, since `Engine.Stop` may return without SIGKILL; that requests return all the
same is the point of `EverythingEnds`. Users, clients, output, crashes and boots are never
obliged to come. `SidecarMux` adds strong fairness of the writer's lock, which Go's mutex
hands to whoever has waited for long.

Elsewhere no fairness is assumed; that nobody is forgotten is then stated of states, as
`SidecarAnswers` does: a call that has not ended means that something can still move by
itself. `Mux!Moves` spells out what that is, step by step, without `ENABLED`, so that it can
be proved; a sidecar that stalls, that waits for the answer to its own request, or that goes
on after a frame too large is excepted by name. That is weaker than a liveness property where
a cycle of steps could go on for ever, which these modules' bounded calls do not have.

## 6. Proofs

TLC shows a property for an instance, the theorems for every value of the constants: any
number of sessions, goroutines, processes, plugins, envelopes, chunks, rows, wizards or
boots, and any cap, quota, threshold or size of a buffer. The only premises are the
assumptions named in the modules (`HubAssumption`, `RunnerAssumption`,
`SupervisorAssumption`, `BridgeAssumption`, `LifecycleAssumption`, `DataAssumption`,
`SurfacesAssumption`, `DisplaysAssumption`, the last two conjoining those of their lanes);
they say that bounds are numbers and that markers such as `None` are not mistaken for a
session or a process, and TLC evaluates them in every run. Where something is counted, the
set counted over is assumed finite.

Each proof follows one plan. The property is seldom inductive, so the module defines a
stronger invariant, shows that `Init` implies it and that every action keeps it, one lemma
for each action, and concludes for the specification. What the strengthening is for:

* **`SessionHubProofs`**: `HubInv` adds to the types that whoever is about to register has
  a process (`RegisterHolds`) and that requests are served only after recovery while the
  main goroutine starts sessions only during it (`PhasesApart`). `CapacityOvershoot` counts
  registered sessions together with the goroutines in Start: the sum grows only in
  `StartCheck`, which looks at the map first, and by `PhasesApart` the goroutines in Start
  are callers, or the main one alone.
  For the slots, `SlotInv` says, for sessions without overlapping requests, that
  one goroutine works on a session (`OneRequest`), that map entries and registrations in
  flight name processes of their own session (`EntriesOwn`, `RegistersOwn`), that Start
  finds its entry empty (`StartsEmpty`), and that every process that has not been
  unregistered is in the map or about to be put there (`ProcessesHeld`), with its stop flag
  if it was asked to stop (`AskedFlagged`). From it follow `UndisturbedRequests` and the
  refinement: a request that overlaps another is `Contend`, `StartRegister` is `Attach`,
  `ExitUnregister` is `Detach`, an exit is `ExitOf`, the end of the gateway is `Reset`,
  everything else leaves the slots as they are. `SwitchRunsNewAccount` needs
  `SwitchRebinds` on top: between its rebinding of the row and its answer a SwitchAccount
  hands on the account it was asked for.
* **`HostSupervisorProofs`**: `UsedIsListed` says that a healthy sidecar in a request's
  hands is the listed one; with it a late sidecar is dropped by the one who spawned it and
  `EverySidecarHeld` is kept by `Insert`. `OneSidecar` follows.
* **`TaskRunnerProofs`**: `active` counts the runs whose waiter has not come to its end,
  which is shown together with its type since it is decremented; `Sending` and
  `ClosedIsEmpty` say what a pump that has let go of the lock still has to send, and that a
  closed buffer has no subscriber left, from which `NoGap` and `SubscriberServed`.
* **`PluginDataProofs`**: a wrapped key is under the current hash or one that a wizard has
  replaced (`RowCurrent`), a goroutine with a data key in its hands has the stored one, a
  stored value is sealed by it (`KeysAgree`), and a rotation about to commit has locked all
  keys there are (`RowsLocked`). `SidecarSeen` extends `SidecarCurrent` to sidecars that are starting. For the quota, a value that has
  been checked counts as put already (`QuotaInv`).
* **`PluginBridgeProofs`**: an open stream stays the stream of its call for ever, so that
  what the maps list and what a release has found can be compared later (`ListedFine`,
  `CallsFine`). A stream that is fed is listed or about to be detached (`FeedsListed`), a
  released one is not listed again (`ReleasedUnlisted`): what is released stays released. A
  stream without a grant is still ahead of the handler that took the grant away
  (`RevokedDoomed`), since that handler touches what its new row lacks (`HandlersFine`) and
  searches the connections after it has written the row: what is revoked stays revoked.
  `SlotsExact` is inductive by itself, given what `CallFine` knows of each envelope. For
  `FeedsCanEnd`, whoever may still register a stream, or has, does so with a connection that
  the manager lists, but for the calls that were `late` (`Reachable`).
* **`PluginLifecycleProofs`**: what a request has answered is prepared by its steps, so
  `AloneFine` says, for a request that overlaps no other, what rows, directories and memory
  look like at each of its places; when it answers this becomes `SaidFine`, which survives
  `Crash` and `Boot` because it speaks of the row and the tombstone that `LoadAll` starts
  from; what a failed query of `LoadAll` changes is in it too (`blind`, "reseeded").
  For Confirms that do overlap, `BundleOf` follows the bundle from staging to its home and
  back, and `TokensApart` says that a token is with the store or one goroutine, and
  that whoever met another request is in `mixed`, where `StagingAccounted` claims less.
* **`DisplaysProofs`**, lane by lane. *Stream*: `WrapsExact` and `StoredLast` show that the
  wrapped ring holds just the last bytes; a client's share (`Served`) is a suffix of what was
  written, less what it is `About` to be told and its full channel has dropped. *Notice*: a
  connection never reports a closing twice because the channel it has reported, the one it
  holds and the present one are numbered in this order (`ReportsAdvance`), and because a poll
  that is due belongs to a listener that polls (`DuePolls`); `RearmsFollowOutput` bounds the
  number of channels by that of outputs. *Panel*: a row equals the ideal one unless it is
  `contested`, since a copy about to be saved is that of the row (`Current`), and a forge
  without a row is in nobody's copy (`Apart`). *Bench*: a client that counts has seen the
  latest contributions, or a message for it is in its channel or with a writer who has still
  to come to it (`Fresh`). *Install*: what each program has in its hands is related to the
  files, although others write them: the one who is about to write a password down is the
  only one, and it is the cluster's (`HandsHold`); what was read of the file still is what it
  says unless a named event came between (`ReadFresh`), which needs to know where the wizard
  can be with which configuration (`WizardPlaced`, `NobodyAside`, `SecretsKept`).
  `AppliedHolds` needs what the wizard at work has done so far (`DoneSoFar`), what the last
  one has reported (`Reported`) and whose admin row is in the database (`RowsChosen`).
* **`SurfacesProofs`**, likewise. *Catalog*: what a request has resolved is kept beside what
  it downloads (`Resolved`, `Whole`), and each cached or published file is of the kind its
  name says (`OfFile`). *Login*: a flow is in the hands of whoever has put an end to it
  (`Knows`), and what may happen to a flow later keeps its end, its move and its directory
  (`Later`), so that two requests on one flow can be treated one at a time. *Mux*: every
  number is given to one call (`MuxIds`), frames are paired in the pipe as their writers are
  at work (`MuxPipe`), and a call that waits has its request, or its answer, underway
  (`MuxServes`), from which `Mux!NobodyWaits`: follow the request to whoever can move it.
  *Bridge*: every update in a batch or a goroutine has been sent by a user (`BridgeMail`); a
  message that is not remembered is in the hands of the one goroutine that sent it, which
  has a message in hand only until it has registered it (`BridgeNotes`); a prompt that is
  taken has one goroutine that works on it, or has been submitted (`BridgePicks`), so that
  no second one can take it. For `PushedOnce`, the text of a terminal is all it has written
  so far, so baseline and texts in hand are ordered by inclusion or of two terminals
  (`BridgeTexts`), and what
  is being or was pushed since a baseline was set is in today's baseline (`BridgePushes`).

## 7. What is only model-checked

* Liveness (`EverythingEnds`, `ClientInformed`, `LoopsEnd`, `StopEnds`,
  `EverybodyReturns`) and `ChangesNeverWait`, which is stated with `ENABLED`: the prover
  does not handle fairness and `ENABLED`.
* `AnswersFaithful` and `LogShown`: what a client sees is there rebuilt from a sequence of
  events or bytes of any length, and the proof would be an induction over that sequence,
  which the installed provers cannot do.

The small instances leave room for interactions of more participants than they have. In
`SessionHub` liveness is checked with one session, since sessions share only the lock and
the cap; in `Setup` with two wizards and two boots.

## 8. What is not modelled, and why

No state that lives from one call to the next, so nothing for an interleaving to disturb:

* task discovery, the parser of Telegram's screens and transcripts, manifest validation:
  texts in, texts out, with unit tests;
* the namespaces of the bridge that keep no state (files, HTTP, models), the envelope
  format and the matching of capability patterns: a request, an answer;
* LLM providers: CRUD of one statement per request;
* the browsers of files, git, forges, docs and databases, the simulator, the preview:
  handlers around external tools;
* the Flutter client except for its copy of the workbench state: user interface.

Parts of components that have a module:

* PTY engine: the escalation from SIGHUP to SIGKILL and its timers need real time; `Stop`
  is modelled by what the hub can rely on, that it returns, whether the process has gone or
  not.
* Hook bus: subscribe and unsubscribe are an append and a delete under a lock; delivery is
  in `Telegram`, where its lack of order matters.
* Plugin runtime: the resolution of command lines, environments and models of a provider is
  computed from one record.
* Authentication: tokens and password checks are cryptography without state.
* Log viewer, source control: the operations that only read.
* MCP injection: that the files are there is modelled, what is in them is not.
* Store: migrations run once, in order, before anything else does.

Left for later: an abstract specification of the plugin
store that it could be shown to implement, and liveness of the bridge's goroutines.
