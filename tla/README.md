# mini-tui: verification project

TLA+ models of the parts of mini-tui in which several actors change shared state: the web
server's **work queue** with the sessions it drives, the Rust agent's **task graph** and **run
loop**, the **messaging channel** with its bridge to the task graph, the live parts of the
**web client**, the session of the **terminal**, the agent's **subagents, workers and model calls**, and the logins to **MCP servers**. TLC checks them
on small instances; TLAPS proves the main safety properties of eight of them for every value of the
constants. Paths below are relative to the repository root; "map" in
`PROJECT.json` names the lines each definition translates.

Contents: 1 the system · 2 modules and code · 3 runs · 4 bounds · 5 fairness · 6 proofs ·
7 only model-checked · 8 disagreements with the documentation · 9 not modelled · 10 plan.

## 1. The system

mini-tui runs coding agents. A person talks to it through a terminal UI, a web app, or a
messaging channel; the work is done by agent processes (`agent-rs`), each with a conversation, a
control file through which it can be talked to while it works, and a journal of what it said.

| Part | State it keeps | Operations | Talks to |
|---|---|---|---|
| Work queue `src/web/workQueue.ts` | rows of `queue_tasks` (status, folder, session, redirects given, attempts), concurrency setting, starts in flight, who waits for the human | create, redirect, cancel, resize, pump, settle, session gone, recover, ask a human | queue host (start / continue / stop a worker), chat |
| Queue host `src/web/queueHost.ts` | chain of results to deliver, release timers, the dispatcher's conversation | startWorker, continueWorker, stopWorker, runExited, releaseSettled, deliver | session manager |
| Session manager `src/web/sessions.ts` | entries, their saved rows, the run each follows | create, send, resume, interrupt, close, delete, restore, attach, exit handlers | agent processes, database, watchers |
| Agent processes `src/mini/spawn.ts` | process, control file, exit event | spawn, signal, write a message | the agent |
| Agent run loop `agent-rs/src/agent.rs`, `main.rs`, `goal_oracle.rs` | conversation, limits, checker and judge state, STOP | run, step, query, drain_control, check_task_verifier, check_goal_closure, wait_for_followup | control file, model, subagents, journal |
| Task graph `agent-rs/src/graph_queue.rs` | cards, edges, fences, leases, recorded workers (SQLite) | put, claim, bind, heartbeat, finish, release, retry, amend, cancel, execute_wave | agent processes, operators |
| Trajectory `agent-rs/src/agent.rs` (`save`, `append_journal`), `src/traj/watch.ts`, `#ingest` in `src/web/sessions.ts` | journal and export, the agent's cursor, the reader's offset, the conversation kept and the events shown | save, stream, fail, rebuild, poll, read at once, continue on a saved conversation | run loop, session manager |
| Subagent hub `agent-rs/src/subagents.rs` | children and their processes, how far it read their journals, notes, held reports of waves | spawn, batch, monitor, wait, result, send, stop, take notes, join | run loop, agent processes |
| Orchestrate `agent-rs/src/coord.rs`, `shard.rs` | slots, calls in flight, the owner of the plan, the tree, the gate | plan, start workers, race calls, write answers, check, review, fix | model calls, the repository |
| Model calls `agent-rs/src/models/http.rs`, `query_model` in `agent.rs` | attempts, time waited, requests out, the model asked, models tried | call, duplicate, retry, fall back, switch, stop | model providers, run loop |
| Channel consumer `src/channels/consumer.ts`, `inbox.ts`, `evoSend.ts`, `evoReceiver.ts` | inbox rows, cursor, send ledger, deferred steps | accept, run a row, reply, prove delivery, acknowledge | messaging gateway, queue bridge |
| Channel queue bridge `src/channels/queueBridge.ts` | mapped tasks, cursor of the event log, outbox, armed reconciles | plan a task, sweep, amend, consume events, deliver, relaunch, watch | task graph, gateway |
| Session feed `src/web/feed.ts`, `web/src/lib/session-socket.ts` | sequence numbers, dropped frames, probes | publish, resync, reconnect, give up | session manager, web app |
| Notes `src/web/hub.ts`, `notes.ts`, `web/src/lib/noteEditor.ts` | versions, saves in flight, the editor's text | save, note, conflict, take theirs | other devices |
| Voice recorder `web/src/lib/control-ui/audio-recorder-controller.ts` | microphone, recorder, take | start, stop, discard, upload | browser |
| Files of a message `web/src/lib/components/Composer.svelte`, `attachmentUpload.ts`, `src/web/attachments.ts` | uploads in flight, the draft they belong to, the message's files; the store's index and what is read of it | pick, upload, cancel, change of chat, send; save, register, look up, restart | web server, dispatcher chat |
| Terminal UI `src/ui/App.tsx`, `src/mini/spawn.ts` | the run it follows, transcript, session in the database | prompt, interrupt, open, attach, new, compact, quit | agent processes, `live_runs`, the web app |
| MCP logins `src/mcp/flow.ts`, `client.ts`, `store.ts` | record of each server in `mcp.json`, logins in flight | start, complete, cancel, refresh, log out, disable, remove | the provider, other processes over the same file |
| Bounded spawn `src/proc/spawnBounded.ts` | one child, its readers | timeout, abort, TERM then KILL | operating system |
| Router and breaker `src/router/*` | breaker rows | status, trip, close, score | model providers |
| Web server `src/web/serve.ts`, ... | connections, boot phase | routes, broadcast, boot, stop | everything in the web app |
| Usage, skills, kanban, rendering | files and views | read, write, render | |

**How they interact.** The server is one event loop, so two of its callbacks never run at the same
instant, but an `await` splits a handler: what was read before it may be stale after it. Agents
are processes of their own; the server learns of them only through exit events, their journal and
the liveness of a pid. A message to an agent is a line appended to a file that the agent reads and
truncates. The queue's rows, the sessions' rows and the agents' journals are three stores that a
crash can leave in disagreement. Task-graph runners share nothing but a SQLite database. The
channel writes into a chat through a gateway whose answer may be lost although the message landed.
The terminal and the web server are two processes over one database and one `mcp.json`: each announces its
agents in `live_runs`, where the other finds them, and each renews the tokens of the MCP servers.
A browser tab sees the server through a socket that drops frames, breaks and comes back.

**What is hard.** A start that comes back after its task was cancelled, redirected or settled; a
redirect that races the last step of its worker; a session closed, deleted or re-opened while its
process is still dying; a restart with agents alive, requests arriving while sessions are being
restored; leases that run out under a slow worker; an amendment between the read of a goal's
version and the update that closes it; a signal while a checker or a judge is running; a message,
or a subagent's report, that arrives just as the run decides to end; a crash between a reply and
the record that it was sent; an event cursor that moves past an outcome nobody was told; a frame
dropped while a transcript is replaced; two saves of one note in flight. `PROJECT.json` lists them under
"hazards", each at its line with the properties that would catch it.

**What makes each part correct.**

* Work queue: running tasks have disjoint folders; never more starts than the setting allows and
  in queue order; no slot stays idle; a settled task is final unless redirected; every start has a
  reason; every task settles; a cancelled task's agents stop; a redirect is heard.
* Task graph: claimed cards exclude each other by project and directory; dependencies are done
  before a card runs and never form a cycle; at most one recorded writer per place; a card closes
  only on evidence for its present goal.
* Run loop: success means the task's checker passed and the judge agreed; no message vanishes; no
  success leaves a message unanswered; subagents are not orphaned; the run ends.
* Channel: a message is acknowledged only when its answer is in the thread; no answer twice; the
  bot does not answer itself; work promised in an answer is put on the queue once; every outcome
  of that work is told once; no task is relaunched over a worker that still writes.
* Web client: a transcript without holes; unsaved text is always on its way to the server or said
  to be unsaved; another device's text is never overwritten unseen; an open microphone is shown.
* Terminal: an agent it started is followed and announced until it is told to end.
* MCP logins: one login of a server at a time, a code is redeemed once, and the program by itself loses no grant (but in the races of section 8).
* Trajectory: the journal holds what was said, a reader of pieces reads it whole, nothing is shown twice, and
  the next agent is started on all that the last one saved.
* Subagents: a run that ends by itself leaves no child at work and knows what each did in its last turn.
* Orchestrate: no slot is lost and a valid answer wins; workers follow one plan and never share a file; success is said only of the tree the gate saw.
* Model calls: a call waits within its budget and fails only when nothing is left to try; no model of the chain is tried twice; a switch is heard; a stop ends it.
* Services: a child's deadline ends the wait; the human's card belongs to somebody who waits;
  results of tasks reach the one conversation that dispatches.

## 2. Modules and code

| Module | Models | Notes |
|---|---|---|
| `PumpPolicy` | `pump()`'s choice of tasks, `overlaps` | Declarative: `Picks(r, n, S)` says which set S the loop starts. |
| `PumpLoop` | the loop of `pump()` as it is written, on a table that is pumped again when a task settles | Extends `PumpPolicy`; ties `Picks` to the loop. `MCServices` and `WorkQueueProofs` extend it. |
| `SlotBoard` | abstract specification: a board of rows on which tasks start by *grants* | What the queue promises to its users. |
| `WorkQueue` | work queue, worker sessions, their processes, restart | Extends `PumpPolicy`; `Board == INSTANCE SlotBoard WITH row <- BoardOf(task)`. |
| `TaskGraph` | the task graph, runners, manual workers, operators | |
| `AgentLoop` | one run of the agent | |
| `ChannelConsumer` | inbox, consumer and send ledger over an unreliable gateway | |
| `QueueBridge` | the bridge from a chat to the task graph and back | |
| `SessionFeed`, `NoteSync`, `AudioRecorder`, `Uploads` | four parts of a browser tab, all but the recorder with their server side | composed in `MCWebClient` |
| `BoundedSpawn` | a service of the server | composed in `Calls` |
| `HumanHandoff`, `DispatcherChat` | what the server tells the human: requests to act, and the one conversation | composed in `Humans`, which `MCServices` extends |
| `TuiSession` | the session of a terminal beside a web app | `MCServices` extends it |
| `McpLogin` | the record of an MCP server, its logins, two refreshers, the provider | `MCServices` extends it |
| `TrajectoryJournal` | an agent's journal and export, their readers, and the session that starts the next agent on what it read | two instances in `MCServices` |
| `SubagentHub` | the hub of a run's subagents and the children it watches | three instances in `MCServices` |
| `WorkerRace` | the calls of `orchestrate`'s workers over the slots of a provider | composed in `Calls` |
| `Orchestrate` | a run of `orchestrate`: plan, workers, checks, reviews | composed in `Calls`; a worker is what `WorkerRace` shows of it |
| `ModelCall` | `query_model` and the requests below it | composed in `Calls` |
| `Calls` | what is asked of somebody and awaited: `BoundedSpawn`, `WorkerRace`, `Orchestrate` and `ModelCall`, which share no state | `MCServices` extends it |
| `MC...` | constants and compositions for TLC | |
| `WorkQueueProofs`, `TaskGraphProofs`, `AgentLoopProofs`, `ChannelConsumerProofs`, `QueueBridgeProofs`, `McpLoginProofs`, `ServiceProofs`, `WebClientProofs` | theorems | `ServiceProofs` is about `TuiSession`, `Humans` and `Calls`, `WebClientProofs` about `MCWebClient` |

### WorkQueue

`task` is the table `queue_tasks`; `calls` the continuations of `#start` that have not come back;
`sess` one record per worker session (the process, the entry that holds it, whether it is owned or
attached, the exit handler that outlives a closed entry, the messages on the command line, in the
control file, in the conversation and in the saved row); `phase` and `restarts` the server's life.

One action is one callback up to where it yields. `Create`, `RedirectQueued`, `RedirectRunning`,
`RedirectReopen`, `Cancel`, `Resize`, `CloseSession`, `DeleteSession` and `InterruptSession` are the
requests; `WorkerStarted`, `WorkerContinued`, `WorkerNotResumed` and `StartFails` what `#start` does
after its await; `AgentReads` and `AgentExits` belong to the process; `ExitResumes`, `ExitNotResumed`,
`ExitSettles` and `AttachedExits` are the exit handlers; `Release` and `PersistDirty` the timers;
`StopServer`, `CrashServer`, `Boot`, `Rehydrate` and `Recover` a restart. Every action that ends in
`pump()` contains it (`Pump`).

A start is *slow* only when the router is asked for a model (`RoutedStart`); otherwise just
microtasks run before it returns, and no other server action comes between (`Quiet`). The exit event
of a closed entry's process is handled before the next request, timer or other event, and such a process does not
end while a start is under way (`NoExitPending`, `Handles`): otherwise the handler of a closed entry could meet
the state of a later one. The probe of an
attached run is one step. A session id is unique to the task and the attempt that created it. `ok`
is what `runExited` reads: the last exit of the transcript is a submission. Left out: a crash
between spawning a process and saving its session id, the lag of the journal watcher (except where
`close` depends on it), and prompts typed straight into a worker's session.

### TaskGraph

A card is a row of `task_nodes` with its edges. A claim is known by its card and its fence (the owner
string adds nothing to a fence that is never reused). Every SQL statement or transaction is an
action; `finish()` is two (`Report` reads `goal_version`, `Close` updates). Time is a lease that ticks
down for each card on its own. `work` tells what became of the claim's worker: spawned, bound,
ended, or *loose* (a process nobody waits for any more). `ThreadLost` covers a killed runner, one claim at a
time. `Reconciled`, the operator's assertion that an interrupted worker is gone, is an assumption
about the environment and is marked so. The evidence checks of `finish` are reduced to whether the
run exited well and which version was read. Places are compared in two ways, as in the code: the claim's SQL adds a slash to the
directory of a running card (`graph_queue.rs:236`), so that the root `/` contains nothing but itself (`Within`), while the loop that fills a
batch (260 to 263) compares paths, and there the root contains every directory (`StartsWith`, `Collide`).

### AgentLoop

Variables are those of `Agent` that its control depends on, plus two history records (`seal`, what
has been established about the proposed success; `lost`, lines that are gone). `drain_control` is
three actions, read, truncate and take up, because the server may append in between. `left` stands
for the tightest of the step, cost and time limits, and counters stop at the cap they are
compared with. The checker's verdict is a Boolean of the workspace that any command may change.
`MCAgentLoop` gives the settings with which the program starts agents: a queue worker, a headless worker whose judge is
always asked, a web session, a chat turn, the dispatcher, a headless run that holds for its
subagents, and a subagent. `Send`, `Interrupt` (SIGINT), `Kill` (SIGTERM or a crash) and
`ChildReports` happen at any time. Left out: MODEL and COMPACT lines, compaction, model fallbacks (see `ModelCall`),
the cache warmer, prompts, and the verification phase after the run. The fast path is modelled for
conversational tasks only: its judge branch cannot be reached.

### ChannelConsumer

`rows`, `cursor`, `ledger` and `tasks` are the tables; `thread` is what landed in the chat and `flying` what
the gateway may still land; `pc`, `draft`, `got` and `deferred` are the process and vanish with it.
A reply is journalled, sent, marked; a send whose answer is lost leaves its row *uncertain*, and the next
pass looks for evidence in the thread (`findDeliveredReply`: a message that quotes the prompt, or has
the same words in the last quarter of an hour) before it sends again. What the evidence can be
mistaken about beside this is switched by constants, as not every chat has it: `SharedQuotes` (two rows answer the same message) and
`LoseQuotes` (the history dropped what a message quotes). Two more cases are always in the model. A turn may answer *without words*, with a directive and
nothing else or with a picture or a voice note (text "empty"): the empty reply is journalled, the deferred work starts, the gateway
refuses the send, and the next pass takes the empty text for no reply and runs the turn again. And a message may land after the settle wait.
The histories `ran` (how often the deferred step of a row ran) and `late` (rows whose reply was still in flight when a settle wait was over)
let the properties name these cases; `MaxRepeats` bounds how often a step runs before another turn answers without words. `deferred` is a set: two
pending steps of one row without words count as one.

### QueueBridge

`card`, `log` and `worker` are the task graph as the bridge sees it; `mapped`, `outbox`, `cursor` and `stalled` its own
tables; `pc`, `todo`, `queue`, `carry`, `arm`, `round` the tick in progress, which a crash throws away. A
row of the outbox is a key: the number of the event it tells of, or a negative number for a note. The
outbox, the creating sweep, the follow-up that amends a card read seconds ago, the reconciler with
its wait for the fenced worker and the watch for an absent lane are actions; each await is
a place where another one comes between. Two timing assumptions are in the guards: the wait of
an armed reconcile ends after a fenced worker was killed (`Ripen`), and its deadline only when
the tick has read the whole log (`Expire`).

### The web client and the services

* `SessionFeed` — a transcript of `len` events in generation `gen`; the socket, its full pipe, the frames and the
  resync that follow a drop; the tab's probe when the socket closes; the copy fetched over HTTP.
* `NoteSync` — the stored note, one editor with its timer and its saves, another device, a connection that
  breaks; `past` and `seen` are histories for the properties. `waiting` is the texts of the flushes that await the save in flight: when it is over
  they all go out, with one text, so the saves in `pending` have the same deadline (`saveDeadlineMs` looks at the text's length only) and their timers fire
  in the order they were set (`Due`).
* `AudioRecorder` — requests for the microphone that are answered late, the recorder's stop event, the upload and the bar that shows them.
* `Uploads` — `loops` are the running calls of `addFiles`, one for a pick, each with the file it awaits and the answer so far; a file that
  is aborted is followed by the next one in the same step, as in the code. `message` is the prompt under way, `chat` the server's
  conversation and `main` the one the tab shows. The index is what its lines can be read for (`ids`) and whether the last one is torn.
  `shadowed` is a history of what the store does not read after a restart, `owed` of the files the user still counts on.
  Whether a composer that left the screen can still write to the message through its binding is left open (both happen).
* `BoundedSpawn` — one child, its two pipes with the shared output limit, the deadline, TERM and KILL, and a
  grandchild that keeps the pipes open.
* `HumanHandoff` — requests to the human, the waiter that a second one replaces, the answer and the deadline.
* `DispatcherChat` — the chain of prompts and results for the conversation that dispatches, while that is created, replaced,
  closed, deleted or loses its agent.
* `TuiSession` — the refs of `App.tsx` (`session`, `run`, `attached`, `exited`, `watch`), the conversation shown and the one stored
  under each session, the agent processes with their exits, the table `live_runs`, and a web app that starts agents for the same
  sessions. A transcript is known by the session whose conversation it is. `attaching` holds the calls of `attachToLiveRun` that wait,
  so anything may come between. SIGTERM and SIGKILL are one signal after which an agent is *dying*; the two seconds between
  SIGINT and SIGTERM are not seen. A prompt to a live agent is a line in its control file (`AgentLoop`) and no action here.
* `McpLogin` — one server's record, the logins step by step (`startLogin` with its two awaits, `complete` with its
  three), a refresher for each process that reads, asks and writes, and the provider, which honours a token only for the client it
  gave it to and may replace it at each renewal. A token is a number. A client is the number of the login that registered it: each
  `registerClient` makes a new one, and the record keeps one for each redirect (`ids`), so a registration overwrites what another left there
  (`replaced`, a history). Redirects that are ports have one listener at a time. A change of `mcp.json` is a read, a change and a write of the whole file
  (`src/mcp/store.ts:120`) without a lock. Within a process nothing comes between; between two processes it does: `draft` is what a process
  has read and not yet written back (`Reads`, then any of its changes, which start from `Base`). A change that nothing crosses is one step.
  `disturbed` is a history: the provider or a lost answer has damaged the grant, an answer landed on tokens other than those it was asked for, or a
  process wrote over what the other had written since it read. Whether what was read is about to expire is left open. A client
  configured by hand (`src/mcp/flow.ts:101`) is left out.
* `TrajectoryJournal` — a file is a sequence of cells, two for a line (its text and its break), so that a write may be cut inside a line
  or between two. `mode` is the agent's place (it works, streams, opens, writes, exports, holds at its exit, is over) and `journaled` its cursor;
  `offset`, `tail` and `seen` are the reader's; `consumed`, `pending`, `events` and `msgs` the session's. `base` and `cut` are histories. The instance
  *journal* has no failing write, *spoilt* has one, and a fragment in each journal.
* `SubagentHub` — `kid` is the hub's record of a child (state, process, stop requested, turns counted and seen, replaying, put off),
  `agent` the child as it is, `lines` what the hub has not read of its journal. The pass of the monitor is one action, as the hub's lock makes it, but
  the children run on meanwhile: a command acts on what the last pass saw (`looked`), and a child's last line may fall between the
  read of its journal and the look at its process (`late`). `told` and `hidden` are histories of what the run was given, `crossed` of
  the children whose end of a turn crossed a message, a stop or the end of their own children. The instances are a child alone (*single*), one with children of its own (*tree*)
  and a wave of two (*crew*).
* `WorkerRace` — `racer` is where the loop of `race` stands for each unit, `fork` its calls and what they answered, `free` the slots, `warm` the
  warming call. A loop that waits for a slot hears nothing meanwhile, as in the code. Stalls are a choice: a twin may start whenever no answer
  is in hand. A cancelled call ends when it likes, so that its slot may be long in coming back.
* `Orchestrate` — `stream` and `owner` are the coordinator's streams, `units` the workers started and what version of each file they read,
  `tree` how often a worker's answer was written to each file, `tidied` how often the run's own tools wrote it, `status` what the review is told, `gated` (a
  history) what the tree held when the gate last ran. Before the checks, the gate and the gate after fixes, `gofmt` and `repair_go_imports` go over the whole tree and may
  write any file of it, planned or not (`Tidies`). What the models answer, what the tools change, whether the gate passes and whether a write succeeds is anything.
* `ModelCall` — `flight` are the requests of an attempt, `attempt` and `waited` the call's, `model`, `control` and `tried` the run's choice of
  models, `part` whether the step's first call, the one after a compaction or one of the chain is under way. Waiting is counted in steps of the
  curve; a budget of 0 is no budget. `MCServices` sends requests twice in the first step of a run only (`FirstStepOnly`).

The parts of `MCWebClient`, and those of `MCServices`, do not interact. Each composition picks one
in its initial state (`turn`) and lets only that one take steps: the product of their interleavings would show nothing
that the sum does not. Fairness is that of each module, conditioned on the turn. A module about which something is proved is extended by
its composition rather than instantiated, so a run and a theorem speak of the same definition; the logins, which are checked in three parts
(two logins that overlap, two refreshers, a login beside a refresher), are one instance whose steps `LoginPart` restricts.

## 3. Runs

| Run | Checks | Distinct states |
|---|---|---|
| `queue_slots` | `RunningDisjoint`, `NoIdleSlot`, `ImplementsBoard`, `WorkedTasksSettle`, `CancelStopsAgents` with waves, nested folders, slow starts, cancels and resizing | 126,248 |
| `queue_workers` | `HeldAgentWorks`, `OnlyRedirectHeard`, `SettledOnlyReopens`: redirects, closes, deletes and late exits around one slot | 615,444 |
| `queue_faults` | `AttemptsAccounted` with restarts and resume files that cannot be written | 8,985 |
| `task_graph` | `ExclusivePlaces`, `DependenciesHold`, `OneBoundWriter`, `DoneIsCurrent` | 672,322 |
| `agent_loop` | `ClosureProven`, `GoalJudged`, `MessagesSurvive`, `AnsweredBeforeSuccess`, `ChildrenOutlived`, `RunEnds` | 364,104 |
| `channel_consumer` | `AckedIsAnswered`, `AnsweredOnce`, `DeferredOnce`, `EveryRowAcked` | 693,011 |
| `queue_bridge` | `PastIsJournalled`, `DeliveredOnce`, `RelaunchAfterFence`, `NothingForgotten` | 261,535 |
| `web_client` | `TranscriptIsTrue`, `NoteIsPursued`, `BarIsTrue`, `NothingIsLost`, `NothingHangs` | 321,770 |
| `services` | `PumpIsPicks`, `CallsAreHonest`, `HumansAreTold`, `NoAgentLeftBehind`, `LoginsAreTrue`, `JournalIsTrue`, `HelpersAreTrue`, `NothingHangs` | 456,045 |
| `started_twice`, `requeued_alive`, `note_typed` | one statement of the documentation or of a comment each, violated (section 8) | |

Every property of a passing run has a mutant in `PROJECT.json`: the definition that models a piece
of code replaced by a plausible slip (a dropped guard, a missing pump, a lease kept on amendment, an
unsaved message), under which TLC violates the property.

How to read the properties. The type invariants of the five larger modules and of `TuiSession` are proved for every
instance (section 6) and not run again; those of the small ones are conjuncts of a property of
their composition. `OnlyRedirectHeard` speaks of tasks redirected once: with two redirects it
fails (section 8). `ClosureProven` and `GoalJudged` name their exceptions, and each exception is a path the code really
has. `DependenciesHold` is `DepsDone` (work waits for its
dependencies) and `Acyclic`; `AnsweredOnce` is `NoDuplicateReply` and `NoSelfAnswer`. `AckedIsAnswered` and `AnsweredOnce` too name what the evidence rule is mistaken about (a shared or a
lost quote); without these words TLC finds the message that is never answered, or answered twice. `AnsweredOnce` excepts two more cases, a reply that was still in flight when
the settle wait was over (`late`) and a row whose first answer had no words (`Bare`); `DeferredOnce` excepts `Bare`, for which the code does run the
deferred work again (section 8), and `EveryRowAcked` a program whose turns answer without words again and again.
`LoginsAreTrue` is `OneLogin` and `StoredTokenWorks`, which excepts what the program cannot help (`disturbed`: a revocation, a lost answer) and three things it
does (section 8): an answer that lands on a record changed meanwhile and a write over what the other process wrote (both in `disturbed`), and a token whose client another registration has
overwritten (`replaced`); such a token is honoured, but only for a client that nobody keeps any more. `JournalIsTrue` is five statements: `JournalIsMemory` (what a reader makes of the
journal between two saves is the conversation up to the agent's cursor), `BitsAreWhole` (polling gives what one read would), `ShownOnce` and
`ConversationKept`; the last three hold as long as no write fails, and `ConversationKept` names two more exceptions (section 8). `BarIsTrue` is that the microphone is open only while the bar says so (with two exceptions, section 8), that a file of a message stays on the bar until it is taken off or an agent has it, and that the store serves what its index names; the last two name what the code loses (`LeftOut`, `Sent`, `shadowed`: section 8). `CallsAreHonest` is `ReadsAreWhole` of `BoundedSpawn`, three statements of `ModelCall`, for a race `SlotsAreKept` and `BestAnswerWins`, and for a run of orchestrate `WorkersApart` and `SuccessIsGated`: what the gate saw is the whole content of the tree, with what the tools wrote, while that only files the coordinator named are written is said of the workers alone. `HelpersAreTrue` has `NoneLeftWorking` and `EndsInformed` of the hub: a run that ends by itself leaves no child at work and was told the last turn of each; it excepts `crossed` and the notes of a wave that section 8 describes. `queue_workers` and `queue_faults` cannot be one run: a cancellation between a crash and the restore of the sessions leaves an agent running that the queue no longer knows of,
so `HeldAgentWorks` does not hold over restarts. For the same reason of size `queue_slots` has no restart: over restarts, `RunningDisjoint` and `NoIdleSlot` are
proved (`FoldersDisjoint`, `NoSlotIsIdle`) and not run. Slow starts are in `queue_slots` and `started_twice`; in `queue_workers` a start returns at once.

## 4. Bounds

| Configuration | Instance | Why it is enough |
|---|---|---|
| `WorkQueueSlots` | 2 tasks in one wave, 3 folders, setting up to 2, routed starts | two tasks race for a folder or a slot while the setting shrinks; a cancel during a slow start with another task waiting |
| `WorkQueueWorkers` | 2 tasks, 1 folder, setting 1, 1 redirect | a second task waits for the slot while the first is redirected, closed and re-opened |
| `WorkQueueFaults` | 1 task, 1 redirect, 1 restart, disk faults | each step of a restart with an agent in each state |
| `WorkQueueStartedTwice` | 1 task, 1 redirect, routed starts | shortest instance that shows the case |
| `TaskGraph` | 2 cards, 3 places (a directory, one inside it, the root), fences to 3 (3 and 1), versions to 2, leases of 1 tick, 2 cards per claim, manual workers | an edge between the cards, a place shared and one nested, two claims of a card, one amendment |
| `TaskGraphRequeue` | 1 card, fences to 5, leases of 2 ticks | a bound claim, then an unbound one |
| `AgentLoop` | 1 message, 1 STEPS line, 7 settings, every limit 2 | every counter is once below and once at its limit; a message at each point of the loop |
| `ChannelConsumer` | 2 faults, 1 text, windows of 3 messages over 1 old one, shared and lost quotes, replies that land late; two parts: *rows*, 2 rows answered with words, and *bare*, 1 row that may be answered without, its deferred step once before such an answer (`MaxRepeats`) | a reply that meets the trace of another row's reply; a crash, then a second fault on the recovery path; a deferred step that ran, and a second turn of its row |
| `QueueBridge` | 1 task, 1 follow-up, 3 events, 2 troubles | a task that is started, interrupted and told of; an uncertain send, then a crash in its recovery |
| `WebClient` | transcripts of 2 events replaced once, 2 troubles; a note typed in twice, one foreign write, 1 nudge, 1 mishap; 4 requests for the microphone, 2 troubles; 3 files in 2 picks, 2 to a message, 1 message, 2 upsets | a drop during the resync of a drop; a conflict while a save's answer is lost; an answer to an older request during a newer, and a take begun after it while the one before is uploaded; an upload between a restart and the message of an earlier file, a pick cut between its files, one file more than a message takes |
| `Services` | 3 rows, 4 folders (one contains all), settings 0 to 3; 2 units of output a stream; 3 requests to the human, 1 restart; 3 jobs, 2 changes of the chat; a terminal with 2 stored sessions, 2 agents, 2 openings; logins: 2 that overlap, without refreshers, up to 2 tokens; 2 refreshers without logins and without trouble; 1 login beside 1 refresher; the web server under one redirect, the terminal under either of two; 3 tokens, 1 trouble, which a change cut in two uses up; a trajectory of 2 agents with 3 messages, or with 2, a failed write and a fragment each; 1 subagent with 2 turns, 1 message, 1 death; 1 with children, 2 turns, 1 death; a wave of 2 with a turn each; 2 unread lines; 2 slots for 2 units with 2 calls each; 2 files, 1 review, 1 failed write or 1 file written by the tools; a chain of 2 models over 2 steps, 2 attempts, 1 unit of budget, hints to 2, 1 duplicate in the first step | a skipped task between two started ones; output at its limit; a request replaced twice; a job on either side of a change; an agent of each UI for one session while another is opened; a login superseded at each of its steps, a client overwritten after its token was stored, a renewal between any two steps of a login, a write of the other process inside a change; a finished turn resumed and cut short in its first write; a child restarted after a death the hub noticed a line too early; a member of a wave that is stopped while the other works; a replacement that waits for the slot of a twin that lost; fixes of a file while the other is as planned; a hint longer than the budget; a switch back to a model the chain left |
| `NoteTyped` | a note typed in three times, 1 nudge | shortest instance that shows the case |

The bounds appear in guards and are constants; the theorems of section 6 hold for all their values.
Deadlock is not checked: an idle server, a finished graph, an ended run, an idle tab really stop,
and bounded requests run out.

## 5. Fairness

* Work queue (`LoopFairness`): the event loop reaches every pending continuation and every exit
  event, a booting server finishes booting, and a process that was signalled ends (KILL follows
  TERM). That an agent ends by itself is a separate assumption (its own limits; `RunEnds` of
  `AgentLoop` is what supports it), made only where a property needs it: `WorkedTasksSettle` has it as its
  hypothesis, `CancelStopsAgents` does without. Requests, timers and saves are never assumed.
* Agent loop (`FairSpec`): weak fairness of the agent's own steps, since a model call, a command and
  the judge each have a timeout and an idle run ticks; and of the end of live subagents, which have
  limits of their own. Nobody is assumed to write or to signal.
* Channel consumer and bridge (`FairSpec`): the process is started again and takes its next step (the polling
  interval, the deadline of a turn and of every call to the gateway). Faults are bounded and never
  assumed. Nobody is assumed to write, and the queue's lane is not assumed to work.
  Nothing makes a turn answer in words, so `EveryRowAcked` is about runs in which it does so from some moment on: one turn after another that answers
  without words holds its row, and those behind it, for ever.
* Web client: timers fire (that of an upload is set whatever becomes of the request), the server handles what reached it, an open connection is re-established
  and delivers; nobody is assumed to type or to press a button.
* Services: deadlines pass, a killed process dies, its pipes are read; a job of the dispatcher's chain takes its turn; threads run, a slot that is free goes to a unit that waits, and a request comes back (it has a timeout).
  `NothingHangs` is one formula for every part: again and again, nothing of it is awaited. What it says of a part
  is stable or bounded there (a run that returned, a request that was replaced, a job that is done), so this is what the
  parts' own `~>` formulas would say, and TLC checks it with one pass over the graph.
* The task graph has no liveness property: a card whose dependency was cancelled waits for ever by design.

## 6. What is proved

All theorems hold for every value of the constants that satisfies the named assumptions
(`BoundsAssumption`, `DirAssumption`, `SlotsAssumption`, `SessionAssumption`, `PlaceAssumption`, `GraphBoundsAssumption`,
`LinesApart`, `ConfsOK`, `BoundsOK`, `ConsumerAssumption`, `BridgeAssumption`, `LoginAssumption`: bounds are naturals, folders are
sequences, kinds of lines and of texts are apart; and, as hypotheses of the theorems of `ServiceProofs` and `WebClientProofs`, `HandoffBounds`,
`ChatBounds`, `CallsBounds`, `FeedBounds`, `RecBounds`, `FilesBounds` and `NoteBounds`: bounds are naturals, and a transcript has room for the event it begins with). They are checked by `tlapm` with Z3, Zenon and LS4.

**`WorkQueueProofs`.** `PumpWithinCap`, `PumpDisjoint`, `PumpInOrder`, `PumpLeavesNoIdleSlot`: what
`Picks` guarantees about any board; the argument counts the tasks started before a given one. `PumpIsPicksAlways` ties `Picks` to the
code: the loop of `pump()`, a recursive function over the rows, starts the one set that `Picks` accepts, and a second pump starts nothing. That
the function exists and does its turns (`LoopExists`, `LoopGoes`) is proved by induction over the rows. The library's induction theorems take a
predicate, which the provers cannot instantiate; `EveryNatural` and `EveryUpTo` take a set instead, the rows for which the claim holds, and
rest on the least element of what is missing from it (`WFMin`).
`TypeCorrect`, `AttemptsNeverExceedReasons`: the type of `attempts` is bounded by
`MaxAttempts`, so it is not inductive by itself; the invariant `TypeInv` adds, row by row, the account of
`AttemptsAccounted`, with one attempt reserved while a row waits or a recovery is due. On these rest
`FoldersDisjoint`, `NoSlotIsIdle`, `OnlyRedirectsReopen`, and the refinement
`QueueImplementsBoard` (`Spec => Board!Spec`). Every action is first brought into one form
(`StepForm`: the rows move along the board's arrows, and then either nothing starts or `Pump` runs on
the result); the four theorems then need only that form and the theorems about `Picks`.
Every step of the queue is a step of the board or a stutter.

Of the agents: `HeldAgentsWork`, `AgentsNeverStartedTwice`, `RedirectsAreHeard`. They hold while `Undisturbed`: until the first
restart, and when no start waits for the router. Neither condition can be dropped (`started_twice`; section 3 for
restarts). `HeldAgentWorks` says nothing of the sessions the server let go of, and they are what could break
it: the exit handler of a closed entry may start an agent for whoever holds the session by then. The invariant `Agents`
follows every session through its life (`SessionOK`): which process its entry and its handler stand for
(`Shape`), that an agent nobody stopped works for the running row that names its session (`Works`), that a
row under way has its `#start` in flight or its session (`RowsCalls`), and that at most one exit of a closed entry waits,
with no start beside it (`OnePending`). One lemma for each action.
`RedirectsAreHeard` (for `OnlyRedirectHeard`) also assumes that resume files can be written (`~DiskFaults`): an agent that could not be
resumed settles its task by the exit status of the run before. The invariant `Heard` says where a redirect is between the
request and the conversation: with the call that will start or resume the agent, on its command line, in its control
file, or read already; a resumed agent, which no longer looks at its control file before it ends, has it from its command line.

**`TaskGraphProofs`.** `GraphTyped`, `PlacesExclusive`, `DependenciesFirst`, `WritersApart`,
`ClosedByCurrentEvidence`. `OneBoundWriter` is not inductive: that a recorded, living worker keeps its
place follows only if the card of such a worker runs or is interrupted. The invariant adds
`WorkerInv` (a card whose recorded worker lives occupies its place) and `RunningIsCurrent` (the claim a
running card belongs to is the one with its fence). Most actions change one row and one claim and
are treated together (`SmallStep`); `Put` and `Claim` change several and have proofs of their own.

**`AgentLoopProofs`.** `TypeCorrect`, `SuccessIsProven`, `SuccessIsJudged`, `NoMessageVanishes`,
`SuccessAnswersAll`, `NoOrphans`. The properties speak of the end of a run, and what they need is
established earlier, so the invariant `IInv` says at which place of `run()` each fact already holds: inside a
step there is no exit message (`NoExit`) and a closed checker means the run was reopened (`Closed`);
a success past its gate is proved (`Proved`) and past the judge decided (`Decided`); between the
call and the proposal the model has seen the whole conversation (`Answered`); lines are in hand only
between read and take-up and the journal holds no more than the conversation (`Held`); the exits
that do not look at the subagents have none (`Childless`).

**`ChannelConsumerProofs`.** `TypeCorrect`, `AckedIsAnsweredAlways`, `DeferredOnceAlways`, `NoSelfAnswerAlways`, `AnsweredOnceAlways`. An acknowledgement is
several steps after the evidence for it, so the invariants say what the process may believe at each place:
between the proof and the acknowledgement the row's answer is in the thread whatever lands, is lost or
ages meanwhile; a deferred step that is still in memory has not run, and the ledger that would make a later
pass run it again is written before it. `AnsweredOnce` is about every pair of copies of an answer in a thread that grows and ages
at any moment, so `Fates` says for each row what its present state still allows: how many copies may be under way
or in the thread, and that another send is due only when those that landed left no evidence (`OneCounts`, `SendIsDue`).
None of them takes a condition on the replies: rows answered without words and replies that land late are in the model, and the properties name them. For `DeferredOnce` the
invariant speaks of the rows whose journalled answer has words (`Bare` is for ever, as the ledger keeps its first text); for `AnsweredOnce` the account of a row's
copies is waived from the moment one of the two cases is met (`Waived`). `GuardInv` (no row behind the cursor
is an unexcused echo) gives `NoSelfAnswerAlways` without any condition.

**`QueueBridgeProofs`.** `TypeCorrect`, `PastIsJournalledAlways`, `DeliveredOnceAlways`, `RelaunchesAfterFence`. `PastIsJournalled` alone is not inductive, because the
cursor is moved to the end of a batch after the batch was read event by event: `Inv` adds `Batch` (what lies
between the cursor and the reader's position and had to be told is in the outbox, and the reader never
passes the end of the log). For `DeliveredOnce` the invariant `Once` counts, event by event, the messages in the chat against the row and
the agents that carry it (`Counted`); all steps but five tell the chat nothing (`Silent`). For `RelaunchAfterFence` the invariant `Fences` says what the reconciler may
rely on between the stop it read and the retry: the card stays stopped, its worker is no longer fenced once the wait is over, and a stop
that nobody has read yet is the card's last.

**`ServiceProofs`.** `TypeCorrect`, `NobodyIsLeftBehind`, about `TuiSession`. The property is almost inductive; `Inv` adds that the handle of an
attached agent never holds a working agent of the terminal (`AttachedIsForeign`: `kill()` of such a handle only lets go) and
that a working agent belongs to a session (`MineHasSession`). The steps are of three kinds: those after which nobody works who did not
(`QuietStep`), those that start an agent when none is followed, and those that end the one that is.
`HumansToldAlways`, about `Humans`. For the requests the invariant adds that only the newest is waited for (`NewestWaits`). For the chat it follows the
jobs of the chain: they are under way one at a time, in order (`InTurn`), and `JobOK` says what each may believe between its awaits: the chat it looked
up is held, or was lost since (`cut`); the queue's conversation is that chat or none; and while one creates a chat no other is held.
`CallsHonestAlways`, about `Calls`: four invariants that know nothing of each other. *Child* (`SpawnInv`): a run is given its grace or cancelled only for a
cause (`StopsHaveCause`), all that was read is kept while the budget lasts (`ReadIsKept`), and a reader that was not cancelled ends where its pipe does (`EndsAtTheEnd`).
*Model call* (`ModelInv`): a call that failed had used up its attempts, its waiting or its kind of error when it did, and its duplicates (`FellHonestly`); a model taken from the chain is remembered as tried
(`TakenIsTried`), so a run that ends for an error the chain could help has tried all that is left of it (`OverHonestly`). *Race* (`RaceInv`): a unit starts its calls in order (`InOrder`), waits only while it has one to start, and
what it returns is the best of the answers it heard (`RaceOK`); the slots are counted (`SlotsAreKept`). *Orchestrate* (`WavesInv`): the workers at work are of one plan, each on files of its own and in the text they read (`Apart`), and none is at
work when the tools write (`ToolsWrite`; a step that neither they nor a worker takes leaves the content as it is, `ContentKept`); a file that a worker
wrote is one the coordinator was told of (`WritesTold`); and what is reviewed or returned as a success is the content of the tree the gate saw (`GateTrue`).

**`McpLoginProofs`.** `TypeCorrect`, `LoginsAreSingle`, `GrantsAreKept`, and `LoginsAreTrueAlways`, which joins them, for any number of processes with and without a refresher. `OneLogin`
needs that a login that has not come to its wait has shown and redeemed nothing (`LoginOK`). `StoredTokenWorks` speaks of moments at which no
refresher has an answer in hand, and is not inductive: the invariant says what holds in between. Either the stored token is honoured, or a
refresher that asked with it has another one in hand (`TokensOK`, `Rotated`). Such a token, and that of a login before it is stored, is
known to nobody else (`OnItsWay`), so no other renewal can void it (`Honest`); and it belongs to the client of
the token it replaces. A process that renews nothing (the provider kept the token) can only be overtaken by one that did. `TokensOK` and `ClientsOK` (for a login under way) say where the client of
a token is: in the record under the redirect the token came through, or among those that were overwritten (`Registers`); a registration moves it from the one to the other.
What a process has read and not yet written counts as known too (`Known`, `CopiesOK`). A write over what the other process wrote disturbs, so a change that leaves
`disturbed` false started from what the file holds, and is one step on the file (`Written`, `ChangeStep`).

**`WebClientProofs`.** `TranscriptIsTrueAlways`, `BarIsTrueAlways`, `NoteIsPursuedAlways`, and the action property `NothingIsLostEver`, with an invariant for each part;
that a part keeps its invariant while another has the turn is a step of each theorem.
*Transcript* (`FeedInv`): a delta in the pipe continues the array of the frame before it (`PipeChained`), the subscriber the last one (`SubChained`), and what the
tab shows is of one array, which the next frame continues or replaces (`ViewChained`); only a copy that crossed the feed lifts this.
*Recorder* (`RecInv`): a microphone that is open is the controller's or was refused by the recorder (`MicHeld`), the controller has none while it asks for one (`StreamShown`),
and the bar does one thing at a time (`OneTake`) until an older request is refused late.
*Files* (`FilesInv`): a loop that lost its composer has been cut, and the others upload for the chat on screen (`LoopsTrue`); what is on the bar or in a message has been
stored (`FilesUploaded`); an accepted message owes none of its files (`NothingOwed`).
*Note* (`NoteInv`): a version names one note (`PastTrue`); the editor, and every save wherever it is, starts from a version whose text was shown (`EditorTrue`, `SavesTrue`), and what an
answer tells of was shown or its push comes first (`ToldTrue`, `WatchTrue`), so a save that the server accepts replaces nothing unseen. For the pursuit: the saves that are pending were made together
with one text, the last of them is the one in flight (`Book`), they are in the order they were made on every way they take, queue, connection and answers (`Line`), so the one in
flight is the last to be over, and text that is not stored has a timer, a save that carries it, or somebody who waits for that save (`Pursuit`).

Two of these proofs failed at first, and changed the model. `MicIsShown` had one exception, and needs a second: the late refusal of an older request frees the bar while a take is uploaded,
a new recording begins, and the failed upload of the first puts that one in its place, with the microphone open (section 8). It takes a fourth request,
which the run now has. And deadlines that may pass in any order let the save in flight end before its
twins, after which text was left without a pursuer; in the code they pass in the order they were set, and `Due` says so.

## 7. Only model-checked

* Liveness is out of the prover's reach: `WorkedTasksSettle`, `CancelStopsAgents`, `RunEnds`, `EveryRowAcked`, `NothingForgotten`, `NothingHangs`.
* `JournalIsTrue` and `HelpersAreTrue`: what a reader makes of a journal (`TrajectoryJournal`) and what the hub makes of one (`Read` of `SubagentHub`) are
  folds of operators over sequences, which the provers cannot unfold. The induction itself could be made as for the loop of `pump()`, once
  these folds are written as recursive functions.

## 8. Disagreements with the documentation

With a run that shows it (`PROJECT.json` "findings"):

1. `started_twice` — a redirect while the router is being asked starts the task a second time (`src/web/workQueue.ts:550`; the comment at 333 says never twice).
2. `requeued_alive` — `claim` keeps the previous worker's identity, so a card whose worker lives may be requeued (`agent-rs/src/graph_queue.rs:269`; comments at 203 and 276, `docs/task-graph.md:5`).
3. `note_typed` — two saves that waited for the same one go out from one version; the second is refused with the text of the first, and the editor takes that text in place of what was typed since (`web/src/lib/noteEditor.ts:240`; comments at 134 and 196).

Seen in the models, without a run of their own.

Work queue and sessions:

* a redirect that reaches a *continued* worker after its last step is never given to it (`src/web/sessions.ts:1797`; `docs/work-queue.md:109` says it is not lost);
* a deleted session's exit handler may start an agent that nothing holds (`src/web/sessions.ts:1178`; comment at 2149);
* after a crash the exit of a worker the new server attached to is not reported to the queue, so its task never settles (`src/web/sessions.ts:1537`; `docs/work-queue.md:31`);
* the folder of a cancelled task is given to the next one while its agent is still in its grace period (`src/web/workQueue.ts:576`; `docs/work-queue.md:82`);
* redirects counted as given are lost by a crash before the agent saves them (`src/web/workQueue.ts:880`), and a restart before anything is journalled turns the task into an error (`src/web/sessions.ts:1624`).

Task graph:

* a card that runs in the root `/` excludes no directory in the claim's SQL (`agent-rs/src/graph_queue.rs:236`) and every directory in the loop that fills a batch (260 to 263), so whether a card runs beside it depends on whether both are claimed at once.

Agent loop:

* the exceptions of `ClosureProven`: the flag of a fast closure survives a follow-up or a judge's rejection (`agent-rs/src/agent.rs:528`); a signal during the checker or the judge puts an unproven success back (554); without `sha256sum` the fast closure compares two empty hashes and accepts (591, against the "fail closed" comment at the capture);
* a line appended between the read and the truncation of the control file is lost (618 to 622): `MessagesSurvive` names it;
* a command that creates a checker in the workspace spares the run its judge (1131); a message taken up just before the limits are exceeded stays unanswered; judge counters are never reset; `docs/goal-closure.md:14` gives 3 rejections as the default, the code 2 (1271).

Channel:

* a quote proves delivery of whichever row it names: two rows that answer one message share the proof, and a history that lost its quotes proves nothing, so a reply may be dropped or sent twice (`src/channels/consumer.ts:20-22`, `docs/channel-consumers.md`); a row whose history proves nothing is never acknowledged (`docs/channel-consumers.md:36-39`);
* a reply that is still under way when the settle wait is over is sent again (`AnsweredOnce`, `late`); `docs/channel-consumers.md:35-38` accepts this;
* an answer without words is done again: when a reply is nothing but a directive (`src/channels/queueBridge.ts:260-282`), a picture or a voice note (`consumer.ts:532-538`), the empty text
  is journalled, the deferred work starts (551 to 567), the gateway refuses the send, and the next pass takes the empty text for no answer (475, 497) and runs the turn and its deferred work again (`Bare`). The ledger
  keeps the empty text, so that a later answer in words may be sent twice after a crash; and while turns answer so, the row is not acknowledged and those behind it wait;
* the bridge gives up on a worker that lives: it waits for the event `state_changed`, but an update that also moves the version is logged as `goal_updated` (`src/channels/queueBridge.ts:467`; the trigger in `agent-rs/src/graph_queue.rs:136-141`; `docs/chat-queue.md:77`); after a restart it relaunches without having waited (603; comment at 478);
* the cursor may pass a row that was journalled and not delivered, against the header (lines 18–19), the comment at 687 and `docs/chat-queue.md:47`; two events with the same words count as one delivery, and notes are sent twice when a turn and the tick deliver the outbox at the same time.

Web client:

* a copy of a transcript fetched over HTTP may be adopted when it is already out of date, and is then mixed with what the socket brings (`web/src/lib/sessions.svelte.ts:245`, "never guess"); a socket that closes while the server looks its session up leaves a subscriber that is served four times a second for ever (`src/web/serve.ts:820`); the frame that says a session is gone is never repeated when dropped;
* a failed save paints over a conflict that is being shown; a save whose answer was lost is later refused and blamed on another writer; the editor says "saved" when a save fails and the text happens to be the one saved before; "take theirs" may take a version that was replaced meanwhile;
* a recorder whose construction throws leaves the microphone open (`audio-recorder-controller.ts`; `recorder.svelte.ts:47` says never left open); a refusal of an older request drops the newer take, and, while a take is uploaded, lets a recording begin that the upload's failure then hides (`audio-recorder-controller.ts:555`, 636); a take discarded between the recorder's stop and its event is uploaded (line 590); closing the panel while an upload runs loses the take if the upload then fails, and disabling the bar drops a take in progress silently.
* the store of attachments takes its index for loaded once it has written to it (`src/web/attachments.ts:196`): an upload that is the first operation after a restart hides every earlier file, "not found" to the browser and left out of prompts without a word, although the comment at 204 calls the attachment not disposable; a torn last line of the index loses the next entry too (the comment at 108: "only loses that one entry");
* the files of a pick are sent one after the other, and when the chat changes the loop starts the rest under the new draft (`web/src/lib/components/Composer.svelte:194`), against "every upload belongs to the draft it was picked in" (`attachmentUpload.ts:29`); what is attached while a prompt is being sent is cleared with it (`web/src/App.svelte:297`); two picks at once may exceed ten files, of which the server keeps ten (`src/web/sessions.ts:149`).

Terminal:

* after `/resume` a prompt goes to the agent of the session left behind, as long as that runs (`src/ui/App.tsx:767`, 1038; `README.md:198` says it continues the session chosen), and the next snapshot and save store that agent's conversation under the session opened;
* opening a session whose agent is the terminal's own kills that agent and attaches to it while it dies (817); while `attachToLiveRun` waits, `/new` or a prompt may come between, and what it attaches to then replaces them;
* SIGTERM follows SIGINT after two seconds whatever the agent did, also for an agent of the web app (`src/mini/spawn.ts:437`); a prompt right after Esc Esc is written to an agent that is ending.

MCP logins:

* a new login supersedes one that is `pending` but not one that is `exchanging` (`src/mcp/flow.ts:184`; comment at 183), whose tokens may land last; a login cancelled or timed out during its exchange says so and stores its tokens nevertheless; the page says "connected" before the exchange (148);
* the terminal and the web server may send one refresh token at the same time; a provider that rotates it refuses the second, which marks the record as dead although the first has just renewed it, and no refresher touches it again (`src/mcp/client.ts:98`; comments at 96 and 106, and "refused for good" at `src/mcp/store.ts:55`), until a Test by hand or a new login revives it;
* a refresh that overlaps a login puts renewed old tokens beside the new login's client (`src/mcp/client.ts:92`), and one that overlaps a logout undoes it; a login is forgotten a minute after its end, so a panel that slept longer polls for ever;
* two logins of one process that overlap under one redirect register two clients, and the second is written over the first (`src/mcp/flow.ts:103-106`). If the browser completed the first one, its token is
  then renewed with a client it was not given to (`src/mcp/client.ts:55`), and the provider refuses it (`replaced`);
* a change of `mcp.json` is a read and a write of the whole file without a lock (`src/mcp/store.ts:120-127`), so of two processes that change it at once one undoes what the other did, tokens included;
  the comment at 119 ("concurrent edits of two different servers both survive") holds within a process.

Trajectory:

* "the new trajectory replays the saved messages first, so `consumed` starts at their count and only what the agent adds is parsed"
  (`src/web/sessions.ts:1791`): the agent leaves the exits out (`agent-rs/src/agent.rs:951`), so after one finished turn the resumed trajectory is, with
  its prompt, as long as the conversation saved, and `#ingest` takes it for nothing new (953). If that agent dies before its first reply, the prompt is missing from what the next one is started on;
  after two finished turns the first reply may not be shown;
* with the verification phase on, the exit put back (`agent-rs/src/agent.rs:1114`) is journalled a second time by the notice that follows, and shown twice (`README.md:856`: one line for each message);
* a reader reads a journal again only when it has become shorter (`src/traj/watch.ts:66`); one that was rebuilt after a failed write (`agent-rs/src/agent.rs:2290`) and is at
  least as long is read from its middle, so messages are lost or doubled;
* a kill in the middle of a resumed agent's first write leaves a short journal, which then replaces the saved conversation; and after a crash during a rebuild `readTrajectory` prefers the partial journal to the fuller export.

Subagents:

* the one note of a wave is filed under its last entry; when that is a handshake or a contract check it has turn 0, and `live_notes`
  (`agent-rs/src/subagents.rs:1097`, with 1273 and 1292) drops the reports of the whole wave, as it does when the run has seen the last member's turn though not the others'
  (158 and 1278: "one parent wake per wave, when its last member has ended");
* a line journalled between the monitor's read and its look at the process (1121, 1220) is read afterwards: a turn that ended is also reported as "stopped unexpectedly", or a dead child
  counts as running, for which `wait` waits and whose wave is never reported (`Ghost`, which `EndsInformed` excepts; with a death allowed in *crew* TLC shows it);
* a message sent as the child ends its turn: the hub then reads the exit and holds the child for waiting, so `wait` answers at once with the turn before, and the run may end while the child takes the message up (`crossed`);
* `send` to a child that was just stopped is written to a process that is dying, although the answer of `stop` invites it (2865); the message is lost without a word;
* a child restarted by `send` that dies before its first save has no journal any more (2154), and cannot be continued although `resume.json` has its conversation;
* `join_wave` (905) waits for ever for a member that died before its first turn, and what is read after it (`agent-rs/src/agent.rs:1802`) drops the reports of other children.

Orchestrate:

* "a bad FAST never ships unseen" (`agent-rs/src/coord.rs:32`): when the checks reject a FAST plan, both streams of the review break and the gate passes, `fixed` is empty and the run
  ends with success, unseen; for the same reason a run whose plan and review both failed ends with success and nothing done when there is no gate or it passes;
* the list a run returns as "the files written" (comment at `coord.rs:788`) is that of the files its plans named: what `repair_go_imports` and `gofmt -w` wrote elsewhere in the tree (650 to 740) is in no list,
  and a file named whose write failed is in it;
* a write that fails is told to the review as "changed" (`agent-rs/src/shard.rs:566`);
* "twins never delay real work" (`shard.rs:284`): the look at `waiting` and the attempt are two steps, so a twin may take the last slot while a first call queues;
* a loser is "cancelled at once" (`coord.rs:221`), but one that sleeps between two attempts looks only at STOP (`models/http.rs:595`) and holds its slot until it wakes.

Model calls:

* a stop during a call comes back as an error like any other, so with a chain of fallbacks (`MINI_AGENT_MODEL_FALLBACKS`, set by the queue's host) `query_model` goes down the whole chain: a request to each
  model, and "[Model switched to ... after a provider failure]" in a conversation that is then saved (`agent.rs:1681`; the comment at 1682 speaks of "a provider failure the retry policy gave up on");
* "only when the chain is exhausted is the error fatal" (1684), but a conversation too long for the next model ends the run without compaction (1707);
* a switch to a model that cannot be made is remembered as applied, so asking for it again does nothing (683).

Router: a circuit is opened only by the handling of an assistant message that carries `extra.error` (`src/web/sessions.ts:797`; the comment above it says such a message is a failed call), and no
agent of this repository writes that field: failed calls are retried, handed down the chain or end the run.

Services: a second request to the human replaces the first, whose waiter never hears (`src/web/workQueue.ts:626`); a request
that does not wait clears its own card at once, with the note that nobody answered in time; "done" names
the task only and may answer a later request. A prompt is refused as busy although it was taken when the chat is
closed during the probe of `send`; a result is dropped without a word when the conversation is gone.

## 9. Not modelled

`PROJECT.json` "components" gives the reason for each part: wrappers of the operating system or of a
gateway (terminals, SSH, media), data without control (usage, prices, scoring, embeddings, rendering),
parsing, and the parts of the plan below. The router's circuit breaker (`src/router/breaker.ts`) has no model because nothing opens a circuit (section 8). The Python agent is the upstream program that `agent-rs` replaced; benchmarks, the site and end-to-end fixtures are not part of the program.

Hazards of this code that no property covers, beyond those `PROJECT.json` lists: the folder of a cancelled
task (`src/web/workQueue.ts:576`); a task in a parent folder that waits for ever behind a stream of tasks in its subfolders
(771); a redirect counted as given (880); a restart before the agent has journalled anything (`src/web/sessions.ts:1624`) and the
control file of an attached run (1757); a card whose dependency was cancelled waits for ever (`agent-rs/src/graph_queue.rs:235`);
the counters of the judge (`agent.rs:1270`) and two empty hashes (591); the exit of an attached agent, which is nobody's event, so
that after a crash of the server its task stays running (`src/web/sessions.ts:1537`); a trajectory as long as what was read of the one before (953), which `ConversationKept` excepts;
what a registration overwrites when a login overlaps another (`src/mcp/flow.ts:105`), which `StoredTokenWorks` excepts; the echo of an own message that arrives before its id is recorded (`src/channels/inbox.ts:305`).

## 10. Plan

Done: `PumpPolicy`, `SlotBoard`, `WorkQueue`, `TaskGraph`, `AgentLoop`, `ChannelConsumer`, `QueueBridge` with their
proofs; the four parts of the web client, the three services, the terminal's session (with a proof), the MCP logins, the trajectory, the hub of the subagents, orchestrate and the model calls. What would come next, by how much can go wrong:

1. That `TrajectoryJournal` implements the one-step `disk` of `AgentLoop`; and proofs about it.
2. `SubagentHub`: joins, plans and the questions of children to each other; that it implements what `AgentLoop` assumes of `kids`.
3. An abstract specification of the channel: each accepted message is answered at least once, and more than once only after an uncertain send; `ChannelConsumer` implements it.
4. Proofs for the agent's helpers (`SubagentHub`, `WorkerRace`, `Orchestrate`, `ModelCall`) and for `BoundedSpawn`, each over its module.
