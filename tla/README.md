# Harness Remote in TLA+

Specifications, model-checking runs and machine-checked proofs of the parts of Harness Remote
that decide *when* something happens: a JavaScript daemon (`bridge/src/`) that drives coding
agents on a developer's machine, and the clients (`web/src/`, `web/electron/`) that talk to it.
The daemon is single-threaded, but almost every operation awaits a disk, a child process or an
HTTP peer, and what other operations do during those awaits is where the difficulties lie. The
clients read what the daemon says in pages, events and polls that arrive late or not at all.

## 1. The system

| Component (source) | State it keeps | Operations | Interacts with |
|---|---|---|---|
| Operation ledger (`session-operation-ledger.js`, `runIdempotentMutation` in `session-claim-server.js`) | map of entries pending / accepted / uncertain, its JSON file, a promise chain | `begin`, `accept`, `fail`, `#load`, `#trim`, `#persist` | called by every native Session mutation over HTTP |
| Native Session mutations (`machine-daemon.js`) | claimed Sessions, hosts | claim, prompt, command, stop, handoff, reconcile a handoff | ledger above it; `AcpService` or OpenCode's HTTP API below |
| ACP session turns (`acp-service.js`) | `#active`, `#queues`, `#turnGenerations`, transcript | `prompt`, `abort`, `setModel`, `invokeAction`, `renameSession`, eviction | the ACP client; the transcript cache calls back on eviction |
| ACP loads and transcripts (`acp-service.js`, `transcript-cache.js`, `bounded-lru.js`) | `#loads`, `#messages`, snapshots on disk, deletion index | load and merge a replay, write and restore snapshots, answer pages, delete a session | the agent's replay, the harness's journal |
| Task Runs (`task-run-controller.js`, `task-run-store.js`, `task-store.js`, `task-launcher.js`) | Tasks, their Runs, one JSON file | `launch`, `continue`, `setRunState`, `reconcileAll`, `cleanupWorkspace` | agents through the launcher, git through the worktree manager |
| Work Threads (`work-thread-controller.js`, `work-thread-abort.js`, `work-thread-checkpoints.js`) | fields of the same Tasks, git refs | `markCancelled`, `reconcile`, create and restore checkpoints | change the Task store beside the Run controller |
| ACP client (`acp-client.js`) | child process, handshake promise, pending requests, line buffer | `start`, `request`, `notify`, `close`, exit of the child | the adapter process |
| OpenCode host (`opencode-host.js`, `launcher.js`), router (`agent-router.js`) | child process, registry entry | `start`, `stop`, exit, lazy start of a request | readiness probe, machine registry |
| Event fan-out (`managed-event-fanout.js`) | one upstream stream, clients, reconnect timer | subscribe, broadcast, reconnect, close | OpenCode's event stream |
| Session links (`session-link-store.js`) | handoff links with the context transferred, in a file | `addHandoff`, `listFor` | the handoff mutation, the app's first prompt |
| Machine identity (`machine-registry.js`) | one identity file per state directory | load or install | other daemons of the same directory |
| Session histories (`codex-`, `omp-`, `pi-session-history.js`) | none | read journals whole or in pages, select the branch shown | `AcpService` |
| HTTP servers (`server.js`, `*-server.js`) | connections | route to one operation each | clients |
| Client: sending (`native-session-prompt.ts`, `native-session-v3-adapter.ts`, `work-thread-conversation.tsx`) | durable requests and drafts in `localStorage`, turns shown | send, check, recover, reconcile with the transcript | the daemon's mutations and transcript |
| Client: continuing elsewhere (`native-session-handoff.ts`, `native-session-routing.ts`) | records of the handoff, of its route and of the first prompt | continue a Session on another harness, try again | handoff, link and prompt mutations |
| Client: reading (`taskdesk-session-live-refresh.ts`, `coalesced-tail-refresh.ts`, `message-pages.ts`, `work-thread-timeline.ts`) | one feed of messages, cursors, timers | tail reads, older pages, poll | events and pages of the daemon |
| Client: rail (`standalone-universal-workspace.tsx`, `native-session-home.tsx`) | machines with their runtimes, Session records, rows marked as being deleted | poll a machine, discover its Sessions, list them after an outage, delete, create | listings and states of the daemon |
| Model catalog (`agent-model-catalog.js`) | its own technical Sessions, a state file | create technical Sessions, hide them from listings | the ACP service |
| Desktop shell (`web/electron`) | subscriptions, profiles | reconnecting event stream, IPC | the same |

What is hard, and what must be right:

* **Ledger.** Clients resend whatever got no answer; the daemon may die, and its file may fail to
  be read or written, at any await. *An agent must not do coding work twice; a 200 must be true
  and stay true; retries of one handoff must be told one Session.*
* **Session turns.** `#active` is a hint set and cleared by five operations around awaits, and a
  cancelled turn completes late. *A stale completion must not disturb the turn that runs now; a
  queued prompt must have somebody who will run it; what waits must be visible.*
* **Loads and snapshots.** A load blanks the transcript and merges a replay into it while reads,
  prompts and evictions go on. *No message is lost; no two loads overlap; the last change reaches
  the snapshot.*
* **Transcripts.** Journal, stream and replay give one message three ids, and pages of all three
  end in one feed. *Each turn shows its own reply once; the feed is the conversation.*
* **ACP client, hosts.** Exits of a replaced child arrive late, answers of a killed one too.
  *A request is settled exactly once; one agent process; nobody waits for a dead adapter.*
* **Events.** Streams end, stall and restart on both sides of the fan-out. *One upstream; one
  connection; a subscription is served again after every failure.*
* **Task Runs.** Five operations change one Task around awaits, and the file is written without
  any ordering. *One Run per request; a Run is on disk before its prompt; an active Task always
  has somebody who will end it; superseded Runs change nothing; history and Task agree.*
* **Journals.** Pages are read backwards, in chunks, while the harness appends and branches.
  *Read whole or in pages, a journal says the same.*
* **Client.** *What the user sends arrives at most once and is never lost silently; what was
  heard of is shown in the end.*
* **Continuing elsewhere.** Three requests, each of which may be lost, and records of each in app,
  ledger and link file. *One continue makes one Session; what that is told is on record, once.*
* **Rail.** The rail is put together from polls, listings and states that overtake each other.
  *A deleted Session stays gone; a created one is listed; the catalog's own Sessions stay
  hidden; the rail comes to show what the daemon shows.*

The complete list of hazards, each at its line, is in `PROJECT.json`.

## 2. Modules

| Module | Role |
|---|---|
| `OperationLedger` | the ledger, the HTTP wrapper and the calls it dispatches |
| `MutationPromise` | what the ledger promises, without handlers, files or retries |
| `SessionTurns` | turns of one ACP session |
| `SessionLoads` | transcript, snapshot and loads of one ACP session |
| `Adapter` | the connection to an ACP adapter under the calls that claim, stop and create |
| `TaskRuns` | the Runs of one Task, and what happens beside them |
| `ManagedAgent` | an agent run as an HTTP server: process, registry, router, fan-out of its events |
| `EventStreams` | an app's event subscription; EXTENDS `ManagedAgent` |
| `LiveConversation` | how an open conversation follows its Session |
| `PromptDelivery` | how the app delivers what the user sends |
| `Transcripts` | what the bridge answers when a transcript is read |
| `ConversationView` | the open conversation over those answers; EXTENDS `Transcripts` |
| `SessionIndex` | which Sessions the daemon shows: deletion index, DELETE, creation, technical Sessions, listings |
| `SessionRail` | the app's list of Sessions of one machine; EXTENDS `SessionIndex` |
| `Journals` | how journals are read, in chunks and pages (operators only) |
| `HandoffRoute` | continuing a Session on another harness: app, ledger, link store, harness |
| `OperationLedgerProofs` | theorems about `OperationLedger` and its refinement of `MutationPromise` |
| `SessionTurnsProofs` | theorems about an ACP session: `SessionTurns` and `SessionLoads` |
| `ConversationProofs` | theorems about `ManagedAgent` with `EventStreams`, `LiveConversation`, `Transcripts` with `ConversationView`, and `Journals` |
| `TaskRunsProofs`, `AdapterProofs`, `HandoffRouteProofs`, `PromptDeliveryProofs`, `SessionRailProofs` | theorems about the module named |
| `MC*` | constants of the model-checking runs |

Composition: `OperationLedger` has the HTTP wrapper over the ledger over the agents' calls, and
refines `MutationPromise`; `EventStreams` puts the app over the router and fan-out over the agent's
process; `ConversationView` puts the app over the bridge over the harness's journal; `SessionRail` puts the
app's rail over the daemon's index of deletions and the harness's own list of Sessions.
`HandoffRoute` has the app's three records over the daemon's ledger, jobs and link file over the
harness. `PromptDelivery`, `LiveConversation` and `HandoffRoute` rest on promises checked elsewhere, which their headers
name: a request id is carried out at most once (`OperationLedger`), a subscription is connected
or not (`EventStreams`).

Definitions whose comment begins with "Slip:" are plausible mistakes in the code (a dropped
guard, a forgotten await). They are used by nothing in the specifications: each property of a
passing run is shown to be violated when the definition after it is replaced by such a slip
(`PROJECT.json`, "mutants").

### OperationLedger

An *operation* is the key of a ledger entry (agent, Session, clientRequestId), a *request* an
operation with a body, so that two requests of one operation are a request id used twice. A
*handler* is one HTTP request in `runIdempotentMutation`; its `pc` is the await it is at. A
section of the `#serial` chain is two steps: load, change and trim the map (no await between), then
the write. `lock` is the handler between the two. `Trims` is `#trim`; `LoadFails`, `PersistFails`
and `Crash` are the environment's. `CallSucceeds`, `CallLost`, `Refused` and `LateDelivery` are
what an agent can do with a call: do it, do it later or never with the reply lost, refuse it. Success
of a prompt or command means that the agent's side *took* it (`taken`, `TakeOver`): OpenCode
does it, `AcpService` may only have queued it in memory or sent it without waiting (`queued`), and
it may leave that queue undone (`LeaveQueue`: an abort, a refused model) or be lost by a crash
(`dropped`). Only handoffs are done when their call returns.
`forgotten` records the operations whose record the code gives up: those that `#trim` drops, and
those that were issued when a failing read leaves an empty map. Every safety property is about the
operations that are not forgotten; that a read failure forgets them at all is a disagreement (5).

### SessionTurns

A prompt is one call of `prompt()` and moves along `call`: loading, setting its model, queued,
dequeued, sent, failed, ended. `active`, `queue`, `generation` are the service's three maps at
one session; `turn[p]` is the `generation` captured by the closure of p's turn. `StartFresh`
includes what recording the prompt can do to the cache; `RunNextQueued(calls, activeNow)` is the
synchronous part of `#runNextQueued` and is part of the step that calls it. `ActionStarts`,
`RenameStarts` and their ends are the commands sent on the side, `Evict` the cache making room.
`visible` is what the transcript shows of the prompts, and reads and loads replace it: `ReadJournal`
is `messages()` on an authoritative journal, `ReloadStarts` to `ReloadEnds` a forced load with what
it kept (`reload`), its blank transcript and its merge. `overlooked` is history: the prompts that one
of these did not look at (5).

### SessionLoads

One Session, whose harness is one of the profiles of `harness-profiles.js` (`Profiles`: who keeps
a journal, whether it is authoritative, whether it seeds an owned transcript, whether the adapter
resumes). Calls are reads (`messages()`), openers (a claim, or a request for actions and commands:
loads with options) and a prompt; `callAt[c]` is the await a call is at, `current` the entry of
`#loads`, `awaits[c]` the load c waits for in the single flight, `previous` and `toReplay` what a
load has put aside and still expects. The writer is `#persistSnapshot` with its dirty mark: it
starts, takes the transcript, writes, and starts over if it is dirty again. A Session is one of
before (`Listed`) or one that was just created, loaded but not restored (`Created`). `spoken` is
what was said in turns here, and `LateChunk` what comes after them. `mishap` is history: a load, read or
write that failed, or a snapshot read over a transcript it may be behind (5). A transcript is
a set of messages here; order and merging are the subject of `Transcripts`.

### Adapter

Processes are the adapters ever spawned. Between the end of a process and Node's exit event, and
later, its output may still be read: `ProcessEnds` may leave half a line in `#buffer` (`torn`),
which swallows the first line of the successor, and leaves its last answers in `answerable`.
`Expire` is a request's timer; the handshake's timer kills the child. `ExitEvent` is
`#handleExit`, for any process. Above it are `claimSession`, `stopSession` and `createSession`
with the listing and the load they share, and the claims the daemon forgets when an adapter exits.

### ManagedAgent and EventStreams

`Begin(c)` is a caller that wants the agent available: an app client through the router, the
fan-out, or a direct call of `host.start()`. `watch[p]` says which exit listeners a process has,
those of the start under way or the host's. `Accepted`, `AgentEnds` (a stream ends while its
process lives), `AgentIsGone`, `TimerFires`, `Leaves` and `Close` are the fan-out. A client of
the router is a *connection* of the app's subscription, either that of `event-transport.ts`
(`desktop`) or that of `opencode-events.ts`: connect, stall, abort, end, reconnect timer, and, on
the desktop, `restart()` when the profile changes. The steps of `EventStreams` that are steps of
the daemon carry the daemon's action, so the composition is of the two modules' own actions.

### LiveConversation

An event says that something changed, never what, so transcripts and Session states are version
numbers. `timers` are the throttle, index, settle and foreground timers; `pending`, `tailRead` and
`answer` the coalesced read of the newest page; `recon` and `seen` the poll's reconciliation.
`polling` is chosen at the start: HeardIsShown is about conversations without the poll, where reads
do not fail, PollCatchesUp about those with it, where reads may fail and events may be lost.

### PromptDelivery

`draft`, `stored`, `uncertain` are the composer's text, its copy in storage and the text that came
back after a lost answer; `record` is the durable request, `turns` what the controller shows,
`phase` the await that `send()` is at. Requests and answers travel in `wire` and may be lost on
the way, in either direction; `Accepts`, `Refuses`, `LosesTrack` and `Applies` are the daemon by its
ledger's promise. `Expires` is the ten minutes of a record, `Reload` a kill of the app. `waived`
and `raced` record the wishes whose request the app itself gave up (after its time, an error
answer, a second Send), `dropped` those that were only in memory at a kill.

### Transcripts and ConversationView

A message is its role, its visible text (the prompt, or the answer and which of its chunks are shown:
`n` of them after the first `from`), its failure, and its id; ids say which source minted them. It also
has its turn, which the code does not know: `Signature`, by which the merges take two messages for one,
has what is visible and nothing else, so equal answers of two turns meet in it. `Transcripts` has the
merging code as operators (`MergeExternalHistory`, `MergeReplay`, `PageEndingAt`, `MessagePage`, ...)
and the steps of harness and bridge: a prompt, a chunk, the end of a turn, the chunks that come after
it and get an envelope of their own (`LateChunks`), a flush of the journal, a prompt from elsewhere, the
write of a snapshot at any moment (`Persist`), and a restart from the last one written, followed by a
replay. A turn of which the snapshot has a part is then `torn`, one whose records were not flushed `lost`.
`ConversationView` has the app's: mount, read and land the newest page, read and land an older
page, send; `MergeLatest`, `PrependOlder`, PI's stabilisation of ids (`StabilizeBy`), the matching
of its turns to messages (`Shown`) are translated as functions of their arguments.

### TaskRuns

Actors are calls: launches (named by the Run they make), Stops, polls, cleanups, and the daemon's
own reconciliation `Boot`. `task` is the Task in memory, `disk` the file, `text[a]` what actor a
has serialised and not yet renamed into place: `Serialise`, `Saved` and `SaveFails` are
`TaskStore.persist`. The stages of a launch are its awaits. Awaits that only yield to other
ready microtasks are merged with the step around them, except where two launches wait for the
same reconciliation promise and resume in turns: there the look at the Task (`Check`) and the
acceptance (`Accept`) are apart. A *scene* (`Scenes`) says which callers there are and how many
crashes and failing writes. `turn` is what the agent makes of a Run's prompt, `aged` the
Runs past the startup grace, `tree` whether the worktree exists. `overtaken`, `abandoned` and
`superseded` are history: a write that was renamed over a younger one; a launch that lost its Run
because its acceptance could not be written or the daemon died; a launch that prompted when
another Run was the Task's already, and so without having linked its Session.

### SessionIndex and SessionRail

`delete[s]` and `create[s]` are the awaits of a DELETE and of a creation, `deleted` the tombstones in
memory, `gone` those that a listing has read, `listed` the adapter's answer to it and then what
was answered to the app, `marked` the Sessions whose own snapshot says that they are deleted. `reading`, `reader` and `raced` are about the first read of
the index after a start: who reads, and whether a DELETE fell into it. `hidden` is what the catalog
hides in memory, `hiddenFile` its state file, `catalog` its own creation. In the rail, `Tick` is the
10 s poll of a machine, `Discover` the reads of a discovery, `Settle` its end, `Lands` an answer of
an overtaken one. Counters would multiply everything with everything, so a run is given *scenes*
(`Budgets`): a scene says how many deletions, creations, technical Sessions, crashes, failures and
outages there may be, and `Spend` takes from it. `confirmed`, `created`, `mistaken` and `leaked` are
history: deletions the daemon answered, Sessions the app was told of, Sessions whose row lost its
mark although they were being deleted (with those whose deletion the daemon forgot on the way, and
those deleted before the answer to their creation came), technical Sessions that were created when
the state could not be written, or whose `session/new` the catalog gave up, at its deadline or when the
adapter exited, after the harness had made them (`CatalogGivesUp`).

### Journals

Pure operators, checked against each other over bounded inputs and proved for all (section 4).
`LinesOf` splits what was read into lines, byte by byte; `ReadBack` and `ReadOn` are the
two line readers with their chunks and what they carry over; `CodexPage`, `PiPage`, `OmpPage` one
page with its cursor (an offset; a line with the parent to look for; a message's id), and
`CodexPages`, `PiPages`, `OmpPages` the pages an app asks for one after the other;
`BranchTo` follows parents, `WalkBack` finds the same branch backwards over the lines. `Entries`
numbers a journal of OMP's first version; `ToolStatus` joins tool results to their calls. A byte
is a line break, the first byte of a message or something else, a record its id, its parent's and
whether it is shown.

### HandoffRoute

One source Session. `request`, `route`, `prompt` and `sent` are the app's durable records, `step`
the await its function is at, `reply` the request it waits for. `ledger` and `jobs` are the daemon's
side of a handoff, `asked` and `made` the harness's `session/new`; `taken` and `delivered` the
first prompts. `links`, `linkFile`, `saving`, `loaded` and `look` are the link store with its file
and a `listFor` that reads it. A context is the version of the transcript it was taken from.
`Retry` is the user who continues again, on this or another harness. As in `SessionRail`, budgets
bound the failures. A retry of an uncertain handoff takes the one Session that is listed now and was not
before: a harness in `Quiet` (PI) lists an unprompted Session only while the daemon knows that it made it
(`owned`), and another's may be listed too (`crowded`). `misjudged`, `mistaken`, `repeated`, `raced` and
`unsaved` are history: the cases in which the code does make a second Session, take another's, repeat
the first prompt, or lose a link (5).

## 3. Runs

| Run | Instance | Shows |
|---|---|---|
| `ledger` | a prompt and a handoff, 2 handlers, a map of 1 entry, 2 deliveries each, 1 crash, 1 failing write, 2 Sessions; what an agent took may wait in a queue and be dropped | `AtMostOnce`, `WorkIsRecorded`, `AckIsOnDisk`, `OneTargetPerHandoff`; `KeepsPromise`, the refinement of `MutationPromise` |
| `ledger_answers` | one request id, two bodies, 3 handlers, 1 crash, 1 failing write, 1 failing read | `AckedWorkWasTaken`; under fairness `RequestsAnswered` |
| `turns` | 3 prompts, one with a model, 1 abort, and 1 of: a command, an eviction, a read of the journal, a forced load | `QueueHasARunner`, `SerialOnOneModel`, `WaitingIsVisible`, `StaleTurnsAreInert`; under fairness `PromptsSettle` |
| `tasks` | six scenes: a launch, a continue and its retry with a poll, a crash or a failing write; two launches of one draft with a crash and a failing write; a launch with a Stop, a poll, a cleanup and a failing write | `OnePromptPerRequest`, `SupersededRunsAreInert`, `FileCatchesUp`; under fairness `TaskSettles` |
| `adapter` | a claim, a Stop, a creation, up to 3 adapters | `PendingIsWithTheChild`, `ReadyChildIsKnown`; under fairness `CallsSettle` |
| `loads` | a read, an opener, a prompt, its reply and a late chunk, on each of the four profiles, of a Session of before or a created one; evictions; loads, reads and writes may fail | `WholeBetweenLoads`, `SnapshotCatchesUp`; under fairness `CallsSettle` |
| `streams` | a subscription with up to 2 connections, a direct start, 2 processes, 1 change of the profile | `OneAgentProcess`, `OneListener`; under fairness `SubscriptionIsServed` |
| `live` | a reply, a change of state, 2 links down, with and without the poll | under fairness `HeardIsShown`, `PollCatchesUp` |
| `delivery` | a prompt and a command, 2 POSTs, 1 kill of the app | `OncePerWish`, `NothingVanishes`; under fairness `DeliveredIsNoticed` |
| `readings` | 3 turns on PI and OMP, 2 on Claude, of 2 chunks each, replies that may be alike or end late, snapshots at any moment, pages of 5, restarts after up to 1 load | `EachTurnShowsItsReply`, `FeedIsTheConversation`, `FeedIsFaithful`; once, over bounded journals, `JournalsAreReadWhole` |
| `rail` | eight scenes with up to 2 old Sessions, a new and a technical one, 2 deletions, a crash, a failure, an outage | `HiddenStaysHidden`, `CreatedIsListed`; under fairness `RailFollows` |
| `handoff` | 2 harnesses, one of them quiet, 2 handoffs, 5 first prompts, a transcript that grows once, seven budgets of up to three failures, kills, deaths, renames, looks and other Sessions | `OneTargetPerContinue`, `TransferIsRecorded`; under fairness `ContinueEnds` |

Every invariant and temporal property is violated when the code is changed by a slip, and between
them the runs take every action. `TypeOK` of each module states the types; of the modules of section 4
it is proved, and so are the runs' safety properties that section 4 names.

**Bounds.** `MaxIssues`, `MaxPosts`, `MaxHandoffs` and `MaxPrompts` bound how often a client asks,
the other `Max...`, `Budgets` and `Scenes` the environment. One of each is enough for every order
of one failure with every other step of two (three) concurrent calls; two deliveries are the least
that makes a duplicate; two failures are needed, and three allowed, where the second meets a retry
(`handoff`). A ledger of one entry makes every second operation trim, `MAX_OPERATIONS` in the
code. Three prompts are a turn that runs, one that waits and one that overtakes; of the two that
name no model either may be the one that runs. Three launches are a Run, the one that follows it
and a retry; a fourth is the first one's rival. Three adapters are one that dies, one that dies in its handshake and one that stays.
Three turns with pages of five messages are more than one page and less than two; on Claude, where
snapshot, restart and replay come on top, two turns are one that is torn and one beside it (three
were checked once on a larger instance). Two old Sessions
let two DELETEs share the index; that the daemon forgets a deletion while its second DELETE is on
the way needs two deletions, a failing write and a crash in one scene, more than `rail` has, and is
covered by the theorem and by a larger instance. The wishes of `delivery` have different texts
(`Different`; section 5 says what the same text twice does). One thing beside the prompts of `turns`
(`MaxAsides`) meets every step of theirs; the theorems are about any number. A failing read of the
ledger is in `ledger_answers` only, and in the theorems. `Linger` = FALSE leaves out a start while a
process that was told to stop still runs. Journals: files of up to
six bytes read in chunks of one to three, journals of up to four records, pages of one or two,
four tool records with two call ids. Symmetry is used only for handlers and Sessions in `ledger`
and for prompts and answers in `readings`, where no property is one of liveness.

`readings` leaves out Codex, a PI of which the app misses a change before the next, the
same text twice but on Claude, older pages during a turn but on OMP, and a restart while the
conversation is open: in each of these the feed is wrong in the ways of section 5. The constants
`Harnesses`, `Paced`, `Repeats` and `BusyPaging` let all but the last in, and TLC then shows it.
Its two properties of the settled feed exempt what `ToldApart` names: on PI, a turn with a late end and
two replies that are alike; with a torn turn, prompts or replies that are alike. What is late of a
reply comes in one piece and before the next prompt (a later chunk would go into that turn's envelope),
and `Flush` is a step only on harnesses whose journal is read while they run.

**Deadlock** is not checked: clients stop resending at their bound, every prompt settles, every
call returns, budgets are spent, and nothing has to happen then.

**Fairness.** What a user, a network or a failure does is never assumed to happen, but for the
user of `HandoffRoute`, who tries again.

* `OperationLedger`: strong fairness of every handler, because `#serial` is a FIFO promise chain,
  which a lock that waiting handlers compete for over-approximates, and every HTTP call has a
  timeout or an end of its connection.
* `SessionTurns`: weak fairness of every step a sent prompt can take: a request to the adapter is
  answered, or rejected by the client's timer or the adapter's exit.
* `TaskRuns`: weak fairness of launches that were accepted, of the end of a turn, and of writes.
* `Adapter`: only of the timer each request has (`Expire`) and of a load's dispatch.
* `SessionLoads`: weak fairness of calls, loads, writes and replies.
* `EventStreams`: weak fairness of starts, timers and ends. Strong fairness of a connection being
  accepted, arriving and opening, since it is tried again and again and only an agent that always
  dies in between could keep it from succeeding.
* `LiveConversation`: weak fairness of timers and of the bridge's answers; strong fairness of
  answers landing, which a newer read may supersede.
* `PromptDelivery`: weak fairness of the tail read alone: that what arrived is noticed needs nothing
  else.
* `SessionRail`: weak fairness of polls, reads, listings, the index read and each DELETE.
* `HandoffRoute`: weak fairness of the user who tries again, of the app's, the daemon's and the
  harness's steps, of link writes, and of the ten minutes of a prompt record.

**What liveness is not claimed for.** `PromptsSettle` is about behaviours without a side command or
an eviction, `TaskSettles` about those in which no launch lost its Run, `RailFollows` about a
machine that answers or refuses, not one that is silent. `ContinueEnds` names the states that no
retry leaves (`Stuck`): the source's title changed; a handoff was pending when the daemon died; one is
uncertain, and no Session was made, or the harness does not list it before its first prompt,
or another one is listed beside it.

## 4. Proofs

TLAPS proves the theorems below for every value of the constants: any number of operations,
requests, handlers, Sessions, prompts, launches, connections, processes, wishes and calls, and any
bounds. They assume what the modules' named assumptions say, which TLC evaluates in the runs of
these modules: `ConstantsAssumption` and `BoundsAssumption` of `OperationLedger`,
`TurnsAssumption` of `SessionTurns` (finitely many prompts), `ManagedAgentAssumption` and
`EventStreamsAssumption`, `AdapterAssumption` (finitely many calls, of one kind each, none named
like the purpose of a request), `HandoffAssumption`, `TaskRunsAssumption`, `DeliveryAssumption`,
`IndexAssumption`, `LoadsAssumption`, `LiveAssumption`, `ReadingAssumption` and `ViewAssumption`. They say that names are distinct and bounds
are numbers. Two sets of theorems have a hypothesis besides: those about `PromptDelivery` that
wishes have different texts (`TextsDiffer`), those about the journals of PI and OMP that their
records are a tree.

Every run's safety property but the two named at the end is proved. Each module's
invariant was checked by TLC on the run's instance, or on a smaller one, before it was proved.

**`OperationLedgerProofs`.** *Type correctness* (`TypesHold`), then:
- `IssueInvariant`, and from it `AtMostOnceHolds` and `WorkIsRecordedHolds`. That an operation is
  carried out at most once is not inductive: one must know that nobody else is about to. `IssueInv`
  says so with *owners*, the handlers that put the pending entry in the map and have not answered:
  an operation has one owner (`OneOwner`), its entry is in the map unless the owner is just
  deleting it (`OwnerHasEntry`), nothing was issued before the owner calls, and by then the entry
  is in the file (`FreshOwner`). Whatever was issued is in the file and, once it was read, in the
  map (`IssuedIsRecorded`), so no second owner can arise after a restart.
- `AckedWorkWasTakenHolds`, from `WorkInv`: a handler that saw a call succeed, an entry that says
  accepted and an answer that says 200 each stand for a request that the agent's side took. That it
  is carried out as well is promised of handoffs only.
- `RecordInvariant` and `NameInvariant`, and from them `OneTargetPerHandoffHolds`. `RecordInv`: an
  entry names the request that was issued, and says accepted or uncertain only if one was.
  `NameInv`: whatever names a Session for a handoff (answer, entry in memory or file, handler)
  names the one the agent made for it, and a baseline never lists the Session it is compared for.
- `DiskInvariant` and `AckIsOnDiskHolds`: while no write failed, map and file differ only for the
  operation whose write is to come, and an answered operation is in both.
- `KeepsPromiseHolds`, the refinement. The initial states map to the initial state of
  `MutationPromise`; a step maps to *take*, *perform* or *acknowledge* of the promise or to a
  stutter, by one lemma per kind of step; what the promise demands of each (an operation
  is taken or carried out at most once, a 200 only after it was taken) comes from the invariants above.

**`SessionTurnsProofs`, turns.** `TypesHold`, with the queue as the enumeration of the queued
prompts; `TurnInvariant`, and from it `ActiveHolds` (which no run states), `QueueHasARunnerHolds`, `SerialHolds`. The
invariant adds that generations are unique and the current one is the youngest: it is what
makes the completion of a cancelled turn distinguishable. `SeenInvariant` adds that a cancelled turn
has an older generation than the current one, and follows each waiting prompt through reads and
loads: it is in the transcript, put aside by a load that blanked it, cancelled or overlooked in
one of the ways of section 5. It gives `WaitingIsVisibleHolds` and the action property `StaleTurnsAreInertHolds`.

**`SessionTurnsProofs`, loads.** `LoadTypesHold`; `LoadsInvariant`, and from it
`WholeBetweenLoadsHolds` and `SnapshotCatchesUpHolds`. `LoadsInv` has one load at a time, in
`#loads`, with what is to be replayed only while it replays (`FlightInv`); on a harness with a
journal, the earlier messages in the transcript or put aside for as long as it is blank
(`JournalInv`); without one, all that was said in turns in the transcript, or put aside, or in a snapshot
file that is still to be read, and that file behind only while a write is to come (`StreamInv`). The
first part holds until something is refused, the other two until a snapshot is also read over what it
may be behind. The steps are first abstracted to what the invariant looks at:
a call is asked (`Asked`), a load proceeds (`Proceeds`) or ends (`Ends`).

**`ConversationProofs`, events.** `AgentInvariant` of `ManagedAgent` under any callers: only the host's child
runs, an agent that is available has one (`HostInv`); the upstream is asked for once, and what
streams is what was asked for (`FanoutInv`). `StreamsInvariant` adds the app (`SubscriptionInv`). From
them `OneAgentProcessHolds` and `OneListenerHolds`.

**`ConversationProofs`, reads.** `LiveInvariant` of `LiveConversation`: what is shown, answered or told
of was said (`AnswersInOrder`), and what the app was told of without a poll is shown, or there
is a timer or a read that will show it (`HeardIsOnItsWay`). From it `LiveTypesHold`,
`HeardIsOnItsWayHolds` and the action property `NothingGoesBackHolds`, which no run states. The first
is the safety part of `HeardIsShown`: what remains of it is fairness.

**`ConversationProofs`, transcripts.** `ViewInvariant`, and from it `FeedIsFaithfulHolds` and the action
property `FeedOnlyGrowsHolds` (which no run states): the feed never has one id twice nor a message
that was not said, and while it is open nothing leaves it or moves in it. That holds for every
harness, any number of turns, pages, replays and restarts, and without any of the restrictions of the run.
- `BridgeInv` says it of the journal and of the bridge's transcript: ids of the journal are
  numbered in its order, whatever the bridge has of it was read from it, and the ids it minted
  itself are those of turns it has seen, that of a late piece only once the turn is over. The
  snapshot, from which a restart goes on, is held to the same (`SnapshotInv`). `ViewInv` adds the
  answers on their way, PI's previous tail and the feed, with their cursors.
- Each merge returns a list that is sound if its arguments are (`MergeExternalHistorySound`,
  `MergeReplaySound`, `StabilizeBySound`, `MergeLatestSound`, `PrependOlderSound`, `MessagePageSound`).
  Soundness is asked of any set of messages, so the same lemmas carry a list from one set of turns
  to the next.
- `MergeReplay` walks a table of longest common subsequences. That the walk exists, and
  that what it emits is sound, are inductions over how much is left, carried by the set of numbers
  for which the claim holds, since no theorem with an operator as its parameter can be
  used. Lists picked from sets of places (`Pick`, `ByTime`) are counted by ranking finite total orders.
- The attempt found an error of the model: two cases of the replay's refresh and of the page's
  shape overlapped in a CASE, which is then either, and are now in the order of the code's tests.

**`AdapterProofs`.** `AdapterInvariant`, `AdapterTypeCorrect`, `PendingIsWithTheChildHolds`,
`ReadyChildIsKnownHolds`, and `StartIsAwaitedHolds`, which no run states. `ClientInv`: ids are fresh, what
is pending is with the child, whose capabilities are known or asked for. `WaitsInv`: each handshake,
listing and creation under way has exactly the calls that wait for it. The second is needed because
the first is broken by a call that starts an adapter while another still waits for its handshake.

**`HandoffRouteProofs`.** `HandoffInvariant`, `HandoffTypeCorrect`, `OneTargetPerContinueHolds`,
`TransferIsRecordedHolds`. `FlowInv`: where the app's function is and what it waits for;
`TargetInv`: a Session that was made, or may yet be, is the one left to continue, was opened, or
was lost to a wrong answer; `StoreInv` and `LinkInv`: the link file follows the memory, and a
link is on its way to both; `ToldInv`: a first prompt is the route's, and is told once, also when it is
refused, unless that is because it could not be written down.

**`TaskRunsProofs`.** `RunsInvariant`, `RunsTypeCorrect`, `OnePromptPerRequestHolds`,
`FileCatchesUpHolds`, `SupersededRunsAreInertHolds` (an action property). Memory, file and the texts being
written are *versions* of one Task: each is sound, any two are comparable, and the younger has all
the Runs of the older one (`VersionsInv`); the file is the memory unless somebody is writing
(`FileInv`); how far a launch is says what a version knows of its Run (`LaunchInv`). Proving
`OnePromptPerRequest` showed that a launch that prompts when its Run was superseded has linked no
Session: the history variable `superseded`, and a disagreement (5), come from there.

**`PromptDeliveryProofs`.** `DeliveryFlow` and `DeliveryTypeCorrect` whatever the texts are: each POST has
at most one message under way, and its answer is there only while the app awaits it (`FlowInv`). For wishes
with different texts `DeliveryInvariant`, and from it `OncePerWishHolds` and `NothingVanishesHolds`: a
wish has at most one request that may still be carried out or is the durable one, and the app forgets a
request only once it arrived or is dead (`AliveInv`); each wish is somewhere (`KeptInv`). The hypothesis
is needed: the attempt without it ended at the two wishes of one text of section 5.

**`SessionRailProofs`.** `RailInvariant`, `RailTypeCorrect`, `HiddenStaysHiddenHolds`, `CreatedIsListedHolds`. A
Session moves from the harness through the daemon's tombstones, a listing (three awaits), its
answer and a discovery into the rows; the invariant says for each of these places what may be there
of a technical Session (`TechnicalInv`), of a created one (`CreatedInv`), of one whose DELETE
is not answered (`Unanswered`) and of one whose DELETE is (`IndexInv`, `GoneInv`; these two unless a
request raced the first read of the index). The attempt found the deletion that is forgotten
while its second DELETE is on the way (5); the model's `mistaken` has it now.

**`ConversationProofs`, journals.** `JournalsReadWhole`: what the run looks at, from four theorems for
journals, pages and chunks of any size:
- `RolloutPagesAreTheFileAlways` for any bytes. Split lines compose (`LinesCut`: what follows
  a part of a file is read on from its last line; `LinesJoin`: the first line of a chunk belongs
  to what was before it), so neither reader depends on its chunks (`ReadBackIs`,
  `ReadOnIs`), and a page that ends at the offset of a message has all the messages before it
  (`LinesBefore`, `CodexPagesAre`).
- `PiPagesAreTheBranchAlways` for a tree of records (`IsTree`: an id occurs once, and a record was
  written after its parent, as PI and OMP append them). The line and the id of a cursor are enough to
  go on: walking back from the line finds the record with that id, if any, and its branch.
- `OmpPagesContinueAlways` for a journal whose readable records are a tree with ids, or none of
  which has one (`IsOmpJournal`). Whatever was appended, the branch to a message is the same
  (`IdsBefore`), and a journal of the first version keeps its numbers when it grows (`EntriesGrow`).
- `ResultsJoinTheirCallsAlways` for a branch of any kinds of results and any call ids, an id used
  twice included: a table of the calls says where the last one with each id is (`JoinedWell`).

These definitions are recursive functions, each a CHOOSE of a function that solves an equation. The lemma
`Recursion` gives such a function when a step looks only at places of lower rank;
for the pages, whose rank is how many messages are left, the answer itself is the solution. What
the functions compute is shown by induction over sets of numbers or sequences (`Induction`,
`SeqInduction`), as for `MergeReplay`.

Sequences without duplicates, the greatest element of a bounded set of numbers (from the library's
well-foundedness of finite strict subsets, which needs no operator as a parameter), and what
`Trims`, `RunNext`, `HandOver` or `First` return are lemmas, stated once and cited.

**Only model-checked**: all liveness properties (`RequestsAnswered`, `PromptsSettle`, `TaskSettles`, both
`CallsSettle`, `SubscriptionIsServed`, `HeardIsShown`, `PollCatchesUp`, `DeliveredIsNoticed`,
`RailFollows`, `ContinueEnds`), which are out of the prover's reach; and
`EachTurnShowsItsReply` and `FeedIsTheConversation` of `ConversationView`. These two say more than that
the merges are sound: that they miss nothing and keep the order. This is so only on the harnesses and
in the orders that `readings` leaves in (5), and only because of which turns two overlapping pages
share, which no invariant short of the merges' whole result expresses.

## 5. Disagreements met while modelling

Where a comment, a document or a test says one thing and the code another, or where the code does
what nobody can have meant, the property exempts the case by a history variable, a bound of the
instance or a hypothesis. They are, with the module whose model reaches them:

*Ledger, claims (`OperationLedger`, `Adapter`, `HandoffRoute`)*
- After one failing read of its file the ledger takes itself for empty and replays
  (`session-operation-ledger.js:24` says it does not).
- `statusForSessionError` answers 409 to whatever mentions a session or a load
  (`session-claim-server.js:37`), failing ledger and file accesses included. The app takes 409 for
  a decision, drops its record, and the next continue makes a second Session
  (`native-session-handoff.ts:113`: "Create exactly one").
- A handoff that was pending when the daemon died is never reconciled, only an uncertain one is:
  it blocks the source. A changed title of the source blocks the retry (`native-session-handoff.ts:136`).
- An uncertain handoff is reconciled with the only new Session that is listed (`machine-daemon.js:502`). One
  that PI made and whose `session/new` answer was lost is not listed before its first prompt
  (`acp-service.js:546`), nor is one that the daemon knew before it died, so these stay uncertain; so do
  those beside which another Session was made; and where that other one is alone, it is taken for the target.
- A first prompt that was sent, and whose entry then can be written neither as accepted nor as uncertain, is
  answered 409 or 500 (`session-claim-server.js:204` to 214). The app clears its record without marking the
  context as sent (`native-session-prompt.ts:281`, 298), and the retry tells it again under a new id.
- A link whose write failed stays in memory, so the retry is answered 200 without a write
  (`session-link-store.js:100`; comment at `native-session-routing.ts:217`). The context of a link is
  overwritten by a retry's newer one while the prompt keeps the first; `listFor` reads outside the
  chain that serialises `addHandoff`.
- Once the transcript showed the first prompt, the route's record is not cleared, and a retry sends
  the instruction again.
- `claimSession` answers true without `session/load` when the adapter was replaced
  (`acp-service.js:608`); Stop is sent to adapters that never opened the Session; a late exit of a
  killed adapter takes the new child down.
- A 200 for a prompt to an ACP agent is given when `AcpService` queued it or fired `session/prompt`
  without waiting for it (`acp-service.js:1192`, 1242; `machine-daemon.js:277`, 336). An abort (1319), a
  model refused as it is dequeued (1302) or a restart then loses it, and a retry is answered as accepted.

*Turns and loads (`SessionTurns`, `SessionLoads`, `SessionIndex`)*
- A waiting prompt disappears from what is shown when PI's journal is read while the Session is idle
  and the prompt, dequeued, awaits its model (`acp-service.js:849`, 1303) or runs beside a newer turn
  that ended; and when it was recorded after a forced load noted the transcript (1604) and before that blanked
  it (1662) or failed (1694). The first load of an adopted OMP Session takes the journal instead (1621).
  A queued prompt that was dropped by an abort during a load is shown again by it. Prompts of the
  same text, which `mergeExternalHistory` takes for one, are not in `SessionTurns`.
- `#restoreSnapshot` sets its flag before it reads (`acp-service.js:1413`), so who comes second does not wait
  for it; and a created Session counts as loaded but not as restored (568), so its first `messages()` or
  claim reads the file, mid-turn too, over a live transcript that is ahead of it (1431).
- What an agent says after its turn has ended is shown (1926) and marked nowhere to be saved (1974).
- Two prompts may be with the agent at once (`acp-service.js:1168`), when one of them names a model.
- A dequeued prompt that awaits its model survives an abort (`test/server.test.js:482`); a prompt
  queued behind an action or a rename is not run when that ends (`test/server.test.js:440`).
- After a load with options failed, two loads may overlap (`acp-service.js:1572`).
- `#restoreDeletedSessionIndex` sets its flag before it reads (`acp-service.js:1373`; the test at
  `test/server.test.js:888` starts from a read index): a listing meanwhile shows what was deleted, and
  a DELETE meanwhile writes an index that forgets it. A failed write leaves a Session deleted in
  memory only.
- The model catalog's `#loadState` has the same order; `#saveState` writes in place, and a torn
  file keeps the daemon from starting (`daemon-cli.js:141`).
- Renaming a PI Session without a prompt closes the writer and then fails (`acp-service.js:653`).

*Task Runs (`TaskRuns`)*
- Two launches of one Task are both accepted and both prompt (`task-run-controller.js:217`). The
  first one does so without linking its Session, as its Run is not the Task's any more; a crash
  before the second Run is written makes it the Task's again, prompted and without a Session.
- A Task may be cancelled and then prompted (`work-thread-controller.js:130`).
- The worktree of a Task that was just accepted is removed (`task-store.js:146`).

*Agents and events (`ManagedAgent`, `EventStreams`)*
- After a lazy start that failed, a dead agent stays "available" (`agent-router.js:183`,
  `opencode-host.js:153`).
- `restart()` of the desktop's subscription opens a second stream (`event-transport.ts:245`).

*Transcripts and journals (`Transcripts`, `ConversationView`, `Journals`)*
- On PI, a reply that was read half way is shown twice after the next read
  (`native-session-v3-adapter.ts:115`; the comment at 88 says otherwise). So are the replies of two
  turns with the same answer, since the key is the text and two candidates are none (110, 162), and a
  reply whose last chunks came after its turn ended, in an envelope of their own (`acp-service.js:1256`,
  1939). A repeated prompt may be dropped. Codex's ids of streamed and journalled messages differ, so
  its pages repeat turns.
- A snapshot may be of the middle of a turn, or older than the last turns (`acp-service.js:1461`, 1790).
  After a restart from it the replayed reply is shown beside the part that was kept, and where prompts
  or replies are alike the merge may put it under another turn.
- A page that its conversation outgrew captures turns twice.
- PI's older pages report a model of the past, which Codex's reader avoids on purpose
  (`codex-session-history.js:119`); OMP answers a cursor whose message left the branch with the
  newest page (`omp-session-history.js:422`).
- PI's rename appends under the parent it read: what PI appended meanwhile is not shown until PI
  writes again (`pi-session-history.js:264`).

*Client (`PromptDelivery`, `SessionRail`)*
- A prompt that is lost on the way after an identical one of the same mount is taken for delivered:
  the message of the first, whose turn has no native id, proves the second
  (`native-session-v3-adapter.ts:505`; the comment at 500 says that an older identical prompt must
  not). Without that, the same text sent again is taken for the same request while the first is
  unresolved.
- A prompt is sent twice when its first POST was answered 4xx or 5xx although it was taken, or
  after the ten minutes of its record.
- The probe of a silent machine is superseded by the next poll before it fails
  (`standalone-universal-workspace.tsx:382`), so the machine stays online.
- An empty or failed listing takes the mark off rows being deleted (`native-session-home.tsx:329`);
  the answer of a creation adds a row that was deleted meanwhile, until the next discovery. When
  the index write of a DELETE failed, the user deletes again, the row's mark is taken off and the
  daemon dies and forgets the deletion, the Session is listed once more and stays without a mark
  after that DELETE is answered.

## 6. Not modelled

* In the modules that exist: reuse of a native Session by `continue`, `markFinished`,
  `prepareWorktree`, two overlapping first `load()`s of the Task store, a failing boot
  reconciliation; `promptAndWait`, a prompt beside a DELETE; permission requests, restart and close
  of an adapter by the operator; the catalog's refresh and its probes of variants; the records the
  client keeps for Stop and create (of the same kind as those of `HandoffRoute`); several machines
  and the legacy bridges in the rail; undo and redo; tool calls, reasoning and todos in transcripts.
* Work Thread checkpoints and the machine's identity have a protocol each, and no module yet.
* `session-mutation-coordinator.ts` and `catalog-request-guard.ts` are used by tests only.
* Parsing and formatting of records, events, models, contexts and outcomes; the discovery of files
  and commands; process trees; HTTP parsing and authorisation; git.
* Translations, icons, styles, React rendering, and the browser smoke scripts, which make up a
  large part of the repository's lines and have no state to speak of. They are the reason why most
  lines of the repository have no counterpart here.

## 7. Plan

1. Done: `OperationLedger` with `MutationPromise`, `SessionTurns`, and their proofs; `TaskRuns`;
   `Adapter`, `SessionLoads`, `ManagedAgent` with `EventStreams`; `LiveConversation`,
   `PromptDelivery`, `Transcripts` with `ConversationView`, `Journals`; `SessionIndex` with
   `SessionRail`; `HandoffRoute`.
2. Done: the refinement of `MutationPromise`; every safety property of the runs but the two
   that section 4 leaves to TLC; the invariant of `LiveConversation` behind its liveness properties;
   the readers of `Journals` for journals of any length.
3. Proofs next: the completeness of the newest page on the harnesses with an authoritative
   journal; the refinement of a single-flight load by `SessionLoads`.
4. Later models: the catalog's refresh, checkpoints, the machine's identity.
