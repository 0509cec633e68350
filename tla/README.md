# TLA+ models and proofs of TriOnyx

TriOnyx is an Elixir gateway that runs autonomous LLM agents in containers and
keeps track of what each of them has been exposed to. Every agent session
carries two levels, *taint* (how untrusted is what it has read) and
*sensitivity* (how confidential), and an *effective risk* computed from them and
from the agent's capability; a session over its definition's ceiling is killed.
The value of the whole system rests on that bookkeeping being right under
concurrency: an OTP process, a port process, an asyncio program in a container,
timers, clients and other agents all interleave.

This directory holds TLA+ modules translated from that code, TLC configurations
that check them on small instances, and TLAPS proofs that hold for every
instance. Paths below are relative to the repository (`lib/...` stands for
`lib/tri_onyx/...`, `runtime/...` for the container's Python).

## 1. Inventory of the system

| Component (source) | State it keeps | Operations | Interacts by | Hard behaviour | Correct when |
|---|---|---|---|---|---|
| Risk tables (`risk_scorer.ex`, `information_classifier.ex`) | none | join of levels, 2-D matrix, capability adjustment, ceiling test | pure calls | floor, cap and the exception at `:low` | joins never lower the risk |
| **Agent session** (`agent_session.ex`) | status, prompt queue, kept BCP messages, pending tools, levels, risk, timers | prompt, bcp query/delivery, graceful stop; runtime events; timers; self-kill | GenServer calls in, mailbox from port, casts to port | everything crosses on the mailbox: interrupts, late results, stale timers, kills behind events | prompts FIFO and once; context never exceeds the levels; over the ceiling it dies; saving and idling end |
| Agent port (`agent_port.ex`) | OS port, line buffer | send_*, data, exit_status | cast in, message to session, link | link death without `terminate`, write on a closed port | the container comes down with its session |
| **Agent runtime** (`runtime/agent_runner.py`, `protocol.py`) | control queue, interrupt event, SDK client | reader loop, prompt/bcp/save/reflection turns, retry, exit | stdin/stdout lines | interrupt while a result is awaited, interrupt before the turn begins, suppressed results, retry | each turn leaves the session an answer |
| Trigger router, agent supervisor (`trigger_router.ex`, `agent_supervisor.ex`) | definitions; the set of live sessions | dispatch, register, find_session, start, reload | calls to sessions and scheduler | check-then-act between lookup, start and prompt; call exits in the router | one session per (agent, key); a trigger's taint reaches the session |
| Scheduler, definition watcher (`triggers/scheduler.ex`, `definition_watcher.ex`) | heartbeat/cron timers; debounce timer | schedule, cancel, fire, reload | router and scheduler call each other | cyclic calls, unflushed timers | one timer chain per agent; reloads finish |
| System command (`system_command.ex`) | none (task) | stop, wait, start | supervisor | restart racing a trigger | no second session |
| Repository store, manifest, sweeper (`repo_store.ex`, `risk_manifest.ex`, `repo_store/sweeper.ex`) | bare repos, work trees, labels, claims | prepare, commit, push, conflict park, sweep | file system, git, store GenServer | floor computed before sync; labels after push; crash between | what is in a tree is covered by the floor of its reader |
| **Gateway-mediated tools** (`runtime/agent_runner.py`, the request events of `agent_session.ex`) | a queue of answers per tool, the ledger of submissions | request, poll, put back, time out, interrupt | events out, answers in; a task per request in the gateway | several calls poll one queue; late answers; interrupts empty the queues | a call takes its own answer, and returns |
| **BCP channel, approval queue** (`bcp/channel.ex`, `bcp/approval_queue.ex`) | pending queries; pending approvals, decisions, waiters | register, pop, validate; submit, await, approve, reject, time out | Agent, tasks, GenServer, votes from two chats | vote before the wait, after it, twice; restart with waiters | the first vote decides; nothing is done without it |
| Rate limiters (`rate_limiter.ex`, `webhook_rate_limiter.ex`, `bcp/rate_limiter.ex`) | ETS counters | check | shared ETS | renewal of an expired window is not atomic | no more than limit per window |
| Inter-agent messages (`triggers/inter_agent.ex`) | none (task) | validate, classify, route | sender looked up by name | sender's levels read late | receiver's levels cover the sender's |
| Webhooks (`webhook_*.ex`, `triggers/webhook.ex`) | registry file | verify, limit, dispatch | router | secret rotation | always taints its target |
| Graph analyzer (`graph_analyzer.ex`) | none | propagate risk over agent topologies | pure | cycles | least fixpoint |
| **Gateway link** (`connector/gateway_client.py`) | socket, registration | connect, register, read, send, stop | WebSocket; used by the chat connector and the MCP bridge | what is sent while it is down is dropped | owners are told of every end |
| **MCP bridge** (`mcp_server/gateway_bridge.py`) | a turn and a lock per conversation, counts of abandoned turns | ask, join, poll, collect, time out, abandon, sweep | gateway link; calls of MCP clients | frames without a prompt's id, late answers, cancelled callers | nobody gets another question's answer; every ask returns |
| **MCP authorization** (`mcp_server/auth.py`, `storage.py`) | parked logins, codes, limiter; clients and tokens in a file | register, authorize, log in, replay, exchange, rotate, revoke, evict | HTTP; a JSON file | rotation is several saves; replays; a full table | one session per login; what is spent stays spent; guesses bounded |
| **Matrix adapter** (`connector/adapters/matrix.py`, `connector/main.py`) | rooms, merge buffers and timers, own events, config file | start, sync, merge, flush, dispatch, answer, invite, leave | homeserver, gateway link | timers restarted and overtaken by flushes, files, own echoes, deaths at start | a post is dispatched once, as its author's; rooms of the config only |
| **Slack adapter** (`connector/adapters/slack.py`, `connector/channel_bindings.py`) | consent file, channel cache, bindings, names | consent, revoke, forward; fetch, create, find, bind | Slack, HTTP, gateway link | tasks that overtake each other, deaths between create and remember | nobody is heard without consent; an agent keeps its channel |
| HTTP router, loaders, sandbox, logs, frontend | sockets, files | I/O | HTTP | outside systems | — |

The hard-to-test points, each at its line, are the `hazards` of `PROJECT.json`.

## 2. Plan

Done, in this order:

1. **Session core**: `RiskLevels`, `AgentRuntime`, `AgentSession` (which
   composes the runtime), the promise `SessionPromise` they implement, and the
   proofs about them.
2. **Routing**: `SessionLife`, the life of a session as the rest of the gateway
   sees it, which `AgentSession` is shown to follow, and `TriggerRouting`, which
   builds the router, the supervisor's lookup, the connector's retry, restarts
   and the operator's requests on it.
3. **Tools and approvals**: `Approvals`, from the request for approval to the
   thumb in a chat and back, and `ToolRequests`, which composes it with the
   handlers in the container and the gateway's tasks; theorems about both.
4. **Connectors**: `GatewayClient`, the link that two programs keep to the
   gateway, and the modules of these programs that extend it, `MatrixAdapter` and
   `GatewayBridge`; `SlackAdapter`; `McpAuth`.
5. **Proofs** of the safety properties of all of them, but for one (section 5).

Left, in order:

6. **Provenance**: repository store, manifest, read floors and sweeper. Abstract
   specification: a reader's floor covers every writer of what it can read. Runs:
   two agents, one shared tree, one file, one crash.
7. **TriggerScheduling**: scheduler, definition watcher and reload: the router
   and the scheduler call each other, a cancelled heartbeat may already be in the
   mailbox, cron jobs outlive the scheduler. One chain of heartbeats per agent;
   reloads return.
8. Rest of **BcpChannel**: sending queries, their rate, subscriptions. Rate
   limiter windows; graph propagation against a reference fixpoint.

## 3. Modules

| Module | Role |
|---|---|
| `RiskLevels` | levels, labels, their join, the risk matrix with capability, the ceiling test |
| `AgentRuntime` | the container; leaf state machine with its own fairness |
| `AgentSession` | the session and its port, composed with `AgentRuntime`; all properties |
| `SessionPromise` | abstract specification: what a session promises about prompts and levels |
| `SessionLife` | the life of a session as its callers see it, and what may follow what |
| `TriggerRouting` | requests, router, lookup and restarts over sessions that live as `SessionLife` says |
| `Approvals` | approval queue, cards and votes in two chats |
| `ToolRequests` | tool handlers and the gateway's tasks, composed with `Approvals` |
| `GatewayClient` | the connection a connector keeps to the gateway |
| `GatewayBridge` | calls of MCP clients as turns of an agent, over `GatewayClient` |
| `McpAuth` | clients, logins, codes and tokens of the MCP server |
| `MatrixAdapter` | rooms, messages and answers of the Matrix connector, over `GatewayClient` |
| `SlackAdapter` | consent and channel bindings of the Slack connector |
| `MC...` | the values TLC uses for the constants |
| `AgentSessionProofs`, `SessionMailProofs` | theorems about risk levels and sessions |
| `ToolRequestsProofs` | theorems about tools and approvals |
| `TriggerRoutingProofs`, `GatewayBridgeProofs`, `McpAuthProofs`, `MatrixAdapterProofs`, `SlackAdapterProofs` | theorems about the modules they are named after |

A comment line "Defect: ..." announces a variant of the definition that follows
it, with the kind of slip a change to the code could introduce. No specification
uses them; each is substituted to see that the property it breaks can be broken.

A pattern recurs in the newer modules: what may go wrong in a behaviour, and how
often, is a *scenario* (or `limits`, `faults`) that `Init` chooses from a constant
set and nothing changes. One run then covers several small worlds, each with the
faults that matter there, where the product of all of them would be out of reach.

### AgentRuntime (`runtime/agent_runner.py`)

One asyncio program with two tasks. The reader (`ReadStdin`) puts control
messages on `controlQueue` but raises `interruptEvent` at once, so an interrupt
overtakes the messages before it. The main loop takes one control message
(`StartTurn`, `RefuseBlank`, `StartSave`, `LeaveLoop`) and runs it to its end. A
turn ends in every way the code has: aborted between SDK messages, with a
result, with a result *and* an abort when the event was set while the last
message was awaited, with a suppressed empty result or an error followed by the
"Continue." retry, as the last turn of the container (memory save, reflection),
or with the process. `run` holds the loop's place, `calls` the tool calls the
SDK has open, which survive an aborted turn. `seen`, `tree` and `dropped` are
history variables: what entered the model's context, what it knew when it
wrote uncommitted bytes, and whether a blank prompt was thrown away.

### AgentSession (`lib/agent_session.ex`, `lib/agent_port.ex`)

A GenServer handles one message at a time, so every handler is one action that
includes all it calls (`elevate_risk`, `commit_workspace_writes`, the idle
timer). Mailbox messages are handled in order (`Handle...`): runtime events,
fired timers, the self-sent kill. Client calls (`PromptArrives`, `BcpArrives`,
`GracefulStop`) can be handled at any moment, because a client may have sent
them at any earlier one. `AgentPort` is the pair `stdin` (lines it still has to
write or the container has still to read) and `mailbox` (events appended in
order), with `PortExits` for `exit_status` and `PortCommandFails` for a write
after the exit, which raises and takes the linked session along. When the
session stops, the port process dies by its link without running
`terminate/2`, so `docker stop` is not run: the container reads an arbitrary
prefix of what was written and then end of file (`Die`).

Two timers matter: the idle timer, which is cancelled but whose message may
already be in the mailbox, and memory-save timers, of which there may be two.

### SessionPromise

Prompts waiting, prompts handed on, levels and whether the session is open;
nothing of mailboxes, timers, container or status. Its steps are `Learn`,
`Accept`, `HandOn` (in order, and only under levels that cover the prompt's
label), `AcceptAndHandOn` and `End`. `AgentSession` implements it under
`open <- alive, waiting <- queue, handed <- taken` (`KeepsPromise`).

### SessionLife, and how the two state machines compose

Callers of a session see five stages: starting, open (`:ready` or `:running`),
saving, stopped (its container is lost and the process is still registered) and
gone. `Successors` says which may follow which. `FollowsLife` is checked of
`AgentSession`, for both modes, under the mapping `life`; `TriggerRouting` lets
its sessions do all that `Successors` allows, so what it shows does not rest on
a guess about sessions.

### TriggerRouting (`lib/trigger_router.ex`, `lib/agent_supervisor.ex`, `lib/connector_handler.ex`, `lib/system_command.ex`, `lib/router.ex`)

One agent, since `find_session` matches the agent's name first. Each *request* is
made once by a process of its own; `step` is where that process is, `result` what
it was answered. A request starts at most one session, which is named after it.
The router is a GenServer: it takes a call from `calls`, looks a session up,
starts one if there is none (`Dispatch`), and then sends the prompt
(`RouterPrompts`, `RouterExits`). Lookup and prompt are separate actions because
the session may move between the two calls. The prompt is an unguarded
`GenServer.call`: to an ended session, or one that takes more than 5 s, it exits
in the router, which `Application` restarts without definitions; everyone in its
mailbox exits too, and a prompt left with a slow session is handled there later
(`TakesLate`). Callers give up after the same 5 s while the router goes on
(`GivesUp`). A lookup passes over a session that does not answer `get_status`
(`Finds`); which of several candidates it returns is left open, because it
depends on the supervisor's order.

Restarts (`RestartLooks`, `RestartAsks`, `RestartWaits`, `StartsSession`,
`ForceRestart`), `POST` start, stop and prompt, and the connector's retry
(`RetryStops`) act outside of the router and race with it.

### Approvals (`lib/bcp/approval_queue.ex`, `connector/main.py`, `connector/adapters/*.py`, `lib/connector_handler.ex`)

One approval from end to end, named after the tool call it is for. `pending`,
`decided`, `waiters` are the queue's state and `reply` the answer that
`GenServer.reply` puts into a task's mailbox; `Submit`, `Decide`, `EmptyQueue` are
its operations. The connector works off `feed`, a card per adapter in turn: the
post is awaited (`PostCard`) and only then mapped to the approval (`MapCard`).
The two chats differ, and the model keeps the difference: a Matrix card stays
mapped and every thumb is forwarded at once (`VoteMatrix`), a Slack card is
forgotten first, then a name is awaited and then the vote sent (`VoteSlack`,
`ForwardSlack`); a restart forgets Matrix's mappings and keeps Slack's
(`RestartConnector`). Frames and posts are lost while there is no connection, as
often as the scenario allows.

### ToolRequests (`runtime/agent_runner.py`, `lib/agent_session.ex`, `lib/bcp/channel.ex`)

Calls of one turn run concurrently. `call` is where a handler is, `left` what is
left of its limit, `queue` the queue of answers of its kind: `Poll` takes the head
and puts it back if it is another's (`_wait_for_matching_response`,
`_wait_for_validation`), `PollPublish` keeps what is not its own until its wait
ends, `Interrupt` empties the queues with everyone still waiting, `Die` replaces
the container and may tear `submissions.json` in the middle. `task` is the
gateway's process for the call: `Deny`, `Allow`, `SubmitForApproval` are the ways a
request event is handled, `LookUp` and `PopQuery` the two steps of `pop_query`,
`Announce`, `Await`, `Proceed`, `Rejected`, `GiveUp` an approval, `Act` the deed.
Time is counted for the limits alone; it stands still while a step that waits for
nobody is due (`Tick`).

### GatewayClient (`connector/gateway_client.py`)

`socket`, `registered` and the frames that have arrived. A lost connection is
still read to the end of what had arrived (`LinkDies`, then `ReadEnds`), frames are
handled one at a time (`TakeFrame`), and nothing arrives on a connection the
gateway has not acknowledged (`Push`).

### GatewayBridge (`mcp_server/gateway_bridge.py`)

Asyncio runs one step at a time, from await to await, and those are the actions.
A call takes the lock of its conversation (`Ask`, `TakeLock`), and finds a finished
turn (`Collect`), a running one (`Join`) or none (`Start`, after `WaitForLink` if
the link is down); it then waits until the turn is settled or its soft deadline
has passed. `turn` outlives its caller: `HardDeadline`, `Disconnect`, `Sweep` and
`Stop` end it. Frames from the gateway carry no prompt, so the bridge counts the
turns it gave up (`stamps`) and swallows as many terminal frames (`HandleFrame`).
In the model frames do carry their prompt, for the properties to compare with.
The set of calls is finite, so that abandonments can be counted.
`upstream` is the session's queue, with every way a prompt ends there.

### McpAuth (`mcp_server/auth.py`, `mcp_server/storage.py`)

Handlers do not suspend between their steps, so each is one action; but a
handler may save several times, so a handler of tokens gives the list of contents
it saves (`Issued`, `Rotation`), and either all of it happens, with any of the
saves failing (`Saves`), or the process ends after some of it and starts again
from the file (`Restarts`). The clock is explicit: pending logins, codes, replays,
tokens and the limiter expire. The two tables that may be full are sets of dated
records: which of several oldest goes is left open, where the code takes the first
of its dictionary. Who is at the login form is judged after expired authorizations
were taken out, as in the code.

### MatrixAdapter (`connector/adapters/matrix.py`, `connector/main.py`)

`history` is the homeserver's log, and an event is its position in it. Starting is
five phases, in the code's order: resolve or create rooms, demote itself in them,
save the config, first sync, leave what is not served. Then a sync brings a
`batch`, a set of positions, of which the least is handled next (`TakeText`,
`TakeMedia` with its download, `TakeInvite`, `IgnoreEvent`). Merging is `buffer`, `timer` and `flushing`:
a message cancels its room's timer and starts another, and a flush forwards the
runs of one sender one after the other (`FirstRun`, `Dispatch`) with awaits in
between, so that two flushes of one room may run at once. Answers are posted (`SendText`), and their echo may be
synced before the request returns (`SendReturns`); hence `ownIds`.

### SlackAdapter (`connector/adapters/slack.py`, `connector/channel_bindings.py`)

Two activities of one process. The loader fetches the gateway's agents and gives
each a channel: explicit, cached, created (`CreateChannel`, and `RememberMade` in a
step of its own, with the invitation of the owner between), or found by its name
(`BindTaken`). Events are acknowledged and handled by tasks (`Handle`), each of
which may stop to ask for a display name, so that they overtake each other before
`Agrees`, `Revokes`, `Forward` or `Dismiss` (`Finish`). `consentFile` and `cacheFile`
are on disk; saving may fail with memory changed.

## 4. Runs

| Run (distinct states) | Shows |
|---|---|
| `session_busy` (1.1 M) | types; `KillPending`: over the ceiling, a kill is in the mailbox; `FifoHandoff`: what waits is exactly what was accepted and not taken, in order, and `:ready` means that nothing waits; `ContextIsTracked`: what is in the model's context is in the levels or in a tool result still to be handled; `RunningIsOwedAnswer`: a `:running` session has something coming that will move it on; `KeepsPromise` |
| `session_idle` (23 k) | with both modes, idle timeout and crashes: `IdleSessionExpires`, `FollowsLife`, and the liveness of `DueEndsCome` (a memory save ends, and so does a session over its ceiling) and `OrphanExits` |
| `session_stop` | violated: a stop is not certain to complete; interrupted or port_down leave `:saving_memory` and the timeout is then ignored |
| `session_commit` | violated: a commit can label bytes written after an escalating read with the lower levels |
| `routing` (2.6 M) | types; `AtMostOnce`: no prompt is accepted twice, though calls time out with the prompt still in a mailbox and the connector tries again; `ChannelsApart`: a channel has one session as long as every session answers the lookups, and no message reaches another channel's session; `AnswersHold`: an `:ok` means accepted or a session started for it, and what was refused is not accepted later; `StartedTainted`: the session started for a trigger has the trigger's taint before the payload |
| `routing_returns` (99 k) | `AllReturn`: every request is answered or fails |
| `bridge` (835 k) | types; `AnswersApart`: a turn is settled by its own prompt's frame and made of its own texts, and a parked outcome is collected by one call, which is told that it is another's; `TurnsCovered`: abandonments cover the terminal frames still to come, and an open turn is the one its conversation has |
| `bridge_returns` (382 k) | `EveryAskReturns` |
| `auth` (262 k) | `StoreConsistent`: types, and whoever holds a token is registered; `LoginGivesOneSession`: a login has at most one pair of tokens, which ends on time however often it is rotated; `SpentStaysSpent`; `GuessesBounded`: wrong passwords count, on the replay of a finished login as well; `ParkedSurvives`: who is at the login form is evicted last |
| `tools` (145 k) | types; `OwnAnswer`: a tool tells the agent what the gateway did about this very call; `VotesCount`: a mail is sent only if its first vote was an approval, and a Slack card lets one vote through; `BcpOutlastsApproval`; `SubmissionsKnown`: the ledger has the newest submissions; `InTimeDecisionCounts`; `EveryCallReturns` |
| `matrix` (146 k) | types; `OnceOrLost`: a post is dispatched once, or lost for a reason the code has; `WordsAsPosted`: under its author's name and trust and, unless two flushes ran at once, in order; `KeepsRooms`: the bot is in the rooms of its config only, without power, and leaves none of them; `WordsLeave` |
| `slack` (44 k) | `OnlyTheWilling`: no direct message without consent to the terms as they are; `AgentKeepsChannel`: an agent keeps its channel and shares it with none; `EveryAgentBound` |

The violation runs check what a comment or document of the repository says; the
quotes are in `findings`. `KillPending` and `DueEndsCome` say what does hold of the
kill: it is never lost and always ends the session.

**Bounds.** *Session*: two prompts (one that runs and one that waits, which is
what FIFO, interruption and overtaking need), one BCP message (enough to be kept
while the runtime starts and to be a turn that overtakes), one tool, each call
made at most once. The labels are chosen so that the tool's taint and the
prompt's sensitivity exceed the ceiling only together, so that escalation by
join, and not by one classification alone, happens. The mailbox, stdin and the
control queue need no bound of their own: what fills them is bounded by prompts,
calls, stops and timers.

*Routing*: three requests: two can open two sessions and the third disturb one,
or one session is lost, found and retried. One is a connector's message; the
others are of any of the ten kinds. *Bridge*: three calls of one conversation (a
turn given up, the one after it, and a call that joins, polls or collects) and one
lost connection; calls of different conversations share only the link.

*Auth*: five worlds with a clock of four units: a long chain of rotations with
failing saves and a restart, two logins, a full table of clients with a third to
come, a full table of parked authorizations with a third to come, and four wrong
passwords against a limit of two. *Tools*: two calls of each tool, so
that answers cross; three submissions against a ledger of two; one mail with two
votes, a lost frame, restarts of connector and queue and a death, for each order
of adapters; two mails; and the tools that share a queue. *Matrix*: up to four
posts of two people, text and file, in one or two rooms, with one lost link, or a
death, two failing requests and a heartbeat, or answers into the conversation.
*Slack*: two users and the owner; agreement, revocation and words in one script;
two deaths, so that a start can be interrupted twice; repositories of one name,
taken names and explicit channels.

**Symmetry** is used where members are interchangeable and the run has no
liveness: requests in `routing`, calls in `bridge`, clients and transactions in
`auth`. `routing_returns` and `bridge_returns` are smaller and use none.

**Deadlock.** `CHECK_DEADLOCK FALSE` everywhere: every system here may really
stop. A session that has ended with its container down, requests that are all
answered, a bridge that was stopped, a behaviour that has used up its scenario.

**Fairness.** `GatewayFairness` (session) is weak fairness on handling a mailbox
message, on the two timers and on noticing the container's exit: the BEAM
schedules every runnable process and delivers its timers. Nothing is assumed of
clients or of the container, so `DueEndsCome` holds with a container that hangs.
`RuntimeFairness` (the event loop runs, turns end because `max_turns` bounds them)
is not part of the specification; it is a hypothesis inside `OrphanExits`. In
`TriggerRouting`, the router and each requesting process are weakly fair, since
every call they make is answered or times out; nothing is assumed of sessions.
In `GatewayBridge`, the event loop runs a call's task when it is ready and its
deadlines pass; nothing is assumed of the gateway, the link or the sweeper. In
`ToolRequests`, time passes and the gateway's tasks are scheduled; nothing is
assumed of humans, of the connector, of the deed itself, or of answers, and still
`EveryCallReturns`. In `MatrixAdapter`, the sync loop and the timers run and
requests to the homeserver return, one way or the other (nio's timeouts). In
`SlackAdapter`, the loader's requests and the lookups of names return. `McpAuth`
has no liveness and no fairness.

## 5. Proofs

All for every value of the constants, from their named assumptions alone.

*`AgentSessionProofs`*

* `RiskMonotone`: effective risk is monotone in taint, sensitivity and capability.
* `TypeCorrect`: `Spec => []TypeOK`. One lemma for the types each helper
  produces, one step per action.
* `CeilingEnforced`: `Spec => []KillPending`. `KillPending` is inductive with
  the types once it is seen that every step that lengthens the mailbox keeps the
  kill, and that a handler that takes a message off its head takes something
  else, or is `HandleKill` and ends the session (`KillStaysInTail`,
  `ElevateKills`). That the risk cannot fall under the ceiling again without a
  kill does not need monotonicity, because the kill is sent at each rise; the
  monotonicity lemma says the converse does not happen either.
* `FifoOrder`: `Spec => []FifoHandoff`. The inductive invariant `QueueInv` adds
  to it that the levels cover every waiting prompt's label.
* `PromiseKept`: `Spec => KeepsPromise`. Every step of the composed system is
  classified once (`StepShape`) as quiet, enqueueing, handing on, sending at
  once or ending; the same classification preserves `QueueInv` and maps to a
  step or stutter of `SessionPromise`.

*`ToolRequestsProofs`*, for any number of calls, any limits
(of which the reader's is longer than the approval's) and any scenario

* `ToolTypes`: `Spec => []TypeOK`. `TInv` adds to the types what they rest on: a
  scenario keeps its tools, only tools are called, and the gateway knows only
  calls that were made. One lemma per action; steps of the chats and of the
  tasks share `ChatSame`, `GoesTypes` and `FinishTypes`.
* `VotesCountAlways`: `Spec => []VotesCount`. The invariant `VInv` follows an
  approval: before it is submitted nothing anywhere names it (`Unseen`), a pending
  item has had no vote, a decision and a reply are the first vote
  (`FirstVoteKnown`), a Slack card is voted on when it is resolved and its one
  vote is either on its way to be forwarded or was (`SlackCardOnce`).
* `OwnAnswerAlways`: `Spec => []OwnAnswer`. Every answer in the queue of a tool
  that goes by request id is true of the call it names, and a call is done with
  once, so that it stays true (`TruthStays`).
* `BcpOutlastsApprovalAlways`: what is left of the reader's wait is the whole of it
  until the wait for a human begins, and more than what is left of that from
  then on; this uses `BcpPatience > ApprovalPatience` of `PatienceAssumption`.
* `InTimeDecisionCountsAlways`: a task that has heard nothing is among the waiters
  and nothing is decided (`Heard`).
* `SubmissionsKnownAlways`: the ledger is the end of the list of accepted
  submissions, as long as may be (`LedgerNewest`).

*`SessionMailProofs`*: what a session's mailbox owes it, for every set of tool
calls, label and ceiling. The invariant `MailInv` speaks of sessions that are alive
and has four parts; none of the first three theorems is inductive without the
others.

* `AlwaysOwedAnswer`: `Spec => []RunningIsOwedAnswer`. It needs `PortHeard`: a
  session hears of the end of its port once, behind everything the port forwarded,
  and gets nothing more from it when it is `:stopped`. Without that, a result
  behind `port_down` could make a stopped session `:ready` and then `:running` with
  nothing to come. What is owed is a turn, a line that is not an interrupt on
  its way to the runtime (`Work`), one of three messages, or a dead container
  whose exit was not noticed yet.
* `AlwaysExpires`: `Spec => []IdleSessionExpires`: a `:ready` session with a
  timeout has its timer, or the timer's message.
* `LifeFollowed`: `Spec => FollowsLife`. The step of `AgentSession` that
  `SessionLife` has no step for would be an idle timeout while starting
  (`NotYetIdle`) or a session that comes back from `:stopped`.
* `ContextAlwaysTracked`: `Spec => []ContextIsTracked`. A prompt is in the context
  when the runtime takes it, long after the session raised its levels; so the
  labels of lines on their way are below the levels. A tool result is in
  the context before the session has heard of it; so each result in the mailbox is
  the only one of its call, and its call is remembered in `pendingTools`, or waits in
  front of it.

*`TriggerRoutingProofs`*, for every set of requests and whatever they ask. `RInv`
says of each request that its prompt is in one place: with who makes the
request, in the router's mailbox, being served, with a session that nobody waits
for any more, or accepted; and that a session whose turn it is may take it.

* `RoutingTypes`, `AtMostOnceAlways`, `ChannelsAlwaysApart`, `AnswersAlwaysHold`,
  `AlwaysStartedTainted`: `TypeOK`, `AtMostOnce`, `ChannelsApart`, `AnswersHold` and
  `StartedTainted`. `RoutingAssumption` says that a message of a connector, and
  nothing else, has a session key, as `connector_handler.ex` does.

*`GatewayBridgeProofs`*, for every finite set of calls, of any clients and
conversations, any number of lost connections and all sets of faults.

* `BridgeTypes`: `Spec => []TypeOK`.
* `AnswersAlwaysApart`: `Spec => []AnswersApart`. A frame that is not swallowed must
  be one of the open turn of its key. The invariant `Counting` says why: what is
  still to come is ordered (`Ordered`: a prompt is sent once and ends once, and
  nothing of its key follows the prompt of an open turn), and there are as many
  abandonments as prompts of turns given up whose terminal frame may still come,
  in all and in front of each frame (`Paid`). The second count is what keeps a late
  text from the next turn: as long as a frame of an old turn comes next, its debt,
  or one of an older turn, is still unpaid (`ThroughIsOpen`). `Parking` says
  that what was collected is held no more.
* `TurnsAlwaysCovered`: `Spec => []TurnsCovered`. `StampsCover` follows from
  `Counting`, because every terminal frame is that of another prompt
  (`GivenUpIsOwing`). `OpenTurnIsHeld` rests on `Locking`: one call of a key at a
  time is between taking its lock and its turn, and one that waits there
  for the connection has found no turn, so that none is overwritten. This is what
  `_prune_locks` can break (the fault "handoff").

*`McpAuthProofs`*, for every set of clients and logins, all limits and lifetimes,
whichever saves fail and wherever the process ends. A handler is a list of
contents it saves; what holds of the file and of every stage holds afterwards,
whether the saves succeed, fail or are cut off (`SavesIn`, `RestartsIn`).

* `HoldersRegistered`: `Spec => []StoreConsistent`, by the same fact about every
  stage of every handler (`TInv`).
* `OneSessionAlways`: `Spec => []LoginGivesOneSession`. `SInv`: a login is parked, a
  code or over, in one place; both contents have tokens of finished logins only,
  of one pair each, numbered below the next pair.
* `SpentForGood`: `Spec => []SpentStaysSpent`. `SpInv`: as long as every save has
  succeeded the file is what is in memory.
* `GuessesAlwaysBounded`: `Spec => []GuessesBounded`. `GuessInv`: the failures that
  are counted are the last of the guesses evaluated, and those before them are a
  period away.
* `ParkedOnesSurvive`: `Spec => ParkedSurvives`, an action property: only a
  registration, or a start, takes a client away.

*`MatrixAdapterProofs`*, for all sets of rooms, aliases and people, and every scenario:
any config, script of posts, and number of deaths, lost links, failing requests,
heartbeats and answers. `ScenarioAssumption` says what a config is: aliases and ids
differ (`#` and `!`), the bot is not one of the people, it is in the rooms of
heartbeats and approvals, and is invited to rooms of the config.

* `MatrixTypes`: `Spec => []TypeOK`.
* `OnceOrLostAlways`: `Spec => []OnceOrLost`. What was taken is older than the file
  that is being downloaded, and that is older than the rest of the batch
  (`Progress`); an adapter that has not heard its first sync has taken nothing, so
  that a restart cannot take again what was forwarded (`Deaf`); a message waits,
  or was sent, or was given up (`Apart`). That one who posts in a room is not
  ignored later needs that the adapter does not forget rooms (`Expected`).
* `WordsAlwaysAsPosted`: `Spec => []WordsAsPosted`. The words of a room wait in the
  order they were said, one flush behind the other (`Queued`), and in a room of which
  no two flushes overlapped everything that was sent is older than what
  flushes, and that than the buffer (`InTurn`). A dispatch takes the first run of one
  sender off a flush; what is left keeps its order and its places in the old one
  (`Cut`, `DispatchIs`). The bot's own words stay out because each position
  in `ownIds`, or that is being sent, is the bot's (`Echoes`), and an event that no
  callback has recorded yet is told by its sender.
* `RoomsAlwaysKept`: `Spec => []KeepsRooms`. `RoomInv` follows a start: while it
  leaves rooms, each room the bot is in was looked at or is served
  without power; `rooms` holds no room that was left; and of a room in the config
  the bot is a member, unless it never was one.

*`SlackAdapterProofs`*, for every set of users and channels, all bindings and
scripts, and any number of deaths, failures and revisions of the terms.

* `AlwaysTheWilling`: `Spec => []OnlyTheWilling`. The invariant `WillInv` says of
  both contents of the consent store, the one in memory and the one in the
  file (a save may fail, and a start reads the file), that nobody has consented to terms
  still to come, and that whoever has consented to the current ones has agreed to
  them and is not barred (`Granted`). It also needs `HeardAgain`: whoever has an
  agreement on its way, as an event or as a task that waits for a name, is
  not barred, since tasks overtake each other and the agreement may be recorded late.

Model-checked only:

* `AgentKeepsChannel` of `SlackAdapter`: it rests on `ResolveNames` giving two agents
  two names, a fold over the bindings; what a recursive definition computes for
  every input needs an induction that none of the provers can do. Nor does it hold
  of every configuration: if the name an agent wants is that of another's explicit
  channel, whichever comes first in a start has the channel, and when the lookup
  of the first fails in one start and not in the next, the channel changes hands.
  In the run's scenarios explicit bindings come first wherever a name leads to
  their channel. Within one start two agents never share one.
* The liveness properties: the prover knows neither fairness nor ENABLED.

## 6. What is left out, and why

**Everywhere**: text, formatting, usage counters, notes, logging and broadcasts;
inference of levels and capability from tool lists (constants here); all
components marked `not_modelled` in `PROJECT.json`, with their reasons.

**Session and routing**

* A session that is over its ceiling at its start is refused before it accepts
  anything, and is no state of the specification.
* Some behaviours of the code are in the models as they are, and no property
  says otherwise, because no document promises otherwise: a kill is handled
  after events that are already in the mailbox; the result that ends
  `:saving_memory` may be that of a turn that was still running; a blank prompt
  is never answered and blocks the prompts behind it; a new prompt that is
  accepted while a stale `:idle_timeout` is in the mailbox finds its session
  starting to save and stop; the connector's retry stops a session found without
  its key; the taint of a webhook is not applied to a session that exists.
* In `TriggerRouting`: other agents, lookup by session id, registration of single
  agents, and a reload that changes a definition. A router that is restarted too
  often, and takes the application with it, is not modelled.
* `adr/ARCHITECTURE.md:29` says "A crashing agent session never takes down the
  gateway". The model has the step that contradicts its letter (`RouterExits`:
  the router ends and forgets its definitions until the next reload); the runs
  show what holds through it.

**Tools and approvals**

* Votes through the HTTP API, and Slack's expiry of cards after seven days.
* An item that is approved after its waiter gave up is decided, and nothing is
  done. The runtime gives a mail up after its short limit while the gateway waits
  ten minutes for a human, so that the agent may be told of a timeout and the
  mail be sent later. Both are what the code does.
* `SubmissionsKnown` speaks of a ledger that is not torn by a death in the middle
  of writing it; the code then keeps the torn file.

**MCP server**

* Clocks and phases in the bridge: any deadline may pass whenever it runs.
  `AnswersApart` and `TurnsCovered` hold while abandonments can be counted on
  (`Counted`): a prompt that fails emits an error and a result, so that two
  terminal frames follow one abandonment; an abandonment may expire before its
  frame comes; a lock may be pruned in its hand-over; a call cancelled in its
  send drops its turn uncounted; `stop` drops them all. These are steps of the
  model, and `bridge_returns` runs with most of them.
* `SpentStaysSpent` holds while no save failed: after a failed one, a restart
  brings spent tokens back. A client is safe from eviction while it is at the
  login form and once it holds a token, not between login and code exchange.
* Redirects, resources, PKCE, scopes, pages, and the limiter's global back-off.

**Matrix and Slack**

* Encryption, device trust, key verification and missing keys, typing indicators,
  threads, uploads, transcription, commands that are answered on the spot.
* An alias that already exists is only reused if its room is known to the client,
  and before the first sync none is; the branch is in the model (`Found`) and is
  not taken. A room created just before a death is left at the next start, and
  another is created. A first sync that fails leaves the adapter deaf, and a sync
  loop that crashes is not restarted (`FirstSyncFails`, `SyncCrashes`).
* `OnlyTheWilling` speaks of revocations that were confirmed to the user; one
  whose save failed is undone by a restart. Bindings are the same at every start;
  an agent that is added later may take over the bare name of a repository.

Known hazards beyond those in `PROJECT.json`, all in components that are not
modelled: a heartbeat already in the mailbox when its timer is cancelled, a push
that merges into the live tree of a running session, two callers that both renew
an expired rate-limiter window, and a sender's levels that are looked up after its
message was accepted.
