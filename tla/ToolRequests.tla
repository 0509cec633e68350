---------------------------- MODULE ToolRequests ----------------------------
(***************************************************************************)
(* The tools that an agent has carried out by the gateway: the handlers of *)
(* runtime/agent_runner.py, which write a request to the gateway and wait  *)
(* for the answer with a time limit, and the gateway's side of them in     *)
(* agent_session.ex and bcp/channel.ex, where some wait for a human        *)
(* (Approvals). Several calls of a turn run concurrently.                  *)
(*                                                                         *)
(* The reader loop moves every answer to the queue of its kind at once, so *)
(* that the pipe and the queue are one here. Time is counted for the       *)
(* limits only: a timer fires before a whole unit more has gone by, and    *)
(* the steps of the gateway that wait for nobody take less than a unit.    *)
(* What the requests say is left out.                                      *)
(***************************************************************************)
EXTENDS Approvals, SequencesExt

CONSTANTS
    ShortPatience,    \* the limits of 30, 60 and 120 seconds
    GitHubPatience,   \* _GITHUB_OP_TIMEOUT_S
    BcpPatience,      \* _BCP_RESPONSE_TIMEOUT_S
    ApprovalPatience, \* await_decision's timeout
    MaxSubmissions    \* _MAX_SUBMISSIONS

ASSUME PatienceAssumption ==
    /\ {ShortPatience, GitHubPatience, BcpPatience, ApprovalPatience} \subseteq Nat \ {0}
    /\ BcpPatience > ApprovalPatience
    /\ MaxSubmissions \in Nat \ {0}

VARIABLES
    call,      \* the handlers
    left,      \* what is left of each handler's limit
    queue,     \* InboundDispatcher: the answers not yet taken, by kind
    held,      \* BCPPublish: validation results taken that were not its own
    task,      \* the gateway's task for each call
    grace,     \* what is left of each task's wait for a decision
    outcome,   \* what the gateway did about each call
    unasked,   \* BCP: the reader's query has not been popped
    ledger,    \* submissions.json
    torn,      \* the file holds half a document
    old,       \* calls of a runtime that has died
    gaveUp,    \* history: tasks whose wait for a decision timed out
    submitted  \* history: submissions that were accepted, in order

files == <<ledger, torn, submitted>>
runtimeVars == <<call, left, queue, held, files, old>>
gatewayVars == <<task, grace, outcome, unasked, gaveUp>>
vars == <<runtimeVars, gatewayVars, approvalVars>>

-----------------------------------------------------------------------------
\* The handlers. Every one but the BCP tools waits for its request id.

Keyed(name, patience) == [name |-> name, queue |-> name, patience |-> patience]

SendMessage == Keyed("send_message", ShortPatience)
RestartAgent == Keyed("restart_agent", ShortPatience)
SubmitItem == Keyed("submit_item", ShortPatience)
SubmitImage == Keyed("submit_image", ShortPatience)
SubmitPage == Keyed("submit_page", ShortPatience)
Speak == Keyed("speak", ShortPatience)
SendEmail == Keyed("send_email", ShortPatience)
SaveDraft == Keyed("save_draft", ShortPatience)
MoveEmail == Keyed("move_email", ShortPatience)
CreateFolder == Keyed("create_folder", ShortPatience)
GitHub == Keyed("github", GitHubPatience)
CalendarQuery == Keyed("calendar_query", ShortPatience)
CalendarCreate == Keyed("calendar_create", ShortPatience)
CalendarUpdate == Keyed("calendar_update", ShortPatience)
CalendarDelete == Keyed("calendar_delete", ShortPatience)

\* respond_to_query and publish wait in one queue, for the query and for the
\* subscription.
\* Defect: as impatient as the other tools.
RespondInHaste == [name |-> "bcp_respond", queue |-> "bcp", patience |-> ShortPatience]
Respond == [name |-> "bcp_respond", queue |-> "bcp", patience |-> BcpPatience]
Publish == [name |-> "bcp_publish", queue |-> "bcp", patience |-> BcpPatience]

Tools == {SendMessage, RestartAgent, SubmitItem, SubmitImage, SubmitPage, Speak,
          SendEmail, SaveDraft, MoveEmail, CreateFolder, GitHub,
          CalendarQuery, CalendarCreate, CalendarUpdate, CalendarDelete,
          Respond, Publish}
Queues == {tool.queue : tool \in Tools}
NoTool == [name |-> "none"]

ASSUME ToolAssumption ==
    \A s \in Scenarios : "tools" \in DOMAIN s /\ s.tools \in [Calls -> Tools \cup {NoTool}]

Tool(c) == budget.tools[c]

\* What an answer is recognised by. Queries and subscriptions are not in the
\* queues of the calls.
Key(c) == IF Tool(c).queue = "bcp" THEN Tool(c).name ELSE c
Answer == [key : Calls \cup {"bcp_respond", "bcp_publish"}, ok : BOOLEAN]

Waiting == {c \in Calls : call[c] = "waiting"}

TypeOK ==
    /\ ApprovalTypeOK
    /\ call \in [Calls -> {"idle", "waiting", "ok", "error", "timeout", "gone"}]
    /\ left \in [Calls -> 0 .. GitHubPatience + BcpPatience + ShortPatience]
    /\ queue \in [Queues -> Seq(Answer)]
    /\ held \in [Calls -> Seq(Answer)]
    /\ \A c \in Calls : held[c] # <<>> => c \in Waiting /\ Tool(c) = Publish
    /\ task \in [Calls -> {"none", "asked", "popping", "submitted", "announced",
                            "awaiting", "acting", "done", "dead"}]
    /\ grace \in [Calls -> 0 .. ApprovalPatience]
    /\ outcome \in [Calls -> {"none", "ok", "failed"}]
    /\ unasked \in BOOLEAN
    /\ ledger \in Seq(Calls) /\ Len(ledger) <= MaxSubmissions
    /\ torn \in BOOLEAN
    /\ submitted \in Seq(Calls)
    /\ old \in SUBSET Calls
    /\ gaveUp \in SUBSET Calls

Init ==
    /\ ApprovalInit
    /\ call = [c \in Calls |-> "idle"]
    /\ left = [c \in Calls |-> 0]
    /\ queue = [q \in Queues |-> <<>>]
    /\ held = [c \in Calls |-> <<>>]
    /\ task = [c \in Calls |-> "none"]
    /\ grace = [c \in Calls |-> 0]
    /\ outcome = [c \in Calls |-> "none"]
    /\ unasked = TRUE
    /\ ledger = <<>>
    /\ torn = FALSE
    /\ submitted = <<>>
    /\ old = {}
    /\ gaveUp = {}

-----------------------------------------------------------------------------
\* The runtime.

Returns(c, result) == call' = [call EXCEPT ![c] = result]

\* A missing argument, a file that is not there, too large or of no use: the
\* tool answers without a request.
Refuse(c) ==
    /\ call[c] = "idle" /\ Tool(c) \in Tools
    /\ Returns(c, "error")
    /\ UNCHANGED <<left, queue, held, files, old, gatewayVars, approvalVars>>

\* emit_*_request, and the wait begins.
Request(c) ==
    /\ call[c] = "idle" /\ Tool(c) \in Tools
    /\ Returns(c, "waiting")
    /\ left' = [left EXCEPT ![c] = Tool(c).patience]
    /\ task' = [task EXCEPT ![c] = "asked"]
    /\ UNCHANGED <<queue, held, files, old, grace, outcome, unasked, gaveUp, approvalVars>>

Pop(q) == [queue EXCEPT ![q] = Tail(@)]
PutBack(q) == [queue EXCEPT ![q] = Append(Tail(@), Head(@))]

\* _persist_submission: the newest entries are kept. A file that cannot be
\* read stays as it is.
\* Defect: they are not counted.
PersistUncapped(c) == IF torn THEN ledger ELSE Append(ledger, c)
\* Defect: the oldest are kept.
PersistOldest(c) == IF torn \/ Len(ledger) = MaxSubmissions THEN ledger ELSE Append(ledger, c)
Persist(c) ==
    IF torn THEN ledger
    ELSE IF Len(ledger) < MaxSubmissions THEN Append(ledger, c)
    ELSE Append(Tail(ledger), c)

\* _wait_for_matching_response and _wait_for_validation: the head of the queue
\* is taken and, if it is another's, put back at the end.
\* Defect: the head is taken for one's own.
MineUnread(answer, c) == TRUE
Mine(answer, c) == answer.key = Key(c)

Poll(c) ==
    LET q == Tool(c).queue
        answer == Head(queue[q])
    IN /\ c \in Waiting /\ Tool(c) # Publish
       /\ queue[q] # <<>>
       /\ IF Mine(answer, c)
          THEN /\ queue' = Pop(q)
               /\ Returns(c, IF answer.ok THEN "ok" ELSE "error")
               /\ IF answer.ok /\ Tool(c) = SubmitItem
                  THEN ledger' = Persist(c) /\ submitted' = Append(submitted, c)
                  ELSE UNCHANGED <<ledger, submitted>>
          ELSE /\ queue' = PutBack(q)
               /\ UNCHANGED <<call, ledger, submitted>>
       /\ UNCHANGED <<left, held, torn, old, gatewayVars, approvalVars>>

\* _wait_for_subscription_validation: what is not its own is kept until the
\* wait ends, and put back then.
PollPublish(c) ==
    LET answer == Head(queue["bcp"])
    IN /\ c \in Waiting /\ Tool(c) = Publish
       /\ queue["bcp"] # <<>>
       /\ IF answer.key = Key(c)
          THEN /\ Returns(c, IF answer.ok THEN "ok" ELSE "error")
               /\ queue' = [queue EXCEPT !["bcp"] = Tail(@) \o held[c]]
               /\ held' = [held EXCEPT ![c] = <<>>]
          ELSE /\ queue' = Pop("bcp")
               /\ held' = [held EXCEPT ![c] = Append(@, answer)]
               /\ UNCHANGED call
       /\ UNCHANGED <<left, files, old, gatewayVars, approvalVars>>

\* asyncio.TimeoutError, or the deadline of the publication.
\* Defect: a publication has no deadline.
TimesOutKeyed(c) == c \in Waiting /\ left[c] = 0 /\ Tool(c) # Publish
TimesOut(c) == c \in Waiting /\ left[c] = 0
Timeout(c) ==
    /\ TimesOut(c)
    /\ Returns(c, "timeout")
    /\ queue' = [queue EXCEPT ![Tool(c).queue] = @ \o held[c]]
    /\ held' = [held EXCEPT ![c] = <<>>]
    /\ UNCHANGED <<left, files, old, gatewayVars, approvalVars>>

\* run_prompt_interruptible: the answers are thrown away, whoever waits goes on
\* waiting.
Interrupt ==
    /\ Spend("interrupts")
    /\ queue' = [q \in Queues |-> <<>>]
    /\ UNCHANGED <<call, left, held, files, old, gatewayVars,
                   queueVars, chatVars, votes>>

\* The runtime dies, perhaps while it writes the ledger, and another is started
\* for the calls still to come. Answers to the old one go nowhere.
Die ==
    /\ Spend("kills")
    /\ call' = [c \in Calls |-> IF c \in Waiting THEN "gone" ELSE call[c]]
    /\ old' = {c \in Calls : call[c] # "idle"}
    /\ queue' = [q \in Queues |-> <<>>]
    /\ held' = [c \in Calls |-> <<>>]
    /\ \/ UNCHANGED torn
       \/ /\ \E c \in Waiting :
                Tool(c) = SubmitItem /\ [key |-> Key(c), ok |-> TRUE] \in Range(queue["submit_item"])
          /\ torn' = TRUE
    /\ UNCHANGED <<left, ledger, submitted, gatewayVars, queueVars, chatVars, votes>>

-----------------------------------------------------------------------------
\* The gateway.

\* AgentPort.send_*_response.
Send(c, ok) ==
    queue' = IF c \in old THEN queue
             ELSE [queue EXCEPT ![Tool(c).queue] = Append(@, [key |-> Key(c), ok |-> ok])]

Finish(c, ok) ==
    /\ task' = [task EXCEPT ![c] = "done"]
    /\ outcome' = [outcome EXCEPT ![c] = IF ok THEN "ok" ELSE "failed"]
    /\ Send(c, ok)
    /\ UNCHANGED <<grace, unasked, call, left, held, files, old>>

Goes(c, state) ==
    /\ task' = [task EXCEPT ![c] = state]
    /\ UNCHANGED <<grace, outcome, unasked, gaveUp, runtimeVars>>

\* handle_agent_event: refused at once, carried out at once, or, for a mail, a
\* command that the policy says so of, and an answer with anomalies, submitted
\* for approval.
MayBeGated(c) == Tool(c) \in {SendEmail, GitHub, Respond, Publish}
Asked(c) == task[c] = "asked" /\ Tool(c) # Respond

Deny(c) ==
    /\ Asked(c)
    /\ Finish(c, FALSE)
    /\ UNCHANGED <<gaveUp, approvalVars>>

Allow(c) ==
    /\ Asked(c) /\ Tool(c) # SendEmail
    /\ Goes(c, "acting")
    /\ UNCHANGED approvalVars

SubmitForApproval(c) ==
    /\ Asked(c) /\ MayBeGated(c)
    /\ Submit(c)
    /\ Goes(c, "submitted")
    /\ UNCHANGED <<chatVars, votes, budget>>

\* bcp_response: pop_query looks the query up, and deletes it in a second step.
LookUp(c) ==
    /\ task[c] = "asked" /\ Tool(c) = Respond
    /\ UNCHANGED <<gaveUp, approvalVars>>
    /\ IF unasked THEN Goes(c, "popping") ELSE Finish(c, FALSE)

\* Then the answer is validated: delivered, refused, or submitted.
PopQuery(c) ==
    /\ task[c] = "popping"
    /\ unasked' = FALSE
    /\ \/ /\ task' = [task EXCEPT ![c] = "acting"]
          /\ UNCHANGED <<queueVars, outcome, queue>>
       \/ /\ task' = [task EXCEPT ![c] = "submitted"]
          /\ Submit(c)
          /\ UNCHANGED <<outcome, queue>>
       \/ /\ task' = [task EXCEPT ![c] = "done"]
          /\ outcome' = [outcome EXCEPT ![c] = "failed"]
          /\ Send(c, FALSE)
          /\ UNCHANGED queueVars
    /\ UNCHANGED <<grace, gaveUp, call, left, held, files, old, chatVars, votes, budget>>

Announce(c) ==
    /\ task[c] = "submitted"
    /\ Broadcast(c)
    /\ Goes(c, "announced")

\* await_decision: what has been decided already is told at once. An item the
\* queue does not know is an answer no clause expects, and the task dies.
\* Defect: only a decision yet to come is told.
ToldAtOnceNever(c) == "none"
ToldAtOnce(c) == decided[c]
Await(c) ==
    /\ task[c] = "announced"
    /\ reply' = [reply EXCEPT ![c] = ToldAtOnce(c)]
    /\ waiters' = IF ToldAtOnce(c) = "none" /\ c \in pending THEN waiters \cup {c} ELSE waiters
    /\ task' = [task EXCEPT ![c] =
                   IF decided[c] = "none" /\ c \notin pending THEN "dead" ELSE "awaiting"]
    /\ grace' = [grace EXCEPT ![c] = ApprovalPatience]
    /\ UNCHANGED <<outcome, unasked, gaveUp, runtimeVars, pending, decided, firstVote,
                   chatVars, votes, budget>>

Proceed(c) ==
    /\ task[c] = "awaiting" /\ reply[c] = "up"
    /\ Goes(c, "acting")
    /\ UNCHANGED approvalVars

Rejected(c) ==
    /\ task[c] = "awaiting" /\ reply[c] = "down"
    /\ Finish(c, FALSE)
    /\ UNCHANGED <<gaveUp, approvalVars>>

\* {:error, :timeout}: the task tells the runtime; the item stays pending.
GiveUp(c) ==
    /\ task[c] = "awaiting" /\ reply[c] = "none" /\ grace[c] = 0
    /\ gaveUp' = gaveUp \cup {c}
    /\ Finish(c, FALSE)
    /\ UNCHANGED approvalVars

\* The mail is sent, the command run, the item posted, the answer delivered; or
\* that fails.
Act(c) ==
    /\ task[c] = "acting"
    /\ \E ok \in IF Tool(c) \in {Respond, Publish} THEN {TRUE} ELSE BOOLEAN : Finish(c, ok)
    /\ UNCHANGED <<gaveUp, approvalVars>>

\* The approval queue restarts.
RestartQueue ==
    /\ EmptyQueue
    /\ task' = [c \in Calls |-> IF task[c] = "awaiting" /\ reply[c] = "none" THEN "dead" ELSE task[c]]
    /\ UNCHANGED <<grace, outcome, unasked, gaveUp, runtimeVars>>

-----------------------------------------------------------------------------
Countdown(timer, running) == [c \in Calls |-> IF c \in running THEN timer[c] - 1 ELSE timer[c]]
InGrace == {c \in Calls : task[c] = "awaiting"}
Brief(c) ==
    \/ task[c] \in {"asked", "popping", "submitted", "announced"}
    \/ task[c] = "awaiting" /\ reply[c] # "none"

Tick ==
    /\ Waiting \cup InGrace # {}
    /\ \A c \in Waiting : left[c] > 0
    /\ \A c \in InGrace : grace[c] > 0
    /\ \A c \in Calls : ~Brief(c)
    /\ left' = Countdown(left, Waiting)
    /\ grace' = Countdown(grace, InGrace)
    /\ UNCHANGED <<call, queue, held, files, old, task, outcome, unasked, gaveUp,
                   approvalVars>>

Decides(c) == Await(c) \/ Proceed(c) \/ Rejected(c) \/ GiveUp(c)
Moves(c) == Deny(c) \/ Allow(c) \/ SubmitForApproval(c) \/ LookUp(c) \/ PopQuery(c) \/ Announce(c)

Next ==
    \/ \E c \in Calls : \/ Refuse(c) \/ Request(c) \/ Poll(c) \/ PollPublish(c) \/ Timeout(c)
                        \/ Moves(c) \/ Decides(c) \/ Act(c)
    \/ Interrupt \/ Die \/ RestartQueue \/ Tick
    \/ ChatStep /\ UNCHANGED <<runtimeVars, gatewayVars>>

\* Timers fire, and the gateway's processes are scheduled.
Fairness ==
    /\ WF_vars(Tick)
    /\ \A c \in Calls : /\ WF_vars(Timeout(c))
                        /\ WF_vars(Moves(c))
                        /\ WF_vars(Decides(c))

Spec == Init /\ [][Next]_vars /\ Fairness

-----------------------------------------------------------------------------
\* A tool that waits for its request id tells the agent what the gateway did
\* about this very call, whatever other calls of the kind were answered, put
\* back, thrown away or given up meanwhile.
OwnAnswer ==
    \A c \in Calls :
        Tool(c) \in Tools \ {Respond, Publish}
        => /\ call[c] = "ok" => outcome[c] = "ok"
           /\ call[c] = "error" /\ task[c] # "none" => outcome[c] = "failed"

\* A mail is sent only if the first vote on it that reached the gateway was an
\* approval, from whichever chat and however many more votes there are.
VoteDecides ==
    \A c \in Calls : Tool(c) = SendEmail /\ outcome[c] = "ok" => firstVote[c] = "up"

\* Of the thumbs on one Slack card one is forwarded, however many are there
\* while it is.
OneVotePerSlackCard == \A c \in Calls : forwarded[c] <= 1
VotesCount == VoteDecides /\ OneVotePerSlackCard

\* A decision that reaches the queue before the wait for it is over counts:
\* whoever gives up does so with nothing decided.
InTimeDecisionCounts ==
    [][\A c \in gaveUp' \ gaveUp : decided[c] = "none"]_vars

\* The reader's agent is not told that its answer is pending while the gateway
\* still waits for a human over it: it waits longer than the approval.
BcpOutlastsApproval ==
    \A c \in Calls : Tool(c) = Respond /\ call[c] = "timeout" => task[c] # "awaiting"

\* Feedback on an item: _enrich_item_feedback finds the submission in the
\* ledger, unless as many were accepted after it as the ledger holds.
Known(c) == ~torn /\ c \in Range(ledger)
SubmissionsKnown ==
    \A i \in DOMAIN submitted :
        ~torn /\ i + MaxSubmissions > Len(submitted) => Known(submitted[i])

\* Whatever happens to the gateway, the chats and the answer, the agent's turn
\* goes on: a tool returns.
EveryCallReturns == \A c \in Calls : call[c] = "waiting" ~> call[c] # "waiting"
=============================================================================
