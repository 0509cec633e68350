------------------------- MODULE ToolRequestsProofs -------------------------
(***************************************************************************)
(* Theorems about ToolRequests, for every set of calls, every limit that   *)
(* the assumptions allow, and every scenario.                              *)
(***************************************************************************)
EXTENDS ToolRequests, TLAPS

-----------------------------------------------------------------------------
\* The tools.

KeyedTools == Tools \ {Respond, Publish}

LEMMA ToolFacts ==
    /\ \A t \in Tools : /\ t.queue \in Queues
                        /\ t.patience \in 0 .. GitHubPatience + BcpPatience + ShortPatience
    /\ \A t \in KeyedTools : t.queue # "bcp"
    /\ Respond.queue = "bcp" /\ Respond.name = "bcp_respond" /\ Respond.patience = BcpPatience
    /\ Publish.queue = "bcp" /\ Publish.name = "bcp_publish"
    /\ Respond # Publish
    /\ SendEmail \in KeyedTools /\ SubmitItem \in KeyedTools
    /\ Respond \in Tools /\ Publish \in Tools
    /\ "bcp" \in Queues
<1> USE DEF Keyed, SendMessage, RestartAgent, SubmitItem, SubmitImage, SubmitPage, Speak, SendEmail,
            SaveDraft, MoveEmail, CreateFolder, GitHub, CalendarQuery, CalendarCreate,
            CalendarUpdate, CalendarDelete, Respond, Publish
<1>1. \A t \in Tools : t.queue \in Queues
  BY DEF Queues
<1>2. \A t \in Tools : t.patience \in {ShortPatience, GitHubPatience, BcpPatience}
  BY DEF Tools
<1>3. \A t \in KeyedTools : t.queue # "bcp"
  BY DEF Tools, KeyedTools
<1>4. /\ Respond.queue = "bcp" /\ Respond.name = "bcp_respond" /\ Respond.patience = BcpPatience
      /\ Publish.queue = "bcp" /\ Publish.name = "bcp_publish"
      /\ Respond # Publish
  OBVIOUS
<1>5. /\ SendEmail \in KeyedTools /\ SubmitItem \in KeyedTools
      /\ Respond \in Tools /\ Publish \in Tools
  BY DEF Tools, KeyedTools
<1>6. "bcp" \in Queues
  BY <1>1, <1>4, <1>5
<1>7. QED
  BY <1>1, <1>2, <1>3, <1>4, <1>5, <1>6, PatienceAssumption

\* The tools of the calls do not change.
Limits == {"votes", "losses", "restarts", "queues", "interrupts", "kills"}
BudgetOK ==
    /\ Limits \cup {"tools", "adapters"} \subseteq DOMAIN budget
    /\ budget.tools \in [Calls -> Tools \cup {NoTool}]
    /\ budget.adapters \in Seq(Adapters)

LEMMA SpendKeeps ==
    ASSUME BudgetOK, NEW what \in Limits, Spend(what)
    PROVE  BudgetOK' /\ budget'.tools = budget.tools
BY DEF BudgetOK, Limits, Spend

\* Only a call of a tool is made, and the gateway knows only calls that were made.
Named ==
    \A c \in Calls :
        /\ Tool(c) \notin Tools => call[c] = "idle"
        /\ call[c] = "idle" => task[c] = "none"

LEMMA KeyType ==
    ASSUME NEW c \in Calls, Tool(c) \in Tools
    PROVE  Tool(c).queue \in Queues /\ \A ok \in BOOLEAN : [key |-> Key(c), ok |-> ok] \in Answer
BY ToolFacts DEF Key, Answer, KeyedTools

RuntimeTypeOK ==
    /\ call \in [Calls -> {"idle", "waiting", "ok", "error", "timeout", "gone"}]
    /\ left \in [Calls -> 0 .. GitHubPatience + BcpPatience + ShortPatience]
    /\ queue \in [Queues -> Seq(Answer)]
    /\ held \in [Calls -> Seq(Answer)]
    /\ \A c \in Calls : held[c] # <<>> => c \in Waiting /\ Tool(c) = Publish
    /\ ledger \in Seq(Calls) /\ Len(ledger) <= MaxSubmissions
    /\ torn \in BOOLEAN
    /\ submitted \in Seq(Calls)
    /\ old \in SUBSET Calls

GatewayTypeOK ==
    /\ task \in [Calls -> {"none", "asked", "popping", "submitted", "announced",
                            "awaiting", "acting", "done", "dead"}]
    /\ grace \in [Calls -> 0 .. ApprovalPatience]
    /\ outcome \in [Calls -> {"none", "ok", "failed"}]
    /\ unasked \in BOOLEAN
    /\ gaveUp \in SUBSET Calls

\* TypeOK, of which the parts are disturbed by different steps, with what is
\* needed to prove it: a scenario keeps its tools, and only its tools are called.
TInv == RuntimeTypeOK /\ GatewayTypeOK /\ ApprovalTypeOK /\ BudgetOK /\ Named

LEMMA TypesAreTypeOK == TInv => TypeOK
BY DEF TInv, TypeOK, RuntimeTypeOK, GatewayTypeOK

LEMMA InitTypes == Init => TInv
<1> SUFFICES ASSUME Init PROVE TInv
  OBVIOUS
<1>1. RuntimeTypeOK
  <2>1. /\ call \in [Calls -> {"idle", "waiting", "ok", "error", "timeout", "gone"}]
        /\ left \in [Calls -> 0 .. GitHubPatience + BcpPatience + ShortPatience]
    BY PatienceAssumption DEF Init
  <2>2. queue \in [Queues -> Seq(Answer)] /\ held \in [Calls -> Seq(Answer)]
    <3>1. <<>> \in Seq(Answer)
      OBVIOUS
    <3>2. QED
      BY <3>1 DEF Init
  <2>3. \A c \in Calls : held[c] = <<>>
    BY DEF Init
  <2>4. ledger \in Seq(Calls) /\ Len(ledger) <= MaxSubmissions /\ submitted \in Seq(Calls)
    BY PatienceAssumption DEF Init
  <2>5. torn \in BOOLEAN /\ old \in SUBSET Calls
    BY DEF Init
  <2>6. QED
    BY <2>1, <2>2, <2>3, <2>4, <2>5 DEF RuntimeTypeOK
<1>2. GatewayTypeOK
  BY PatienceAssumption DEF Init, GatewayTypeOK
<1>3. ApprovalTypeOK
  BY DEF Init, ApprovalInit, ApprovalTypeOK, Thumbs, Adapters, CardStates
<1>4. BudgetOK
  BY ScenarioAssumption, ToolAssumption DEF Init, ApprovalInit, BudgetOK, Limits, Adapters
<1>5. Named
  BY DEF Init, Named
<1>6. QED
  BY <1>1, <1>2, <1>3, <1>4, <1>5 DEF TInv

-----------------------------------------------------------------------------
\* Types: the runtime's steps.

LEMMA RefuseTypes == ASSUME TInv, NEW c \in Calls, Refuse(c) PROVE TInv'
BY DEF TInv, RuntimeTypeOK, GatewayTypeOK, ApprovalTypeOK, BudgetOK, Named, Refuse, Returns,
       gatewayVars, approvalVars, queueVars, chatVars, files, Tool, Waiting

LEMMA RequestTypes == ASSUME TInv, NEW c \in Calls, Request(c) PROVE TInv'
<1>1. Tool(c).patience \in 0 .. GitHubPatience + BcpPatience + ShortPatience
  BY ToolFacts DEF Request
<1>2. QED
  BY <1>1 DEF TInv, RuntimeTypeOK, GatewayTypeOK, ApprovalTypeOK, BudgetOK, Named, Request, Returns,
       approvalVars, queueVars, chatVars, files, Tool, Waiting

LEMMA PersistType ==
    ASSUME TInv, NEW c \in Calls
    PROVE  Persist(c) \in Seq(Calls) /\ Len(Persist(c)) <= MaxSubmissions
BY PatienceAssumption DEF TInv, RuntimeTypeOK, Persist

LEMMA PollTypes == ASSUME TInv, NEW c \in Calls, Poll(c) PROVE TInv'
<1> DEFINE q == Tool(c).queue
<1>1. Tool(c) \in Tools
  BY DEF TInv, Named, Poll, Waiting
<1>2. q \in Queues
  BY <1>1, ToolFacts
<1>3. queue' \in [Queues -> Seq(Answer)]
  <2>1. queue[q] \in Seq(Answer) /\ queue[q] # <<>>
    BY <1>2 DEF TInv, RuntimeTypeOK, Poll
  <2>2. Tail(queue[q]) \in Seq(Answer) /\ Append(Tail(queue[q]), Head(queue[q])) \in Seq(Answer)
    BY <2>1
  <2>3. queue' = Pop(q) \/ queue' = PutBack(q)
    BY DEF Poll
  <2>4. QED
    BY <2>2, <2>3 DEF Pop, PutBack, TInv, RuntimeTypeOK
<1>4. ledger' \in Seq(Calls) /\ Len(ledger') <= MaxSubmissions /\ submitted' \in Seq(Calls)
  <2>1. CASE UNCHANGED <<ledger, submitted>>
    BY <2>1 DEF TInv, RuntimeTypeOK
  <2>2. CASE ledger' = Persist(c) /\ submitted' = Append(submitted, c)
    BY <2>2, PersistType DEF TInv, RuntimeTypeOK
  <2>3. QED
    BY <2>1, <2>2 DEF Poll
<1>5. call' \in [Calls -> {"idle", "waiting", "ok", "error", "timeout", "gone"}]
  BY DEF Poll, Returns, TInv, RuntimeTypeOK
<1>6. \A d \in Calls : call'[d] = call[d] \/ (d = c /\ call'[d] \in {"ok", "error"})
  BY DEF Poll, Returns, TInv, RuntimeTypeOK
<1>7. UNCHANGED <<left, held, torn, old, gatewayVars, approvalVars>> /\ Tool(c) # Publish
  BY DEF Poll
<1>8. RuntimeTypeOK'
  BY <1>3, <1>4, <1>5, <1>6, <1>7 DEF TInv, RuntimeTypeOK, Waiting, Tool, approvalVars
<1>9. Named'
  BY <1>1, <1>6, <1>7 DEF TInv, Named, Tool, approvalVars, gatewayVars, Poll, Waiting
<1>10. QED
  BY <1>7, <1>8, <1>9 DEF TInv, GatewayTypeOK, ApprovalTypeOK, BudgetOK, gatewayVars, approvalVars,
       queueVars, chatVars


LEMMA PollPublishTypes == ASSUME TInv, NEW c \in Calls, PollPublish(c) PROVE TInv'
<1>1. Tool(c) = Publish /\ call[c] = "waiting" /\ "bcp" \in Queues
  BY ToolFacts DEF PollPublish, Waiting
<1>2. queue["bcp"] \in Seq(Answer) /\ queue["bcp"] # <<>> /\ held[c] \in Seq(Answer)
  BY <1>1 DEF TInv, RuntimeTypeOK, PollPublish
<1>3. /\ Head(queue["bcp"]) \in Answer /\ Tail(queue["bcp"]) \in Seq(Answer)
      /\ Tail(queue["bcp"]) \o held[c] \in Seq(Answer)
      /\ Append(held[c], Head(queue["bcp"])) \in Seq(Answer) /\ <<>> \in Seq(Answer)
  BY <1>2
<1>4. /\ UNCHANGED <<left, ledger, torn, submitted, old, gatewayVars, approvalVars>>
      /\ \/ /\ call' = [call EXCEPT ![c] = "ok"] \/ call' = [call EXCEPT ![c] = "error"]
            /\ queue' = [queue EXCEPT !["bcp"] = Tail(queue["bcp"]) \o held[c]]
            /\ held' = [held EXCEPT ![c] = <<>>]
         \/ /\ queue' = [queue EXCEPT !["bcp"] = Tail(queue["bcp"])]
            /\ held' = [held EXCEPT ![c] = Append(held[c], Head(queue["bcp"]))]
            /\ UNCHANGED call
  BY <1>1 DEF PollPublish, Returns, files, Pop, TInv, RuntimeTypeOK
<1>5. /\ call' \in [Calls -> {"idle", "waiting", "ok", "error", "timeout", "gone"}]
      /\ queue' \in [Queues -> Seq(Answer)] /\ held' \in [Calls -> Seq(Answer)]
  <2>1. /\ call \in [Calls -> {"idle", "waiting", "ok", "error", "timeout", "gone"}]
        /\ queue \in [Queues -> Seq(Answer)] /\ held \in [Calls -> Seq(Answer)]
    BY DEF TInv, RuntimeTypeOK
  <2>2. call' \in [Calls -> {"idle", "waiting", "ok", "error", "timeout", "gone"}]
    BY <1>4, <2>1
  <2>3. queue' \in [Queues -> Seq(Answer)]
    BY <1>1, <1>3, <1>4, <2>1
  <2>4. held' \in [Calls -> Seq(Answer)]
    BY <1>3, <1>4, <2>1
  <2>5. QED
    BY <2>2, <2>3, <2>4
<1>6. \A d \in Calls : held'[d] # <<>> => call'[d] = "waiting" /\ Tool(d) = Publish
  BY <1>1, <1>4 DEF TInv, RuntimeTypeOK, Waiting
<1>7. RuntimeTypeOK'
  BY <1>4, <1>5, <1>6 DEF TInv, RuntimeTypeOK, Waiting, Tool, approvalVars
<1>8. \A d \in Calls : call'[d] = "idle" => call[d] = "idle"
  BY <1>1, <1>4 DEF TInv, RuntimeTypeOK
<1>9. \A d \in Calls : call[d] = "idle" => call'[d] = "idle"
  BY <1>1, <1>4 DEF TInv, RuntimeTypeOK
<1>10. Named'
  BY <1>4, <1>8, <1>9 DEF TInv, Named, Tool, approvalVars, gatewayVars
<1>11. QED
  BY <1>4, <1>7, <1>10 DEF TInv, GatewayTypeOK, ApprovalTypeOK, BudgetOK, gatewayVars, approvalVars,
       queueVars, chatVars

LEMMA TimeoutTypes == ASSUME TInv, NEW c \in Calls, Timeout(c) PROVE TInv'
<1>1. call[c] = "waiting" /\ Tool(c) \in Tools /\ Tool(c).queue \in Queues
  BY ToolFacts DEF Timeout, TimesOut, Waiting, TInv, Named
<1>2. queue[Tool(c).queue] \o held[c] \in Seq(Answer) /\ <<>> \in Seq(Answer)
  BY <1>1 DEF TInv, RuntimeTypeOK
<1>3. /\ UNCHANGED <<left, ledger, torn, submitted, old, gatewayVars, approvalVars>>
      /\ call' = [call EXCEPT ![c] = "timeout"]
      /\ queue' = [queue EXCEPT ![Tool(c).queue] = queue[Tool(c).queue] \o held[c]]
      /\ held' = [held EXCEPT ![c] = <<>>]
  BY <1>1 DEF Timeout, Returns, files, TInv, RuntimeTypeOK
<1>4. /\ call' \in [Calls -> {"idle", "waiting", "ok", "error", "timeout", "gone"}]
      /\ queue' \in [Queues -> Seq(Answer)] /\ held' \in [Calls -> Seq(Answer)]
  BY <1>1, <1>2, <1>3 DEF TInv, RuntimeTypeOK
<1>5. \A d \in Calls : held'[d] # <<>> => call'[d] = "waiting" /\ Tool(d) = Publish
  BY <1>1, <1>3 DEF TInv, RuntimeTypeOK, Waiting
<1>6. RuntimeTypeOK'
  BY <1>3, <1>4, <1>5 DEF TInv, RuntimeTypeOK, Waiting, Tool, approvalVars
<1>7. \A d \in Calls : call'[d] = "idle" <=> call[d] = "idle"
  BY <1>1, <1>3 DEF TInv, RuntimeTypeOK
<1>8. Named'
  BY <1>3, <1>7 DEF TInv, Named, Tool, approvalVars, gatewayVars
<1>9. QED
  BY <1>3, <1>6, <1>8 DEF TInv, GatewayTypeOK, ApprovalTypeOK, BudgetOK, gatewayVars, approvalVars,
       queueVars, chatVars

LEMMA InterruptTypes == ASSUME TInv, Interrupt PROVE TInv'
<1>1. BudgetOK' /\ budget'.tools = budget.tools
  BY SpendKeeps DEF Interrupt, TInv, Limits
<1>2. queue' \in [Queues -> Seq(Answer)]
  <2>1. <<>> \in Seq(Answer)
    OBVIOUS
  <2>2. QED
    BY <2>1 DEF Interrupt
<1>3. UNCHANGED <<call, left, held, files, old, gatewayVars, queueVars, chatVars, votes>>
  BY DEF Interrupt
<1>4. RuntimeTypeOK'
  BY <1>1, <1>2, <1>3 DEF TInv, RuntimeTypeOK, Waiting, Tool, files
<1>5. Named'
  BY <1>1, <1>3 DEF TInv, Named, Tool, gatewayVars
<1>6. QED
  BY <1>1, <1>3, <1>4, <1>5 DEF TInv, GatewayTypeOK, ApprovalTypeOK, gatewayVars, queueVars, chatVars

LEMMA DieTypes == ASSUME TInv, Die PROVE TInv'
<1>1. BudgetOK' /\ budget'.tools = budget.tools
  BY SpendKeeps DEF Die, TInv, Limits
<1>2. queue' \in [Queues -> Seq(Answer)] /\ held' = [c \in Calls |-> <<>>] /\ held' \in [Calls -> Seq(Answer)]
  <2>1. <<>> \in Seq(Answer)
    OBVIOUS
  <2>2. QED
    BY <2>1 DEF Die
<1>3. /\ UNCHANGED <<left, ledger, submitted, gatewayVars, queueVars, chatVars, votes>>
      /\ torn' \in BOOLEAN /\ old' \in SUBSET Calls
  BY DEF Die, TInv, RuntimeTypeOK
<1>4. /\ call' \in [Calls -> {"idle", "waiting", "ok", "error", "timeout", "gone"}]
      /\ \A c \in Calls : call'[c] = "idle" <=> call[c] = "idle"
  BY DEF Die, TInv, RuntimeTypeOK, Waiting
<1>5. RuntimeTypeOK'
  BY <1>1, <1>2, <1>3, <1>4 DEF TInv, RuntimeTypeOK
<1>6. Named'
  BY <1>1, <1>3, <1>4 DEF TInv, Named, Tool, gatewayVars
<1>7. QED
  BY <1>1, <1>3, <1>5, <1>6 DEF TInv, GatewayTypeOK, ApprovalTypeOK, gatewayVars, queueVars, chatVars

-----------------------------------------------------------------------------
\* Types: the gateway's steps.

LEMMA SendType ==
    ASSUME TInv, NEW c \in Calls, NEW ok \in BOOLEAN, task[c] # "none", Send(c, ok)
    PROVE  queue' \in [Queues -> Seq(Answer)]
<1>1. Tool(c) \in Tools
  BY DEF TInv, Named
<1>2. Tool(c).queue \in Queues /\ [key |-> Key(c), ok |-> ok] \in Answer
  BY <1>1, KeyType
<1>3. Append(queue[Tool(c).queue], [key |-> Key(c), ok |-> ok]) \in Seq(Answer)
  BY <1>2 DEF TInv, RuntimeTypeOK
<1>4. QED
  BY <1>2, <1>3 DEF Send, TInv, RuntimeTypeOK

LEMMA FinishTypes ==
    ASSUME TInv, NEW c \in Calls, NEW ok \in BOOLEAN, task[c] # "none", Finish(c, ok),
           gaveUp' \in SUBSET Calls, UNCHANGED approvalVars
    PROVE  TInv'
<1>1. queue' \in [Queues -> Seq(Answer)]
  BY SendType DEF Finish
<1>2. /\ UNCHANGED <<grace, unasked, call, left, held, files, old>>
      /\ task' = [task EXCEPT ![c] = "done"]
      /\ outcome' \in [Calls -> {"none", "ok", "failed"}]
  BY DEF Finish, TInv, GatewayTypeOK
<1>3. RuntimeTypeOK'
  BY <1>1, <1>2 DEF TInv, RuntimeTypeOK, Waiting, Tool, approvalVars, files
<1>4. GatewayTypeOK'
  BY <1>2 DEF TInv, GatewayTypeOK
<1>5. Named'
  BY <1>2 DEF TInv, Named, Tool, approvalVars, GatewayTypeOK
<1>6. QED
  BY <1>3, <1>4, <1>5 DEF TInv, ApprovalTypeOK, BudgetOK, approvalVars, queueVars, chatVars

\* A step that moves one task on, and changes nothing else here.
LEMMA GoesTypes ==
    ASSUME TInv, NEW c \in Calls, task[c] # "none", ApprovalTypeOK', BudgetOK', budget'.tools = budget.tools,
           NEW state \in {"popping", "submitted", "announced", "awaiting", "acting", "dead"},
           task' = [task EXCEPT ![c] = state], grace' \in [Calls -> 0 .. ApprovalPatience],
           unasked' \in BOOLEAN, UNCHANGED <<outcome, gaveUp, runtimeVars>>
    PROVE  TInv'
<1>1. RuntimeTypeOK'
  BY DEF TInv, RuntimeTypeOK, runtimeVars, Waiting, Tool, files
<1>2. GatewayTypeOK'
  BY DEF TInv, GatewayTypeOK
<1>3. Named'
  BY DEF TInv, Named, Tool, runtimeVars, GatewayTypeOK
<1>4. QED
  BY <1>1, <1>2, <1>3 DEF TInv

LEMMA ApprovalSame ==
    ASSUME TInv, UNCHANGED approvalVars
    PROVE  ApprovalTypeOK' /\ BudgetOK' /\ budget'.tools = budget.tools
BY DEF TInv, ApprovalTypeOK, BudgetOK, approvalVars, queueVars, chatVars

LEMMA DenyTypes == ASSUME TInv, NEW c \in Calls, Deny(c) PROVE TInv'
BY FinishTypes DEF Deny, Asked, TInv, GatewayTypeOK

LEMMA AllowTypes == ASSUME TInv, NEW c \in Calls, Allow(c) PROVE TInv'
BY ApprovalSame, GoesTypes DEF Allow, Asked, Goes, TInv, GatewayTypeOK

LEMMA SubmitForApprovalTypes == ASSUME TInv, NEW c \in Calls, SubmitForApproval(c) PROVE TInv'
<1>1. ApprovalTypeOK' /\ BudgetOK' /\ budget'.tools = budget.tools
  BY DEF SubmitForApproval, Submit, TInv, ApprovalTypeOK, BudgetOK, chatVars
<1>2. QED
  BY <1>1, GoesTypes DEF SubmitForApproval, Asked, Goes, TInv, GatewayTypeOK

LEMMA LookUpTypes == ASSUME TInv, NEW c \in Calls, LookUp(c) PROVE TInv'
<1>1. task[c] # "none" /\ UNCHANGED <<gaveUp, approvalVars>>
  BY DEF LookUp
<1>2. CASE unasked
  BY <1>1, <1>2, ApprovalSame, GoesTypes DEF LookUp, Goes, TInv, GatewayTypeOK
<1>3. CASE ~unasked
  BY <1>1, <1>3, FinishTypes DEF LookUp, TInv, GatewayTypeOK
<1>4. QED
  BY <1>2, <1>3

LEMMA PopQueryTypes == ASSUME TInv, NEW c \in Calls, PopQuery(c) PROVE TInv'
<1>1. /\ task[c] # "none" /\ unasked' \in BOOLEAN
      /\ UNCHANGED <<grace, gaveUp, call, left, held, files, old, chatVars, votes, budget>>
  BY DEF PopQuery
<1>2. ApprovalTypeOK' /\ BudgetOK' /\ budget'.tools = budget.tools
  BY <1>1 DEF PopQuery, Submit, TInv, ApprovalTypeOK, BudgetOK, chatVars, queueVars
<1>3. CASE task' = [task EXCEPT ![c] = "acting"] /\ UNCHANGED <<outcome, queue>>
  BY <1>1, <1>2, <1>3, GoesTypes DEF TInv, GatewayTypeOK, runtimeVars
<1>4. CASE task' = [task EXCEPT ![c] = "submitted"] /\ UNCHANGED <<outcome, queue>>
  BY <1>1, <1>2, <1>4, GoesTypes DEF TInv, GatewayTypeOK, runtimeVars
<1>5. CASE /\ task' = [task EXCEPT ![c] = "done"]
           /\ outcome' = [outcome EXCEPT ![c] = "failed"]
           /\ Send(c, FALSE)
  <2>1. queue' \in [Queues -> Seq(Answer)]
    BY <1>1, <1>5, SendType
  <2>2. RuntimeTypeOK'
    BY <1>1, <2>1, <1>2 DEF TInv, RuntimeTypeOK, Waiting, Tool, files
  <2>3. GatewayTypeOK'
    BY <1>1, <1>5 DEF TInv, GatewayTypeOK
  <2>4. Named'
    BY <1>1, <1>5 DEF TInv, Named, Tool, GatewayTypeOK
  <2>5. QED
    BY <1>2, <2>2, <2>3, <2>4 DEF TInv
<1>6. QED
  BY <1>3, <1>4, <1>5 DEF PopQuery

LEMMA AnnounceTypes == ASSUME TInv, NEW c \in Calls, Announce(c) PROVE TInv'
<1>1. BudgetOK' /\ budget'.tools = budget.tools
  BY SpendKeeps DEF Announce, Broadcast, TInv, Limits, BudgetOK
<1>2. feed' \in Seq(Adapters \X Calls)
  <2>1. CASE UNCHANGED feed
    BY <2>1 DEF TInv, ApprovalTypeOK
  <2>2. CASE feed' = feed \o [i \in DOMAIN budget.adapters |-> <<budget.adapters[i], c>>]
    <3>1. [i \in DOMAIN budget.adapters |-> <<budget.adapters[i], c>>] \in Seq(Adapters \X Calls)
      BY DEF TInv, BudgetOK
    <3>2. QED
      BY <2>2, <3>1 DEF TInv, ApprovalTypeOK
  <2>3. QED
    BY <2>1, <2>2 DEF Announce, Broadcast
<1>3. ApprovalTypeOK'
  BY <1>2 DEF Announce, Broadcast, TInv, ApprovalTypeOK, queueVars
<1>4. QED
  BY <1>1, <1>3, GoesTypes DEF Announce, Goes, TInv, GatewayTypeOK

LEMMA AwaitTypes == ASSUME TInv, NEW c \in Calls, Await(c) PROVE TInv'
<1>1. /\ pending' \in SUBSET Calls /\ UNCHANGED <<decided, firstVote, chatVars, votes, budget>>
      /\ reply' \in [Calls -> Thumbs \cup {"none"}] /\ waiters' \in SUBSET Calls
  BY DEF Await, ToldAtOnce, TInv, ApprovalTypeOK
<1>2. ApprovalTypeOK' /\ BudgetOK' /\ budget'.tools = budget.tools
  BY <1>1 DEF TInv, ApprovalTypeOK, BudgetOK, chatVars
<1>3. grace' \in [Calls -> 0 .. ApprovalPatience]
  BY PatienceAssumption DEF Await, TInv, GatewayTypeOK
<1>4. task[c] # "none" /\ unasked' \in BOOLEAN /\ UNCHANGED <<outcome, gaveUp, runtimeVars>>
  BY DEF Await, TInv, GatewayTypeOK
<1>5. task' = [task EXCEPT ![c] = "dead"] \/ task' = [task EXCEPT ![c] = "awaiting"]
  BY DEF Await
<1>6. QED
  BY <1>2, <1>3, <1>4, <1>5, GoesTypes

LEMMA ProceedTypes == ASSUME TInv, NEW c \in Calls, Proceed(c) PROVE TInv'
BY ApprovalSame, GoesTypes DEF Proceed, Goes, TInv, GatewayTypeOK

LEMMA RejectedTypes == ASSUME TInv, NEW c \in Calls, Rejected(c) PROVE TInv'
BY FinishTypes DEF Rejected, TInv, GatewayTypeOK

LEMMA GiveUpTypes == ASSUME TInv, NEW c \in Calls, GiveUp(c) PROVE TInv'
BY FinishTypes DEF GiveUp, TInv, GatewayTypeOK

LEMMA ActTypes == ASSUME TInv, NEW c \in Calls, Act(c) PROVE TInv'
<1>1. PICK ok \in BOOLEAN : Finish(c, ok)
  BY DEF Act
<1>2. QED
  BY <1>1, FinishTypes DEF Act, TInv, GatewayTypeOK

LEMMA RestartQueueTypes == ASSUME TInv, RestartQueue PROVE TInv'
<1>1. BudgetOK' /\ budget'.tools = budget.tools
  BY SpendKeeps DEF RestartQueue, EmptyQueue, TInv, Limits
<1>2. ApprovalTypeOK'
  BY DEF RestartQueue, EmptyQueue, TInv, ApprovalTypeOK, chatVars
<1>3. GatewayTypeOK' /\ \A c \in Calls : task'[c] = "none" <=> task[c] = "none"
  BY DEF RestartQueue, TInv, GatewayTypeOK
<1>4. RuntimeTypeOK'
  BY <1>1 DEF RestartQueue, TInv, RuntimeTypeOK, runtimeVars, files, Waiting, Tool
<1>5. Named'
  BY <1>1, <1>3 DEF RestartQueue, TInv, Named, runtimeVars, Tool
<1>6. QED
  BY <1>1, <1>2, <1>3, <1>4, <1>5 DEF TInv

LEMMA TickTypes == ASSUME TInv, Tick PROVE TInv'
<1>1. /\ left' \in [Calls -> 0 .. GitHubPatience + BcpPatience + ShortPatience]
      /\ grace' \in [Calls -> 0 .. ApprovalPatience]
  <2>1. /\ left \in [Calls -> 0 .. GitHubPatience + BcpPatience + ShortPatience]
        /\ grace \in [Calls -> 0 .. ApprovalPatience]
        /\ GitHubPatience + BcpPatience + ShortPatience \in Nat /\ ApprovalPatience \in Nat
    BY PatienceAssumption DEF TInv, RuntimeTypeOK, GatewayTypeOK
  <2>2. /\ \A c \in Waiting : left[c] > 0
        /\ left' = [c \in Calls |-> IF c \in Waiting THEN left[c] - 1 ELSE left[c]]
    BY DEF Tick, Countdown
  <2>3. /\ \A c \in InGrace : grace[c] > 0
        /\ grace' = [c \in Calls |-> IF c \in InGrace THEN grace[c] - 1 ELSE grace[c]]
    BY DEF Tick, Countdown
  <2>4. left' \in [Calls -> 0 .. GitHubPatience + BcpPatience + ShortPatience]
    BY <2>1, <2>2
  <2>5. grace' \in [Calls -> 0 .. ApprovalPatience]
    BY <2>1, <2>3
  <2>6. QED
    BY <2>4, <2>5
<1>2. UNCHANGED <<call, queue, held, files, old, task, outcome, unasked, gaveUp, approvalVars>>
  BY DEF Tick
<1>3. RuntimeTypeOK'
  BY <1>1, <1>2 DEF TInv, RuntimeTypeOK, files, Waiting, Tool, approvalVars
<1>4. GatewayTypeOK'
  BY <1>1, <1>2 DEF TInv, GatewayTypeOK
<1>5. Named'
  BY <1>2 DEF TInv, Named, Tool, approvalVars
<1>6. QED
  BY <1>2, <1>3, <1>4, <1>5, ApprovalSame DEF TInv

-----------------------------------------------------------------------------
\* Types: the chats' steps.

\* A step of the chats leaves the tools of the calls alone.
LEMMA ChatSame ==
    ASSUME TInv, UNCHANGED <<runtimeVars, gatewayVars>>, BudgetOK', budget'.tools = budget.tools,
           ApprovalTypeOK'
    PROVE  TInv'
<1>1. RuntimeTypeOK'
  BY DEF TInv, RuntimeTypeOK, runtimeVars, files, Waiting, Tool
<1>2. GatewayTypeOK' /\ Named'
  BY DEF TInv, GatewayTypeOK, gatewayVars, runtimeVars, Named, Tool
<1>3. QED
  BY <1>1, <1>2 DEF TInv

LEMMA TakeVoteTypes == ASSUME TInv, TakeVote PROVE ApprovalTypeOK' /\ BudgetOK' /\ budget'.tools = budget.tools
<1> DEFINE vote == Head(votes)
<1>1. votes \in Seq(Vote) /\ votes # <<>>
  BY DEF TInv, ApprovalTypeOK, TakeVote
<1>2. vote \in Vote /\ Tail(votes) \in Seq(Vote)
  BY <1>1
<1>3. vote.call \in Calls /\ vote.thumb \in Thumbs
  BY <1>2 DEF Vote
<1>4. Decide(vote.call, vote.thumb)
  BY DEF TakeVote
<1>5. /\ pending' \in SUBSET Calls /\ decided' \in [Calls -> Thumbs \cup {"none"}]
      /\ waiters' \in SUBSET Calls /\ reply' \in [Calls -> Thumbs \cup {"none"}]
  BY <1>3, <1>4 DEF Decide, TInv, ApprovalTypeOK
<1>6. firstVote' \in [Calls -> Thumbs \cup {"none"}] /\ votes' \in Seq(Vote) /\ UNCHANGED <<chatVars, budget>>
  BY <1>2, <1>3 DEF TakeVote, TInv, ApprovalTypeOK
<1>7. QED
  BY <1>5, <1>6 DEF TInv, ApprovalTypeOK, BudgetOK, chatVars

LEMMA PostCardTypes == ASSUME TInv, PostCard PROVE ApprovalTypeOK' /\ BudgetOK' /\ budget'.tools = budget.tools
<1> DEFINE a == Head(feed)[1]
           c == Head(feed)[2]
<1>1. feed \in Seq(Adapters \X Calls) /\ feed # <<>>
  BY DEF TInv, ApprovalTypeOK, PostCard
<1>2. Head(feed) \in Adapters \X Calls /\ Tail(feed) \in Seq(Adapters \X Calls)
  BY <1>1
<1>3. a \in Adapters /\ c \in Calls
  BY <1>2
<1>4. UNCHANGED <<queueVars, forwarding, forwarded, votes>>
  BY DEF PostCard
<1>5. CASE card' = [card EXCEPT ![a][c] = "posted"] /\ UNCHANGED <<feed, budget>>
  BY <1>3, <1>4, <1>5 DEF TInv, ApprovalTypeOK, BudgetOK, CardStates, queueVars
<1>6. CASE Spend("losses") /\ feed' = Tail(feed) /\ UNCHANGED card
  BY <1>2, <1>4, <1>6, SpendKeeps DEF TInv, ApprovalTypeOK, Limits, queueVars
<1>7. QED
  BY <1>5, <1>6 DEF PostCard

LEMMA MapCardTypes == ASSUME TInv, MapCard PROVE ApprovalTypeOK' /\ BudgetOK' /\ budget'.tools = budget.tools
<1> DEFINE a == Head(feed)[1]
           c == Head(feed)[2]
<1>1. feed \in Seq(Adapters \X Calls) /\ feed # <<>>
  BY DEF TInv, ApprovalTypeOK, MapCard
<1>2. Head(feed) \in Adapters \X Calls /\ Tail(feed) \in Seq(Adapters \X Calls)
  BY <1>1
<1>3. a \in Adapters /\ c \in Calls
  BY <1>2
<1>4. card' = [card EXCEPT ![a][c] = "mapped"] /\ feed' = Tail(feed)
      /\ UNCHANGED <<queueVars, forwarding, forwarded, votes, budget>>
  BY DEF MapCard
<1>5. QED
  BY <1>2, <1>3, <1>4 DEF TInv, ApprovalTypeOK, BudgetOK, CardStates, queueVars

LEMMA VoteMatrixTypes ==
    ASSUME TInv, NEW c \in Calls, NEW thumb \in Thumbs, VoteMatrix(c, thumb)
    PROVE  ApprovalTypeOK' /\ BudgetOK' /\ budget'.tools = budget.tools
<1>1. BudgetOK' /\ budget'.tools = budget.tools
  BY SpendKeeps DEF VoteMatrix, TInv, Limits
<1>2. votes' \in Seq(Vote)
  BY DEF VoteMatrix, TInv, ApprovalTypeOK, Vote
<1>3. QED
  BY <1>1, <1>2 DEF VoteMatrix, TInv, ApprovalTypeOK, queueVars, chatVars

LEMMA VoteSlackTypes ==
    ASSUME TInv, NEW c \in Calls, NEW thumb \in Thumbs, VoteSlack(c, thumb)
    PROVE  ApprovalTypeOK' /\ BudgetOK' /\ budget'.tools = budget.tools
<1>1. BudgetOK' /\ budget'.tools = budget.tools
  BY SpendKeeps DEF VoteSlack, TInv, Limits
<1>2. card' \in [Adapters -> [Calls -> CardStates]] /\ forwarding' \in SUBSET Vote
  BY DEF VoteSlack, TInv, ApprovalTypeOK, Vote, CardStates, Adapters
<1>3. QED
  BY <1>1, <1>2 DEF VoteSlack, TInv, ApprovalTypeOK, queueVars

LEMMA ForwardSlackTypes ==
    ASSUME TInv, NEW vote \in forwarding, ForwardSlack(vote)
    PROVE  ApprovalTypeOK' /\ BudgetOK' /\ budget'.tools = budget.tools
<1>1. vote \in Vote
  BY DEF TInv, ApprovalTypeOK
<1>2. BudgetOK' /\ budget'.tools = budget.tools
  BY SpendKeeps DEF ForwardSlack, SendVote, TInv, Limits, BudgetOK
<1>3. votes' \in Seq(Vote)
  <2>1. votes \in Seq(Vote)
    BY DEF TInv, ApprovalTypeOK
  <2>2. Append(votes, vote) \in Seq(Vote)
    BY <1>1, <2>1
  <2>3. QED
    BY <2>1, <2>2 DEF ForwardSlack, SendVote
<1>4. QED
  BY <1>1, <1>2, <1>3 DEF ForwardSlack, TInv, ApprovalTypeOK, queueVars, Vote

LEMMA RestartConnectorTypes ==
    ASSUME TInv, RestartConnector PROVE ApprovalTypeOK' /\ BudgetOK' /\ budget'.tools = budget.tools
<1>1. BudgetOK' /\ budget'.tools = budget.tools
  BY SpendKeeps DEF RestartConnector, TInv, Limits
<1>2. card' \in [Adapters -> [Calls -> CardStates]]
  BY DEF RestartConnector, Orphaned, TInv, ApprovalTypeOK, CardStates
<1>3. feed' \in Seq(Adapters \X Calls)
  BY DEF RestartConnector
<1>4. QED
  BY <1>1, <1>2, <1>3 DEF RestartConnector, TInv, ApprovalTypeOK, queueVars

LEMMA StepTypes == ASSUME TInv, [Next]_vars PROVE TInv'
<1>1. ASSUME NEW c \in Calls, \/ Refuse(c) \/ Request(c) \/ Poll(c) \/ PollPublish(c) \/ Timeout(c)
                              \/ Moves(c) \/ Decides(c) \/ Act(c)
      PROVE  TInv'
  BY <1>1, RefuseTypes, RequestTypes, PollTypes, PollPublishTypes, TimeoutTypes, DenyTypes,
     AllowTypes, SubmitForApprovalTypes, LookUpTypes, PopQueryTypes, AnnounceTypes, AwaitTypes,
     ProceedTypes, RejectedTypes, GiveUpTypes, ActTypes DEF Moves, Decides
<1>2. CASE Interrupt \/ Die \/ RestartQueue \/ Tick
  BY <1>2, InterruptTypes, DieTypes, RestartQueueTypes, TickTypes
<1>3. CASE ChatStep /\ UNCHANGED <<runtimeVars, gatewayVars>>
  <2>1. ApprovalTypeOK' /\ BudgetOK' /\ budget'.tools = budget.tools
    BY <1>3, TakeVoteTypes, PostCardTypes, MapCardTypes, VoteMatrixTypes, VoteSlackTypes,
       ForwardSlackTypes, RestartConnectorTypes DEF ChatStep
  <2>2. QED
    BY <1>3, <2>1, ChatSame
<1>4. CASE UNCHANGED vars
  <2>1. UNCHANGED <<runtimeVars, gatewayVars, approvalVars>>
    BY <1>4 DEF vars
  <2>2. QED
    BY <2>1, ApprovalSame, ChatSame
<1>5. QED
  BY <1>1, <1>2, <1>3, <1>4 DEF Next

\* Every variable has its type, and whatever a publication has put aside is put
\* back by the time it returns (_wait_for_subscription_validation).
THEOREM ToolTypes == Spec => []TypeOK
<1>1. Spec => []TInv
  BY InitTypes, StepTypes, PTL DEF Spec
<1>2. QED
  BY <1>1, TypesAreTypeOK, PTL

-----------------------------------------------------------------------------
\* Votes.

Before == {"none", "asked", "popping"}

\* Nobody has seen the call yet.
Unseen(c) ==
    /\ c \notin pending /\ firstVote[c] = "none"
    /\ \A i \in DOMAIN votes : votes[i].call # c
    /\ \A i \in DOMAIN feed : feed[i][2] # c
    /\ \A a \in Adapters : card[a][c] = "none"
    /\ \A vote \in forwarding : vote.call # c

\* The first vote is what the queue knows of an approval, and what a task hears.
FirstVoteKnown(c) ==
    /\ c \in pending => firstVote[c] = "none"
    /\ decided[c] # "none" => firstVote[c] = decided[c]
    /\ reply[c] # "none" => firstVote[c] = reply[c]

\* A Slack card that is resolved has one vote, forwarded or about to be.
SlackCardOnce(c) ==
    /\ forwarded[c] <= 1
    /\ card["slack"][c] # "resolved" \/ forwarded[c] = 1
       => \A vote \in forwarding : vote.call # c
    /\ card["slack"][c] # "resolved" => forwarded[c] = 0
    /\ \A v, w \in forwarding : v.call = c /\ w.call = c => v = w

\* The gateway acts on a mail once its first vote was an approval.
ActsOnApproval(c) ==
    /\ task[c] = "popping" => Tool(c) = Respond
    /\ Tool(c) = SendEmail /\ (task[c] = "acting" \/ outcome[c] = "ok") => firstVote[c] = "up"

SeenLater(c) == task[c] \in Before => Unseen(c)

VInv == \A c \in Calls : SeenLater(c) /\ FirstVoteKnown(c) /\ SlackCardOnce(c) /\ ActsOnApproval(c)

LEMMA InitVotes == Init => VInv
<1> SUFFICES ASSUME Init, NEW c \in Calls
             PROVE  SeenLater(c) /\ FirstVoteKnown(c) /\ SlackCardOnce(c) /\ ActsOnApproval(c)
  BY DEF VInv
<1>1. ApprovalInit /\ task[c] = "none" /\ outcome[c] = "none"
  BY DEF Init
<1>2. Unseen(c)
  BY <1>1 DEF ApprovalInit, Unseen, Adapters
<1>3. FirstVoteKnown(c) /\ SlackCardOnce(c)
  BY <1>1 DEF ApprovalInit, FirstVoteKnown, SlackCardOnce, Adapters
<1>4. QED
  BY <1>1, <1>2, <1>3 DEF SeenLater, ActsOnApproval

\* A step that leaves the queue and the chats alone.
LEMMA VotesKept ==
    ASSUME VInv, UNCHANGED <<queueVars, chatVars, votes>>, budget'.tools = budget.tools,
           \A c \in Calls :
               /\ task'[c] \in Before => task[c] \in Before
               /\ task'[c] = "popping" => Tool(c) = Respond
               /\ Tool(c) = SendEmail /\ (task'[c] = "acting" \/ outcome'[c] = "ok") => firstVote[c] = "up"
    PROVE  VInv'
<1> SUFFICES ASSUME NEW c \in Calls
             PROVE  (SeenLater(c) /\ FirstVoteKnown(c) /\ SlackCardOnce(c) /\ ActsOnApproval(c))'
  BY DEF VInv
<1>1. SeenLater(c)'
  BY DEF VInv, SeenLater, Unseen, queueVars, chatVars
<1>2. FirstVoteKnown(c)' /\ SlackCardOnce(c)'
  BY DEF VInv, FirstVoteKnown, SlackCardOnce, queueVars, chatVars
<1>3. ActsOnApproval(c)'
  BY DEF VInv, ActsOnApproval, Tool, queueVars
<1>4. QED
  BY <1>1, <1>2, <1>3

\* The tasks and the chats are as they were.
LEMMA RuntimeVotes ==
    ASSUME TInv, VInv, UNCHANGED <<gatewayVars, queueVars, chatVars, votes>>, budget'.tools = budget.tools
    PROVE  VInv'
<1>1. UNCHANGED <<task, outcome>>
  BY DEF gatewayVars
<1>2. QED
  BY <1>1, VotesKept DEF VInv, ActsOnApproval

\* One task goes on, the chats are as they were.
LEMMA MoveVotes ==
    ASSUME TInv, VInv, UNCHANGED approvalVars, NEW c \in Calls,
           NEW state \in {"asked", "popping", "acting", "done"}, task' = [task EXCEPT ![c] = state],
           NEW result \in {"none", "ok", "failed"}, outcome' = [outcome EXCEPT ![c] = result],
           state \in Before => task[c] \in Before,
           state = "popping" => Tool(c) = Respond,
           Tool(c) = SendEmail /\ (state = "acting" \/ result = "ok") => firstVote[c] = "up"
    PROVE  VInv'
<1>1. UNCHANGED <<queueVars, chatVars, votes>> /\ budget'.tools = budget.tools
  BY DEF approvalVars
<1>2. /\ task'[c] = state /\ outcome'[c] = result
      /\ \A d \in Calls \ {c} : task'[d] = task[d] /\ outcome'[d] = outcome[d]
  BY DEF TInv, GatewayTypeOK
<1>3. ASSUME NEW d \in Calls
      PROVE  /\ task'[d] \in Before => task[d] \in Before
             /\ task'[d] = "popping" => Tool(d) = Respond
             /\ Tool(d) = SendEmail /\ (task'[d] = "acting" \/ outcome'[d] = "ok") => firstVote[d] = "up"
  BY <1>2 DEF VInv, ActsOnApproval
<1>4. QED
  BY <1>1, <1>3, VotesKept

LEMMA SubmitVotes ==
    ASSUME TInv, VInv, NEW c \in Calls, task[c] \in Before, Submit(c),
           UNCHANGED <<outcome, chatVars, votes, budget>>, task' = [task EXCEPT ![c] = "submitted"]
    PROVE  VInv'
<1> SUFFICES ASSUME NEW d \in Calls
             PROVE  (SeenLater(d) /\ FirstVoteKnown(d) /\ SlackCardOnce(d) /\ ActsOnApproval(d))'
  BY DEF VInv
<1>1. firstVote[c] = "none"
  BY DEF VInv, SeenLater, Unseen
<1>2. SeenLater(d)'
  BY DEF VInv, SeenLater, Unseen, Submit, chatVars, TInv, GatewayTypeOK, Before
<1>3. FirstVoteKnown(d)' /\ SlackCardOnce(d)'
  BY <1>1 DEF VInv, FirstVoteKnown, SlackCardOnce, Submit, chatVars
<1>4. ActsOnApproval(d)'
  BY DEF VInv, ActsOnApproval, Submit, Tool, TInv, GatewayTypeOK
<1>5. QED
  BY <1>2, <1>3, <1>4

LEMMA AnnounceVotes == ASSUME TInv, VInv, NEW c \in Calls, Announce(c) PROVE VInv'
<1> SUFFICES ASSUME NEW d \in Calls
             PROVE  (SeenLater(d) /\ FirstVoteKnown(d) /\ SlackCardOnce(d) /\ ActsOnApproval(d))'
  BY DEF VInv
<1>1. /\ task[c] = "submitted" /\ task' = [task EXCEPT ![c] = "announced"]
      /\ UNCHANGED <<queueVars, card, forwarding, forwarded, votes, outcome>>
  BY DEF Announce, Broadcast, Goes
<1>2. budget'.tools = budget.tools
  BY SpendKeeps DEF Announce, Broadcast, TInv, Limits
<1>3. \/ UNCHANGED feed
      \/ feed' = feed \o [i \in DOMAIN budget.adapters |-> <<budget.adapters[i], c>>]
  BY DEF Announce, Broadcast
<1>4. ASSUME NEW i \in DOMAIN feed', feed'[i][2] # c PROVE i \in DOMAIN feed /\ feed'[i] = feed[i]
  <2>1. feed \in Seq(Adapters \X Calls) /\ budget.adapters \in Seq(Adapters)
    BY DEF TInv, ApprovalTypeOK, BudgetOK
  <2>2. CASE feed' = feed \o [j \in DOMAIN budget.adapters |-> <<budget.adapters[j], c>>]
    <3> DEFINE more == [j \in DOMAIN budget.adapters |-> <<budget.adapters[j], c>>]
    <3>1. more \in Seq(Adapters \X Calls) /\ Len(more) = Len(budget.adapters)
      BY <2>1
    <3>2. DOMAIN feed' = 1 .. Len(feed) + Len(more)
      BY <2>1, <2>2, <3>1
    <3>3. CASE i > Len(feed)
      <4>1. i - Len(feed) \in 1 .. Len(more) /\ feed'[i] = more[i - Len(feed)]
        BY <2>1, <2>2, <3>1, <3>2, <3>3
      <4>2. feed'[i][2] = c
        BY <4>1, <3>1, <2>1
      <4>3. QED
        BY <4>2, <1>4
    <3>4. CASE i <= Len(feed)
      BY <2>1, <2>2, <3>1, <3>2, <3>4
    <3>5. QED
      BY <2>1, <3>1, <3>2, <3>3, <3>4
  <2>3. QED
    BY <1>3, <2>2
<1>5. SeenLater(d)'
  <2>1. CASE d = c
    BY <1>1, <2>1 DEF SeenLater, Before, TInv, GatewayTypeOK
  <2>2. CASE d # c
    <3>1. SUFFICES ASSUME task'[d] \in Before PROVE Unseen(d)'
      BY DEF SeenLater
    <3>2. Unseen(d)
      BY <1>1, <2>2, <3>1 DEF VInv, SeenLater, TInv, GatewayTypeOK
    <3>3. \A i \in DOMAIN feed' : feed'[i][2] # d
      BY <1>4, <2>2, <3>2 DEF Unseen
    <3>4. QED
      BY <1>1, <3>2, <3>3 DEF Unseen, queueVars
  <2>3. QED
    BY <2>1, <2>2
<1>6. FirstVoteKnown(d)' /\ SlackCardOnce(d)'
  BY <1>1 DEF VInv, FirstVoteKnown, SlackCardOnce, queueVars
<1>7. ActsOnApproval(d)'
  BY <1>1, <1>2 DEF VInv, ActsOnApproval, Tool, TInv, GatewayTypeOK, queueVars
<1>8. QED
  BY <1>5, <1>6, <1>7

LEMMA AwaitVotes == ASSUME TInv, VInv, NEW c \in Calls, Await(c) PROVE VInv'
<1> SUFFICES ASSUME NEW d \in Calls
             PROVE  (SeenLater(d) /\ FirstVoteKnown(d) /\ SlackCardOnce(d) /\ ActsOnApproval(d))'
  BY DEF VInv
<1>1. /\ UNCHANGED <<outcome, pending, decided, firstVote, chatVars, votes, budget>>
      /\ reply' = [reply EXCEPT ![c] = decided[c]]
      /\ task' = [task EXCEPT ![c] = IF decided[c] = "none" /\ c \notin pending THEN "dead" ELSE "awaiting"]
  BY DEF Await, ToldAtOnce
<1>2. SeenLater(d)'
  BY <1>1 DEF VInv, SeenLater, Unseen, chatVars, Before, TInv, GatewayTypeOK
<1>3. FirstVoteKnown(d)' /\ SlackCardOnce(d)'
  BY <1>1 DEF VInv, FirstVoteKnown, SlackCardOnce, chatVars, TInv, ApprovalTypeOK
<1>4. ActsOnApproval(d)'
  BY <1>1 DEF VInv, ActsOnApproval, Tool, TInv, GatewayTypeOK
<1>5. QED
  BY <1>2, <1>3, <1>4

LEMMA RestartQueueVotes == ASSUME TInv, VInv, RestartQueue PROVE VInv'
<1> SUFFICES ASSUME NEW d \in Calls
             PROVE  (SeenLater(d) /\ FirstVoteKnown(d) /\ SlackCardOnce(d) /\ ActsOnApproval(d))'
  BY DEF VInv
<1>1. /\ UNCHANGED <<outcome, reply, firstVote, chatVars, votes>>
      /\ pending' = {} /\ decided' = [c \in Calls |-> "none"]
      /\ task'[d] = "dead" \/ task'[d] = task[d]
  BY DEF RestartQueue, EmptyQueue
<1>2. budget'.tools = budget.tools
  BY SpendKeeps DEF RestartQueue, EmptyQueue, TInv, Limits
<1>3. SeenLater(d)'
  BY <1>1 DEF VInv, SeenLater, Unseen, chatVars, Before
<1>4. FirstVoteKnown(d)' /\ SlackCardOnce(d)'
  BY <1>1 DEF VInv, FirstVoteKnown, SlackCardOnce, chatVars
<1>5. ActsOnApproval(d)'
  BY <1>1, <1>2 DEF VInv, ActsOnApproval, Tool
<1>6. QED
  BY <1>3, <1>4, <1>5

LEMMA PopQueryVotes == ASSUME TInv, VInv, NEW c \in Calls, PopQuery(c) PROVE VInv'
<1>1. task[c] = "popping" /\ Tool(c) = Respond /\ UNCHANGED <<chatVars, votes, budget>>
  BY DEF PopQuery, VInv, ActsOnApproval
<1>2. outcome = [outcome EXCEPT ![c] = outcome[c]] /\ outcome[c] \in {"none", "ok", "failed"}
  BY DEF TInv, GatewayTypeOK
<1>3. Tool(c) # SendEmail
  BY <1>1, ToolFacts DEF KeyedTools
<1>4. CASE task' = [task EXCEPT ![c] = "acting"] /\ UNCHANGED <<queueVars, outcome>>
  BY <1>1, <1>2, <1>3, <1>4, MoveVotes DEF Before, approvalVars
<1>5. CASE task' = [task EXCEPT ![c] = "submitted"] /\ Submit(c) /\ UNCHANGED outcome
  BY <1>1, <1>5, SubmitVotes DEF Before
<1>6. CASE /\ task' = [task EXCEPT ![c] = "done"]
           /\ outcome' = [outcome EXCEPT ![c] = "failed"]
           /\ UNCHANGED queueVars
  BY <1>1, <1>3, <1>6, MoveVotes DEF Before, approvalVars
<1>7. QED
  BY <1>4, <1>5, <1>6 DEF PopQuery

\* The other steps of one call.
LEMMA TaskVotes ==
    ASSUME TInv, VInv, NEW c \in Calls,
           \/ Request(c) \/ Deny(c) \/ Allow(c) \/ LookUp(c) \/ Proceed(c) \/ Rejected(c)
           \/ GiveUp(c) \/ Act(c)
    PROVE  VInv'
<1>1. outcome = [outcome EXCEPT ![c] = outcome[c]] /\ outcome[c] \in {"none", "ok", "failed"}
  BY DEF TInv, GatewayTypeOK
<1>2. Respond # SendEmail
  BY ToolFacts DEF KeyedTools
<1>3. CASE Request(c)
  <2>1. task[c] = "none" /\ task' = [task EXCEPT ![c] = "asked"] /\ UNCHANGED <<outcome, approvalVars>>
    BY <1>3 DEF Request, TInv, Named
  <2>2. Tool(c) = SendEmail /\ outcome[c] = "ok" => firstVote[c] = "up"
    BY DEF VInv, ActsOnApproval
  <2>3. QED
    BY <1>1, <2>1, <2>2, MoveVotes DEF Before
<1>4. CASE Deny(c) \/ Rejected(c) \/ GiveUp(c)
  <2>1. /\ task' = [task EXCEPT ![c] = "done"] /\ UNCHANGED approvalVars
        /\ outcome' = [outcome EXCEPT ![c] = "failed"]
    BY <1>4 DEF Deny, Rejected, GiveUp, Finish
  <2>2. QED
    BY <2>1, MoveVotes DEF Before
<1>5. CASE Allow(c)
  <2>1. /\ Tool(c) # SendEmail /\ task' = [task EXCEPT ![c] = "acting"]
        /\ UNCHANGED <<outcome, approvalVars>>
    BY <1>5 DEF Allow, Goes
  <2>2. QED
    BY <1>1, <2>1, MoveVotes DEF Before
<1>6. CASE LookUp(c)
  <2>1. task[c] = "asked" /\ Tool(c) = Respond /\ UNCHANGED approvalVars
    BY <1>6 DEF LookUp
  <2>2. CASE task' = [task EXCEPT ![c] = "popping"] /\ UNCHANGED outcome
    BY <1>1, <1>2, <2>1, <2>2, MoveVotes DEF Before
  <2>3. CASE task' = [task EXCEPT ![c] = "done"] /\ outcome' = [outcome EXCEPT ![c] = "failed"]
    BY <1>2, <2>1, <2>3, MoveVotes DEF Before
  <2>4. QED
    BY <1>6, <2>2, <2>3 DEF LookUp, Goes, Finish
<1>7. CASE Proceed(c)
  <2>1. /\ reply[c] = "up" /\ task' = [task EXCEPT ![c] = "acting"]
        /\ UNCHANGED <<outcome, approvalVars>>
    BY <1>7 DEF Proceed, Goes
  <2>2. firstVote[c] = "up"
    BY <2>1 DEF VInv, FirstVoteKnown
  <2>3. QED
    BY <1>1, <2>1, <2>2, MoveVotes DEF Before
<1>8. CASE Act(c)
  <2>1. task[c] = "acting" /\ UNCHANGED approvalVars
    BY <1>8 DEF Act
  <2>2. PICK ok \in BOOLEAN : Finish(c, ok)
    BY <1>8 DEF Act
  <2>3. Tool(c) = SendEmail => firstVote[c] = "up"
    BY <2>1 DEF VInv, ActsOnApproval
  <2>4. QED
    BY <2>1, <2>2, <2>3, MoveVotes DEF Finish, Before
<1>9. QED
  BY <1>3, <1>4, <1>5, <1>6, <1>7, <1>8

\* A step of the chats leaves the tasks alone.
LEMMA TakeVoteVotes == ASSUME TInv, VInv, TakeVote, UNCHANGED gatewayVars PROVE VInv'
<1> DEFINE vote == Head(votes)
<1> SUFFICES ASSUME NEW d \in Calls
             PROVE  (SeenLater(d) /\ FirstVoteKnown(d) /\ SlackCardOnce(d) /\ ActsOnApproval(d))'
  BY DEF VInv
<1>1. votes \in Seq(Vote) /\ votes # <<>>
  BY DEF TInv, ApprovalTypeOK, TakeVote
<1>2. vote \in Vote /\ vote = votes[1] /\ 1 \in DOMAIN votes
  BY <1>1
<1>3. vote.call \in Calls /\ vote.thumb \in Thumbs /\ vote.thumb # "none"
  BY <1>2 DEF Vote, Thumbs
<1>4. /\ UNCHANGED <<chatVars, budget, task, outcome>> /\ votes' = Tail(votes)
      /\ firstVote' = IF firstVote[vote.call] = "none"
                      THEN [firstVote EXCEPT ![vote.call] = vote.thumb] ELSE firstVote
  BY DEF TakeVote, gatewayVars
<1>5. \/ /\ vote.call \in pending
         /\ pending' = pending \ {vote.call}
         /\ decided' = [decided EXCEPT ![vote.call] = vote.thumb]
         /\ reply' = [reply EXCEPT ![vote.call] = vote.thumb] \/ reply' = reply
      \/ vote.call \notin pending /\ UNCHANGED <<pending, decided, reply>>
  BY DEF TakeVote, Decide
<1>6. SeenLater(d)'
  <2>1. SUFFICES ASSUME task[d] \in Before PROVE Unseen(d)'
    BY <1>4 DEF SeenLater
  <2>2. Unseen(d)
    BY <2>1 DEF VInv, SeenLater
  <2>3. vote.call # d
    BY <1>2, <2>2 DEF Unseen
  <2>4. \A i \in DOMAIN votes' : votes'[i].call # d
    BY <1>1, <1>4, <2>2 DEF Unseen
  <2>5. d \notin pending' /\ firstVote'[d] = "none"
    BY <1>4, <1>5, <2>2, <2>3 DEF Unseen, TInv, ApprovalTypeOK
  <2>6. QED
    BY <1>4, <2>2, <2>4, <2>5 DEF Unseen, chatVars
<1>7. FirstVoteKnown(d)'
  BY <1>3, <1>4, <1>5 DEF VInv, FirstVoteKnown, TInv, ApprovalTypeOK
<1>8. SlackCardOnce(d)'
  BY <1>4 DEF VInv, SlackCardOnce, chatVars
<1>9. firstVote[d] # "none" => firstVote'[d] = firstVote[d]
  BY <1>3, <1>4 DEF TInv, ApprovalTypeOK
<1>10. ActsOnApproval(d)'
  BY <1>4, <1>9 DEF VInv, ActsOnApproval, Tool
<1>11. QED
  BY <1>6, <1>7, <1>8, <1>10

\* A step of the connector leaves the queue alone as well.
LEMMA ConnectorVotes ==
    ASSUME TInv, VInv, UNCHANGED <<gatewayVars, queueVars>>, budget'.tools = budget.tools,
           \A c \in Calls : Unseen(c) => Unseen(c)',
           \A c \in Calls : SlackCardOnce(c)'
    PROVE  VInv'
<1> SUFFICES ASSUME NEW d \in Calls
             PROVE  (SeenLater(d) /\ FirstVoteKnown(d) /\ SlackCardOnce(d) /\ ActsOnApproval(d))'
  BY DEF VInv
<1>1. UNCHANGED <<task, outcome, pending, decided, reply, firstVote>>
  BY DEF gatewayVars, queueVars
<1>2. SeenLater(d)' /\ FirstVoteKnown(d)' /\ ActsOnApproval(d)'
  BY <1>1 DEF VInv, SeenLater, FirstVoteKnown, ActsOnApproval, Tool
<1>3. QED
  BY <1>2

LEMMA PostCardVotes == ASSUME TInv, VInv, PostCard, UNCHANGED gatewayVars PROVE VInv'
<1> DEFINE a == Head(feed)[1]
           c == Head(feed)[2]
<1>1. feed \in Seq(Adapters \X Calls) /\ feed # <<>>
  BY DEF TInv, ApprovalTypeOK, PostCard
<1>2. Head(feed) \in Adapters \X Calls /\ Head(feed) = feed[1] /\ 1 \in DOMAIN feed
  BY <1>1
<1>3. a \in Adapters /\ c \in Calls
  BY <1>2
<1>4. /\ UNCHANGED <<queueVars, forwarding, forwarded, votes>>
      /\ card[a][c] = "none"
      /\ \/ card' = [card EXCEPT ![a][c] = "posted"] /\ UNCHANGED feed
         \/ feed' = Tail(feed) /\ UNCHANGED card
  BY DEF PostCard
<1>5. budget'.tools = budget.tools
  BY PostCardTypes
<1>6. ASSUME NEW d \in Calls, Unseen(d) PROVE Unseen(d)'
  <2>1. c # d
    BY <1>2, <1>6 DEF Unseen
  <2>2. \A i \in DOMAIN feed' : feed'[i][2] # d
    <3>1. CASE feed' = Tail(feed)
      BY <1>1, <1>6, <3>1 DEF Unseen
    <3>2. CASE UNCHANGED feed
      BY <1>6, <3>2 DEF Unseen
    <3>3. QED
      BY <1>4, <3>1, <3>2
  <2>3. \A b \in Adapters : card'[b][d] = "none"
    <3>1. CASE card' = [card EXCEPT ![a][c] = "posted"]
      BY <1>3, <1>6, <2>1, <3>1 DEF Unseen, TInv, ApprovalTypeOK
    <3>2. CASE UNCHANGED card
      BY <1>6, <3>2 DEF Unseen
    <3>3. QED
      BY <1>4, <3>1, <3>2
  <2>4. QED
    BY <1>4, <1>6, <2>2, <2>3 DEF Unseen, queueVars
<1>7. ASSUME NEW d \in Calls PROVE SlackCardOnce(d)'
  <2>1. card'["slack"][d] = card["slack"][d] \/ (card["slack"][d] = "none" /\ card'["slack"][d] = "posted")
    <3>1. CASE card' = [card EXCEPT ![a][c] = "posted"]
      BY <1>3, <1>4, <3>1 DEF TInv, ApprovalTypeOK, Adapters
    <3>2. QED
      BY <1>4, <3>1
  <2>2. QED
    BY <1>4, <2>1 DEF VInv, SlackCardOnce
<1>8. QED
  BY <1>4, <1>5, <1>6, <1>7, ConnectorVotes

LEMMA MapCardVotes == ASSUME TInv, VInv, MapCard, UNCHANGED gatewayVars PROVE VInv'
<1> DEFINE a == Head(feed)[1]
           c == Head(feed)[2]
<1>1. feed \in Seq(Adapters \X Calls) /\ feed # <<>>
  BY DEF TInv, ApprovalTypeOK, MapCard
<1>2. Head(feed) \in Adapters \X Calls /\ Head(feed) = feed[1] /\ 1 \in DOMAIN feed
  BY <1>1
<1>3. a \in Adapters /\ c \in Calls
  BY <1>2
<1>4. /\ UNCHANGED <<queueVars, forwarding, forwarded, votes, budget>>
      /\ card[a][c] = "posted" /\ card' = [card EXCEPT ![a][c] = "mapped"]
      /\ feed' = Tail(feed)
  BY DEF MapCard
<1>5. ASSUME NEW d \in Calls, Unseen(d) PROVE Unseen(d)'
  <2>1. c # d
    BY <1>2, <1>5 DEF Unseen
  <2>2. \A i \in DOMAIN feed' : feed'[i][2] # d
    BY <1>1, <1>4, <1>5 DEF Unseen
  <2>3. \A b \in Adapters : card'[b][d] = "none"
    BY <1>3, <1>4, <1>5, <2>1 DEF Unseen, TInv, ApprovalTypeOK
  <2>4. QED
    BY <1>4, <1>5, <2>2, <2>3 DEF Unseen, queueVars
<1>6. ASSUME NEW d \in Calls PROVE SlackCardOnce(d)'
  <2>1. card'["slack"][d] = card["slack"][d] \/ (card["slack"][d] = "posted" /\ card'["slack"][d] = "mapped")
    BY <1>3, <1>4 DEF TInv, ApprovalTypeOK, Adapters
  <2>2. QED
    BY <1>4, <2>1 DEF VInv, SlackCardOnce
<1>7. QED
  BY <1>4, <1>5, <1>6, ConnectorVotes

LEMMA VoteMatrixVotes ==
    ASSUME TInv, VInv, NEW c \in Calls, NEW thumb \in Thumbs, VoteMatrix(c, thumb), UNCHANGED gatewayVars
    PROVE  VInv'
<1>1. /\ card["matrix"][c] = "mapped" /\ UNCHANGED <<queueVars, chatVars>>
      /\ votes' = Append(votes, [call |-> c, thumb |-> thumb]) /\ votes \in Seq(Vote)
  BY DEF VoteMatrix, TInv, ApprovalTypeOK
<1>2. budget'.tools = budget.tools
  BY VoteMatrixTypes
<1>3. ASSUME NEW d \in Calls, Unseen(d) PROVE Unseen(d)'
  <2>1. c # d
    BY <1>1, <1>3 DEF Unseen, Adapters
  <2>2. \A i \in DOMAIN votes' : votes'[i].call # d
    BY <1>1, <1>3, <2>1 DEF Unseen
  <2>3. QED
    BY <1>1, <1>3, <2>2 DEF Unseen, queueVars, chatVars
<1>4. \A d \in Calls : SlackCardOnce(d)'
  BY <1>1 DEF VInv, SlackCardOnce, chatVars
<1>5. QED
  BY <1>1, <1>2, <1>3, <1>4, ConnectorVotes

LEMMA VoteSlackVotes ==
    ASSUME TInv, VInv, NEW c \in Calls, NEW thumb \in Thumbs, VoteSlack(c, thumb), UNCHANGED gatewayVars
    PROVE  VInv'
<1>1. /\ card["slack"][c] = "mapped" /\ UNCHANGED <<queueVars, feed, forwarded, votes>>
      /\ card' = [card EXCEPT !["slack"][c] = "resolved"]
      /\ forwarding' = forwarding \cup {[call |-> c, thumb |-> thumb]}
  BY DEF VoteSlack
<1>2. budget'.tools = budget.tools
  BY VoteSlackTypes
<1>3. ASSUME NEW d \in Calls, Unseen(d) PROVE Unseen(d)'
  <2>1. c # d
    BY <1>1, <1>3 DEF Unseen, Adapters
  <2>2. \A b \in Adapters : card'[b][d] = "none"
    BY <1>1, <1>3, <2>1 DEF Unseen, Adapters, TInv, ApprovalTypeOK
  <2>3. QED
    BY <1>1, <1>3, <2>1, <2>2 DEF Unseen, queueVars
<1>4. ASSUME NEW d \in Calls PROVE SlackCardOnce(d)'
  <2>1. CASE d = c
    <3>1. \A vote \in forwarding : vote.call # c
      BY <1>1 DEF VInv, SlackCardOnce
    <3>2. card'["slack"][c] = "resolved" /\ forwarded[c] = 0
      BY <1>1 DEF VInv, SlackCardOnce, TInv, ApprovalTypeOK, Adapters
    <3>3. QED
      BY <1>1, <2>1, <3>1, <3>2 DEF SlackCardOnce
  <2>2. CASE d # c
    <3>1. card'["slack"][d] = card["slack"][d]
      BY <1>1, <2>2 DEF TInv, ApprovalTypeOK, Adapters
    <3>2. QED
      BY <1>1, <2>2, <3>1 DEF VInv, SlackCardOnce
  <2>3. QED
    BY <2>1, <2>2
<1>5. QED
  BY <1>1, <1>2, <1>3, <1>4, ConnectorVotes

LEMMA ForwardSlackVotes ==
    ASSUME TInv, VInv, NEW vote \in forwarding, ForwardSlack(vote), UNCHANGED gatewayVars PROVE VInv'
<1>1. /\ forwarding' = forwarding \ {vote} /\ UNCHANGED <<queueVars, feed, card>>
      /\ forwarded' = [forwarded EXCEPT ![vote.call] = @ + 1]
      /\ votes' = Append(votes, vote) \/ votes' = votes
      /\ votes \in Seq(Vote) /\ vote \in Vote /\ vote.call \in Calls
  BY DEF ForwardSlack, SendVote, TInv, ApprovalTypeOK, Vote
<1>2. budget'.tools = budget.tools
  BY ForwardSlackTypes
<1>3. ASSUME NEW d \in Calls, Unseen(d) PROVE Unseen(d)'
  <2>1. vote.call # d
    BY <1>3 DEF Unseen
  <2>2. \A i \in DOMAIN votes' : votes'[i].call # d
    BY <1>1, <1>3, <2>1 DEF Unseen
  <2>3. QED
    BY <1>1, <1>3, <2>2 DEF Unseen, queueVars
<1>4. ASSUME NEW d \in Calls PROVE SlackCardOnce(d)'
  <2>1. CASE d = vote.call
    <3>1. card["slack"][d] = "resolved" /\ forwarded[d] # 1 /\ forwarded[d] <= 1
      BY <2>1 DEF VInv, SlackCardOnce
    <3>2. forwarded'[d] = 1
      BY <1>1, <2>1, <3>1 DEF TInv, ApprovalTypeOK
    <3>3. \A w \in forwarding' : w.call # d
      BY <1>1, <2>1 DEF VInv, SlackCardOnce
    <3>4. QED
      BY <1>1, <3>1, <3>2, <3>3 DEF SlackCardOnce
  <2>2. CASE d # vote.call
    <3>1. forwarded'[d] = forwarded[d]
      BY <1>1, <2>2 DEF TInv, ApprovalTypeOK
    <3>2. QED
      BY <1>1, <3>1 DEF VInv, SlackCardOnce
  <2>3. QED
    BY <2>1, <2>2
<1>5. QED
  BY <1>1, <1>2, <1>3, <1>4, ConnectorVotes

LEMMA RestartConnectorVotes ==
    ASSUME TInv, VInv, RestartConnector, UNCHANGED gatewayVars PROVE VInv'
<1>1. /\ feed' = <<>> /\ forwarding' = {} /\ UNCHANGED <<queueVars, forwarded, votes>>
      /\ card' = [a \in Adapters |-> [c \in Calls |-> Orphaned(a, card[a][c])]]
  BY DEF RestartConnector
<1>2. budget'.tools = budget.tools
  BY RestartConnectorTypes
<1>3. \A d \in Calls : Unseen(d) => Unseen(d)'
  BY <1>1 DEF Unseen, Orphaned, queueVars
<1>4. ASSUME NEW d \in Calls PROVE SlackCardOnce(d)'
  <2>1. card'["slack"][d] # "resolved" => card["slack"][d] # "resolved"
    BY <1>1 DEF Orphaned, Adapters
  <2>2. QED
    BY <1>1, <2>1 DEF VInv, SlackCardOnce
<1>5. QED
  BY <1>1, <1>2, <1>3, <1>4, ConnectorVotes

LEMMA StepVotes == ASSUME TInv, VInv, [Next]_vars PROVE VInv'
<1>1. ASSUME NEW c \in Calls, Refuse(c) \/ Poll(c) \/ PollPublish(c) \/ Timeout(c) PROVE VInv'
  <2>1. UNCHANGED <<gatewayVars, approvalVars>>
    BY <1>1 DEF Refuse, Poll, PollPublish, Timeout
  <2>2. QED
    BY <2>1, RuntimeVotes DEF approvalVars
<1>2. ASSUME NEW c \in Calls, Request(c) \/ Moves(c) \/ Decides(c) \/ Act(c) PROVE VInv'
  <2>1. CASE SubmitForApproval(c)
    BY <2>1, SubmitVotes DEF SubmitForApproval, Asked, Before, Goes
  <2>2. QED
    BY <1>2, <2>1, PopQueryVotes, TaskVotes, AnnounceVotes, AwaitVotes DEF Moves, Decides
<1>3. CASE Interrupt \/ Die
  <2>1. UNCHANGED <<gatewayVars, queueVars, chatVars, votes>>
    BY <1>3 DEF Interrupt, Die
  <2>2. budget'.tools = budget.tools
    BY <1>3, SpendKeeps DEF Interrupt, Die, TInv, Limits
  <2>3. QED
    BY <2>1, <2>2, RuntimeVotes
<1>4. CASE Tick
  <2>1. UNCHANGED <<task, outcome, approvalVars>>
    BY <1>4 DEF Tick
  <2>2. QED
    BY <2>1, VotesKept DEF approvalVars, VInv, ActsOnApproval
<1>5. CASE ChatStep /\ UNCHANGED <<runtimeVars, gatewayVars>>
  BY <1>5, TakeVoteVotes, PostCardVotes, MapCardVotes, VoteMatrixVotes, VoteSlackVotes,
     ForwardSlackVotes, RestartConnectorVotes DEF ChatStep
<1>6. CASE UNCHANGED vars
  BY <1>6, RuntimeVotes DEF vars, approvalVars
<1>7. QED
  BY <1>1, <1>2, <1>3, <1>4, <1>5, <1>6, RestartQueueVotes DEF Next

\* A mail is sent only if the first vote on it was an approval, and a Slack card
\* lets one vote through, whatever is lost, restarted or voted twice.
THEOREM VotesCountAlways == Spec => []VotesCount
<1>1. Init => TInv /\ VInv
  BY InitTypes, InitVotes
<1>2. TInv /\ VInv /\ [Next]_vars => (TInv /\ VInv)'
  BY StepTypes, StepVotes
<1>3. TInv /\ VInv => VotesCount
  BY DEF VInv, VotesCount, VoteDecides, OneVotePerSlackCard, ActsOnApproval, SlackCardOnce
<1>4. QED
  BY <1>1, <1>2, <1>3, PTL DEF Spec

-----------------------------------------------------------------------------
\* Answers.

\* What the gateway says of a call it has done with.
TrueAnswers ==
    {a \in [key : Calls, ok : BOOLEAN] : outcome[a.key] = IF a.ok THEN "ok" ELSE "failed"}

DoneOnce == \A c \in Calls : outcome[c] # "none" => task[c] = "done"
QueuesTrue == \A q \in Queues \ {"bcp"} : queue[q] \in Seq(TrueAnswers)
AInv == DoneOnce /\ QueuesTrue /\ OwnAnswer

LEMMA InitAnswers == Init => AInv
<1> SUFFICES ASSUME Init PROVE AInv
  OBVIOUS
<1>1. <<>> \in Seq(TrueAnswers)
  OBVIOUS
<1>2. QED
  BY <1>1 DEF Init, AInv, DoneOnce, QueuesTrue, OwnAnswer

\* What is true of a call stays true of it when another is done with.
LEMMA TruthStays ==
    ASSUME AInv, UNCHANGED outcome \/ \E c \in Calls, r \in {"ok", "failed"} :
                     outcome[c] = "none" /\ outcome' = [outcome EXCEPT ![c] = r]
    PROVE  TrueAnswers \subseteq TrueAnswers' /\ \A q \in Queues \ {"bcp"} : queue[q] \in Seq(TrueAnswers')
<1>1. TrueAnswers \subseteq TrueAnswers'
  <2>1. CASE UNCHANGED outcome
    BY <2>1 DEF TrueAnswers
  <2>2. ASSUME NEW c \in Calls, NEW r \in {"ok", "failed"},
               outcome[c] = "none", outcome' = [outcome EXCEPT ![c] = r]
        PROVE  TrueAnswers \subseteq TrueAnswers'
    BY <2>2 DEF TrueAnswers
  <2>3. QED
    BY <2>1, <2>2
<1>2. QED
  BY <1>1 DEF AInv, QueuesTrue

\* The steps that do nothing about a call but to move it on.
LEMMA AnswersKept ==
    ASSUME TInv, AInv, UNCHANGED <<outcome, call, queue>>, budget'.tools = budget.tools,
           \A c \in Calls : /\ task[c] = "done" => task'[c] = "done"
                            /\ task[c] = "none" => task'[c] = "none"
    PROVE  AInv'
<1>1. DoneOnce' /\ QueuesTrue'
  BY DEF AInv, DoneOnce, QueuesTrue, TrueAnswers
<1>2. OwnAnswer'
  <2> SUFFICES ASSUME NEW c \in Calls, Tool(c) \in Tools \ {Respond, Publish}
               PROVE  /\ call'[c] = "ok" => outcome'[c] = "ok"
                      /\ call'[c] = "error" /\ task'[c] # "none" => outcome'[c] = "failed"
    BY DEF OwnAnswer, Tool
  <2>1. QED
    BY DEF AInv, OwnAnswer
<1>3. QED
  BY <1>1, <1>2 DEF AInv

LEMMA FinishAnswers ==
    ASSUME TInv, AInv, NEW c \in Calls, NEW ok \in BOOLEAN, task[c] \notin {"none", "done"},
           task' = [task EXCEPT ![c] = "done"],
           outcome' = [outcome EXCEPT ![c] = IF ok THEN "ok" ELSE "failed"],
           Send(c, ok), UNCHANGED <<call, budget>>
    PROVE  AInv'
<1>1. outcome[c] = "none" /\ Tool(c) \in Tools /\ call[c] # "idle"
  BY DEF AInv, DoneOnce, TInv, Named
<1>2. TrueAnswers \subseteq TrueAnswers' /\ \A q \in Queues \ {"bcp"} : queue[q] \in Seq(TrueAnswers')
  BY <1>1, TruthStays
<1>3. QueuesTrue'
  <2>1. CASE UNCHANGED queue
    BY <1>2, <2>1 DEF QueuesTrue
  <2>2. CASE queue' = [queue EXCEPT ![Tool(c).queue] = Append(queue[Tool(c).queue], [key |-> Key(c), ok |-> ok])]
    <3>1. SUFFICES ASSUME NEW q \in Queues \ {"bcp"} PROVE queue'[q] \in Seq(TrueAnswers')
      BY DEF QueuesTrue
    <3>2. CASE q = Tool(c).queue
      <4>1. Key(c) = c
        BY <3>2 DEF Key
      <4>2. [key |-> Key(c), ok |-> ok] \in TrueAnswers'
        BY <4>1 DEF TrueAnswers, TInv, GatewayTypeOK
      <4>3. Append(queue[q], [key |-> Key(c), ok |-> ok]) \in Seq(TrueAnswers')
        BY <1>2, <4>2
      <4>4. QED
        BY <2>2, <3>2, <4>3 DEF TInv, RuntimeTypeOK
    <3>3. CASE q # Tool(c).queue
      BY <1>2, <2>2, <3>3 DEF TInv, RuntimeTypeOK
    <3>4. QED
      BY <3>2, <3>3
  <2>3. QED
    BY <2>1, <2>2 DEF Send
<1>4. DoneOnce'
  BY DEF AInv, DoneOnce, TInv, GatewayTypeOK
<1>5. OwnAnswer'
  <2> SUFFICES ASSUME NEW d \in Calls, Tool(d) \in Tools \ {Respond, Publish}
               PROVE  /\ call'[d] = "ok" => outcome'[d] = "ok"
                      /\ call'[d] = "error" /\ task'[d] # "none" => outcome'[d] = "failed"
    BY DEF OwnAnswer, Tool
  <2>1. CASE d = c
    BY <1>1, <2>1 DEF AInv, OwnAnswer
  <2>2. CASE d # c
    BY <2>2 DEF AInv, OwnAnswer, TInv, GatewayTypeOK
  <2>3. QED
    BY <2>1, <2>2
<1>6. QED
  BY <1>3, <1>4, <1>5 DEF AInv

\* The runtime's handlers.
LEMMA RefuseAnswers == ASSUME TInv, AInv, NEW c \in Calls, Refuse(c) PROVE AInv'
<1>1. /\ UNCHANGED <<outcome, queue, task, budget>> /\ task[c] = "none"
      /\ call' = [call EXCEPT ![c] = "error"]
  BY DEF Refuse, Returns, gatewayVars, approvalVars, TInv, Named
<1>2. DoneOnce' /\ QueuesTrue'
  BY <1>1 DEF AInv, DoneOnce, QueuesTrue, TrueAnswers
<1>3. OwnAnswer'
  BY <1>1 DEF AInv, OwnAnswer, Tool, TInv, RuntimeTypeOK
<1>4. QED
  BY <1>2, <1>3 DEF AInv

LEMMA RequestAnswers == ASSUME TInv, AInv, NEW c \in Calls, Request(c) PROVE AInv'
<1>1. /\ UNCHANGED <<outcome, queue, budget>> /\ task[c] = "none" /\ task' = [task EXCEPT ![c] = "asked"]
      /\ call' = [call EXCEPT ![c] = "waiting"]
  BY DEF Request, Returns, approvalVars, TInv, Named
<1>2. DoneOnce' /\ QueuesTrue'
  BY <1>1 DEF AInv, DoneOnce, QueuesTrue, TrueAnswers, TInv, GatewayTypeOK
<1>3. OwnAnswer'
  <2> SUFFICES ASSUME NEW d \in Calls, Tool(d) \in Tools \ {Respond, Publish}
               PROVE  /\ call'[d] = "ok" => outcome'[d] = "ok"
                      /\ call'[d] = "error" /\ task'[d] # "none" => outcome'[d] = "failed"
    BY <1>1 DEF OwnAnswer, Tool
  <2>1. QED
    BY <1>1 DEF AInv, OwnAnswer, TInv, RuntimeTypeOK, GatewayTypeOK
<1>4. QED
  BY <1>2, <1>3 DEF AInv

\* A handler takes an answer of its own, or puts back another's.
LEMMA PollAnswers == ASSUME TInv, AInv, NEW c \in Calls, Poll(c) PROVE AInv'
<1> DEFINE q == Tool(c).queue
           answer == Head(queue[q])
<1>1. /\ Tool(c) \in Tools /\ q \in Queues /\ queue[q] \in Seq(Answer) /\ queue[q] # <<>>
      /\ UNCHANGED <<task, outcome, budget>>
  BY ToolFacts DEF Poll, Waiting, TInv, Named, RuntimeTypeOK, gatewayVars, approvalVars
<1>2. \/ /\ answer.key = Key(c) /\ queue' = [queue EXCEPT ![q] = Tail(queue[q])]
         /\ call' = [call EXCEPT ![c] = IF answer.ok THEN "ok" ELSE "error"]
      \/ queue' = [queue EXCEPT ![q] = Append(Tail(queue[q]), answer)] /\ UNCHANGED call
  BY DEF Poll, Mine, Pop, PutBack, Returns
<1>3. QueuesTrue'
  <2>1. SUFFICES ASSUME NEW p \in Queues \ {"bcp"} PROVE queue'[p] \in Seq(TrueAnswers)
    BY <1>1 DEF QueuesTrue, TrueAnswers
  <2>2. queue[p] \in Seq(TrueAnswers)
    BY DEF AInv, QueuesTrue
  <2>3. CASE p = q
    <3>1. Tail(queue[p]) \in Seq(TrueAnswers) /\ Append(Tail(queue[p]), answer) \in Seq(TrueAnswers)
      BY <1>1, <2>2, <2>3
    <3>2. QED
      BY <1>1, <1>2, <2>3, <3>1 DEF TInv, RuntimeTypeOK
  <2>4. CASE p # q
    BY <1>2, <2>2, <2>4 DEF TInv, RuntimeTypeOK
  <2>5. QED
    BY <2>3, <2>4
<1>4. OwnAnswer'
  <2> SUFFICES ASSUME NEW d \in Calls, Tool(d) \in Tools \ {Respond, Publish}
               PROVE  /\ call'[d] = "ok" => outcome[d] = "ok"
                      /\ call'[d] = "error" /\ task[d] # "none" => outcome[d] = "failed"
    BY <1>1 DEF OwnAnswer, Tool
  <2>1. CASE d = c /\ call' = [call EXCEPT ![c] = IF answer.ok THEN "ok" ELSE "error"] /\ answer.key = Key(c)
    <3>1. q # "bcp" /\ Key(c) = c
      BY <2>1, ToolFacts DEF KeyedTools, Key
    <3>2. answer \in TrueAnswers
      BY <1>1, <3>1 DEF AInv, QueuesTrue
    <3>3. QED
      BY <2>1, <3>1, <3>2 DEF TrueAnswers, TInv, RuntimeTypeOK
  <2>2. CASE call'[d] = call[d]
    BY <2>2 DEF AInv, OwnAnswer
  <2>3. QED
    BY <1>2, <2>1, <2>2 DEF TInv, RuntimeTypeOK
<1>5. QED
  BY <1>1, <1>3, <1>4 DEF AInv, DoneOnce

\* A publication touches the queue of the BCP tools only; so do the answers it
\* gives back.
LEMMA ReturnAnswers ==
    ASSUME TInv, AInv, NEW c \in Calls, PollPublish(c) \/ Timeout(c)
    PROVE  AInv'
<1>1. /\ UNCHANGED <<task, outcome, budget>>
      /\ \A q \in Queues \ {"bcp"} : queue'[q] = queue[q] \/ queue'[q] = queue[q] \o <<>>
      /\ \A d \in Calls : \/ call'[d] = call[d] \/ call'[d] = "timeout"
                          \/ d = c /\ Tool(c) = Publish
  <2>1. CASE PollPublish(c)
    BY <2>1, ToolFacts DEF PollPublish, Returns, Pop, TInv, RuntimeTypeOK, gatewayVars, approvalVars
  <2>2. CASE Timeout(c)
    <3>1. Tool(c) # Publish => held[c] = <<>>
      BY DEF TInv, RuntimeTypeOK
    <3>2. Tool(c) = Publish => Tool(c).queue = "bcp"
      BY ToolFacts
    <3>3. QED
      BY <2>2, <3>1, <3>2 DEF Timeout, Returns, TInv, RuntimeTypeOK, gatewayVars, approvalVars
  <2>3. QED
    BY <2>1, <2>2
<1>2. QueuesTrue'
  <2>1. SUFFICES ASSUME NEW q \in Queues \ {"bcp"} PROVE queue'[q] \in Seq(TrueAnswers)
    BY <1>1 DEF QueuesTrue, TrueAnswers
  <2>2. queue[q] \in Seq(TrueAnswers)
    BY DEF AInv, QueuesTrue
  <2>3. queue[q] \o <<>> = queue[q]
    BY <2>2
  <2>4. QED
    BY <1>1, <2>2, <2>3
<1>3. OwnAnswer'
  BY <1>1 DEF AInv, OwnAnswer, Tool
<1>4. QED
  BY <1>1, <1>2, <1>3 DEF AInv, DoneOnce

LEMMA FlushAnswers == ASSUME TInv, AInv, Interrupt \/ Die PROVE AInv'
<1>1. /\ UNCHANGED <<task, outcome>> /\ queue' = [q \in Queues |-> <<>>]
      /\ \A c \in Calls : call'[c] = call[c] \/ call'[c] = "gone"
  BY DEF Interrupt, Die, gatewayVars, TInv, RuntimeTypeOK
<1>2. budget'.tools = budget.tools
  BY SpendKeeps DEF Interrupt, Die, TInv, Limits
<1>3. <<>> \in Seq(TrueAnswers')
  OBVIOUS
<1>4. QueuesTrue'
  BY <1>1, <1>3 DEF QueuesTrue
<1>5. OwnAnswer'
  BY <1>1, <1>2 DEF AInv, OwnAnswer, Tool
<1>6. QED
  BY <1>1, <1>4, <1>5 DEF AInv, DoneOnce

LEMMA PopQueryAnswers == ASSUME TInv, AInv, NEW c \in Calls, PopQuery(c) PROVE AInv'
<1>1. task[c] = "popping" /\ UNCHANGED <<call, budget>>
  BY DEF PopQuery
<1>2. CASE (task' = [task EXCEPT ![c] = "acting"] \/ task' = [task EXCEPT ![c] = "submitted"])
           /\ UNCHANGED <<outcome, queue>>
  BY <1>1, <1>2, AnswersKept DEF TInv, GatewayTypeOK
<1>3. CASE /\ task' = [task EXCEPT ![c] = "done"]
           /\ outcome' = [outcome EXCEPT ![c] = "failed"]
           /\ Send(c, FALSE)
  BY <1>1, <1>3, FinishAnswers
<1>4. QED
  BY <1>2, <1>3 DEF PopQuery

LEMMA TaskAnswers ==
    ASSUME TInv, AInv, NEW c \in Calls, Moves(c) \/ Decides(c) \/ Act(c) PROVE AInv'
<1>1. ASSUME NEW ok \in BOOLEAN, Finish(c, ok), task[c] \notin {"none", "done"}, UNCHANGED approvalVars
      PROVE  AInv'
  BY <1>1, FinishAnswers DEF Finish, approvalVars
<1>2. ASSUME NEW state \in {"popping", "submitted", "announced", "awaiting", "acting", "dead"},
             task' = [task EXCEPT ![c] = state], task[c] \notin {"none", "done"},
             UNCHANGED <<outcome, runtimeVars>>, budget'.tools = budget.tools
      PROVE  AInv'
  BY <1>2, AnswersKept DEF runtimeVars, TInv, GatewayTypeOK
<1>3. CASE Deny(c) \/ Rejected(c) \/ GiveUp(c)
  BY <1>1, <1>3 DEF Deny, Rejected, GiveUp, Asked
<1>4. CASE Act(c)
  <2>1. PICK ok \in BOOLEAN : Finish(c, ok)
    BY <1>4 DEF Act
  <2>2. QED
    BY <1>1, <1>4, <2>1 DEF Act
<1>5. CASE Allow(c) \/ SubmitForApproval(c) \/ Proceed(c)
  <2>1. UNCHANGED budget
    BY <1>5 DEF Allow, SubmitForApproval, Proceed, approvalVars
  <2>2. QED
    BY <1>2, <1>5, <2>1 DEF Allow, SubmitForApproval, Proceed, Goes, Asked
<1>6. CASE LookUp(c)
  <2>1. task[c] = "asked" /\ UNCHANGED approvalVars
    BY <1>6 DEF LookUp
  <2>2. CASE unasked
    BY <1>2, <1>6, <2>1, <2>2 DEF LookUp, Goes, approvalVars
  <2>3. CASE ~unasked
    BY <1>1, <1>6, <2>1, <2>3 DEF LookUp
  <2>4. QED
    BY <2>2, <2>3
<1>7. CASE Announce(c)
  <2>1. budget'.tools = budget.tools
    BY <1>7, SpendKeeps DEF Announce, Broadcast, TInv, Limits
  <2>2. QED
    BY <1>2, <1>7, <2>1 DEF Announce, Goes
<1>8. CASE Await(c)
  <2>1. task' = [task EXCEPT ![c] = "dead"] \/ task' = [task EXCEPT ![c] = "awaiting"]
    BY <1>8 DEF Await
  <2>2. QED
    BY <1>2, <1>8, <2>1 DEF Await
<1>9. QED
  BY <1>3, <1>4, <1>5, <1>6, <1>7, <1>8, PopQueryAnswers DEF Moves, Decides

LEMMA StepAnswers == ASSUME TInv, AInv, [Next]_vars PROVE AInv'
<1>1. CASE RestartQueue
  <2>1. budget'.tools = budget.tools
    BY <1>1, SpendKeeps DEF RestartQueue, EmptyQueue, TInv, Limits
  <2>2. UNCHANGED <<outcome, call, queue>>
        /\ \A c \in Calls : /\ task[c] = "done" => task'[c] = "done"
                            /\ task[c] = "none" => task'[c] = "none"
    BY <1>1 DEF RestartQueue, runtimeVars
  <2>3. QED
    BY <2>1, <2>2, AnswersKept
<1>2. CASE Tick
  BY <1>2, AnswersKept DEF Tick, approvalVars
<1>3. CASE ChatStep /\ UNCHANGED <<runtimeVars, gatewayVars>>
  <2>1. budget'.tools = budget.tools
    BY <1>3, TakeVoteTypes, PostCardTypes, MapCardTypes, VoteMatrixTypes, VoteSlackTypes,
       ForwardSlackTypes, RestartConnectorTypes DEF ChatStep
  <2>2. QED
    BY <1>3, <2>1, AnswersKept DEF runtimeVars, gatewayVars
<1>4. CASE UNCHANGED vars
  BY <1>4, AnswersKept DEF vars, runtimeVars, gatewayVars, approvalVars
<1>5. QED
  BY <1>1, <1>2, <1>3, <1>4, RefuseAnswers, RequestAnswers, PollAnswers, ReturnAnswers,
     FlushAnswers, TaskAnswers DEF Next

\* A tool that waits for its request id tells the agent what the gateway did
\* about this very call: the answers in its queue are all true, an answer is
\* taken by the call it names, and a call is done with once.
THEOREM OwnAnswerAlways == Spec => []OwnAnswer
<1>1. Init => TInv /\ AInv
  BY InitTypes, InitAnswers
<1>2. TInv /\ AInv /\ [Next]_vars => (TInv /\ AInv)'
  BY StepTypes, StepAnswers
<1>3. TInv /\ AInv => OwnAnswer
  BY DEF AInv
<1>4. QED
  BY <1>1, <1>2, <1>3, PTL DEF Spec

-----------------------------------------------------------------------------
\* The reader's patience.

AtOnce == {"asked", "popping", "submitted", "announced"}

PatienceKept(c) ==
    Tool(c) = Respond
    => /\ call[c] = "waiting" /\ task[c] \in AtOnce => left[c] = BcpPatience
       /\ call[c] = "waiting" /\ task[c] = "awaiting" => left[c] > grace[c]
       /\ call[c] = "timeout" => task[c] \notin AtOnce \cup {"awaiting"}
PInv == \A c \in Calls : PatienceKept(c)

\* The steps that leave the handlers and the timers alone, and every task where
\* it is, or take it from what is done at once to what is done at once, or out
\* of what the patience is for.
LEMMA PatienceMoves ==
    ASSUME TInv, PInv, UNCHANGED <<call, left>>, budget'.tools = budget.tools,
           \A c \in Calls : \/ task'[c] = task[c] /\ grace'[c] = grace[c]
                            \/ task[c] \in AtOnce /\ task'[c] \in AtOnce
                            \/ task'[c] \notin AtOnce \cup {"awaiting"}
    PROVE  PInv'
<1> SUFFICES ASSUME NEW c \in Calls PROVE PatienceKept(c)'
  BY DEF PInv
<1>1. PatienceKept(c) /\ Tool(c)' = Tool(c)
  BY DEF PInv, Tool
<1>2. CASE task'[c] = task[c] /\ grace'[c] = grace[c]
  BY <1>1, <1>2 DEF PatienceKept
<1>3. CASE task[c] \in AtOnce /\ task'[c] \in AtOnce
  BY <1>1, <1>3 DEF PatienceKept, AtOnce
<1>4. CASE task'[c] \notin AtOnce \cup {"awaiting"}
  BY <1>4 DEF PatienceKept
<1>5. QED
  BY <1>2, <1>3, <1>4

\* The runtime's steps leave the tasks alone; a handler that was not waiting is
\* not waiting after.
LEMMA PatienceRuntime ==
    ASSUME TInv, PInv, UNCHANGED <<left, task, grace>>, budget'.tools = budget.tools,
           \A c \in Calls : \/ call'[c] = call[c]
                            \/ call'[c] \notin {"waiting", "timeout"}
    PROVE  PInv'
<1> SUFFICES ASSUME NEW c \in Calls PROVE PatienceKept(c)'
  BY DEF PInv
<1>1. QED
  BY DEF PInv, PatienceKept, Tool

LEMMA RequestPatience == ASSUME TInv, PInv, NEW c \in Calls, Request(c) PROVE PInv'
<1> SUFFICES ASSUME NEW d \in Calls PROVE PatienceKept(d)'
  BY DEF PInv
<1>1. /\ call' = [call EXCEPT ![c] = "waiting"] /\ left' = [left EXCEPT ![c] = Tool(c).patience]
      /\ task' = [task EXCEPT ![c] = "asked"] /\ UNCHANGED <<grace, budget>>
  BY DEF Request, Returns, approvalVars
<1>2. CASE d = c
  BY <1>1, <1>2, ToolFacts DEF PatienceKept, Tool, AtOnce, TInv, RuntimeTypeOK, GatewayTypeOK
<1>3. CASE d # c
  BY <1>1, <1>3 DEF PInv, PatienceKept, Tool, TInv, RuntimeTypeOK, GatewayTypeOK
<1>4. QED
  BY <1>2, <1>3

LEMMA TimeoutPatience == ASSUME TInv, PInv, NEW c \in Calls, Timeout(c) PROVE PInv'
<1> SUFFICES ASSUME NEW d \in Calls PROVE PatienceKept(d)'
  BY DEF PInv
<1>1. /\ call' = [call EXCEPT ![c] = "timeout"] /\ UNCHANGED <<left, task, grace, budget>>
      /\ call[c] = "waiting" /\ left[c] = 0 /\ grace[c] >= 0
  BY DEF Timeout, TimesOut, Waiting, Returns, gatewayVars, approvalVars, TInv, GatewayTypeOK
<1>2. CASE d = c
  BY <1>1, <1>2, PatienceAssumption DEF PInv, PatienceKept, Tool, TInv, RuntimeTypeOK, GatewayTypeOK
<1>3. CASE d # c
  BY <1>1, <1>3 DEF PInv, PatienceKept, Tool, TInv, RuntimeTypeOK
<1>4. QED
  BY <1>2, <1>3

LEMMA AwaitPatience == ASSUME TInv, PInv, NEW c \in Calls, Await(c) PROVE PInv'
<1> SUFFICES ASSUME NEW d \in Calls PROVE PatienceKept(d)'
  BY DEF PInv
<1>1. /\ task[c] = "announced" /\ UNCHANGED <<call, left, budget>>
      /\ task' = [task EXCEPT ![c] = IF decided[c] = "none" /\ c \notin pending THEN "dead" ELSE "awaiting"]
      /\ grace' = [grace EXCEPT ![c] = ApprovalPatience]
  BY DEF Await, runtimeVars
<1>2. CASE d = c
  BY <1>1, <1>2, PatienceAssumption DEF PInv, PatienceKept, Tool, AtOnce, TInv, GatewayTypeOK
<1>3. CASE d # c
  BY <1>1, <1>3 DEF PInv, PatienceKept, Tool, TInv, GatewayTypeOK
<1>4. QED
  BY <1>2, <1>3

\* No time goes by while a task is in what it does at once.
LEMMA TickPatience == ASSUME TInv, PInv, Tick PROVE PInv'
<1> SUFFICES ASSUME NEW c \in Calls PROVE PatienceKept(c)'
  BY DEF PInv
<1>1. /\ UNCHANGED <<call, task, budget>> /\ task[c] \notin AtOnce
      /\ left' = Countdown(left, Waiting) /\ grace' = Countdown(grace, InGrace)
  BY DEF Tick, Brief, AtOnce, approvalVars
<1>2. CASE call[c] = "waiting" /\ task[c] = "awaiting"
  <2>1. left'[c] = left[c] - 1 /\ grace'[c] = grace[c] - 1
    BY <1>1, <1>2 DEF Countdown, Waiting, InGrace
  <2>2. left[c] \in Int /\ grace[c] \in Int
    BY PatienceAssumption DEF TInv, RuntimeTypeOK, GatewayTypeOK
  <2>3. QED
    BY <1>1, <1>2, <2>1, <2>2 DEF PInv, PatienceKept, Tool
<1>3. CASE ~(call[c] = "waiting" /\ task[c] = "awaiting")
  BY <1>1, <1>3 DEF PInv, PatienceKept, Tool
<1>4. QED
  BY <1>2, <1>3

LEMMA TaskPatience ==
    ASSUME TInv, PInv, NEW c \in Calls, Moves(c) \/ Decides(c) \/ Act(c) PROVE PInv'
<1>1. CASE Await(c)
  BY <1>1, AwaitPatience
<1>2. CASE Moves(c) \/ Proceed(c) \/ Rejected(c) \/ GiveUp(c) \/ Act(c)
  <2>1. UNCHANGED <<call, left, grace>>
    BY <1>2 DEF Moves, Deny, Allow, SubmitForApproval, LookUp, PopQuery, Announce, Proceed,
       Rejected, GiveUp, Act, Goes, Finish, runtimeVars
  <2>2. budget'.tools = budget.tools
    <3>1. CASE Announce(c)
      BY <3>1, SpendKeeps DEF Announce, Broadcast, TInv, Limits
    <3>2. CASE ~Announce(c)
      BY <1>2, <3>2 DEF Moves, Deny, Allow, SubmitForApproval, LookUp, PopQuery, Proceed,
         Rejected, GiveUp, Act, approvalVars
    <3>3. QED
      BY <3>1, <3>2
  <2>3. \E state \in AtOnce \cup {"acting", "done"} :
            /\ task' = [task EXCEPT ![c] = state]
            /\ state \in AtOnce => task[c] \in AtOnce
    BY <1>2 DEF Moves, Deny, Allow, SubmitForApproval, LookUp, PopQuery, Announce, Proceed,
       Rejected, GiveUp, Act, Goes, Finish, AtOnce, Asked
  <2>4. QED
    BY <2>1, <2>2, <2>3, PatienceMoves DEF AtOnce, TInv, GatewayTypeOK
<1>3. QED
  BY <1>1, <1>2 DEF Decides

LEMMA StepPatience == ASSUME TInv, PInv, [Next]_vars PROVE PInv'
<1>1. ASSUME NEW c \in Calls, Refuse(c) \/ Poll(c) \/ PollPublish(c) PROVE PInv'
  <2>1. /\ UNCHANGED <<left, gatewayVars, approvalVars>>
        /\ call' = call \/ \E r \in {"ok", "error"} : call' = [call EXCEPT ![c] = r]
    BY <1>1 DEF Refuse, Poll, PollPublish, Returns
  <2>2. QED
    BY <2>1, PatienceRuntime DEF gatewayVars, approvalVars, TInv, RuntimeTypeOK
<1>2. CASE Interrupt \/ Die
  <2>1. budget'.tools = budget.tools
    BY <1>2, SpendKeeps DEF Interrupt, Die, TInv, Limits
  <2>2. QED
    BY <1>2, <2>1, PatienceRuntime DEF Interrupt, Die, gatewayVars
<1>3. CASE RestartQueue
  <2>1. budget'.tools = budget.tools
    BY <1>3, SpendKeeps DEF RestartQueue, EmptyQueue, TInv, Limits
  <2>2. QED
    BY <1>3, <2>1, PatienceMoves DEF RestartQueue, runtimeVars, AtOnce
<1>4. CASE ChatStep /\ UNCHANGED <<runtimeVars, gatewayVars>>
  <2>1. budget'.tools = budget.tools
    BY <1>4, TakeVoteTypes, PostCardTypes, MapCardTypes, VoteMatrixTypes, VoteSlackTypes,
       ForwardSlackTypes, RestartConnectorTypes DEF ChatStep
  <2>2. QED
    BY <1>4, <2>1, PatienceRuntime DEF runtimeVars, gatewayVars
<1>5. CASE UNCHANGED vars
  BY <1>5, PatienceRuntime DEF vars, runtimeVars, gatewayVars, approvalVars
<1>6. QED
  BY <1>1, <1>2, <1>3, <1>4, <1>5, RequestPatience, TimeoutPatience, TaskPatience, TickPatience
     DEF Next

\* The reader's agent is not told that its answer is pending while the gateway
\* still waits for a human over it (_BCP_RESPONSE_TIMEOUT_S, await_decision).
THEOREM BcpOutlastsApprovalAlways == Spec => []BcpOutlastsApproval
<1>1. Init => TInv /\ PInv
  BY InitTypes DEF Init, PInv, PatienceKept
<1>2. TInv /\ PInv /\ [Next]_vars => (TInv /\ PInv)'
  BY StepTypes, StepPatience
<1>3. TInv /\ PInv => BcpOutlastsApproval
  BY DEF PInv, PatienceKept, BcpOutlastsApproval
<1>4. QED
  BY <1>1, <1>2, <1>3, PTL DEF Spec

-----------------------------------------------------------------------------
\* Decisions in time.

\* A task that has heard nothing is among those the queue will tell.
Heard(c) == task[c] = "awaiting" /\ reply[c] = "none" => c \in waiters /\ decided[c] = "none"
HInv == \A c \in Calls : Heard(c)

LEMMA HeardKept ==
    ASSUME HInv, UNCHANGED queueVars,
           \A c \in Calls : task'[c] = "awaiting" => task[c] = "awaiting"
    PROVE  HInv'
BY DEF HInv, Heard, queueVars

LEMMA TakeVoteHeard == ASSUME TInv, HInv, TakeVote, UNCHANGED gatewayVars PROVE HInv'
<1> DEFINE vote == Head(votes)
<1>1. vote.call \in Calls /\ vote.thumb # "none"
  <2>1. votes \in Seq(Vote) /\ votes # <<>>
    BY DEF TInv, ApprovalTypeOK, TakeVote
  <2>2. vote \in Vote
    BY <2>1
  <2>3. QED
    BY <2>2 DEF Vote, Thumbs
<1>2. Decide(vote.call, vote.thumb) /\ UNCHANGED task
  BY DEF TakeVote, gatewayVars
<1>3. SUFFICES ASSUME NEW c \in Calls PROVE Heard(c)'
  BY DEF HInv
<1>4. CASE c = vote.call
  BY <1>1, <1>2, <1>4 DEF Decide, HInv, Heard, TInv, ApprovalTypeOK
<1>5. CASE c # vote.call
  BY <1>1, <1>2, <1>5 DEF Decide, HInv, Heard, TInv, ApprovalTypeOK
<1>6. QED
  BY <1>4, <1>5

LEMMA AwaitHeard == ASSUME TInv, HInv, NEW c \in Calls, Await(c) PROVE HInv'
<1>1. /\ UNCHANGED <<pending, decided>> /\ reply' = [reply EXCEPT ![c] = decided[c]]
      /\ waiters' = IF decided[c] = "none" /\ c \in pending THEN waiters \cup {c} ELSE waiters
      /\ task' = [task EXCEPT ![c] = IF decided[c] = "none" /\ c \notin pending THEN "dead" ELSE "awaiting"]
  BY DEF Await, ToldAtOnce
<1>2. SUFFICES ASSUME NEW d \in Calls PROVE Heard(d)'
  BY DEF HInv
<1>3. CASE d = c
  BY <1>1, <1>3 DEF Heard, TInv, ApprovalTypeOK, GatewayTypeOK
<1>4. CASE d # c
  BY <1>1, <1>4 DEF HInv, Heard, TInv, ApprovalTypeOK, GatewayTypeOK
<1>5. QED
  BY <1>3, <1>4

LEMMA TaskHeard == ASSUME TInv, HInv, NEW c \in Calls, Moves(c) \/ Decides(c) \/ Act(c) PROVE HInv'
<1>1. CASE Await(c)
  BY <1>1, AwaitHeard
<1>2. CASE Moves(c) \/ Proceed(c) \/ Rejected(c) \/ GiveUp(c) \/ Act(c)
  <2>1. /\ UNCHANGED <<decided, waiters, reply>>
        /\ \E state \in AtOnce \cup {"acting", "done"} : task' = [task EXCEPT ![c] = state]
    BY <1>2 DEF Moves, Deny, Allow, SubmitForApproval, Submit, LookUp, PopQuery, Announce,
       Broadcast, Proceed, Rejected, GiveUp, Act, Goes, Finish, AtOnce, approvalVars, queueVars
  <2>2. QED
    BY <2>1 DEF HInv, Heard, AtOnce, TInv, GatewayTypeOK
<1>3. QED
  BY <1>1, <1>2 DEF Decides

LEMMA StepHeard == ASSUME TInv, HInv, [Next]_vars PROVE HInv'
<1>1. ASSUME NEW c \in Calls, Refuse(c) \/ Request(c) \/ Poll(c) \/ PollPublish(c) \/ Timeout(c)
      PROVE  HInv'
  BY <1>1, HeardKept DEF Refuse, Request, Poll, PollPublish, Timeout, gatewayVars, approvalVars,
     TInv, GatewayTypeOK
<1>2. CASE Interrupt \/ Die \/ Tick \/ UNCHANGED vars
  BY <1>2, HeardKept DEF Interrupt, Die, Tick, vars, gatewayVars, approvalVars
<1>3. CASE RestartQueue
  BY <1>3 DEF RestartQueue, EmptyQueue, HInv, Heard
<1>4. CASE ChatStep /\ UNCHANGED <<runtimeVars, gatewayVars>>
  <2>1. TakeVote \/ UNCHANGED queueVars
    BY <1>4 DEF ChatStep, PostCard, MapCard, RestartConnector, VoteMatrix, VoteSlack, ForwardSlack
  <2>2. QED
    BY <1>4, <2>1, TakeVoteHeard, HeardKept DEF gatewayVars
<1>5. QED
  BY <1>1, <1>2, <1>3, <1>4, TaskHeard DEF Next

\* Whoever gives up waiting for a human does so with nothing decided.
THEOREM InTimeDecisionCountsAlways == Spec => InTimeDecisionCounts
<1>1. Init => TInv /\ HInv
  BY InitTypes DEF Init, HInv, Heard
<1>2. TInv /\ HInv /\ [Next]_vars => (TInv /\ HInv)'
  BY StepTypes, StepHeard
<1>3. ASSUME HInv, [Next]_vars PROVE \A c \in gaveUp' \ gaveUp : decided[c] = "none"
  <2>1. CASE UNCHANGED gaveUp
    BY <2>1
  <2>2. ASSUME NEW c \in Calls, GiveUp(c) PROVE \A d \in gaveUp' \ gaveUp : decided[d] = "none"
    BY <1>3, <2>2 DEF GiveUp, HInv, Heard
  <2>3. UNCHANGED gaveUp \/ \E c \in Calls : GiveUp(c)
    BY <1>3 DEF Next, Moves, Decides, Refuse, Request, Poll, PollPublish, Timeout, Deny, Allow,
       SubmitForApproval, LookUp, PopQuery, Announce, Await, Proceed, Rejected, Act, Interrupt, Die,
       RestartQueue, Tick, Goes, Finish, vars, gatewayVars
  <2>4. QED
    BY <2>1, <2>2, <2>3
<1>4. QED
  BY <1>1, <1>2, <1>3, PTL DEF Spec, InTimeDecisionCounts

-----------------------------------------------------------------------------
\* The ledger.

\* It holds the newest of the submissions that were accepted.
LedgerNewest ==
    ~torn => /\ Len(ledger) = IF Len(submitted) < MaxSubmissions THEN Len(submitted) ELSE MaxSubmissions
             /\ \A i \in 1 .. Len(ledger) : ledger[i] = submitted[Len(submitted) - Len(ledger) + i]

LEMMA PersistNewest ==
    ASSUME TInv, LedgerNewest, NEW c \in Calls, ledger' = Persist(c), submitted' = Append(submitted, c),
           UNCHANGED torn
    PROVE  LedgerNewest'
<1> SUFFICES ASSUME ~torn
             PROVE  /\ Len(ledger') = IF Len(submitted') < MaxSubmissions THEN Len(submitted') ELSE MaxSubmissions
                    /\ \A i \in 1 .. Len(ledger') : ledger'[i] = submitted'[Len(submitted') - Len(ledger') + i]
  BY DEF LedgerNewest
<1>1. /\ ledger \in Seq(Calls) /\ submitted \in Seq(Calls) /\ MaxSubmissions \in Nat \ {0}
      /\ Len(submitted') = Len(submitted) + 1
      /\ \A i \in 1 .. Len(submitted) : submitted'[i] = submitted[i]
      /\ submitted'[Len(submitted) + 1] = c
  BY PatienceAssumption DEF TInv, RuntimeTypeOK
<1>2. CASE Len(ledger) < MaxSubmissions
  <2>1. ledger' = Append(ledger, c)
    BY <1>2 DEF Persist
  <2>2. /\ Len(ledger') = Len(ledger) + 1 /\ ledger'[Len(ledger) + 1] = c
        /\ \A i \in 1 .. Len(ledger) : ledger'[i] = ledger[i]
    BY <1>1, <2>1
  <2>3. Len(ledger) = Len(submitted)
    BY <1>1, <1>2 DEF LedgerNewest
  <2>4. QED
    BY <1>1, <1>2, <2>2, <2>3 DEF LedgerNewest
<1>3. CASE ~(Len(ledger) < MaxSubmissions)
  <2>1. Len(ledger) = MaxSubmissions /\ Len(submitted) >= MaxSubmissions
    BY <1>1, <1>3 DEF LedgerNewest, TInv, RuntimeTypeOK
  <2>2. ledger' = Append(Tail(ledger), c)
    BY <1>3 DEF Persist
  <2>3. /\ Len(ledger') = Len(ledger) /\ ledger'[Len(ledger)] = c
        /\ \A i \in 1 .. Len(ledger) - 1 : ledger'[i] = ledger[i + 1]
    BY <1>1, <2>1, <2>2
  <2>4. ASSUME NEW i \in 1 .. Len(ledger')
        PROVE  ledger'[i] = submitted'[Len(submitted') - Len(ledger') + i]
    <3>1. CASE i = Len(ledger)
      BY <1>1, <2>3, <3>1
    <3>2. CASE i # Len(ledger)
      <4>1. i + 1 \in 1 .. Len(ledger) /\ ledger'[i] = ledger[i + 1]
        BY <1>1, <2>3, <3>2
      <4>2. ledger[i + 1] = submitted[Len(submitted) - Len(ledger) + (i + 1)]
        BY <4>1 DEF LedgerNewest
      <4>3. Len(submitted) - Len(ledger) + (i + 1) \in 1 .. Len(submitted)
        BY <1>1, <2>1, <4>1
      <4>4. Len(submitted') - Len(ledger') + i = Len(submitted) - Len(ledger) + (i + 1)
        BY <1>1, <2>3, <4>1
      <4>5. QED
        BY <1>1, <4>1, <4>2, <4>3, <4>4
    <3>3. QED
      BY <3>1, <3>2
  <2>5. ~(Len(submitted') < MaxSubmissions) /\ Len(ledger') = MaxSubmissions
    BY <1>1, <2>1, <2>3
  <2>6. QED
    BY <2>4, <2>5
<1>4. QED
  BY <1>2, <1>3

LEMMA StepLedger == ASSUME TInv, LedgerNewest, [Next]_vars PROVE LedgerNewest'
<1>1. ASSUME NEW c \in Calls, Poll(c) PROVE LedgerNewest'
  <2>1. CASE UNCHANGED <<ledger, submitted>>
    BY <1>1, <2>1 DEF Poll, LedgerNewest
  <2>2. CASE ledger' = Persist(c) /\ submitted' = Append(submitted, c)
    BY <1>1, <2>2, PersistNewest DEF Poll
  <2>3. QED
    BY <1>1, <2>1, <2>2 DEF Poll
<1>2. CASE Die
  BY <1>2 DEF Die, LedgerNewest
<1>3. ASSUME ~Die, ~\E c \in Calls : Poll(c) PROVE UNCHANGED files
  <2>1. ASSUME NEW c \in Calls, Refuse(c) \/ Request(c) \/ PollPublish(c) \/ Timeout(c)
        PROVE  UNCHANGED files
    BY <2>1 DEF Refuse, Request, PollPublish, Timeout, runtimeVars, files
  <2>2. ASSUME NEW c \in Calls, Moves(c)
        PROVE  UNCHANGED files
    BY <2>2 DEF Moves, Deny, Allow, SubmitForApproval, LookUp, PopQuery, Announce,
       Goes, Finish, runtimeVars, files
  <2>3. ASSUME NEW c \in Calls, Decides(c) \/ Act(c)
        PROVE  UNCHANGED files
    BY <2>3 DEF Decides, Await, Proceed, Rejected, GiveUp, Act, Goes, Finish, runtimeVars, files
  <2>4. CASE Interrupt \/ RestartQueue \/ Tick
    BY <2>4 DEF Interrupt, RestartQueue, Tick, Goes, runtimeVars, files
  <2>5. CASE UNCHANGED runtimeVars
    BY <2>5 DEF runtimeVars, files
  <2>6. QED
    BY <1>3, <2>1, <2>2, <2>3, <2>4, <2>5 DEF Next, vars, runtimeVars
<1>4. QED
  BY <1>1, <1>2, <1>3 DEF LedgerNewest, files

\* Feedback on an item finds the submission, unless as many were accepted after
\* it as the ledger holds (_persist_submission, _enrich_item_feedback).
THEOREM SubmissionsKnownAlways == Spec => []SubmissionsKnown
<1>1. Init => TInv /\ LedgerNewest
  BY InitTypes, PatienceAssumption DEF Init, LedgerNewest
<1>2. TInv /\ LedgerNewest /\ [Next]_vars => (TInv /\ LedgerNewest)'
  BY StepTypes, StepLedger
<1>3. TInv /\ LedgerNewest => SubmissionsKnown
  <2> SUFFICES ASSUME TInv, LedgerNewest, NEW i \in DOMAIN submitted, ~torn,
                      i + MaxSubmissions > Len(submitted)
               PROVE  Known(submitted[i])
    BY DEF SubmissionsKnown
  <2> DEFINE k == i - (Len(submitted) - Len(ledger))
  <2>1. ledger \in Seq(Calls) /\ submitted \in Seq(Calls) /\ MaxSubmissions \in Nat
    BY PatienceAssumption DEF TInv, RuntimeTypeOK
  <2>2. Len(ledger) \in Nat /\ Len(submitted) \in Nat /\ i \in 1 .. Len(submitted)
    BY <2>1
  <2>3. k \in 1 .. Len(ledger) /\ Len(submitted) - Len(ledger) + k = i
    BY <2>1, <2>2 DEF LedgerNewest
  <2>4. ledger[k] = submitted[i]
    BY <2>3 DEF LedgerNewest
  <2>5. submitted[i] \in Range(ledger)
    BY <2>1, <2>3, <2>4 DEF Range
  <2>6. QED
    BY <2>5 DEF Known
<1>4. QED
  BY <1>1, <1>2, <1>3, PTL DEF Spec

=============================================================================
