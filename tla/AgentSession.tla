---------------------------- MODULE AgentSession ----------------------------
(***************************************************************************)
(* One gateway session of an agent: the GenServer AgentSession with its    *)
(* AgentPort, composed with the container it drives (AgentRuntime).        *)
(*                                                                         *)
(* A GenServer handles one message at a time, so each handler is one       *)
(* action. Events, timers and self-sends come from the mailbox in order;   *)
(* calls of clients (prompt, BCP, stop) may be handled at any moment,      *)
(* since a caller may have sent its request at any earlier moment.         *)
(* A request answered {:error, :not_ready} changes nothing and is no step. *)
(***************************************************************************)
EXTENDS Integers, AgentRuntime, SessionLife

CONSTANTS
    Capability,    \* RiskScorer.infer_capability of the definition
    Ceiling,       \* definition.max_effective_risk
    InputRisk,     \* RiskScorer.infer_input_risk of trigger and tools
    InitLabels,    \* labels a session may start with (trigger, base taint, mounts)
    PromptLabels,  \* labels prompt metadata may carry; NoRisk when it has none
    Blanks,        \* whether prompts are blank: a subset of BOOLEAN
    IdleTimeout,   \* definition.idle_timeout is set
    MaxPrompts,    \* bound: prompts accepted
    MaxBcp         \* bound: BCP queries and deliveries accepted

ASSUME RiskAssumption ==
    /\ Capability \in Level
    /\ Ceiling \in Risk
    /\ InputRisk \in Level
    /\ InitLabels \subseteq Label
    /\ PromptLabels \subseteq Label
ASSUME BoundAssumption ==
    /\ Blanks \subseteq BOOLEAN
    /\ IdleTimeout \in BOOLEAN
    /\ MaxPrompts \in Nat
    /\ MaxBcp \in Nat

VARIABLES
    ended,          \* what ended the GenServer process, "no" while it lives
    status,         \* state.status; state.port is nil exactly when :stopped
    queue,          \* state.prompt_queue
    pendingBcp,     \* BCP messages kept while the runtime starts
    pendingTools,   \* state.pending_tools: calls whose result is awaited
    level,          \* state.taint_level and state.sensitivity_level
    effectiveRisk,  \* state.effective_risk
    idleTimer,      \* an idle timer is running
    saveTimers,     \* memory-save timers running
    accepted,       \* history: prompts answered :ok
    taken,          \* history: prompts taken out of the queue, or sent directly
    bcps            \* history: BCP messages accepted

sessionVars == <<ended, status, queue, pendingBcp, pendingTools, level,
                 effectiveRisk, idleTimer, saveTimers, accepted, taken, bcps>>
vars == <<runtimeVars, sessionVars>>

alive == ended = "no"
Ending == {"no", "stopped", "memory_saved", "save_timeout", "reflected", "idle",
           "port_down", "risk_exceeded"}

Status == {"starting", "ready", "running", "saving_memory", "stopped"}

\* A queued prompt; id is its place in the order of acceptance.
Prompt == [id : Nat, label : Label, blank : BOOLEAN]

TypeOK ==
    /\ mode \in {"normal", "reflection"}
    /\ stdin \in Seq(Line)
    /\ mailbox \in Seq(Message)
    /\ portOpen \in BOOLEAN
    /\ run \in Run
    /\ controlQueue \in Seq(Line)
    /\ interruptEvent \in BOOLEAN
    /\ turned \in BOOLEAN
    /\ calls \in [Tools -> {"unused", "open", "returned"}]
    /\ seen \in Label
    /\ tree \in Label
    /\ dropped \in BOOLEAN
    /\ ended \in Ending
    /\ status \in Status
    /\ queue \in Seq(Prompt)
    /\ pendingBcp \in Nat
    /\ pendingTools \in SUBSET Tools
    /\ level \in Label
    /\ effectiveRisk \in Risk
    /\ idleTimer \in BOOLEAN
    /\ saveTimers \in Nat
    /\ accepted \in Nat
    /\ taken \in Nat
    /\ bcps \in Nat

-----------------------------------------------------------------------------
\* init/1 and handle_continue(:spawn_port): the start risk is the worse of the
\* risk inferred from the tools and the risk of the floors; a session over its
\* ceiling is refused, so no state of it is a state of this specification.
Init ==
    /\ RuntimeInit
    /\ ended = "no"
    /\ status = "starting"
    /\ queue = <<>>
    /\ pendingBcp = 0
    /\ pendingTools = {}
    /\ level \in InitLabels
    /\ seen = level
    /\ effectiveRisk = EffectiveRisk(InputRisk, Low, Capability)
    /\ ~Exceeds(effectiveRisk, Ceiling)
    /\ ~Exceeds(LabelRisk(level, Capability), Ceiling)
    /\ idleTimer = FALSE
    /\ saveTimers = 0
    /\ accepted = 0
    /\ taken = 0
    /\ bcps = 0

-----------------------------------------------------------------------------
\* AgentPort.send_*: a cast to the port process, lost once that is gone.
Send(lines) == stdin' = IF portOpen THEN stdin \o lines ELSE stdin

\* Defect: the ceiling is compared with the new classification alone.
ElevateUnjoined(label, rest) ==
    LET new == Join(level, label)
    IN /\ level' = new
       /\ effectiveRisk' = IF new = level THEN effectiveRisk ELSE LabelRisk(new, Capability)
       /\ mailbox' = IF new # level /\ Exceeds(LabelRisk(label, Capability), Ceiling)
                     THEN Append(rest, Note("kill_risk_exceeded"))
                     ELSE rest

\* elevate_risk/2 followed by the rest of the mailbox: the risk is recomputed
\* from the axes when one of them rises, and a kill is sent to self().
Elevate(label, rest) ==
    LET new == Join(level, label)
        risk == LabelRisk(new, Capability)
    IN /\ level' = new
       /\ effectiveRisk' = IF new = level THEN effectiveRisk ELSE risk
       /\ mailbox' = IF new # level /\ Exceeds(risk, Ceiling)
                     THEN Append(rest, Note("kill_risk_exceeded"))
                     ELSE rest

\* The process ends. Timers and mailbox go with it, and so does the linked port
\* process, which dies without running its terminate/2: whatever it had not yet
\* written is lost, and the container reads end of file.
Die(how, lastLines) ==
    /\ ended' = how
    /\ status' = "stopped"
    /\ mailbox' = <<>>
    /\ queue' = <<>>
    /\ pendingBcp' = 0
    /\ pendingTools' = {}
    /\ idleTimer' = FALSE
    /\ saveTimers' = 0
    /\ portOpen' = FALSE
    /\ LET written == stdin \o lastLines
       IN IF portOpen /\ run # "exited"
          THEN \E n \in 0 .. Len(written) :
                  stdin' = Append(SubSeq(written, 1, n), ControlLine("eof"))
          ELSE stdin' = <<>>
    /\ UNCHANGED <<mode, run, controlQueue, interruptEvent, turned, calls, seen,
                   dropped, level, effectiveRisk, accepted, taken, bcps>>

\* {:stop, ...} of a handler: terminate/2 tells a port it still has.
Stop(how) == Die(how, IF status = "stopped" THEN <<>> ELSE <<ControlLine("shutdown")>>)

\* Defect: the timer is not armed again.
ScheduleIdleOnce == UNCHANGED idleTimer

\* schedule_idle_timeout/1: cancels and arms, or does nothing without a timeout.
ScheduleIdle == idleTimer' = IdleTimeout

SendPrompt(p) == Send(<<PromptLine(p.label, p.blank)>>)

\* What the handlers below leave alone.
RuntimeSide == <<mode, portOpen, run, controlQueue, interruptEvent, turned,
                 calls, seen, dropped>>

-----------------------------------------------------------------------------
\* handle_call({:prompt, ...}): the label is merged before the prompt goes out.
NewPrompt(label, blank) == [id |-> accepted + 1, label |-> label, blank |-> blank]

AcceptPrompt(label) ==
    /\ alive
    /\ accepted < MaxPrompts
    /\ accepted' = accepted + 1
    /\ Elevate(label, mailbox)
    /\ UNCHANGED <<RuntimeSide, tree, ended, pendingBcp, pendingTools,
                   saveTimers, bcps>>

\* :ready sends at once and cancels the timer, which may have fired already.
PromptWhenReady(label, blank) ==
    /\ status = "ready"
    /\ AcceptPrompt(label)
    /\ SendPrompt(NewPrompt(label, blank))
    /\ status' = "running"
    /\ taken' = taken + 1
    /\ idleTimer' = FALSE
    /\ UNCHANGED queue

\* Defect: a second prompt overwrites the one that waits.
PromptOverwrites(label, blank) ==
    /\ status = "starting"
    /\ AcceptPrompt(label)
    /\ queue' = <<NewPrompt(label, blank)>>
    /\ UNCHANGED <<stdin, status, taken, idleTimer>>

PromptWhenStarting(label, blank) ==
    /\ status = "starting"
    /\ AcceptPrompt(label)
    /\ queue' = Append(queue, NewPrompt(label, blank))
    /\ UNCHANGED <<stdin, status, taken, idleTimer>>

\* A reaction waits for the running work; any other prompt interrupts it.
PromptWhenRunning(label, blank, reaction) ==
    /\ status = "running"
    /\ AcceptPrompt(label)
    /\ queue' = Append(queue, NewPrompt(label, blank))
    /\ Send(IF reaction THEN <<>> ELSE <<ControlLine("interrupt")>>)
    /\ UNCHANGED <<status, taken, idleTimer>>

PromptArrives ==
    \E label \in PromptLabels, blank \in Blanks :
        \/ PromptWhenReady(label, blank)
        \/ PromptWhenStarting(label, blank)
        \/ \E reaction \in BOOLEAN : PromptWhenRunning(label, blank, reaction)

\* bcp_query and bcp_response_delivery: passed on whatever the runtime is
\* doing, kept while it starts; status and timers do not notice.
BcpArrives ==
    /\ alive
    /\ bcps < MaxBcp
    /\ bcps' = bcps + 1
    /\ \/ /\ status \in {"ready", "running"}
          /\ Send(<<ControlLine("bcp")>>)
          /\ UNCHANGED pendingBcp
       \/ /\ status = "starting"
          /\ pendingBcp' = pendingBcp + 1
          /\ UNCHANGED stdin
    /\ UNCHANGED <<RuntimeSide, mailbox, tree, ended, status, queue,
                   pendingTools, level, effectiveRisk, idleTimer, saveTimers,
                   accepted, taken>>

\* The memory save that graceful_stop and idle_timeout begin.
BeginSave(rest) ==
    /\ Send(<<ControlLine("memory_save")>>)
    /\ status' = "saving_memory"
    /\ saveTimers' = saveTimers + 1
    /\ idleTimer' = FALSE
    /\ mailbox' = rest
    /\ UNCHANGED <<RuntimeSide, tree, ended, queue, pendingBcp, pendingTools,
                   level, effectiveRisk, accepted, taken, bcps>>

\* Defect: a starting session saves too.
GracefulStopStarting ==
    /\ alive
    /\ \/ status \in {"starting", "ready", "running"} /\ BeginSave(mailbox)
       \/ status \in {"saving_memory", "stopped"} /\ Stop("stopped") /\ UNCHANGED tree

\* handle_call({:graceful_stop, ...}): only a ready or running session saves.
GracefulStop ==
    /\ alive
    /\ \/ status \in {"ready", "running"} /\ BeginSave(mailbox)
       \/ status \notin {"ready", "running"} /\ Stop("stopped") /\ UNCHANGED tree

-----------------------------------------------------------------------------
\* Mailbox handlers.
Receives(type) ==
    /\ alive
    /\ mailbox # <<>>
    /\ Head(mailbox).type = type

\* Defect: the prompt that is sent stays in the queue.
NextPromptKept ==
    /\ queue # <<>>
    /\ SendPrompt(Head(queue))
    /\ taken' = taken + 1
    /\ status' = "running"
    /\ UNCHANGED <<queue, idleTimer>>

\* The head of the queue is sent; the caller says what :running started from.
NextPrompt ==
    /\ queue # <<>>
    /\ SendPrompt(Head(queue))
    /\ queue' = Tail(queue)
    /\ taken' = taken + 1
    /\ status' = "running"
    /\ UNCHANGED idleTimer

GoIdle ==
    /\ queue = <<>>
    /\ status' = "ready"
    /\ ScheduleIdle
    /\ UNCHANGED <<stdin, queue, taken>>

\* What neither branch of an answer's handler changes.
AfterAnswer ==
    /\ mailbox' = Tail(mailbox)
    /\ UNCHANGED <<RuntimeSide, ended, pendingTools, level, effectiveRisk,
                   saveTimers, accepted, bcps>>

\* Kept BCP messages go first, and then the first queued prompt, the trigger,
\* is thrown away. With no BCP message it is sent.
HandleReady ==
    /\ Receives("ready")
    /\ AfterAnswer
    /\ UNCHANGED tree
    /\ pendingBcp' = 0
    /\ \/ /\ pendingBcp > 0
          /\ Send([i \in 1 .. pendingBcp |-> ControlLine("bcp")])
          /\ IF queue # <<>>
             THEN /\ status' = "running"
                  /\ queue' = Tail(queue)
                  /\ taken' = taken + 1
                  /\ UNCHANGED idleTimer
             ELSE /\ status' = "ready"
                  /\ idleTimer' = (IdleTimeout /\ mode # "reflection")
                  /\ UNCHANGED <<queue, taken>>
       \/ pendingBcp = 0 /\ NextPrompt
       \/ pendingBcp = 0 /\ mode # "reflection" /\ GoIdle
       \/ /\ pendingBcp = 0
          /\ mode = "reflection"
          /\ queue = <<>>
          /\ status' = "ready"
          /\ UNCHANGED <<stdin, queue, taken, idleTimer>>

\* The status is not looked at: a session that is saving memory goes back to
\* :ready or :running.
HandleInterrupted ==
    /\ Receives("interrupted")
    /\ AfterAnswer
    /\ UNCHANGED <<tree, pendingBcp>>
    /\ NextPrompt \/ GoIdle

\* Defect: the call is not remembered, so its result is not classified.
HandleToolUseForgets ==
    /\ Receives("tool_use")
    /\ mailbox' = Tail(mailbox)
    /\ UNCHANGED <<RuntimeSide, stdin, tree, ended, status, queue, pendingBcp,
                   pendingTools, level, effectiveRisk, idleTimer, saveTimers,
                   accepted, taken, bcps>>

HandleToolUse ==
    /\ Receives("tool_use")
    /\ pendingTools' = pendingTools \cup Head(mailbox).tools
    /\ mailbox' = Tail(mailbox)
    /\ UNCHANGED <<RuntimeSide, stdin, tree, ended, status, queue, pendingBcp,
                   level, effectiveRisk, idleTimer, saveTimers, accepted, taken,
                   bcps>>

\* Only a result whose call is known is classified.
HandleToolResult ==
    /\ Receives("tool_result")
    /\ LET known == Head(mailbox).tools \cap pendingTools
       IN /\ pendingTools' = pendingTools \ known
          /\ \/ known = {} /\ Elevate(NoRisk, Tail(mailbox))
             \/ \E t \in known : Elevate(ToolLabel[t], Tail(mailbox))
    /\ UNCHANGED <<RuntimeSide, stdin, tree, ended, status, queue, pendingBcp,
                   idleTimer, saveTimers, accepted, taken, bcps>>

\* commit_workspace_writes/1 first, with the levels of this moment; then the
\* session stops, sends the next prompt, or goes idle.
HandleResult ==
    /\ Receives("result")
    /\ tree' = NoRisk
    /\ \/ /\ status = "saving_memory"
          /\ Stop("memory_saved")
       \/ /\ status # "saving_memory"
          /\ mode = "reflection"
          /\ Stop("reflected")
       \/ /\ status # "saving_memory"
          /\ mode # "reflection"
          /\ AfterAnswer
          /\ UNCHANGED pendingBcp
          /\ NextPrompt \/ GoIdle

\* state.port becomes nil. Timers stay as they are.
HandlePortDown ==
    /\ Receives("port_down")
    /\ \/ mode = "reflection" /\ Die("port_down", <<>>) /\ UNCHANGED tree
       \/ /\ mode # "reflection"
          /\ AfterAnswer
          /\ status' = "stopped"
          /\ UNCHANGED <<stdin, tree, queue, pendingBcp, idleTimer, taken>>

\* No look at the status either: a timeout that was in the mailbox when its
\* timer was cancelled stops a session that has work again.
HandleIdleTimeout ==
    /\ Receives("idle_timeout")
    /\ \/ status # "stopped" /\ BeginSave(Tail(mailbox))
       \/ status = "stopped" /\ Stop("idle") /\ UNCHANGED tree

\* Any state but :saving_memory takes it for an unexpected message.
HandleSaveTimeout ==
    /\ Receives("memory_save_timeout")
    /\ \/ status = "saving_memory" /\ Stop("save_timeout") /\ UNCHANGED tree
       \/ /\ status # "saving_memory"
          /\ AfterAnswer
          /\ UNCHANGED <<stdin, tree, status, queue, pendingBcp, idleTimer, taken>>

\* Defect: a session that is saving memory ignores the kill.
HandleKillUnlessSaving ==
    /\ Receives("kill_risk_exceeded")
    /\ \/ status # "saving_memory" /\ Stop("risk_exceeded") /\ UNCHANGED tree
       \/ /\ status = "saving_memory"
          /\ AfterAnswer
          /\ UNCHANGED <<stdin, tree, status, queue, pendingBcp, idleTimer, taken>>

HandleKill ==
    /\ Receives("kill_risk_exceeded")
    /\ Stop("risk_exceeded")
    /\ UNCHANGED tree

HandleMessage ==
    \/ HandleReady
    \/ HandleInterrupted
    \/ HandleToolUse
    \/ HandleToolResult
    \/ HandleResult
    \/ HandlePortDown
    \/ HandleIdleTimeout
    \/ HandleSaveTimeout
    \/ HandleKill

-----------------------------------------------------------------------------
\* The VM delivers a timer by appending to the mailbox.
Fires(type) ==
    /\ mailbox' = Append(mailbox, Note(type))
    /\ UNCHANGED <<RuntimeSide, stdin, tree, ended, status, queue, pendingBcp,
                   pendingTools, level, effectiveRisk, accepted, taken, bcps>>

IdleTimerFires ==
    /\ idleTimer
    /\ idleTimer' = FALSE
    /\ UNCHANGED saveTimers
    /\ Fires("idle_timeout")

\* Defect: a timeout arrives for a timer that does not run.
SaveTimerFiresUnarmed ==
    /\ alive
    /\ saveTimers' = saveTimers - 1
    /\ UNCHANGED idleTimer
    /\ Fires("memory_save_timeout")

SaveTimerFires ==
    /\ saveTimers > 0
    /\ saveTimers' = saveTimers - 1
    /\ UNCHANGED idleTimer
    /\ Fires("memory_save_timeout")

\* AgentPort gets exit_status: it sends port_down and ends normally. (The
\* session's monitor also fires, but then state.port is already nil.)
PortExits ==
    /\ run = "exited"
    /\ portOpen
    /\ portOpen' = FALSE
    /\ stdin' = <<>>
    /\ mailbox' = Append(mailbox, Note("port_down"))
    /\ UNCHANGED <<mode, run, controlQueue, interruptEvent, turned, calls, seen,
                   tree, dropped, sessionVars>>

\* A line cast to AgentPort before it learns of the exit: Port.command raises,
\* and the link takes the session with it.
PortCommandFails ==
    /\ alive
    /\ run = "exited"
    /\ portOpen
    /\ stdin # <<>>
    /\ Die("port_down", <<>>)
    /\ UNCHANGED tree

SessionNext ==
    \/ PromptArrives
    \/ BcpArrives
    \/ GracefulStop
    \/ HandleMessage
    \/ IdleTimerFires
    \/ SaveTimerFires
    \/ PortExits
    \/ PortCommandFails

Next == SessionNext \/ (RuntimeNext /\ UNCHANGED sessionVars)

\* The BEAM schedules the session and its timers fire; nothing is assumed of
\* clients, nor of the container.
GatewayFairness ==
    /\ WF_vars(HandleMessage)
    /\ WF_vars(IdleTimerFires)
    /\ WF_vars(SaveTimerFires)
    /\ WF_vars(PortExits)

Spec == Init /\ [][Next]_vars /\ GatewayFairness
-----------------------------------------------------------------------------
Pending(types) == \E i \in DOMAIN mailbox : mailbox[i].type \in types

\* elevate_risk's "kill, don't downgrade": a living session whose levels are
\* over the ceiling always has its own kill in the mailbox, however the levels
\* got there and whatever else is queued.
OverCeiling == Exceeds(LabelRisk(level, Capability), Ceiling)
KillPending == alive /\ OverCeiling => Pending({"kill_risk_exceeded"})

\* "queued FIFO, never overwritten": what waits is exactly the prompts accepted
\* and not yet taken, in order; and :ready means that none waits, for a prompt
\* then overtakes the queue.
FifoHandoff ==
    alive =>
        /\ accepted = taken + Len(queue)
        /\ \A i \in DOMAIN queue : queue[i].id = taken + i
        /\ status = "ready" => queue = <<>>

\* Everything that has entered the model's context is in the session's levels
\* or reported by a tool result the session has still to handle: no path
\* (queue, interrupt, retry, memory save, restart of a turn) leaks past the
\* taint tracking.
Reported == UNION {mailbox[i].tools : i \in {j \in DOMAIN mailbox :
                                              mailbox[j].type = "tool_result"}}
ContextIsTracked ==
    alive =>
        /\ seen.taint <= level.taint
           \/ \E t \in Reported : seen.taint <= ToolLabel[t].taint
        /\ seen.sens <= level.sens
           \/ \E t \in Reported : seen.sens <= ToolLabel[t].sens

\* A session that says :running is owed an answer that will move it on: a turn
\* that runs or is still to run, an answer in the mailbox, or the port's exit.
\* (A blank prompt is the exception: the runtime answers it with an error event
\* alone, and the session stays :running.)
Queued(lines) == \E i \in DOMAIN lines : lines[i].type # "interrupt"
RunningIsOwedAnswer ==
    alive /\ status = "running" /\ ~dropped =>
        \/ run \in Turn
        \/ Queued(stdin \o controlQueue)
        \/ Pending({"result", "interrupted", "port_down"})
        \/ run = "exited" /\ portOpen

\* An idle session is going to be reclaimed: its timer runs or has fired.
IdleSessionExpires ==
    alive /\ status = "ready" /\ mode = "normal" /\ IdleTimeout =>
        idleTimer \/ Pending({"idle_timeout"})

\* No docker stop is ever run for an ended session: end of file on stdin alone
\* brings its container down, behind whatever work was queued in it.
OrphanExits == RuntimeFairness => (~alive ~> run = "exited")

\* What must end ends, whatever the container and the clients do: the 30 s timer
\* ends :saving_memory, and a session over its ceiling is killed.
SavingEnds == (alive /\ status = "saving_memory") ~> ~(alive /\ status = "saving_memory")
OverCeilingEnds == (alive /\ OverCeiling) ~> ~alive
DueEndsCome == SavingEnds /\ OverCeilingEnds

\* The session keeps the promise of SessionPromise: prompts in order, each
\* once, none before its label is merged; levels that only rise; nothing after
\* the end.
Promise == INSTANCE SessionPromise WITH open <- alive, waiting <- queue, handed <- taken
KeepsPromise == Promise!Spec

\* What the other parts of the gateway rely on: the session goes through its
\* life as SessionLife says, accepts prompts only there, and a stopped session
\* never comes back to work.
life == IF ~alive THEN "gone"
        ELSE IF status \in {"ready", "running"} THEN "open"
        ELSE IF status = "saving_memory" THEN "saving"
        ELSE status
FollowsLife ==
    [][ /\ life' # life => life' \in Successors(mode, life)
        /\ accepted' # accepted => life \in Accepting ]_vars

-----------------------------------------------------------------------------
\* Claims of the repository that the code does not meet.

\* stop/2: the shutdown proceeds regardless of the memory save.
StopCompletes == (alive /\ status = "saving_memory") ~> ~alive

\* "a file written before the session's risk escalated keeps the lower label":
\* what a commit finds in the tree was written under no more than the levels
\* the commit is labelled with.
CommitCoversWrites == [][HandleResult => Below(tree, level)]_vars
=============================================================================
