---------------------------- MODULE AgentRuntime ----------------------------
(***************************************************************************)
(* The agent container: runtime/agent_runner.py, one asyncio process that  *)
(* reads JSON lines on stdin, runs turns of the Claude SDK client and      *)
(* writes events on stdout. Its stdin is fed by the gateway's AgentPort;   *)
(* its stdout is forwarded, in order, to the mailbox of the AgentSession.  *)
(*                                                                         *)
(* Two tasks of the event loop interleave: the reader (ReadStdin), which   *)
(* puts control messages on a queue but raises interrupts at once, and the *)
(* main loop, which takes one control message and runs it to its end.      *)
(* Message text, usage numbers, logging and the tool-response queues are   *)
(* left out. Leaf of the hierarchy: AgentSession composes it.              *)
(***************************************************************************)
EXTENDS Naturals, Sequences, RiskLevels

CONSTANTS
    Modes,      \* the modes a session may be started in
    Tools,      \* the tool calls the model may make; each is made at most once
    ToolLabel,  \* what InformationClassifier makes of each call's result
    CanWrite    \* the agent has a tool that writes into a mounted work tree

ASSUME RuntimeAssumption ==
    /\ Modes \subseteq {"normal", "reflection"}
    /\ ToolLabel \in [Tools -> Label]
    /\ CanWrite \in BOOLEAN

VARIABLES
    mode,            \* "normal" | "reflection" (TRI_ONYX_MODE)
    stdin,           \* lines written by the gateway and not yet read
    mailbox,         \* the gateway session's mailbox; events are appended here
    portOpen,        \* the AgentPort process is alive and forwards both ways
    run,             \* what the main loop is doing, see Run
    controlQueue,    \* InboundDispatcher.control_queue
    interruptEvent,  \* InboundDispatcher.interrupt_event
    turned,          \* the running turn made a tool call, so num_turns > 0
    calls,           \* each tool call: not yet made, being executed, returned
    seen,            \* history: join of everything put in the model's context
    tree,            \* history: join of seen over the writes not yet committed
    dropped          \* history: a blank prompt was thrown away

runtimeVars == <<mode, stdin, mailbox, portOpen, run, controlQueue,
                 interruptEvent, turned, calls, seen, tree, dropped>>

\* "prompt" and "bcp" are interruptible turns; "retry" is the "Continue."
\* follow-up, "save" the memory-save turn, "reflect" the single reflection turn.
Turn == {"prompt", "bcp", "retry", "save", "reflect"}
Interruptible == {"prompt", "bcp"}
Run == Turn \cup {"boot", "idle", "exited"}

\* A line on stdin. Only prompts carry a label and may be blank.
Line == [type : {"prompt", "bcp", "interrupt", "memory_save", "shutdown", "eof"},
         label : Label, blank : BOOLEAN]
PromptLine(label, blank) == [type |-> "prompt", label |-> label, blank |-> blank]
ControlLine(type) == [type |-> type, label |-> NoRisk, blank |-> FALSE]

\* A message of the session's mailbox: an event of the runtime, or one of the
\* session's own timers and self-sends. work names the turn a result ends.
NoWork == "none"
Message ==
    [type : {"ready", "interrupted", "tool_use", "tool_result", "result",
             "port_down", "idle_timeout", "memory_save_timeout",
             "kill_risk_exceeded"},
     tools : SUBSET Tools, work : Turn \cup {NoWork}]
Note(type) == [type |-> type, tools |-> {}, work |-> NoWork]
ToolNote(type, t) == [type |-> type, tools |-> {t}, work |-> NoWork]
ResultOf(turn) == [type |-> "result", tools |-> {}, work |-> turn]

\* emit_*: one line on stdout, lost when nobody holds the other end.
Emit(events) == mailbox' = IF portOpen THEN mailbox \o events ELSE mailbox

-----------------------------------------------------------------------------
RuntimeInit ==
    /\ mode \in Modes
    /\ stdin = <<>>
    /\ mailbox = <<>>
    /\ portOpen = TRUE
    /\ run = "boot"
    /\ controlQueue = <<>>
    /\ interruptEvent = FALSE
    /\ turned = FALSE
    /\ calls = [t \in Tools |-> "unused"]
    /\ tree = NoRisk
    /\ dropped = FALSE

\* The client is connected and emit_ready is called. A reflection container
\* goes on to its one turn without reading the control queue.
Ready ==
    /\ run = "boot"
    /\ run' = IF mode = "reflection" THEN "reflect" ELSE "idle"
    /\ Emit(<<Note("ready")>>)
    /\ UNCHANGED <<mode, stdin, portOpen, controlQueue, interruptEvent, turned,
                   calls, seen, tree, dropped>>

\* The reader task: an interrupt sets the event while earlier control messages
\* still wait in the queue; end of file puts the final None.
ReadStdin ==
    /\ run # "exited"
    /\ stdin # <<>>
    /\ stdin' = Tail(stdin)
    /\ IF Head(stdin).type = "interrupt"
       THEN /\ interruptEvent' = TRUE
            /\ UNCHANGED controlQueue
       ELSE /\ controlQueue' = Append(controlQueue, Head(stdin))
            /\ UNCHANGED interruptEvent
    /\ UNCHANGED <<mode, mailbox, portOpen, run, turned, calls, seen, tree, dropped>>

\* The process ends: its queues go with it, and so does the pipe unless the
\* gateway still holds the other end.
Exit ==
    /\ run' = "exited"
    /\ turned' = FALSE
    /\ controlQueue' = <<>>
    /\ interruptEvent' = FALSE
    /\ stdin' = IF portOpen THEN stdin ELSE <<>>
    /\ UNCHANGED <<mode, portOpen, calls, seen, tree, dropped>>

\* The main loop takes the next control message.
Control(type) ==
    /\ run = "idle"
    /\ controlQueue # <<>>
    /\ Head(controlQueue).type = type

\* run_prompt_interruptible clears the event: an interrupt meant for earlier
\* work does not reach this turn, and one read before the turn began is lost.
StartTurn(type) ==
    /\ Control(type)
    /\ ~Head(controlQueue).blank
    /\ run' = type
    /\ interruptEvent' = FALSE
    /\ seen' = Join(seen, Head(controlQueue).label)
    /\ controlQueue' = Tail(controlQueue)
    /\ UNCHANGED <<mode, stdin, mailbox, portOpen, turned, calls, tree, dropped>>

\* "Empty prompt content": an error event, which the session only logs, and
\* neither a result nor an interrupted.
RefuseBlank ==
    /\ Control("prompt")
    /\ Head(controlQueue).blank
    /\ dropped' = TRUE
    /\ controlQueue' = Tail(controlQueue)
    /\ UNCHANGED <<mode, stdin, mailbox, portOpen, run, interruptEvent, turned,
                   calls, seen, tree>>

\* The memory-save turn is not interruptible and its event is not cleared.
StartSave ==
    /\ Control("memory_save")
    /\ run' = "save"
    /\ controlQueue' = Tail(controlQueue)
    /\ UNCHANGED <<mode, stdin, mailbox, portOpen, interruptEvent, turned,
                   calls, seen, tree, dropped>>

\* Defect: end of file does not leave the loop.
LeaveLoopOnShutdown ==
    /\ Control("shutdown")
    /\ Exit
    /\ UNCHANGED mailbox

\* A shutdown message or the None of end of file leaves the loop.
LeaveLoop ==
    /\ Control("shutdown") \/ Control("eof")
    /\ Exit
    /\ UNCHANGED mailbox

NextControl ==
    \/ \E type \in Interruptible : StartTurn(type)
    \/ RefuseBlank
    \/ StartSave
    \/ LeaveLoop

-----------------------------------------------------------------------------
\* During a turn. The SDK executes the tool; its result enters the model's
\* context and is reported on stdout. A call left open by an aborted turn stays
\* in the SDK's stream, so it may be reported in a later turn.

ToolUse(t) ==
    /\ run \in Turn
    /\ calls[t] = "unused"
    /\ calls' = [calls EXCEPT ![t] = "open"]
    /\ turned' = TRUE
    /\ Emit(<<ToolNote("tool_use", t)>>)
    /\ UNCHANGED <<mode, stdin, portOpen, run, controlQueue, interruptEvent,
                   seen, tree, dropped>>

ToolReturns(t) ==
    /\ run \in Turn
    /\ calls[t] = "open"
    /\ calls' = [calls EXCEPT ![t] = "returned"]
    /\ seen' = Join(seen, ToolLabel[t])
    /\ Emit(<<ToolNote("tool_result", t)>>)
    /\ UNCHANGED <<mode, stdin, portOpen, run, controlQueue, interruptEvent,
                   turned, tree, dropped>>

\* The model writes what it knows into a mounted work tree (Write, Edit, Bash).
WriteTree ==
    /\ CanWrite
    /\ run \in Turn
    /\ tree' = Join(tree, seen)
    /\ UNCHANGED <<mode, stdin, mailbox, portOpen, run, controlQueue,
                   interruptEvent, turned, calls, seen, dropped>>

\* How a turn ends: its successor and the events it leaves.
EndTurn(next, events) ==
    /\ run' = next
    /\ turned' = FALSE
    /\ Emit(events)
    /\ UNCHANGED <<mode, stdin, portOpen, controlQueue, interruptEvent, calls,
                   seen, tree, dropped>>

\* Defect: the aborted turn is not reported.
AbortTurnSilently ==
    /\ run \in Interruptible
    /\ interruptEvent
    /\ EndTurn("idle", <<>>)

\* The event is looked at between SDK messages: no result, only interrupted.
AbortTurn ==
    /\ run \in Interruptible
    /\ interruptEvent
    /\ EndTurn("idle", <<Note("interrupted")>>)

\* A result, from a ResultMessage or from an exception or a cut stream.
CompleteTurn ==
    /\ run \in Interruptible
    /\ EndTurn("idle", <<ResultOf(run)>>)

\* The event was set while the last message was awaited: the result has been
\* emitted when the loop looks at the event, so both answers go out.
CompleteAndAbort ==
    /\ run \in Interruptible
    /\ interruptEvent
    /\ EndTurn("idle", <<ResultOf(run), Note("interrupted")>>)

\* No assistant message came: the result is suppressed and "Continue." is sent.
SuppressEmptyResult ==
    /\ run \in Interruptible
    /\ ~turned
    /\ ~interruptEvent
    /\ EndTurn("retry", <<>>)

\* No assistant message came because of an exception or a cut stream: the error result
\* is emitted all the same, and "Continue." is sent.
FailEmptyTurn ==
    /\ run \in Interruptible
    /\ ~turned
    /\ EndTurn("retry", <<ResultOf(run)>>)

RetryCompletes == run = "retry" /\ EndTurn("idle", <<ResultOf(run)>>)

\* The memory-save and the reflection turn are the last of their container.
LastTurnCompletes ==
    /\ run \in {"save", "reflect"}
    /\ Emit(<<ResultOf(run)>>)
    /\ Exit

\* The process dies: an exception out of main, the OOM killer, docker.
Crash ==
    /\ run # "exited"
    /\ Exit
    /\ UNCHANGED mailbox

TurnEnds ==
    \/ AbortTurn
    \/ CompleteTurn
    \/ CompleteAndAbort
    \/ SuppressEmptyResult
    \/ FailEmptyTurn
    \/ RetryCompletes
    \/ LastTurnCompletes

RuntimeNext ==
    \/ Ready
    \/ ReadStdin
    \/ NextControl
    \/ \E t \in Tools : ToolUse(t) \/ ToolReturns(t)
    \/ WriteTree
    \/ TurnEnds
    \/ Crash

\* The event loop runs and the model's turns end (max_turns bounds them).
RuntimeFairness ==
    /\ WF_runtimeVars(Ready)
    /\ WF_runtimeVars(ReadStdin)
    /\ WF_runtimeVars(NextControl)
    /\ WF_runtimeVars(TurnEnds)
=============================================================================
