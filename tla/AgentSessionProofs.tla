------------------------- MODULE AgentSessionProofs -------------------------
(***************************************************************************)
(* Theorems about the level tables, and about AgentSession for every set   *)
(* of tool calls, every label they carry, every ceiling and every bound.   *)
(***************************************************************************)
EXTENDS AgentSession, TLAPS

-----------------------------------------------------------------------------
\* Levels.

\* higher_levels/2 returns a classification.
LEMMA JoinType ==
    ASSUME NEW k \in Label, NEW l \in Label
    PROVE  Join(k, l) \in Label
BY DEF Join, HigherLevel, Label, Level, Low, Medium, High

\* Joining loses nothing: both exposures stay covered.
LEMMA JoinCovers ==
    ASSUME NEW k \in Label, NEW l \in Label
    PROVE  Below(k, Join(k, l)) /\ Below(l, Join(k, l))
BY DEF Below, Join, HigherLevel, Label, Level, Low, Medium, High

\* Joining with a covered exposure changes nothing.
LEMMA JoinCovered ==
    ASSUME NEW k \in Label, NEW l \in Label, Below(l, k)
    PROVE  Join(k, l) = k
BY DEF Below, Join, HigherLevel, Label, Level, Low, Medium, High

LEMMA BelowTransitive ==
    ASSUME NEW j \in Label, NEW k \in Label, NEW l \in Label,
           Below(j, k), Below(k, l)
    PROVE  Below(j, l)
BY DEF Below, Label, Level, Low, Medium, High

\* NoRisk is a classification below every other one.
LEMMA NoRiskLeast ==
    /\ NoRisk \in Label
    /\ \A k \in Label : Below(NoRisk, k) /\ Join(k, NoRisk) = k
BY DEF NoRisk, Below, Join, HigherLevel, Label, Level, Low, Medium, High

\* The table is the sum of the two ranks less one, floored at :low.
LEMMA RiskMatrixIsSum ==
    ASSUME NEW t \in Level, NEW s \in Level
    PROVE  RiskMatrix(t, s) = IF t + s = 0 THEN 0 ELSE t + s - 1
BY DEF RiskMatrix, Level, Low, Medium, High

LEMMA RiskType ==
    ASSUME NEW l \in Label, NEW c \in Level
    PROVE  LabelRisk(l, c) \in Risk
<1>1. l.taint \in Level /\ l.sens \in Level
  BY DEF Label
<1>2. RiskMatrix(l.taint, l.sens) \in Risk
  BY <1>1 DEF RiskMatrix, Level, Risk, Low, Medium, High
<1>3. QED
  BY <1>2 DEF LabelRisk, EffectiveRisk, CapabilityAdjustment, Level, Risk, Low, Medium, High

\* More exposure never lowers the risk, whatever the capability: merging a
\* classification cannot bring a session back under its ceiling.
THEOREM RiskMonotone ==
    ASSUME NEW k \in Label, NEW l \in Label, NEW c \in Level, Below(k, l)
    PROVE  LabelRisk(k, c) <= LabelRisk(l, c)
<1>1. /\ k.taint \in Level /\ k.sens \in Level
      /\ l.taint \in Level /\ l.sens \in Level
      /\ k.taint <= l.taint /\ k.sens <= l.sens
  BY DEF Label, Below
<1>2. /\ RiskMatrix(k.taint, k.sens) \in Risk
      /\ RiskMatrix(l.taint, l.sens) \in Risk
      /\ RiskMatrix(k.taint, k.sens) <= RiskMatrix(l.taint, l.sens)
  BY <1>1 DEF RiskMatrix, Level, Risk, Low, Medium, High
<1>3. QED
  BY <1>2 DEF LabelRisk, EffectiveRisk, CapabilityAdjustment, Level, Risk, Low, Medium, High

-----------------------------------------------------------------------------
\* Types of the operators the actions are built from.

LEMMA EmptyTypes == <<>> \in Seq(Line) /\ <<>> \in Seq(Message) /\ <<>> \in Seq(Prompt)
OBVIOUS

LEMMA SingletonTypes ==
    /\ \A l \in Line : <<l>> \in Seq(Line)
    /\ \A m \in Message : <<m>> \in Seq(Message)
OBVIOUS

LEMMA LineTypes ==
    /\ ControlLine("bcp") \in Line
    /\ ControlLine("interrupt") \in Line
    /\ ControlLine("memory_save") \in Line
    /\ ControlLine("shutdown") \in Line
    /\ ControlLine("eof") \in Line
    /\ \A label \in Label, blank \in BOOLEAN : PromptLine(label, blank) \in Line
BY NoRiskLeast DEF ControlLine, PromptLine, Line

LEMMA MessageTypes ==
    /\ Note("ready") \in Message
    /\ Note("interrupted") \in Message
    /\ Note("port_down") \in Message
    /\ Note("idle_timeout") \in Message
    /\ Note("memory_save_timeout") \in Message
    /\ Note("kill_risk_exceeded") \in Message
    /\ \A t \in Tools : /\ ToolNote("tool_use", t) \in Message
                        /\ ToolNote("tool_result", t) \in Message
    /\ \A turn \in Turn : ResultOf(turn) \in Message
BY DEF Note, ToolNote, ResultOf, Message, NoWork

\* What a session may find in its mailbox after it raised its levels.
LEMMA ElevateType ==
    ASSUME TypeOK, NEW label \in Label, NEW rest \in Seq(Message),
           Elevate(label, rest)
    PROVE  /\ level' \in Label
           /\ effectiveRisk' \in Risk
           /\ mailbox' \in Seq(Message)
<1>1. Join(level, label) \in Label
  BY JoinType DEF TypeOK
<1>2. LabelRisk(Join(level, label), Capability) \in Risk
  BY <1>1, RiskType, RiskAssumption
<1>3. Append(rest, Note("kill_risk_exceeded")) \in Seq(Message)
  BY MessageTypes
<1>4. QED
  BY <1>1, <1>2, <1>3 DEF Elevate, TypeOK

LEMMA SendType ==
    ASSUME TypeOK, NEW lines \in Seq(Line), Send(lines)
    PROVE  stdin' \in Seq(Line)
BY DEF Send, TypeOK

LEMMA EmitType ==
    ASSUME TypeOK, NEW events \in Seq(Message), Emit(events)
    PROVE  mailbox' \in Seq(Message)
BY DEF Emit, TypeOK

\* The end of a session leaves a session state of the right type.
LEMMA DieType ==
    ASSUME TypeOK, NEW how \in Ending, NEW lines \in Seq(Line),
           Die(how, lines), tree' \in Label
    PROVE  TypeOK'
<1>1. stdin' \in Seq(Line)
  <2>1. CASE portOpen /\ run # "exited"
    <3> DEFINE written == stdin \o lines
    <3>1. written \in Seq(Line)
      BY DEF TypeOK
    <3>2. PICK n \in 0 .. Len(written) :
             stdin' = Append(SubSeq(written, 1, n), ControlLine("eof"))
      BY <2>1 DEF Die
    <3>3. SubSeq(written, 1, n) \in Seq(Line)
      BY <3>1, <3>2
    <3>4. QED
      BY <3>2, <3>3, LineTypes
  <2>2. CASE ~(portOpen /\ run # "exited")
    <3>1. stdin' = <<>>
      BY <2>2 DEF Die
    <3>2. QED
      BY <3>1
  <2>3. QED
    BY <2>1, <2>2
<1>2. QED
  BY <1>1, EmptyTypes DEF Die, TypeOK, Status

LEMMA StopType ==
    ASSUME TypeOK, NEW how \in Ending, Stop(how), tree' \in Label
    PROVE  TypeOK'
<1>1. (IF status = "stopped" THEN <<>> ELSE <<ControlLine("shutdown")>>) \in Seq(Line)
  BY LineTypes
<1>2. QED
  BY <1>1, DieType DEF Stop

-----------------------------------------------------------------------------
\* Every step preserves the types, the container's first.

LEMMA ExitType ==
    ASSUME TypeOK, Exit
    PROVE  /\ stdin' \in Seq(Line)
           /\ controlQueue' \in Seq(Line)
           /\ run' \in Run
           /\ UNCHANGED <<mode, portOpen, calls, seen, tree, dropped>>
           /\ interruptEvent' \in BOOLEAN
           /\ turned' \in BOOLEAN
BY EmptyTypes DEF Exit, TypeOK, Run

LEMMA EndTurnType ==
    ASSUME TypeOK, UNCHANGED sessionVars,
           NEW next \in Run, NEW events \in Seq(Message), EndTurn(next, events)
    PROVE  TypeOK'
<1>1. mailbox' \in Seq(Message)
  BY EmitType DEF EndTurn
<1>2. QED
  BY <1>1 DEF EndTurn, TypeOK, sessionVars

LEMMA RuntimeType ==
    ASSUME TypeOK, RuntimeNext, UNCHANGED sessionVars
    PROVE  TypeOK'
<1>1. CASE Ready
  <2>1. mailbox' \in Seq(Message)
    BY <1>1, EmitType, SingletonTypes, MessageTypes DEF Ready
  <2>2. QED
    BY <1>1, <2>1 DEF Ready, TypeOK, sessionVars, Run, Turn
<1>2. CASE ReadStdin
  <2>1. Head(stdin) \in Line /\ Tail(stdin) \in Seq(Line)
    BY <1>2 DEF ReadStdin, TypeOK
  <2>2. Append(controlQueue, Head(stdin)) \in Seq(Line)
    BY <2>1 DEF TypeOK
  <2>3. QED
    BY <1>2, <2>1, <2>2 DEF ReadStdin, TypeOK, sessionVars
<1>3. CASE NextControl
  <2>1. controlQueue # <<>> => /\ Head(controlQueue).label \in Label
                               /\ Tail(controlQueue) \in Seq(Line)
    <3>1. controlQueue # <<>> => /\ Head(controlQueue) \in Line
                                 /\ Tail(controlQueue) \in Seq(Line)
      BY DEF TypeOK
    <3>2. \A l \in Line : l.label \in Label
      BY DEF Line
    <3>3. QED
      BY <3>1, <3>2
  <2>2. ASSUME NEW type \in Interruptible, StartTurn(type)
        PROVE  TypeOK'
    <3>1. seen' \in Label
      BY <2>1, <2>2, JoinType DEF StartTurn, Control, TypeOK
    <3>2. QED
      BY <2>1, <2>2, <3>1
      DEF StartTurn, Control, TypeOK, sessionVars, Interruptible, Run, Turn
  <2>3. CASE RefuseBlank
    BY <2>1, <2>3 DEF RefuseBlank, Control, TypeOK, sessionVars
  <2>4. CASE StartSave
    BY <2>1, <2>4 DEF StartSave, Control, TypeOK, sessionVars, Run, Turn
  <2>5. CASE LeaveLoop
    BY <2>5, ExitType DEF LeaveLoop, TypeOK, sessionVars
  <2>6. QED
    BY <1>3, <2>2, <2>3, <2>4, <2>5 DEF NextControl
<1>4. ASSUME NEW t \in Tools, ToolUse(t)
      PROVE  TypeOK'
  <2>1. mailbox' \in Seq(Message)
    BY <1>4, EmitType, SingletonTypes, MessageTypes DEF ToolUse
  <2>2. QED
    BY <1>4, <2>1 DEF ToolUse, TypeOK, sessionVars
<1>5. ASSUME NEW t \in Tools, ToolReturns(t)
      PROVE  TypeOK'
  <2>1. mailbox' \in Seq(Message)
    BY <1>5, EmitType, SingletonTypes, MessageTypes DEF ToolReturns
  <2>2. seen' \in Label
    BY <1>5, JoinType, RuntimeAssumption DEF ToolReturns, TypeOK
  <2>3. QED
    BY <1>5, <2>1, <2>2 DEF ToolReturns, TypeOK, sessionVars
<1>6. CASE WriteTree
  <2>1. tree' \in Label
    BY <1>6, JoinType DEF WriteTree, TypeOK
  <2>2. QED
    BY <1>6, <2>1 DEF WriteTree, TypeOK, sessionVars
<1>7. CASE TurnEnds
  <2>1. /\ "idle" \in Run /\ "retry" \in Run
        /\ run \in Turn => ResultOf(run) \in Message
        /\ Interruptible \subseteq Turn
    BY MessageTypes DEF Run, Turn, Interruptible
  <2>2. CASE AbortTurn
    BY <2>1, <2>2, SingletonTypes, EndTurnType, MessageTypes DEF AbortTurn
  <2>3. CASE CompleteTurn
    BY <2>1, <2>3, EndTurnType, SingletonTypes DEF CompleteTurn
  <2>4. CASE CompleteAndAbort
    <3>1. <<ResultOf(run), Note("interrupted")>> \in Seq(Message)
      BY <2>1, <2>4, MessageTypes DEF CompleteAndAbort
    <3>2. QED
      BY <2>1, <2>4, <3>1, EndTurnType DEF CompleteAndAbort
  <2>5. CASE SuppressEmptyResult
    <3>1. <<>> \in Seq(Message)
      OBVIOUS
    <3>2. QED
      BY <2>1, <2>5, <3>1, EndTurnType DEF SuppressEmptyResult
  <2>6. CASE FailEmptyTurn
    BY <2>1, <2>6, EndTurnType, SingletonTypes DEF FailEmptyTurn
  <2>7. CASE RetryCompletes
    BY <2>1, <2>7, EndTurnType, SingletonTypes DEF RetryCompletes, Turn
  <2>8. CASE LastTurnCompletes
    <3>1. mailbox' \in Seq(Message)
      BY <2>1, <2>8, EmitType, SingletonTypes DEF LastTurnCompletes, Turn
    <3>2. QED
      BY <2>8, <3>1, ExitType DEF LastTurnCompletes, TypeOK, sessionVars
  <2>9. QED
    BY <1>7, <2>2, <2>3, <2>4, <2>5, <2>6, <2>7, <2>8 DEF TurnEnds
<1>8. CASE Crash
  BY <1>8, ExitType DEF Crash, TypeOK, sessionVars
<1>9. QED
  BY <1>1, <1>2, <1>3, <1>4, <1>5, <1>6, <1>7, <1>8 DEF RuntimeNext

-----------------------------------------------------------------------------
\* The session's steps.

LEMMA ReceivesType ==
    ASSUME TypeOK, NEW type, Receives(type)
    PROVE  Head(mailbox) \in Message /\ Tail(mailbox) \in Seq(Message)
BY DEF Receives, TypeOK

\* What the queue gives out is a prompt, and what is left is a queue.
LEMMA QueueType ==
    ASSUME TypeOK
    PROVE  queue # <<>> =>
               /\ Head(queue) \in Prompt
               /\ Tail(queue) \in Seq(Prompt)
               /\ <<PromptLine(Head(queue).label, Head(queue).blank)>> \in Seq(Line)
<1>1. queue # <<>> => Head(queue) \in Prompt /\ Tail(queue) \in Seq(Prompt)
  BY DEF TypeOK
<1>2. \A p \in Prompt : p.label \in Label /\ p.blank \in BOOLEAN
  BY DEF Prompt
<1>3. QED
  BY <1>1, <1>2, LineTypes, SingletonTypes

LEMMA AcceptPromptType ==
    ASSUME TypeOK, NEW label \in PromptLabels, NEW blank \in Blanks,
           AcceptPrompt(label)
    PROVE  /\ level' \in Label
           /\ effectiveRisk' \in Risk
           /\ mailbox' \in Seq(Message)
           /\ accepted' \in Nat
           /\ NewPrompt(label, blank) \in Prompt
           /\ Append(queue, NewPrompt(label, blank)) \in Seq(Prompt)
           /\ <<PromptLine(label, blank)>> \in Seq(Line)
<1>1. label \in Label /\ blank \in BOOLEAN
  BY RiskAssumption, BoundAssumption
<1>2. Elevate(label, mailbox) /\ mailbox \in Seq(Message)
  BY DEF AcceptPrompt, TypeOK
<1>3. level' \in Label /\ effectiveRisk' \in Risk /\ mailbox' \in Seq(Message)
  BY <1>1, <1>2, ElevateType
<1>4. NewPrompt(label, blank) \in Prompt
  BY <1>1 DEF NewPrompt, Prompt, TypeOK
<1>5. accepted' \in Nat
  BY DEF AcceptPrompt, TypeOK
<1>6. QED
  BY <1>1, <1>3, <1>4, <1>5, LineTypes, SingletonTypes DEF TypeOK

LEMMA PromptType ==
    ASSUME TypeOK, PromptArrives
    PROVE  TypeOK'
<1>1. PICK label \in PromptLabels, blank \in Blanks :
         \/ PromptWhenReady(label, blank)
         \/ PromptWhenStarting(label, blank)
         \/ \E reaction \in BOOLEAN : PromptWhenRunning(label, blank, reaction)
  BY DEF PromptArrives
<1>2. CASE PromptWhenReady(label, blank)
  <2>1. stdin' \in Seq(Line)
    BY <1>2, AcceptPromptType, SendType
    DEF PromptWhenReady, SendPrompt, NewPrompt
  <2>2. taken' \in Nat /\ status' \in Status
    BY <1>2 DEF PromptWhenReady, TypeOK, Status
  <2>3. idleTimer' \in BOOLEAN
    BY <1>2 DEF PromptWhenReady
  <2>4. QED
    BY <1>2, <2>1, <2>2, <2>3, AcceptPromptType
    DEF PromptWhenReady, AcceptPrompt, RuntimeSide, TypeOK
<1>3. CASE PromptWhenStarting(label, blank)
  BY <1>3, AcceptPromptType
  DEF PromptWhenStarting, AcceptPrompt, RuntimeSide, TypeOK, Status
<1>4. ASSUME NEW reaction \in BOOLEAN, PromptWhenRunning(label, blank, reaction)
      PROVE  TypeOK'
  <2>1. (IF reaction THEN <<>> ELSE <<ControlLine("interrupt")>>) \in Seq(Line)
    BY EmptyTypes, LineTypes, SingletonTypes
  <2>2. stdin' \in Seq(Line)
    BY <1>4, <2>1, SendType DEF PromptWhenRunning
  <2>3. QED
    BY <1>4, <2>2, AcceptPromptType
    DEF PromptWhenRunning, AcceptPrompt, RuntimeSide, TypeOK, Status
<1>5. QED
  BY <1>1, <1>2, <1>3, <1>4

LEMMA BeginSaveType ==
    ASSUME TypeOK, NEW rest \in Seq(Message), BeginSave(rest)
    PROVE  TypeOK'
<1>1. stdin' \in Seq(Line)
  BY LineTypes, SingletonTypes, SendType DEF BeginSave
<1>2. saveTimers' \in Nat /\ status' \in Status
  BY DEF BeginSave, TypeOK, Status
<1>3. idleTimer' \in BOOLEAN
  BY DEF BeginSave
<1>4. QED
  BY <1>1, <1>2, <1>3 DEF BeginSave, RuntimeSide, TypeOK

\* The two ways an answer's handler goes on.
LEMMA NextPromptType ==
    ASSUME TypeOK, NextPrompt
    PROVE  /\ stdin' \in Seq(Line)
           /\ queue' \in Seq(Prompt)
           /\ taken' \in Nat
           /\ status' \in Status
           /\ idleTimer' \in BOOLEAN
<1>1. stdin' \in Seq(Line)
  BY QueueType, SendType DEF NextPrompt, SendPrompt
<1>2. queue' \in Seq(Prompt)
  BY QueueType DEF NextPrompt
<1>3. QED
  BY <1>1, <1>2 DEF NextPrompt, TypeOK, Status

LEMMA GoIdleType ==
    ASSUME TypeOK, GoIdle
    PROVE  /\ stdin' \in Seq(Line)
           /\ queue' \in Seq(Prompt)
           /\ taken' \in Nat
           /\ status' \in Status
           /\ idleTimer' \in BOOLEAN
BY BoundAssumption DEF GoIdle, ScheduleIdle, TypeOK, Status

LEMMA HandlerType ==
    ASSUME TypeOK, HandleMessage
    PROVE  TypeOK'
<1>1. CASE HandleReady
  <2>1. mailbox' \in Seq(Message)
    BY <1>1, ReceivesType DEF HandleReady, AfterAnswer
  <2>2. stdin' \in Seq(Line)
    <3>1. [i \in 1 .. pendingBcp |-> ControlLine("bcp")] \in Seq(Line)
      BY LineTypes DEF TypeOK
    <3>2. Send([i \in 1 .. pendingBcp |-> ControlLine("bcp")]) => stdin' \in Seq(Line)
      BY <3>1, SendType
    <3>3. UNCHANGED stdin => stdin' \in Seq(Line)
      BY DEF TypeOK
    <3>4. QED
      BY <1>1, <3>2, <3>3, NextPromptType, GoIdleType DEF HandleReady
  <2>3. queue' \in Seq(Prompt)
    <3>1. queue # <<>> => Tail(queue) \in Seq(Prompt)
      BY QueueType
    <3>2. UNCHANGED queue => queue' \in Seq(Prompt)
      BY DEF TypeOK
    <3>3. QED
      BY <1>1, <3>1, <3>2, NextPromptType, GoIdleType DEF HandleReady
  <2>4. taken' \in Nat /\ status' \in Status
    <3>1. taken \in Nat /\ taken + 1 \in Nat
      BY DEF TypeOK
    <3>2. QED
      BY <1>1, <3>1, NextPromptType, GoIdleType DEF HandleReady, Status
  <2>5. idleTimer' \in BOOLEAN
    BY <1>1, NextPromptType, GoIdleType DEF HandleReady, TypeOK
  <2>6. pendingBcp' \in Nat
    BY <1>1 DEF HandleReady
  <2>7. QED
    BY <1>1, <2>1, <2>2, <2>3, <2>4, <2>5, <2>6
    DEF HandleReady, AfterAnswer, RuntimeSide, TypeOK
<1>2. CASE HandleInterrupted
  <2>1. mailbox' \in Seq(Message)
    BY <1>2, ReceivesType DEF HandleInterrupted, AfterAnswer
  <2>2. /\ stdin' \in Seq(Line) /\ queue' \in Seq(Prompt) /\ taken' \in Nat
        /\ status' \in Status /\ idleTimer' \in BOOLEAN
    BY <1>2, NextPromptType, GoIdleType DEF HandleInterrupted
  <2>3. QED
    BY <1>2, <2>1, <2>2 DEF HandleInterrupted, AfterAnswer, RuntimeSide, TypeOK
<1>3. CASE HandleToolUse
  <2>1. Head(mailbox).tools \in SUBSET Tools /\ Tail(mailbox) \in Seq(Message)
    BY <1>3, ReceivesType DEF HandleToolUse, Message
  <2>2. QED
    BY <1>3, <2>1 DEF HandleToolUse, RuntimeSide, TypeOK
<1>4. CASE HandleToolResult
  <2>1. Tail(mailbox) \in Seq(Message)
    BY <1>4, ReceivesType DEF HandleToolResult
  <2>2. PICK label \in Label : Elevate(label, Tail(mailbox))
    <3>1. \A t \in pendingTools : ToolLabel[t] \in Label
      BY RuntimeAssumption DEF TypeOK
    <3>2. QED
      BY <1>4, <3>1, NoRiskLeast DEF HandleToolResult
  <2>3. level' \in Label /\ effectiveRisk' \in Risk /\ mailbox' \in Seq(Message)
    BY <2>1, <2>2, ElevateType
  <2>4. pendingTools' \in SUBSET Tools
    BY <1>4 DEF HandleToolResult, TypeOK
  <2>5. QED
    BY <1>4, <2>3, <2>4 DEF HandleToolResult, RuntimeSide, TypeOK
<1>5. CASE HandleResult
  <2>1. tree' \in Label
    BY <1>5, NoRiskLeast DEF HandleResult
  <2>2. CASE Stop("memory_saved") \/ Stop("reflected")
    BY <2>1, <2>2, StopType DEF Ending
  <2>3. CASE AfterAnswer /\ UNCHANGED pendingBcp /\ (NextPrompt \/ GoIdle)
    <3>1. mailbox' \in Seq(Message)
      BY <1>5, <2>3, ReceivesType DEF HandleResult, AfterAnswer
    <3>2. /\ stdin' \in Seq(Line) /\ queue' \in Seq(Prompt) /\ taken' \in Nat
          /\ status' \in Status /\ idleTimer' \in BOOLEAN
      BY <2>3, NextPromptType, GoIdleType
    <3>3. QED
      BY <2>1, <2>3, <3>1, <3>2 DEF AfterAnswer, RuntimeSide, TypeOK
  <2>4. QED
    BY <1>5, <2>2, <2>3 DEF HandleResult
<1>6. CASE HandlePortDown
  <2>1. CASE Die("port_down", <<>>) /\ UNCHANGED tree
    BY <2>1, EmptyTypes, DieType DEF Ending, TypeOK
  <2>2. CASE /\ AfterAnswer /\ status' = "stopped"
             /\ UNCHANGED <<stdin, tree, queue, pendingBcp, idleTimer, taken>>
    <3>1. mailbox' \in Seq(Message)
      BY <1>6, <2>2, ReceivesType DEF HandlePortDown, AfterAnswer
    <3>2. QED
      BY <2>2, <3>1 DEF AfterAnswer, RuntimeSide, TypeOK, Status
  <2>3. QED
    BY <1>6, <2>1, <2>2 DEF HandlePortDown
<1>7. CASE HandleIdleTimeout
  <2>1. Tail(mailbox) \in Seq(Message)
    BY <1>7, ReceivesType DEF HandleIdleTimeout
  <2>2. QED
    BY <1>7, <2>1, BeginSaveType, StopType DEF HandleIdleTimeout, Ending, TypeOK
<1>8. CASE HandleSaveTimeout
  <2>1. Tail(mailbox) \in Seq(Message)
    BY <1>8, ReceivesType DEF HandleSaveTimeout
  <2>2. CASE Stop("save_timeout") /\ UNCHANGED tree
    BY <2>2, StopType DEF Ending, TypeOK
  <2>3. CASE /\ AfterAnswer
             /\ UNCHANGED <<stdin, tree, status, queue, pendingBcp, idleTimer, taken>>
    BY <2>1, <2>3 DEF AfterAnswer, RuntimeSide, TypeOK
  <2>4. QED
    BY <1>8, <2>2, <2>3 DEF HandleSaveTimeout
<1>9. CASE HandleKill
  BY <1>9, StopType DEF HandleKill, Ending, TypeOK
<1>10. QED
  BY <1>1, <1>2, <1>3, <1>4, <1>5, <1>6, <1>7, <1>8, <1>9 DEF HandleMessage

LEMMA SessionType ==
    ASSUME TypeOK, SessionNext
    PROVE  TypeOK'
<1>1. CASE PromptArrives
  BY <1>1, PromptType
<1>2. CASE BcpArrives
  <2>1. stdin' \in Seq(Line)
    <3>1. Send(<<ControlLine("bcp")>>) => stdin' \in Seq(Line)
      BY LineTypes, SingletonTypes, SendType
    <3>2. QED
      BY <1>2, <3>1 DEF BcpArrives, TypeOK
  <2>2. pendingBcp' \in Nat /\ bcps' \in Nat
    BY <1>2 DEF BcpArrives, TypeOK
  <2>3. QED
    BY <1>2, <2>1, <2>2 DEF BcpArrives, RuntimeSide, TypeOK
<1>3. CASE GracefulStop
  <2>1. mailbox \in Seq(Message)
    BY DEF TypeOK
  <2>2. QED
    BY <1>3, <2>1, BeginSaveType, StopType DEF GracefulStop, Ending, TypeOK
<1>4. CASE HandleMessage
  BY <1>4, HandlerType
<1>5. CASE IdleTimerFires
  <2>1. mailbox' \in Seq(Message)
    BY <1>5, MessageTypes DEF IdleTimerFires, Fires, TypeOK
  <2>2. QED
    BY <1>5, <2>1 DEF IdleTimerFires, Fires, RuntimeSide, TypeOK
<1>6. CASE SaveTimerFires
  <2>1. mailbox' \in Seq(Message)
    BY <1>6, MessageTypes DEF SaveTimerFires, Fires, TypeOK
  <2>2. saveTimers' \in Nat
    BY <1>6 DEF SaveTimerFires, TypeOK
  <2>3. QED
    BY <1>6, <2>1, <2>2 DEF SaveTimerFires, Fires, RuntimeSide, TypeOK
<1>7. CASE PortExits
  <2>1. mailbox' \in Seq(Message)
    BY <1>7, MessageTypes DEF PortExits, TypeOK
  <2>2. QED
    BY <1>7, <2>1, EmptyTypes DEF PortExits, sessionVars, TypeOK
<1>8. CASE PortCommandFails
  BY <1>8, EmptyTypes, DieType DEF PortCommandFails, Ending, TypeOK
<1>9. QED
  BY <1>1, <1>2, <1>3, <1>4, <1>5, <1>6, <1>7, <1>8 DEF SessionNext

LEMMA TypeStep == TypeOK /\ [Next]_vars => TypeOK'
<1> SUFFICES ASSUME TypeOK, [Next]_vars PROVE TypeOK'
  OBVIOUS
<1>1. CASE SessionNext
  BY <1>1, SessionType
<1>2. CASE RuntimeNext /\ UNCHANGED sessionVars
  BY <1>2, RuntimeType
<1>3. CASE UNCHANGED vars
  BY <1>3 DEF vars, runtimeVars, sessionVars, TypeOK
<1>4. QED
  BY <1>1, <1>2, <1>3 DEF Next

LEMMA TypeInit == Init => TypeOK
<1> SUFFICES ASSUME Init PROVE TypeOK
  OBVIOUS
<1>1. level \in Label /\ seen \in Label /\ tree \in Label
  BY RiskAssumption, NoRiskLeast DEF Init, RuntimeInit
<1>2. effectiveRisk \in Risk
  <2>1. [taint |-> InputRisk, sens |-> Low] \in Label
    BY RiskAssumption DEF Label, Level, Low
  <2>2. effectiveRisk = LabelRisk([taint |-> InputRisk, sens |-> Low], Capability)
    BY DEF Init, LabelRisk
  <2>3. QED
    BY <2>1, <2>2, RiskType, RiskAssumption
<1>3. mode \in {"normal", "reflection"}
  BY RuntimeAssumption DEF Init, RuntimeInit
<1>4. calls \in [Tools -> {"unused", "open", "returned"}]
  BY DEF Init, RuntimeInit
<1>5. /\ stdin \in Seq(Line) /\ mailbox \in Seq(Message)
      /\ controlQueue \in Seq(Line) /\ queue \in Seq(Prompt)
  BY EmptyTypes DEF Init, RuntimeInit
<1>6. QED
  BY <1>1, <1>2, <1>3, <1>4, <1>5
  DEF Init, RuntimeInit, TypeOK, Run, Ending, Status

\* Every variable keeps its type: no step of any actor, in any order, queues
\* something that is not a message, or drives a counter below zero.
THEOREM TypeCorrect == Spec => []TypeOK
BY TypeInit, TypeStep, PTL DEF Spec

-----------------------------------------------------------------------------
\* Kill, don't downgrade.

HasKill(s) == \E i \in DOMAIN s : s[i].type = "kill_risk_exceeded"

LEMMA KillStaysAppended ==
    ASSUME NEW s \in Seq(Message), NEW events \in Seq(Message), HasKill(s)
    PROVE  HasKill(s \o events)
BY DEF HasKill

LEMMA KillStaysAppendedOne ==
    ASSUME NEW s \in Seq(Message), NEW m \in Message
    PROVE  /\ HasKill(s) => HasKill(Append(s, m))
           /\ m.type = "kill_risk_exceeded" => HasKill(Append(s, m))
<1>1. /\ DOMAIN Append(s, m) = 1 .. Len(s) + 1
      /\ DOMAIN s = 1 .. Len(s)
      /\ Len(s) \in Nat
  OBVIOUS
<1>2. /\ \A i \in 1 .. Len(s) : Append(s, m)[i] = s[i]
      /\ Append(s, m)[Len(s) + 1] = m
  OBVIOUS
<1>3. Len(s) + 1 \in DOMAIN Append(s, m) /\ DOMAIN s \subseteq DOMAIN Append(s, m)
  BY <1>1
<1>4. QED
  BY <1>1, <1>2, <1>3 DEF HasKill

\* Handling another message leaves the kill in the mailbox.
LEMMA KillStaysInTail ==
    ASSUME NEW s \in Seq(Message), s # <<>>,
           Head(s).type # "kill_risk_exceeded", HasKill(s)
    PROVE  HasKill(Tail(s))
<1>1. PICK i \in DOMAIN s : s[i].type = "kill_risk_exceeded"
  BY DEF HasKill
<1>2. i # 1 /\ i \in 1 .. Len(s)
  BY <1>1
<1>3. i - 1 \in DOMAIN Tail(s) /\ Tail(s)[i - 1] = s[i]
  BY <1>2
<1>4. QED
  BY <1>1, <1>3 DEF HasKill

\* The mailbox after an escalation: over the ceiling, a kill is there.
LEMMA ElevateKills ==
    ASSUME TypeOK, NEW label \in Label, NEW rest \in Seq(Message),
           Elevate(label, rest),
           OverCeiling => HasKill(rest)
    PROVE  OverCeiling' => HasKill(mailbox')
<1>1. CASE Join(level, label) = level
  BY <1>1 DEF Elevate, OverCeiling
<1>2. CASE Join(level, label) # level
  <2>1. OverCeiling' => mailbox' = Append(rest, Note("kill_risk_exceeded"))
    BY <1>2 DEF Elevate, OverCeiling
  <2>2. HasKill(Append(rest, Note("kill_risk_exceeded")))
    BY MessageTypes, KillStaysAppendedOne DEF Note
  <2>3. QED
    BY <2>1, <2>2
<1>3. QED
  BY <1>1, <1>2

LEMMA KillAfterEmit ==
    ASSUME TypeOK, NEW events \in Seq(Message), Emit(events), HasKill(mailbox)
    PROVE  HasKill(mailbox')
BY KillStaysAppended DEF Emit, TypeOK

\* The container never takes a message out of the mailbox.
LEMMA RuntimeKeepsKill ==
    ASSUME TypeOK, RuntimeNext, HasKill(mailbox)
    PROVE  HasKill(mailbox')
<1>1. \/ UNCHANGED mailbox
      \/ \E events \in Seq(Message) : Emit(events)
  <2>1. CASE Ready
    BY <2>1, MessageTypes, SingletonTypes DEF Ready
  <2>2. CASE ReadStdin \/ WriteTree \/ Crash
    BY <2>2 DEF ReadStdin, WriteTree, Crash
  <2>3. CASE NextControl
    BY <2>3 DEF NextControl, StartTurn, RefuseBlank, StartSave, LeaveLoop
  <2>4. ASSUME NEW t \in Tools, ToolUse(t) \/ ToolReturns(t)
        PROVE  \E events \in Seq(Message) : Emit(events)
    BY <2>4, MessageTypes, SingletonTypes DEF ToolUse, ToolReturns
  <2>5. CASE TurnEnds
    <3>1. /\ run \in Turn => ResultOf(run) \in Message
          /\ Interruptible \subseteq Turn
          /\ "retry" \in Turn /\ "save" \in Turn /\ "reflect" \in Turn
      BY MessageTypes DEF Turn, Interruptible
    <3>2. run \in Turn => <<ResultOf(run), Note("interrupted")>> \in Seq(Message)
      BY <3>1, MessageTypes
    <3>3. CASE AbortTurn
      BY <3>3, MessageTypes, SingletonTypes DEF AbortTurn, EndTurn
    <3>4. CASE CompleteTurn \/ FailEmptyTurn
      BY <3>1, <3>4, SingletonTypes DEF CompleteTurn, FailEmptyTurn, EndTurn
    <3>5. CASE CompleteAndAbort
      BY <3>1, <3>2, <3>5 DEF CompleteAndAbort, EndTurn
    <3>6. CASE SuppressEmptyResult
      BY <3>6, EmptyTypes DEF SuppressEmptyResult, EndTurn
    <3>7. CASE RetryCompletes \/ LastTurnCompletes
      BY <3>1, <3>7, SingletonTypes DEF RetryCompletes, LastTurnCompletes, EndTurn
    <3>8. QED
      BY <2>5, <3>3, <3>4, <3>5, <3>6, <3>7 DEF TurnEnds
  <2>6. QED
    BY <2>1, <2>2, <2>3, <2>4, <2>5 DEF RuntimeNext
<1>2. QED
  BY <1>1, KillAfterEmit

\* No handler but that of the kill itself takes a kill out.
LEMMA TailKeepsKill ==
    ASSUME TypeOK, NEW type, Receives(type), type # "kill_risk_exceeded",
           HasKill(mailbox)
    PROVE  HasKill(Tail(mailbox))
BY KillStaysInTail DEF Receives, TypeOK

KillInv == alive /\ OverCeiling => HasKill(mailbox)

LEMMA KillStep == TypeOK /\ KillInv /\ [Next]_vars => KillInv'
<1> SUFFICES ASSUME TypeOK, KillInv, [Next]_vars, ended' = "no", OverCeiling'
             PROVE  HasKill(mailbox')
  BY DEF KillInv, alive
<1>1. CASE RuntimeNext /\ UNCHANGED sessionVars
  <2>1. HasKill(mailbox)
    BY <1>1 DEF sessionVars, KillInv, alive, OverCeiling
  <2>2. QED
    BY <1>1, <2>1, RuntimeKeepsKill
<1>2. CASE PromptArrives
  <2>1. PICK label \in PromptLabels : AcceptPrompt(label)
    BY <1>2
    DEF PromptArrives, PromptWhenReady, PromptWhenStarting, PromptWhenRunning
  <2>2. label \in Label /\ mailbox \in Seq(Message) /\ alive
    BY <2>1, RiskAssumption DEF AcceptPrompt, TypeOK
  <2>3. QED
    BY <2>1, <2>2, ElevateKills DEF AcceptPrompt, KillInv
<1>3. CASE BcpArrives
  BY <1>3 DEF BcpArrives, KillInv, alive, OverCeiling
<1>4. CASE GracefulStop
  BY <1>4 DEF GracefulStop, BeginSave, Stop, Die, Ending, KillInv, alive, OverCeiling
<1>5. CASE HandleMessage
  <2>1. CASE HandleToolResult
    <3>1. Tail(mailbox) \in Seq(Message) /\ alive
      BY <2>1, ReceivesType DEF HandleToolResult, Receives
    <3>2. PICK label \in Label : Elevate(label, Tail(mailbox))
      <4>1. \A t \in pendingTools : ToolLabel[t] \in Label
        BY RuntimeAssumption DEF TypeOK
      <4>2. QED
        BY <2>1, <4>1, NoRiskLeast DEF HandleToolResult
    <3>3. OverCeiling => HasKill(Tail(mailbox))
      BY <2>1, <3>1, TailKeepsKill DEF HandleToolResult, KillInv
    <3>4. QED
      BY <3>1, <3>2, <3>3, ElevateKills
  <2>2. ASSUME mailbox' = Tail(mailbox), UNCHANGED <<ended, level>>,
               NEW type, Receives(type), type # "kill_risk_exceeded"
        PROVE  HasKill(mailbox')
    BY <2>2, TailKeepsKill DEF KillInv, alive, OverCeiling
  <2>3. CASE HandleReady \/ HandleInterrupted \/ HandleToolUse
    BY <2>2, <2>3 DEF HandleReady, HandleInterrupted, HandleToolUse, AfterAnswer
  <2>4. CASE HandleResult \/ HandlePortDown
    BY <2>2, <2>4 DEF HandleResult, HandlePortDown, AfterAnswer, Stop, Die
  <2>5. CASE HandleIdleTimeout \/ HandleSaveTimeout
    BY <2>2, <2>5
    DEF HandleIdleTimeout, HandleSaveTimeout, AfterAnswer, BeginSave, Stop, Die
  <2>6. CASE HandleKill
    BY <2>6 DEF HandleKill, Stop, Die
  <2>7. QED
    BY <1>5, <2>1, <2>3, <2>4, <2>5, <2>6 DEF HandleMessage
<1>6. ASSUME NEW m \in Message, mailbox' = Append(mailbox, m), UNCHANGED <<ended, level>>
      PROVE  HasKill(mailbox')
  BY <1>6, KillStaysAppendedOne DEF KillInv, alive, OverCeiling, TypeOK
<1>7. CASE IdleTimerFires \/ SaveTimerFires
  BY <1>6, <1>7, MessageTypes DEF IdleTimerFires, SaveTimerFires, Fires
<1>8. CASE PortExits
  BY <1>6, <1>8, MessageTypes DEF PortExits, sessionVars
<1>9. CASE PortCommandFails
  BY <1>9 DEF PortCommandFails, Die
<1>10. CASE UNCHANGED vars
  BY <1>10 DEF vars, runtimeVars, sessionVars, KillInv, alive, OverCeiling
<1>11. QED
  BY <1>1, <1>2, <1>3, <1>4, <1>5, <1>7, <1>8, <1>9, <1>10 DEF Next, SessionNext

\* A session over its ceiling has its kill in the mailbox, whichever prompt or
\* tool result took it there and whatever else is queued.
THEOREM CeilingEnforced == Spec => []KillPending
<1>1. Init => KillInv
  BY DEF Init, KillInv, OverCeiling
<1>2. KillInv => KillPending
  BY DEF KillInv, KillPending, HasKill, Pending
<1>3. QED
  BY <1>1, <1>2, KillStep, TypeCorrect, PTL DEF Spec

-----------------------------------------------------------------------------
\* First in, first out.

\* What waits is covered by the levels: labels are merged on acceptance.
QueueCovered == \A i \in DOMAIN queue : Below(queue[i].label, level)

QueueInv == FifoHandoff /\ (alive => QueueCovered)

\* The queue as a sequence of prompts numbered from taken + 1.
Numbered(q, from) == \A i \in DOMAIN q : q[i].id = from + i

LEMMA NumberedTail ==
    ASSUME NEW q \in Seq(Prompt), NEW from \in Nat, q # <<>>, Numbered(q, from)
    PROVE  /\ Numbered(Tail(q), from + 1)
           /\ Head(q).id = from + 1
           /\ Len(Tail(q)) = Len(q) - 1
<1>1. /\ DOMAIN Tail(q) = 1 .. Len(q) - 1 /\ DOMAIN q = 1 .. Len(q)
      /\ Len(q) \in Nat /\ Len(q) >= 1
      /\ \A i \in DOMAIN Tail(q) : Tail(q)[i] = q[i + 1]
      /\ Head(q) = q[1]
  OBVIOUS
<1>2. ASSUME NEW i \in DOMAIN Tail(q)
      PROVE  Tail(q)[i].id = (from + 1) + i
  <2>1. i \in Nat /\ i + 1 \in DOMAIN q
    BY <1>1
  <2>2. q[i + 1].id = from + (i + 1)
    BY <2>1 DEF Numbered
  <2>3. QED
    BY <1>1, <2>1, <2>2
<1>3. Head(q).id = from + 1
  BY <1>1 DEF Numbered
<1>4. QED
  BY <1>1, <1>2, <1>3 DEF Numbered

LEMMA NumberedAppend ==
    ASSUME NEW q \in Seq(Prompt), NEW from \in Nat, NEW p \in Prompt,
           Numbered(q, from), p.id = from + Len(q) + 1
    PROVE  Numbered(Append(q, p), from) /\ Len(Append(q, p)) = Len(q) + 1
<1>1. /\ DOMAIN Append(q, p) = 1 .. Len(q) + 1 /\ DOMAIN q = 1 .. Len(q)
      /\ Len(q) \in Nat
      /\ \A i \in 1 .. Len(q) : Append(q, p)[i] = q[i]
      /\ Append(q, p)[Len(q) + 1] = p
      /\ Len(Append(q, p)) = Len(q) + 1
  OBVIOUS
<1>2. ASSUME NEW i \in 1 .. Len(q) + 1
      PROVE  Append(q, p)[i].id = from + i
  <2>1. CASE i \in 1 .. Len(q)
    BY <1>1, <2>1 DEF Numbered
  <2>2. CASE i = Len(q) + 1
    BY <1>1, <2>2
  <2>3. QED
    BY <1>1, <2>1, <2>2
<1>3. QED
  BY <1>1, <1>2 DEF Numbered

\* Rising levels, a shorter queue and one more covered prompt keep it covered.
LEMMA CoverKept ==
    ASSUME TypeOK, QueueCovered, level' \in Label, Below(level, level')
    PROVE  /\ \A i \in DOMAIN queue : Below(queue[i].label, level')
           /\ queue # <<>> => /\ Below(Head(queue).label, level)
                              /\ \A i \in DOMAIN Tail(queue) :
                                     Below(Tail(queue)[i].label, level')
<1>1. \A i \in DOMAIN queue : queue[i].label \in Label
  <2>1. \A i \in DOMAIN queue : queue[i] \in Prompt
    BY DEF TypeOK
  <2>2. QED
    BY <2>1 DEF Prompt
<1>2. \A i \in DOMAIN queue : Below(queue[i].label, level')
  BY <1>1, BelowTransitive DEF QueueCovered, TypeOK
<1>3. ASSUME queue # <<>>
      PROVE  /\ 1 \in DOMAIN queue /\ Head(queue) = queue[1]
             /\ \A i \in DOMAIN Tail(queue) :
                    i + 1 \in DOMAIN queue /\ Tail(queue)[i] = queue[i + 1]
  BY <1>3 DEF TypeOK
<1>4. QED
  BY <1>2, <1>3 DEF QueueCovered

LEMMA LevelReflexive == TypeOK => Below(level, level)
BY DEF TypeOK, Below, Label, Level, Low, Medium, High

LEMMA AppendCovered ==
    ASSUME TypeOK, NEW p \in Prompt, NEW l \in Label,
           \A i \in DOMAIN queue : Below(queue[i].label, l),
           Below(p.label, l)
    PROVE  \A i \in DOMAIN Append(queue, p) : Below(Append(queue, p)[i].label, l)
<1>1. /\ DOMAIN Append(queue, p) = 1 .. Len(queue) + 1
      /\ DOMAIN queue = 1 .. Len(queue) /\ Len(queue) \in Nat
      /\ \A i \in 1 .. Len(queue) : Append(queue, p)[i] = queue[i]
      /\ Append(queue, p)[Len(queue) + 1] = p
  BY DEF TypeOK
<1>2. ASSUME NEW i \in 1 .. Len(queue) + 1
      PROVE  Below(Append(queue, p)[i].label, l)
  <2>1. CASE i \in 1 .. Len(queue)
    BY <1>1, <2>1
  <2>2. CASE i = Len(queue) + 1
    BY <1>1, <2>2
  <2>3. QED
    BY <1>1, <2>1, <2>2
<1>3. QED
  BY <1>1, <1>2

\* What a step may be for the queue: the five moves of the promise.
Quiet ==
    /\ UNCHANGED <<ended, queue, taken, accepted>>
    /\ level' \in Label
    /\ Below(level, level')
    /\ alive \/ UNCHANGED level
    /\ alive /\ status' = "ready" => queue = <<>>

Enqueues ==
    /\ alive
    /\ UNCHANGED <<ended, taken>>
    /\ accepted' = accepted + 1
    /\ \E label \in Label, blank \in BOOLEAN :
          /\ level' = Join(level, label)
          /\ queue' = Append(queue, NewPrompt(label, blank))
    /\ status' # "ready"

HandsOn ==
    /\ alive
    /\ queue # <<>>
    /\ queue' = Tail(queue)
    /\ taken' = taken + 1
    /\ status' # "ready"
    /\ UNCHANGED <<ended, level, accepted>>

SendsAtOnce ==
    /\ alive
    /\ queue = <<>>
    /\ UNCHANGED <<ended, queue>>
    /\ taken' = taken + 1
    /\ accepted' = accepted + 1
    /\ \E label \in Label : level' = Join(level, label)

Ends ==
    /\ alive
    /\ ended' # "no"
    /\ queue' = <<>>
    /\ UNCHANGED <<level, taken, accepted>>

LEMMA ElevateRises ==
    ASSUME TypeOK, NEW label \in Label, NEW rest, Elevate(label, rest)
    PROVE  level' = Join(level, label) /\ level' \in Label /\ Below(level, level')
BY JoinType, JoinCovers DEF Elevate, TypeOK

LEMMA QuietAlone ==
    ASSUME TypeOK, QueueInv, UNCHANGED <<ended, status, queue, taken, accepted, level>>
    PROVE  Quiet
BY LevelReflexive DEF Quiet, TypeOK, QueueInv, FifoHandoff, alive

LEMMA StepShape ==
    ASSUME TypeOK, QueueInv, [Next]_vars
    PROVE  Quiet \/ Enqueues \/ HandsOn \/ SendsAtOnce \/ Ends
<1>1. CASE (RuntimeNext /\ UNCHANGED sessionVars) \/ UNCHANGED vars
  BY <1>1, QuietAlone DEF sessionVars, vars
<1>2. CASE PromptArrives
  <2>1. PICK label \in PromptLabels, blank \in Blanks :
           \/ PromptWhenReady(label, blank)
           \/ PromptWhenStarting(label, blank)
           \/ \E reaction \in BOOLEAN : PromptWhenRunning(label, blank, reaction)
    BY <1>2 DEF PromptArrives
  <2>2. label \in Label /\ blank \in BOOLEAN
    BY RiskAssumption, BoundAssumption
  <2>3. AcceptPrompt(label) => level' = Join(level, label)
    BY <2>2, ElevateRises DEF AcceptPrompt
  <2>4. CASE PromptWhenReady(label, blank)
    <3>1. SendsAtOnce
      BY <2>2, <2>3, <2>4
      DEF PromptWhenReady, AcceptPrompt, SendsAtOnce, QueueInv, FifoHandoff
    <3>2. QED
      BY <3>1
  <2>5. CASE PromptWhenStarting(label, blank)
    BY <2>2, <2>3, <2>5 DEF PromptWhenStarting, AcceptPrompt, Enqueues
  <2>6. CASE \E reaction \in BOOLEAN : PromptWhenRunning(label, blank, reaction)
    BY <2>2, <2>3, <2>6 DEF PromptWhenRunning, AcceptPrompt, Enqueues
  <2>7. QED
    BY <2>1, <2>4, <2>5, <2>6
<1>3. CASE BcpArrives
  BY <1>3, QuietAlone DEF BcpArrives
<1>4. ASSUME alive, NEW rest, BeginSave(rest)
      PROVE  Quiet
  BY <1>4, LevelReflexive DEF BeginSave, Quiet, TypeOK
<1>5. ASSUME alive, NEW how \in Ending \ {"no"}, NEW lines, Die(how, lines)
      PROVE  Ends
  BY <1>5 DEF Die, Ends
<1>6. ASSUME alive, NEW how \in Ending \ {"no"}, Stop(how)
      PROVE  Ends
  BY <1>5, <1>6 DEF Stop
<1>7. CASE GracefulStop
  BY <1>4, <1>6, <1>7 DEF GracefulStop, Ending
<1>8. CASE HandleMessage
  <2>1. ASSUME alive, AfterAnswer, NextPrompt
        PROVE  HandsOn
    BY <2>1 DEF AfterAnswer, NextPrompt, HandsOn
  <2>2. ASSUME alive, AfterAnswer, GoIdle
        PROVE  Quiet
    BY <2>2, LevelReflexive DEF AfterAnswer, GoIdle, Quiet, TypeOK
  <2>3. CASE HandleReady
    <3>1. alive /\ AfterAnswer
      BY <2>3 DEF HandleReady, Receives
    <3>2. CASE NextPrompt \/ GoIdle
      BY <2>1, <2>2, <3>1, <3>2
    <3>3. CASE queue # <<>> /\ status' = "running" /\ queue' = Tail(queue) /\ taken' = taken + 1
      BY <3>1, <3>3 DEF AfterAnswer, HandsOn
    <3>4. CASE queue = <<>> /\ UNCHANGED <<queue, taken>>
      BY <3>1, <3>4, LevelReflexive DEF AfterAnswer, Quiet, TypeOK
    <3>5. QED
      BY <2>3, <3>2, <3>3, <3>4 DEF HandleReady
  <2>4. CASE HandleInterrupted
    BY <2>1, <2>2, <2>4 DEF HandleInterrupted, Receives
  <2>5. CASE HandleToolUse
    BY <2>5, QuietAlone DEF HandleToolUse
  <2>6. CASE HandleToolResult
    <3>1. PICK label \in Label : Elevate(label, Tail(mailbox))
      <4>1. \A t \in pendingTools : ToolLabel[t] \in Label
        BY RuntimeAssumption DEF TypeOK
      <4>2. QED
        BY <2>6, <4>1, NoRiskLeast DEF HandleToolResult
    <3>2. level' \in Label /\ Below(level, level')
      BY <3>1, ElevateRises
    <3>3. QED
      BY <2>6, <3>2 DEF HandleToolResult, Receives, Quiet, QueueInv, FifoHandoff
  <2>7. CASE HandleResult
    BY <1>6, <2>1, <2>2, <2>7 DEF HandleResult, Receives, Ending
  <2>8. CASE HandlePortDown
    <3>1. CASE Die("port_down", <<>>)
      BY <1>5, <2>8, <3>1 DEF HandlePortDown, Receives, Ending
    <3>2. CASE AfterAnswer /\ status' = "stopped" /\ UNCHANGED <<queue, taken>>
      BY <3>2, LevelReflexive DEF AfterAnswer, Quiet, TypeOK
    <3>3. QED
      BY <2>8, <3>1, <3>2 DEF HandlePortDown
  <2>9. CASE HandleIdleTimeout
    BY <1>4, <1>6, <2>9 DEF HandleIdleTimeout, Receives, Ending
  <2>10. CASE HandleSaveTimeout
    <3>1. CASE Stop("save_timeout")
      BY <1>6, <2>10, <3>1 DEF HandleSaveTimeout, Receives, Ending
    <3>2. CASE AfterAnswer /\ UNCHANGED <<status, queue, taken>>
      BY <3>2, QuietAlone DEF AfterAnswer
    <3>3. QED
      BY <2>10, <3>1, <3>2 DEF HandleSaveTimeout
  <2>11. CASE HandleKill
    BY <1>6, <2>11 DEF HandleKill, Receives, Ending
  <2>12. QED
    BY <1>8, <2>3, <2>4, <2>5, <2>6, <2>7, <2>8, <2>9, <2>10, <2>11 DEF HandleMessage
<1>9. CASE IdleTimerFires \/ SaveTimerFires \/ PortExits
  BY <1>9, QuietAlone DEF IdleTimerFires, SaveTimerFires, Fires, PortExits, sessionVars
<1>10. CASE PortCommandFails
  BY <1>5, <1>10 DEF PortCommandFails, Ending
<1>11. QED
  BY <1>1, <1>2, <1>3, <1>7, <1>8, <1>9, <1>10 DEF Next, SessionNext

\* FifoHandoff in terms of Numbered.
LEMMA FifoIsNumbered ==
    FifoHandoff <=>
        (alive => /\ accepted = taken + Len(queue)
                  /\ Numbered(queue, taken)
                  /\ status = "ready" => queue = <<>>)
BY DEF FifoHandoff, Numbered

LEMMA QueueStep == TypeOK /\ QueueInv /\ [Next]_vars => QueueInv'
<1> SUFFICES ASSUME TypeOK, QueueInv, [Next]_vars, ended' = "no"
             PROVE  /\ accepted' = taken' + Len(queue')
                    /\ Numbered(queue', taken')
                    /\ status' = "ready" => queue' = <<>>
                    /\ QueueCovered'
  BY DEF QueueInv, FifoHandoff, Numbered, alive
<1>1. Quiet \/ Enqueues \/ HandsOn \/ SendsAtOnce \/ Ends
  BY StepShape
<1>2. /\ queue \in Seq(Prompt) /\ Len(queue) \in Nat
      /\ taken \in Nat /\ accepted \in Nat /\ level \in Label
  BY DEF TypeOK
<1>3. alive => /\ accepted = taken + Len(queue)
               /\ Numbered(queue, taken)
               /\ QueueCovered
  BY FifoIsNumbered DEF QueueInv
<1>4. CASE Quiet
  <2>1. alive
    BY <1>4 DEF Quiet, alive
  <2>2. QueueCovered'
    BY <1>3, <1>4, <2>1, CoverKept DEF Quiet, QueueCovered
  <2>3. QED
    BY <1>3, <1>4, <2>1, <2>2 DEF Quiet
<1>5. CASE Enqueues
  <2>1. PICK label \in Label, blank \in BOOLEAN :
           /\ level' = Join(level, label)
           /\ queue' = Append(queue, NewPrompt(label, blank))
    BY <1>5 DEF Enqueues
  <2>2. NewPrompt(label, blank) \in Prompt /\ NewPrompt(label, blank).id = accepted + 1
    BY <1>2 DEF NewPrompt, Prompt
  <2>3. level' \in Label /\ Below(level, level') /\ Below(label, level')
    BY <1>2, <2>1, JoinType, JoinCovers
  <2>4. Numbered(queue', taken) /\ Len(queue') = Len(queue) + 1
    <3>1. NewPrompt(label, blank).id = taken + Len(queue) + 1
      BY <1>3, <1>5, <2>2 DEF Enqueues
    <3>2. QED
      BY <1>2, <1>3, <1>5, <2>1, <2>2, <3>1, NumberedAppend DEF Enqueues
  <2>5. QueueCovered'
    <3>1. \A i \in DOMAIN queue : Below(queue[i].label, level')
      BY <1>3, <1>5, <2>3, CoverKept DEF Enqueues
    <3>2. Below(NewPrompt(label, blank).label, level')
      BY <2>3 DEF NewPrompt
    <3>3. QED
      BY <2>1, <2>2, <2>3, <3>1, <3>2, AppendCovered DEF QueueCovered
  <2>6. taken' = taken /\ accepted' = accepted + 1 /\ status' # "ready"
    BY <1>5 DEF Enqueues
  <2>7. QED
    BY <1>2, <1>3, <1>5, <2>4, <2>5, <2>6 DEF Enqueues
<1>6. CASE HandsOn
  <2>1. Numbered(queue', taken') /\ Len(queue') = Len(queue) - 1
    BY <1>2, <1>3, <1>6, NumberedTail DEF HandsOn
  <2>2. QueueCovered'
    BY <1>2, <1>3, <1>6, CoverKept, LevelReflexive DEF HandsOn, QueueCovered
  <2>3. taken' = taken + 1 /\ accepted' = accepted /\ status' # "ready" /\ alive
    BY <1>6 DEF HandsOn
  <2>4. QED
    BY <1>2, <1>3, <2>1, <2>2, <2>3
<1>7. CASE SendsAtOnce
  <2>1. queue = <<>> /\ queue' = <<>> /\ alive
    BY <1>7 DEF SendsAtOnce
  <2>2. Numbered(queue', taken') /\ QueueCovered'
    BY <2>1 DEF Numbered, QueueCovered
  <2>3. taken' = taken + 1 /\ accepted' = accepted + 1
    BY <1>7 DEF SendsAtOnce
  <2>4. QED
    BY <1>2, <1>3, <2>1, <2>2, <2>3
<1>8. CASE Ends
  BY <1>8 DEF Ends
<1>9. QED
  BY <1>1, <1>4, <1>5, <1>6, <1>7, <1>8

LEMMA QueueInit == Init => QueueInv
BY DEF Init, QueueInv, FifoHandoff, QueueCovered

\* Prompts are queued first in, first out, and never overwritten or lost while
\* the session lives; :ready means that none waits.
THEOREM FifoOrder == Spec => []FifoHandoff
<1>1. QueueInv => FifoHandoff
  BY DEF QueueInv
<1>2. QED
  BY <1>1, QueueInit, QueueStep, TypeCorrect, PTL DEF Spec

-----------------------------------------------------------------------------
\* The session keeps its promise.

\* The promise uses the same tables.
LEMMA SameTables ==
    /\ Promise!Label = Label
    /\ \A k, l : Promise!Join(k, l) = Join(k, l)
    /\ \A k, l : Promise!Below(k, l) <=> Below(k, l)
BY DEF Promise!Label, Promise!Level, Promise!Low, Promise!Medium, Promise!High,
       Promise!Join, Promise!HigherLevel, Promise!Below,
       Label, Level, Low, Medium, High, Join, HigherLevel, Below

LEMMA PromiseInit == Init => Promise!Init
BY SameTables, RiskAssumption DEF Init, Promise!Init, alive

LEMMA PromiseStep ==
    TypeOK /\ QueueInv /\ [Next]_vars => [Promise!Next]_(Promise!promiseVars)
<1> SUFFICES ASSUME TypeOK, QueueInv, [Next]_vars
             PROVE  Promise!Next \/ UNCHANGED Promise!promiseVars
  OBVIOUS
<1>1. Quiet \/ Enqueues \/ HandsOn \/ SendsAtOnce \/ Ends
  BY StepShape
<1>2. /\ queue \in Seq(Prompt) /\ Len(queue) \in Nat
      /\ taken \in Nat /\ accepted \in Nat /\ level \in Label
  BY DEF TypeOK
<1>3. alive => /\ accepted = taken + Len(queue)
               /\ Numbered(queue, taken)
               /\ QueueCovered
  BY FifoIsNumbered DEF QueueInv
<1>4. CASE Quiet
  <2>1. CASE alive
    BY <1>4, <2>1, SameTables DEF Quiet, Promise!Next, Promise!Learn, alive
  <2>2. CASE ~alive
    BY <1>4, <2>2 DEF Quiet, Promise!promiseVars, alive
  <2>3. QED
    BY <2>1, <2>2
<1>5. CASE Enqueues
  <2>1. PICK label \in Label, blank \in BOOLEAN :
           /\ level' = Join(level, label)
           /\ queue' = Append(queue, NewPrompt(label, blank))
    BY <1>5 DEF Enqueues
  <2>2. accepted + 1 = taken + Len(queue) + 1
    BY <1>2, <1>3, <1>5 DEF Enqueues
  <2>3. NewPrompt(label, blank) \in
            [id : {taken + Len(queue) + 1}, label : Promise!Label, blank : BOOLEAN]
    BY <2>2, SameTables DEF NewPrompt
  <2>4. level' = Promise!Join(level, NewPrompt(label, blank).label)
    BY <2>1, SameTables DEF NewPrompt
  <2>5. Promise!Accept
    BY <1>5, <2>1, <2>3, <2>4 DEF Enqueues, Promise!Accept, alive
  <2>6. QED
    BY <2>5 DEF Promise!Next
<1>6. CASE HandsOn
  <2>1. alive /\ queue # <<>> /\ QueueCovered
    BY <1>3, <1>6 DEF HandsOn
  <2>2. Head(queue).id = taken + 1
    BY <1>2, <1>3, <2>1, NumberedTail
  <2>3. Promise!Below(Head(queue).label, level)
    <3>1. queue # <<>> => 1 \in DOMAIN queue /\ Head(queue) = queue[1]
      BY <1>2
    <3>2. Below(Head(queue).label, level)
      BY <2>1, <3>1 DEF QueueCovered
    <3>3. QED
      BY <3>2 DEF Below, Promise!Below
  <2>4. Promise!HandOn
    BY <1>6, <2>1, <2>2, <2>3 DEF HandsOn, Promise!HandOn, alive
  <2>5. QED
    BY <2>4 DEF Promise!Next
<1>7. CASE SendsAtOnce
  BY <1>7, SameTables DEF SendsAtOnce, Promise!Next, Promise!AcceptAndHandOn, alive
<1>8. CASE Ends
  BY <1>8 DEF Ends, Promise!Next, Promise!End, alive
<1>9. QED
  BY <1>1, <1>4, <1>5, <1>6, <1>7, <1>8

\* The session implements SessionPromise: prompts in order, each once, none
\* before its label is in the levels; levels only rise; the end is the end.
THEOREM PromiseKept == Spec => KeepsPromise
BY PromiseInit, PromiseStep, QueueInit, QueueStep, TypeCorrect, PTL
DEF Spec, KeepsPromise, Promise!Spec
=============================================================================
