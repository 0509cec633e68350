-------------------------- MODULE SessionMailProofs --------------------------
(***************************************************************************)
(* What the mailbox of a session owes it, for every set of tool calls,     *)
(* every label, every ceiling and every bound: the answers a :running      *)
(* session waits for, the timeout that reclaims an idle one, the end of    *)
(* the port, and the tool results that still have to raise its levels.     *)
(***************************************************************************)
EXTENDS AgentSessionProofs

-----------------------------------------------------------------------------
\* What is in a mailbox, and in what order.

\* What the AgentPort forwards; the rest are the session's own timers and kills.
FromPort == {"ready", "interrupted", "tool_use", "tool_result", "result", "port_down"}

Has(s, types) == \E i \in DOMAIN s : s[i].type \in types

\* The end of the port is the last that comes from it.
Closed(s) ==
    \A i, j \in DOMAIN s : i < j /\ s[i].type = "port_down" => s[j].type \notin FromPort

LEMMA ConcatIs ==
    ASSUME NEW S, NEW s \in Seq(S), NEW e \in Seq(S)
    PROVE  /\ s \o e \in Seq(S)
           /\ DOMAIN (s \o e) = 1 .. Len(s) + Len(e)
           /\ DOMAIN s = 1 .. Len(s) /\ DOMAIN e = 1 .. Len(e)
           /\ Len(s) \in Nat /\ Len(e) \in Nat
           /\ \A i \in 1 .. Len(s) : (s \o e)[i] = s[i]
           /\ \A i \in 1 .. Len(e) : (s \o e)[Len(s) + i] = e[i]
           /\ \A i \in 1 .. Len(s) + Len(e) :
                 i \in 1 .. Len(s) \/ (i - Len(s) \in 1 .. Len(e)
                                       /\ (s \o e)[i] = e[i - Len(s)])
OBVIOUS

LEMMA TailIs ==
    ASSUME NEW S, NEW s \in Seq(S), s # <<>>
    PROVE  /\ Tail(s) \in Seq(S) /\ Head(s) \in S
           /\ DOMAIN s = 1 .. Len(s) /\ DOMAIN Tail(s) = 1 .. Len(s) - 1
           /\ Len(s) \in Nat /\ Len(s) >= 1
           /\ Head(s) = s[1]
           /\ \A i \in 1 .. Len(s) - 1 : Tail(s)[i] = s[i + 1]
OBVIOUS

LEMMA HasConcat ==
    ASSUME NEW s \in Seq(Message), NEW e \in Seq(Message), NEW T
    PROVE  Has(s \o e, T) <=> Has(s, T) \/ Has(e, T)
<1>1. ASSUME Has(s, T) PROVE Has(s \o e, T)
  <2>1. PICK i \in DOMAIN s : s[i].type \in T
    BY <1>1 DEF Has
  <2>2. i \in DOMAIN (s \o e) /\ (s \o e)[i] = s[i]
    BY ConcatIs
  <2>3. QED
    BY <2>1, <2>2 DEF Has
<1>2. ASSUME Has(e, T) PROVE Has(s \o e, T)
  <2>1. PICK i \in DOMAIN e : e[i].type \in T
    BY <1>2 DEF Has
  <2>2. Len(s) + i \in DOMAIN (s \o e) /\ (s \o e)[Len(s) + i] = e[i]
    BY ConcatIs
  <2>3. QED
    BY <2>1, <2>2 DEF Has
<1>3. ASSUME Has(s \o e, T) PROVE Has(s, T) \/ Has(e, T)
  <2>1. PICK i \in DOMAIN (s \o e) : (s \o e)[i].type \in T
    BY <1>3 DEF Has
  <2>2. \/ i \in DOMAIN s /\ (s \o e)[i] = s[i]
        \/ i - Len(s) \in DOMAIN e /\ (s \o e)[i] = e[i - Len(s)]
    BY ConcatIs
  <2>3. QED
    BY <2>1, <2>2 DEF Has
<1>4. QED
  BY <1>1, <1>2, <1>3

LEMMA HasTail ==
    ASSUME NEW s \in Seq(Message), s # <<>>, NEW T
    PROVE  Has(s, T) <=> Head(s).type \in T \/ Has(Tail(s), T)
<1>1. ASSUME Has(s, T), Head(s).type \notin T PROVE Has(Tail(s), T)
  <2>1. PICK i \in DOMAIN s : s[i].type \in T
    BY <1>1 DEF Has
  <2>2. i \in 1 .. Len(s) /\ i # 1
    BY <1>1, <2>1, TailIs
  <2>3. i - 1 \in DOMAIN Tail(s) /\ Tail(s)[i - 1] = s[i]
    BY <2>2, TailIs
  <2>4. QED
    BY <2>1, <2>3 DEF Has
<1>2. ASSUME Has(Tail(s), T) PROVE Has(s, T)
  <2>1. PICK i \in DOMAIN Tail(s) : Tail(s)[i].type \in T
    BY <1>2 DEF Has
  <2>2. i + 1 \in DOMAIN s /\ Tail(s)[i] = s[i + 1]
    BY TailIs
  <2>3. QED
    BY <2>1, <2>2 DEF Has
<1>3. ASSUME Head(s).type \in T PROVE Has(s, T)
  BY <1>3, TailIs DEF Has
<1>4. QED
  BY <1>1, <1>2, <1>3

\* A single message, and one appended.
LEMMA HasOne ==
    ASSUME NEW s \in Seq(Message), NEW m \in Message, NEW T
    PROVE  /\ Has(<<m>>, T) <=> m.type \in T
           /\ Has(Append(s, m), T) <=> Has(s, T) \/ m.type \in T
           /\ ~Has(<<>>, T)
<1>1. Has(<<m>>, T) <=> m.type \in T
  BY DEF Has
<1>2. Append(s, m) = s \o <<m>> /\ <<m>> \in Seq(Message)
  OBVIOUS
<1>3. ~Has(<<>>, T)
  BY DEF Has
<1>4. Has(s \o <<m>>, T) <=> Has(s, T) \/ Has(<<m>>, T)
  BY <1>2, HasConcat
<1>5. QED
  BY <1>1, <1>2, <1>3, <1>4

LEMMA HasTwo ==
    ASSUME NEW m \in Message, NEW n \in Message, NEW T
    PROVE  <<m, n>> \in Seq(Message) /\ (Has(<<m, n>>, T) <=> m.type \in T \/ n.type \in T)
<1>1. DOMAIN <<m, n>> = {1, 2} /\ <<m, n>>[1] = m /\ <<m, n>>[2] = n
  OBVIOUS
<1>2. Has(<<m, n>>, T) <=> m.type \in T \/ n.type \in T
  BY <1>1 DEF Has
<1>3. QED
  BY <1>2

LEMMA ClosedConcat ==
    ASSUME NEW s \in Seq(Message), NEW e \in Seq(Message), Closed(s),
           \/ ~Has(s, {"port_down"}) /\ Closed(e)
           \/ ~Has(e, FromPort)
    PROVE  Closed(s \o e)
<1> SUFFICES ASSUME NEW i \in DOMAIN (s \o e), NEW j \in DOMAIN (s \o e),
                    i < j, (s \o e)[i].type = "port_down"
             PROVE  (s \o e)[j].type \notin FromPort
  BY DEF Closed
<1>1. /\ i \in Nat /\ j \in Nat /\ Len(s) \in Nat
      /\ \/ i \in DOMAIN s /\ (s \o e)[i] = s[i] /\ i <= Len(s)
         \/ i - Len(s) \in DOMAIN e /\ (s \o e)[i] = e[i - Len(s)] /\ i > Len(s)
      /\ \/ j \in DOMAIN s /\ (s \o e)[j] = s[j] /\ j <= Len(s)
         \/ j - Len(s) \in DOMAIN e /\ (s \o e)[j] = e[j - Len(s)] /\ j > Len(s)
  BY ConcatIs
<1>2. CASE i \in DOMAIN s /\ (s \o e)[i] = s[i] /\ j \in DOMAIN s /\ (s \o e)[j] = s[j]
  BY <1>2 DEF Closed
<1>3. CASE i \in DOMAIN s /\ (s \o e)[i] = s[i]
           /\ j - Len(s) \in DOMAIN e /\ (s \o e)[j] = e[j - Len(s)]
  <2>1. Has(s, {"port_down"})
    BY <1>3 DEF Has
  <2>2. ~Has(e, FromPort)
    BY <2>1
  <2>3. QED
    BY <1>3, <2>2 DEF Has
<1>4. CASE /\ i - Len(s) \in DOMAIN e /\ (s \o e)[i] = e[i - Len(s)]
           /\ j - Len(s) \in DOMAIN e /\ (s \o e)[j] = e[j - Len(s)]
  <2>1. i - Len(s) < j - Len(s)
    BY <1>1
  <2>2. Closed(e)
    BY <1>4 DEF Has, FromPort
  <2>3. QED
    BY <1>4, <2>1, <2>2 DEF Closed
<1>5. QED
  BY <1>1, <1>2, <1>3, <1>4

LEMMA ClosedTail ==
    ASSUME NEW s \in Seq(Message), s # <<>>, Closed(s)
    PROVE  /\ Closed(Tail(s))
           /\ Head(s).type = "port_down" => ~Has(Tail(s), FromPort)
<1>1. ASSUME NEW i \in DOMAIN Tail(s), NEW j \in DOMAIN Tail(s), i < j,
             Tail(s)[i].type = "port_down"
      PROVE  Tail(s)[j].type \notin FromPort
  <2>1. /\ i + 1 \in DOMAIN s /\ j + 1 \in DOMAIN s /\ i + 1 < j + 1
        /\ Tail(s)[i] = s[i + 1] /\ Tail(s)[j] = s[j + 1]
    BY <1>1, TailIs
  <2>2. QED
    BY <1>1, <2>1 DEF Closed
<1>2. ASSUME Head(s).type = "port_down", NEW j \in DOMAIN Tail(s)
      PROVE  Tail(s)[j].type \notin FromPort
  <2>1. /\ 1 \in DOMAIN s /\ j + 1 \in DOMAIN s /\ 1 < j + 1
        /\ Head(s) = s[1] /\ Tail(s)[j] = s[j + 1]
    BY TailIs
  <2>2. QED
    BY <1>2, <2>1 DEF Closed
<1>3. QED
  BY <1>1, <1>2 DEF Closed, Has

LEMMA ClosedOne ==
    ASSUME NEW m \in Message
    PROVE  Closed(<<>>) /\ Closed(<<m>>)
BY DEF Closed

-----------------------------------------------------------------------------
\* Lines that will be answered.

Work(s) == \E i \in DOMAIN s : s[i].type # "interrupt"

LEMMA WorkConcat ==
    ASSUME NEW s \in Seq(Line), NEW e \in Seq(Line), Work(s) \/ Work(e)
    PROVE  Work(s \o e)
<1>1. CASE Work(s)
  <2>1. PICK i \in DOMAIN s : s[i].type # "interrupt"
    BY <1>1 DEF Work
  <2>2. i \in DOMAIN (s \o e) /\ (s \o e)[i] = s[i]
    BY ConcatIs
  <2>3. QED
    BY <2>1, <2>2 DEF Work
<1>2. CASE Work(e)
  <2>1. PICK i \in DOMAIN e : e[i].type # "interrupt"
    BY <1>2 DEF Work
  <2>2. Len(s) + i \in DOMAIN (s \o e) /\ (s \o e)[Len(s) + i] = e[i]
    BY ConcatIs
  <2>3. QED
    BY <2>1, <2>2 DEF Work
<1>3. QED
  BY <1>1, <1>2

LEMMA WorkTail ==
    ASSUME NEW s \in Seq(Line), s # <<>>, Work(s)
    PROVE  Head(s).type # "interrupt" \/ Work(Tail(s))
<1>1. PICK i \in DOMAIN s : s[i].type # "interrupt"
  BY DEF Work
<1>2. CASE i = 1
  BY <1>1, <1>2, TailIs
<1>3. CASE i # 1
  <2>1. i - 1 \in DOMAIN Tail(s) /\ Tail(s)[i - 1] = s[i]
    BY <1>3, TailIs
  <2>2. QED
    BY <1>1, <2>1 DEF Work
<1>4. QED
  BY <1>2, <1>3

LEMMA WorkOne ==
    ASSUME NEW s \in Seq(Line), NEW l \in Line, l.type # "interrupt"
    PROVE  Work(<<l>>) /\ Work(Append(s, l)) /\ Work(s \o <<l>>)
<1>1. Work(<<l>>) /\ <<l>> \in Seq(Line)
  BY DEF Work
<1>2. Append(s, l) = s \o <<l>>
  OBVIOUS
<1>3. QED
  BY <1>1, <1>2, WorkConcat

\* What a session sends joins what its runtime has still to read.
LEMMA SendWorks ==
    ASSUME TypeOK, portOpen, NEW lines \in Seq(Line), Send(lines),
           Work(stdin) \/ Work(lines)
    PROVE  Work(stdin')
BY WorkConcat DEF Send, TypeOK

-----------------------------------------------------------------------------
\* The inductive invariant.

\* The messages that move a :running session on.
Answers == {"result", "interrupted", "port_down"}

\* A session hears of the end of its port, once, behind everything the port
\* forwarded; from then on it is :stopped and nothing more comes from there.
PortHeard ==
    /\ portOpen => status # "stopped" /\ ~Has(mailbox, {"port_down"})
    /\ ~portOpen => /\ run = "exited"
                    /\ status # "stopped" => Has(mailbox, {"port_down"})
    /\ Closed(mailbox)
    /\ status = "stopped" => ~Has(mailbox, FromPort)

NotYetIdle == status = "starting" => ~idleTimer /\ ~Has(mailbox, {"idle_timeout"})

Owed ==
    status = "running" /\ ~dropped =>
        \/ run \in Turn
        \/ Work(stdin)
        \/ Work(controlQueue)
        \/ Has(mailbox, Answers)
        \/ run = "exited" /\ portOpen

Expiring ==
    status = "ready" /\ mode = "normal" /\ IdleTimeout =>
        idleTimer \/ Has(mailbox, {"idle_timeout"})

Living == PortHeard /\ NotYetIdle /\ Owed /\ Expiring
MailInv == alive => Living

LEMMA PortDownAnswers ==
    ASSUME NEW s
    PROVE  Has(s, {"port_down"}) => Has(s, Answers) /\ Has(s, FromPort)
BY DEF Has, Answers, FromPort

\* A mailbox that reads the same: a kill, or nothing, was appended.
Alike(r, s) ==
    /\ Has(r, {"port_down"}) <=> Has(s, {"port_down"})
    /\ Has(r, {"idle_timeout"}) <=> Has(s, {"idle_timeout"})
    /\ Has(r, FromPort) <=> Has(s, FromPort)
    /\ Has(r, Answers) <=> Has(s, Answers)
    /\ Closed(s) => Closed(r)

LEMMA OwnAppended ==
    ASSUME NEW s \in Seq(Message), NEW m \in Message, m.type \notin FromPort
    PROVE  /\ Closed(s) => Closed(Append(s, m))
           /\ m.type # "idle_timeout" => Alike(Append(s, m), s)
           /\ Has(Append(s, m), {"port_down"}) <=> Has(s, {"port_down"})
           /\ Has(Append(s, m), FromPort) <=> Has(s, FromPort)
           /\ Has(s, {"idle_timeout"}) => Has(Append(s, m), {"idle_timeout"})
           /\ m.type = "idle_timeout" => Has(Append(s, m), {"idle_timeout"})
           /\ Has(s, Answers) => Has(Append(s, m), Answers)
<1>1. ASSUME Closed(s) PROVE Closed(Append(s, m))
  <2>1. Append(s, m) = s \o <<m>> /\ <<m>> \in Seq(Message)
    OBVIOUS
  <2>2. ~Has(<<m>>, FromPort)
    BY HasOne
  <2>3. Closed(s \o <<m>>)
    BY <1>1, <2>1, <2>2, ClosedConcat
  <2>4. QED
    BY <2>1, <2>3
<1>2. /\ Has(Append(s, m), {"port_down"}) <=> Has(s, {"port_down"}) \/ m.type \in {"port_down"}
      /\ Has(Append(s, m), {"idle_timeout"})
             <=> Has(s, {"idle_timeout"}) \/ m.type \in {"idle_timeout"}
      /\ Has(Append(s, m), FromPort) <=> Has(s, FromPort) \/ m.type \in FromPort
      /\ Has(Append(s, m), Answers) <=> Has(s, Answers) \/ m.type \in Answers
  BY HasOne
<1>3. m.type \notin {"port_down"} /\ m.type \notin Answers
  BY DEF FromPort, Answers
<1>4. QED
  BY <1>1, <1>2, <1>3 DEF Alike

LEMMA ElevateMail ==
    ASSUME NEW label, NEW rest \in Seq(Message), Elevate(label, rest)
    PROVE  Alike(mailbox', rest)
<1>1. mailbox' = rest \/ mailbox' = Append(rest, Note("kill_risk_exceeded"))
  BY DEF Elevate
<1>2. /\ Note("kill_risk_exceeded") \in Message
      /\ Note("kill_risk_exceeded").type = "kill_risk_exceeded"
  BY MessageTypes DEF Note
<1>3. Alike(Append(rest, Note("kill_risk_exceeded")), rest)
  BY <1>2, OwnAppended DEF FromPort
<1>4. Alike(rest, rest)
  BY DEF Alike
<1>5. QED
  BY <1>1, <1>3, <1>4

\* What is left when the head has been handled.
LEMMA RestOfMail ==
    ASSUME TypeOK, NEW type, Receives(type), Closed(mailbox)
    PROVE  /\ Tail(mailbox) \in Seq(Message)
           /\ Closed(Tail(mailbox))
           /\ type = "port_down" => ~Has(Tail(mailbox), FromPort)
           /\ type \in FromPort => Has(mailbox, FromPort)
           /\ type # "port_down" =>
                  (Has(Tail(mailbox), {"port_down"}) <=> Has(mailbox, {"port_down"}))
           /\ type # "idle_timeout" =>
                  (Has(Tail(mailbox), {"idle_timeout"}) <=> Has(mailbox, {"idle_timeout"}))
           /\ type \notin Answers => (Has(Tail(mailbox), Answers) <=> Has(mailbox, Answers))
           /\ Has(Tail(mailbox), FromPort) => Has(mailbox, FromPort)
<1>1. /\ mailbox \in Seq(Message) /\ mailbox # <<>> /\ Head(mailbox).type = type
      /\ Tail(mailbox) \in Seq(Message)
  BY ReceivesType DEF TypeOK, Receives
<1>2. /\ Closed(Tail(mailbox))
      /\ type = "port_down" => ~Has(Tail(mailbox), FromPort)
  BY <1>1, ClosedTail
<1>3. /\ Has(mailbox, {"port_down"}) <=> type \in {"port_down"} \/ Has(Tail(mailbox), {"port_down"})
      /\ Has(mailbox, {"idle_timeout"})
             <=> type \in {"idle_timeout"} \/ Has(Tail(mailbox), {"idle_timeout"})
      /\ Has(mailbox, FromPort) <=> type \in FromPort \/ Has(Tail(mailbox), FromPort)
      /\ Has(mailbox, Answers) <=> type \in Answers \/ Has(Tail(mailbox), Answers)
  BY <1>1, HasTail
<1>4. QED
  BY <1>1, <1>2, <1>3

-----------------------------------------------------------------------------
\* The container's steps.

\* The container only adds to the mailbox, and neither a timeout nor the end of
\* the port; once it has exited it does nothing.
LEMMA RuntimeSays ==
    ASSUME TypeOK, RuntimeNext
    PROVE  /\ run # "exited"
           /\ UNCHANGED <<mode, portOpen>>
           /\ \E e \in Seq(Message) :
                 Emit(e) /\ ~Has(e, {"port_down"}) /\ ~Has(e, {"idle_timeout"})
<1> DEFINE Fine(e) ==
        e \in Seq(Message) /\ ~Has(e, {"port_down"}) /\ ~Has(e, {"idle_timeout"})
<1>1. /\ Interruptible \subseteq Turn /\ "exited" \notin Turn
      /\ "retry" \in Turn /\ "save" \in Turn /\ "reflect" \in Turn
  BY DEF Turn, Interruptible
<1>2. Fine(<<>>)
  BY EmptyTypes DEF Has
<1>3. UNCHANGED mailbox => Emit(<<>>)
  BY DEF Emit, TypeOK
<1>4. ASSUME NEW m \in Message, m.type \notin {"port_down", "idle_timeout"}
      PROVE  Fine(<<m>>)
  <2>1. <<m>> \in Seq(Message)
    OBVIOUS
  <2>2. QED
    BY <1>4, <2>1, HasOne
<1>5. /\ Fine(<<Note("ready")>>) /\ Fine(<<Note("interrupted")>>)
      /\ \A t \in Tools : /\ Fine(<<ToolNote("tool_use", t)>>)
                          /\ Fine(<<ToolNote("tool_result", t)>>)
      /\ \A turn \in Turn : Fine(<<ResultOf(turn)>>)
  <2>1. /\ Note("ready").type = "ready" /\ Note("interrupted").type = "interrupted"
        /\ \A t : /\ ToolNote("tool_use", t).type = "tool_use"
                  /\ ToolNote("tool_result", t).type = "tool_result"
        /\ \A turn : ResultOf(turn).type = "result"
    BY DEF Note, ToolNote, ResultOf
  <2> HIDE DEF Fine
  <2>2. QED
    BY <1>4, <2>1, MessageTypes
<1>6. \A turn \in Turn : Fine(<<ResultOf(turn), Note("interrupted")>>)
  <2> SUFFICES ASSUME NEW turn \in Turn
               PROVE  Fine(<<ResultOf(turn), Note("interrupted")>>)
    OBVIOUS
  <2>1. /\ ResultOf(turn) \in Message /\ Note("interrupted") \in Message
        /\ ResultOf(turn).type = "result" /\ Note("interrupted").type = "interrupted"
    BY MessageTypes DEF Note, ResultOf
  <2>2. QED
    BY <2>1, HasTwo
<1> HIDE DEF Fine
<1>7. \/ /\ run # "exited" /\ UNCHANGED <<mode, portOpen>>
         /\ UNCHANGED mailbox
      \/ /\ run # "exited" /\ UNCHANGED <<mode, portOpen>>
         /\ \E e : Fine(e) /\ Emit(e)
  <2>1. CASE Ready
    BY <1>5, <2>1 DEF Ready
  <2>2. CASE ReadStdin
    BY <2>2 DEF ReadStdin
  <2>3. CASE NextControl
    BY <2>3 DEF NextControl, Control, StartTurn, RefuseBlank, StartSave, LeaveLoop, Exit
  <2>4. ASSUME NEW t \in Tools, ToolUse(t) \/ ToolReturns(t)
        PROVE  /\ run # "exited" /\ UNCHANGED <<mode, portOpen>>
               /\ \E e : Fine(e) /\ Emit(e)
    BY <1>1, <1>5, <2>4 DEF ToolUse, ToolReturns
  <2>5. CASE WriteTree
    BY <1>1, <2>5 DEF WriteTree
  <2>6. CASE Crash
    BY <2>6 DEF Crash, Exit
  <2>7. CASE AbortTurn \/ CompleteTurn \/ CompleteAndAbort
    <3>1. run \in Turn
      BY <1>1, <2>7 DEF AbortTurn, CompleteTurn, CompleteAndAbort
    <3>2. QED
      BY <1>1, <1>5, <1>6, <2>7, <3>1
      DEF AbortTurn, CompleteTurn, CompleteAndAbort, EndTurn
  <2>8. CASE SuppressEmptyResult \/ FailEmptyTurn \/ RetryCompletes
    <3>1. run \in Turn
      BY <1>1, <2>8 DEF SuppressEmptyResult, FailEmptyTurn, RetryCompletes
    <3>2. QED
      BY <1>1, <1>2, <1>5, <2>8, <3>1
      DEF SuppressEmptyResult, FailEmptyTurn, RetryCompletes, EndTurn
  <2>9. CASE LastTurnCompletes
    <3>1. run \in Turn
      BY <1>1, <2>9 DEF LastTurnCompletes
    <3>2. QED
      BY <1>1, <1>5, <2>9, <3>1 DEF LastTurnCompletes, Exit
  <2>10. QED
    BY <2>1, <2>2, <2>3, <2>4, <2>5, <2>6, <2>7, <2>8, <2>9 DEF RuntimeNext, TurnEnds
<1>8. QED
  BY <1>2, <1>3, <1>7 DEF Fine

\* What the container owes stays owed: a turn ends in an answer, and the end
\* of the container is still to be heard of.
LEMMA RuntimeOwes ==
    ASSUME TypeOK, RuntimeNext, portOpen, UNCHANGED status, Owed,
           Has(mailbox, Answers) => Has(mailbox', Answers)
    PROVE  Owed'
<1>1. /\ stdin \in Seq(Line) /\ controlQueue \in Seq(Line) /\ mailbox \in Seq(Message)
      /\ Interruptible \subseteq Turn /\ "retry" \in Turn /\ "save" \in Turn
      /\ "boot" \notin Turn /\ "idle" \notin Turn
  BY DEF TypeOK, Turn, Interruptible
<1>2. CASE Ready
  BY <1>1, <1>2 DEF Ready, Owed
<1>3. CASE ReadStdin
  <2>1. /\ Head(stdin) \in Line /\ Tail(stdin) \in Seq(Line) /\ stdin # <<>>
        /\ UNCHANGED <<portOpen, run, dropped, mailbox>>
    BY <1>1, <1>3 DEF ReadStdin
  <2>2. Work(stdin) \/ Work(controlQueue) => Work(stdin') \/ Work(controlQueue')
    <3>1. CASE Head(stdin).type = "interrupt"
      <4>1. stdin' = Tail(stdin) /\ controlQueue' = controlQueue
        BY <1>3, <3>1 DEF ReadStdin
      <4>2. QED
        BY <1>1, <2>1, <3>1, <4>1, WorkTail
    <3>2. CASE Head(stdin).type # "interrupt"
      <4>1. controlQueue' = Append(controlQueue, Head(stdin))
        BY <1>3, <3>2 DEF ReadStdin
      <4>2. QED
        BY <1>1, <2>1, <3>2, <4>1, WorkOne
    <3>3. QED
      BY <3>1, <3>2
  <2>3. QED
    BY <2>1, <2>2 DEF Owed
<1>4. CASE NextControl
  BY <1>1, <1>4
  DEF NextControl, Control, StartTurn, RefuseBlank, StartSave, LeaveLoop, Exit, Owed
<1>5. ASSUME NEW t \in Tools, ToolUse(t) \/ ToolReturns(t)
      PROVE  Owed'
  BY <1>5 DEF ToolUse, ToolReturns, Owed
<1>6. CASE WriteTree
  BY <1>6 DEF WriteTree, Owed
<1>7. CASE Crash
  BY <1>7 DEF Crash, Exit, Owed
<1>8. ASSUME NEW e \in Seq(Message), Has(e, Answers), Emit(e)
      PROVE  Has(mailbox', Answers)
  BY <1>1, <1>8, HasConcat DEF Emit
<1>9. /\ <<Note("interrupted")>> \in Seq(Message) /\ Has(<<Note("interrupted")>>, Answers)
      /\ run \in Turn => /\ <<ResultOf(run)>> \in Seq(Message)
                         /\ Has(<<ResultOf(run)>>, Answers)
                         /\ <<ResultOf(run), Note("interrupted")>> \in Seq(Message)
                         /\ Has(<<ResultOf(run), Note("interrupted")>>, Answers)
  <2>1. /\ Note("interrupted") \in Message
        /\ Note("interrupted").type \in Answers /\ ResultOf(run).type \in Answers
    BY MessageTypes DEF Note, ResultOf, Answers
  <2>2. <<Note("interrupted")>> \in Seq(Message) /\ Has(<<Note("interrupted")>>, Answers)
    <3>1. <<Note("interrupted")>> \in Seq(Message)
      BY <2>1
    <3>2. QED
      BY <2>1, <3>1, HasOne
  <2>3. ASSUME run \in Turn
        PROVE  /\ <<ResultOf(run)>> \in Seq(Message)
               /\ Has(<<ResultOf(run)>>, Answers)
               /\ <<ResultOf(run), Note("interrupted")>> \in Seq(Message)
               /\ Has(<<ResultOf(run), Note("interrupted")>>, Answers)
    <3>1. ResultOf(run) \in Message
      BY <2>3, MessageTypes
    <3>2. <<ResultOf(run)>> \in Seq(Message)
      BY <3>1
    <3>3. QED
      BY <2>1, <3>1, <3>2, HasOne, HasTwo
  <2>4. QED
    BY <2>2, <2>3
<1>10. CASE AbortTurn
  <2>1. Has(mailbox', Answers)
    BY <1>8, <1>9, <1>10 DEF AbortTurn, EndTurn
  <2>2. QED
    BY <2>1 DEF Owed
<1>11. CASE CompleteTurn \/ FailEmptyTurn \/ RetryCompletes
  <2>1. Has(mailbox', Answers)
    BY <1>1, <1>8, <1>9, <1>11 DEF CompleteTurn, FailEmptyTurn, RetryCompletes, EndTurn
  <2>2. QED
    BY <2>1 DEF Owed
<1>12. CASE CompleteAndAbort
  <2>1. Has(mailbox', Answers)
    BY <1>1, <1>8, <1>9, <1>12 DEF CompleteAndAbort, EndTurn
  <2>2. QED
    BY <2>1 DEF Owed
<1>13. CASE SuppressEmptyResult
  BY <1>1, <1>13 DEF SuppressEmptyResult, EndTurn, Owed
<1>14. CASE LastTurnCompletes
  BY <1>14 DEF LastTurnCompletes, Exit, Owed
<1>15. QED
  BY <1>2, <1>3, <1>4, <1>5, <1>6, <1>7, <1>10, <1>11, <1>12, <1>13, <1>14
  DEF RuntimeNext, TurnEnds

LEMMA NoPortDownClosed ==
    ASSUME NEW s, ~Has(s, {"port_down"})
    PROVE  Closed(s)
BY DEF Has, Closed

LEMMA RuntimeLiving ==
    ASSUME TypeOK, Living, RuntimeNext, UNCHANGED sessionVars
    PROVE  Living'
<1>1. run # "exited" /\ UNCHANGED <<mode, portOpen>>
  BY RuntimeSays
<1>2. portOpen /\ status # "stopped" /\ ~Has(mailbox, {"port_down"})
  BY <1>1 DEF Living, PortHeard
<1>3. PICK e \in Seq(Message) :
         Emit(e) /\ ~Has(e, {"port_down"}) /\ ~Has(e, {"idle_timeout"})
  BY RuntimeSays
<1>4. mailbox' = mailbox \o e /\ mailbox \in Seq(Message)
  BY <1>2, <1>3 DEF Emit, TypeOK
<1>5. /\ Has(mailbox', {"port_down"}) <=> Has(mailbox, {"port_down"})
      /\ Has(mailbox', {"idle_timeout"}) <=> Has(mailbox, {"idle_timeout"})
      /\ Has(mailbox, Answers) => Has(mailbox', Answers)
  BY <1>3, <1>4, HasConcat
<1>6. PortHeard'
  <2>1. Closed(mailbox')
    BY <1>2, <1>5, NoPortDownClosed
  <2>2. QED
    BY <1>1, <1>2, <1>5, <2>1 DEF PortHeard, sessionVars
<1>7. NotYetIdle' /\ Expiring'
  BY <1>1, <1>5 DEF Living, NotYetIdle, Expiring, sessionVars
<1>8. Owed'
  BY <1>2, <1>5, RuntimeOwes DEF Living, sessionVars
<1>9. QED
  BY <1>6, <1>7, <1>8 DEF Living

-----------------------------------------------------------------------------
\* The session's steps.

\* The rest of the invariant needs only that the port's part reads the same.
LEMMA PortHeardKept ==
    ASSUME PortHeard, UNCHANGED <<portOpen, run>>,
           Has(mailbox', {"port_down"}) <=> Has(mailbox, {"port_down"}),
           Closed(mailbox'),
           status' = "stopped" <=> status = "stopped",
           Has(mailbox', FromPort) => Has(mailbox, FromPort)
    PROVE  PortHeard'
BY DEF PortHeard

LEMMA PromptLiving ==
    ASSUME TypeOK, Living, PromptArrives
    PROVE  Living'
<1>1. PICK label \in PromptLabels, blank \in Blanks :
         \/ PromptWhenReady(label, blank)
         \/ PromptWhenStarting(label, blank)
         \/ \E reaction \in BOOLEAN : PromptWhenRunning(label, blank, reaction)
  BY DEF PromptArrives
<1>2. AcceptPrompt(label)
  BY <1>1 DEF PromptWhenReady, PromptWhenStarting, PromptWhenRunning
<1>3. Alike(mailbox', mailbox)
  BY <1>2, ElevateMail DEF AcceptPrompt, TypeOK
<1>4. UNCHANGED <<portOpen, run, mode, controlQueue, dropped>>
  BY <1>2 DEF AcceptPrompt, RuntimeSide
<1>5. PortHeard'
  <2>1. status' = "stopped" <=> status = "stopped"
    BY <1>1 DEF PromptWhenReady, PromptWhenStarting, PromptWhenRunning
  <2>2. QED
    BY <1>3, <1>4, <2>1, PortHeardKept DEF Alike, Living, PortHeard
<1>6. CASE PromptWhenReady(label, blank)
  <2>1. portOpen => Work(stdin')
    <3>1. PromptLine(label, blank) \in Line /\ PromptLine(label, blank).type # "interrupt"
      BY LineTypes, RiskAssumption, BoundAssumption DEF PromptLine
    <3>2. Send(<<PromptLine(label, blank)>>)
      BY <1>6 DEF PromptWhenReady, SendPrompt, NewPrompt
    <3>3. <<PromptLine(label, blank)>> \in Seq(Line) /\ Work(<<PromptLine(label, blank)>>)
      <4> DEFINE line == PromptLine(label, blank)
      <4>1. line \in Line /\ line.type # "interrupt"
        BY <3>1
      <4> HIDE DEF line
      <4>2. <<line>> \in Seq(Line) /\ Work(<<line>>)
        BY <4>1 DEF Work
      <4>3. QED
        BY <4>2 DEF line
    <3>4. QED
      BY <3>2, <3>3, SendWorks
  <2>2. ~portOpen => Has(mailbox', Answers)
    BY <1>3, <1>6, PortDownAnswers DEF Alike, Living, PortHeard, PromptWhenReady
  <2>3. status' = "running"
    BY <1>6 DEF PromptWhenReady
  <2>4. QED
    BY <1>5, <2>1, <2>2, <2>3 DEF Living, Owed, NotYetIdle, Expiring
<1>7. CASE PromptWhenStarting(label, blank)
  <2>1. status = "starting" /\ UNCHANGED <<status, idleTimer>>
    BY <1>7 DEF PromptWhenStarting
  <2>2. QED
    BY <1>3, <1>5, <2>1 DEF Living, Owed, NotYetIdle, Expiring, Alike
<1>8. ASSUME NEW reaction \in BOOLEAN, PromptWhenRunning(label, blank, reaction)
      PROVE  Living'
  <2>1. status = "running" /\ UNCHANGED <<status, idleTimer>>
    BY <1>8 DEF PromptWhenRunning
  <2>2. Work(stdin) => Work(stdin')
    <3> DEFINE lines == IF reaction THEN <<>> ELSE <<ControlLine("interrupt")>>
    <3>1. lines \in Seq(Line)
      BY EmptyTypes, LineTypes, SingletonTypes
    <3>2. Send(lines)
      BY <1>8 DEF PromptWhenRunning
    <3> HIDE DEF lines
    <3>3. portOpen => (Work(stdin) => Work(stdin'))
      BY <3>1, <3>2, SendWorks
    <3>4. ~portOpen => stdin' = stdin
      BY <3>2 DEF Send
    <3>5. QED
      BY <3>3, <3>4
  <2>3. QED
    BY <1>3, <1>4, <1>5, <2>1, <2>2 DEF Living, Owed, NotYetIdle, Expiring, Alike
<1>9. QED
  BY <1>1, <1>6, <1>7, <1>8

LEMMA BcpLiving ==
    ASSUME TypeOK, Living, BcpArrives
    PROVE  Living'
<1>1. UNCHANGED <<mailbox, status, idleTimer, portOpen, run, mode, controlQueue, dropped>>
  BY DEF BcpArrives, RuntimeSide
<1>2. Work(stdin) => Work(stdin')
  <2>1. CASE UNCHANGED stdin
    BY <2>1
  <2>2. CASE Send(<<ControlLine("bcp")>>)
    <3>1. <<ControlLine("bcp")>> \in Seq(Line)
      BY LineTypes
    <3>2. portOpen => (Work(stdin) => Work(stdin'))
      BY <2>2, <3>1, SendWorks
    <3>3. ~portOpen => stdin' = stdin
      BY <2>2 DEF Send
    <3>4. QED
      BY <3>2, <3>3
  <2>3. QED
    BY <2>1, <2>2 DEF BcpArrives
<1>3. QED
  BY <1>1, <1>2 DEF Living, PortHeard, NotYetIdle, Owed, Expiring

\* A memory save begins only where no answer is waited for and no timer is
\* wanted.
LEMMA BeginSaveLiving ==
    ASSUME TypeOK, Living, NEW rest, BeginSave(rest), status # "stopped",
           Closed(rest),
           Has(rest, {"port_down"}) <=> Has(mailbox, {"port_down"})
    PROVE  Living'
BY DEF BeginSave, RuntimeSide, Living, PortHeard, NotYetIdle, Owed, Expiring

\* A handler of an answer leaves the session :running with work sent, or :ready.
LEMMA AnswerLiving ==
    ASSUME TypeOK, Living, NEW type \in {"ready", "interrupted", "result"},
           Receives(type), AfterAnswer, status' \in {"ready", "running"},
           status' = "running" /\ portOpen => Work(stdin'),
           status' = "ready" /\ mode = "normal" /\ IdleTimeout => idleTimer'
    PROVE  Living'
<1>1. /\ mailbox' = Tail(mailbox)
      /\ UNCHANGED <<portOpen, run, mode>>
  BY DEF AfterAnswer, RuntimeSide
<1>2. /\ Closed(mailbox')
      /\ Has(mailbox', {"port_down"}) <=> Has(mailbox, {"port_down"})
      /\ Has(mailbox, FromPort)
      /\ Has(mailbox', FromPort) => Has(mailbox, FromPort)
  BY <1>1, RestOfMail DEF Living, PortHeard, FromPort
<1>3. status # "stopped"
  BY <1>2 DEF Living, PortHeard
<1>4. PortHeard'
  BY <1>1, <1>2, <1>3, PortHeardKept DEF Living
<1>5. ~portOpen => Has(mailbox', Answers)
  BY <1>2, <1>3, PortDownAnswers DEF Living, PortHeard
<1>6. QED
  BY <1>1, <1>4, <1>5 DEF Living, Owed, NotYetIdle, Expiring

\* The two ways on of an answer's handler.
LEMMA WayOn ==
    ASSUME TypeOK, NextPrompt \/ GoIdle
    PROVE  /\ status' \in {"ready", "running"}
           /\ status' = "running" /\ portOpen => Work(stdin')
           /\ status' = "ready" /\ IdleTimeout => idleTimer'
<1>1. CASE NextPrompt
  <2> DEFINE line == PromptLine(Head(queue).label, Head(queue).blank)
  <2>1. <<line>> \in Seq(Line) /\ Send(<<line>>) /\ status' = "running"
    BY <1>1, QueueType DEF NextPrompt, SendPrompt
  <2>2. line.type # "interrupt"
    BY DEF PromptLine
  <2> HIDE DEF line
  <2>3. Work(<<line>>)
    BY <2>2 DEF Work
  <2>4. portOpen => Work(stdin')
    BY <2>1, <2>3, SendWorks
  <2>5. QED
    BY <2>1, <2>4
<1>2. CASE GoIdle
  BY <1>2 DEF GoIdle, ScheduleIdle
<1>3. QED
  BY <1>1, <1>2

LEMMA ReadyLiving ==
    ASSUME TypeOK, Living, HandleReady
    PROVE  Living'
<1>1. Receives("ready") /\ AfterAnswer
  BY DEF HandleReady
<1>2. /\ status' \in {"ready", "running"}
      /\ status' = "running" /\ portOpen => Work(stdin')
      /\ status' = "ready" /\ mode = "normal" /\ IdleTimeout => idleTimer'
  <2>1. CASE /\ pendingBcp > 0
             /\ Send([i \in 1 .. pendingBcp |-> ControlLine("bcp")])
             /\ \/ status' = "running"
                \/ status' = "ready" /\ idleTimer' = (IdleTimeout /\ mode # "reflection")
    <3> DEFINE kept == [i \in 1 .. pendingBcp |-> ControlLine("bcp")]
    <3>1. kept \in Seq(Line) /\ Work(kept)
      <4>1. pendingBcp \in Nat /\ 1 \in 1 .. pendingBcp
        BY <2>1 DEF TypeOK
      <4>2. ControlLine("bcp") \in Line /\ ControlLine("bcp").type = "bcp"
        BY LineTypes DEF ControlLine
      <4>3. kept \in Seq(Line)
        BY <4>1, <4>2
      <4>4. DOMAIN kept = 1 .. pendingBcp /\ kept[1].type = "bcp"
        BY <4>1, <4>2
      <4>5. QED
        BY <4>1, <4>3, <4>4 DEF Work
    <3> HIDE DEF kept
    <3>2. portOpen => Work(stdin')
      <4>1. Send(kept)
        BY <2>1 DEF kept
      <4>2. QED
        BY <3>1, <4>1, SendWorks
    <3>3. QED
      BY <2>1, <3>2
  <2>2. CASE NextPrompt \/ GoIdle
    BY <2>2, WayOn
  <2>3. CASE mode = "reflection" /\ status' = "ready"
    BY <2>3
  <2>4. QED
    BY <2>1, <2>2, <2>3 DEF HandleReady
<1>3. QED
  BY <1>1, <1>2, AnswerLiving

\* Taking a message that is neither an answer nor a timeout changes nothing.
LEMMA TakenLiving ==
    ASSUME TypeOK, Living, NEW type, Receives(type),
           type \notin Answers \cup {"idle_timeout"},
           Alike(mailbox', Tail(mailbox)),
           UNCHANGED <<portOpen, run, mode, controlQueue, dropped, stdin, status, idleTimer>>
    PROVE  Living'
<1>1. /\ Closed(mailbox')
      /\ Has(mailbox', {"port_down"}) <=> Has(mailbox, {"port_down"})
      /\ Has(mailbox', {"idle_timeout"}) <=> Has(mailbox, {"idle_timeout"})
      /\ Has(mailbox', Answers) <=> Has(mailbox, Answers)
      /\ Has(mailbox', FromPort) => Has(mailbox, FromPort)
  <2>1. type # "port_down" /\ type # "idle_timeout" /\ type \notin Answers
    BY DEF Answers
  <2>2. QED
    BY <2>1, RestOfMail DEF Alike, Living, PortHeard
<1>2. PortHeard'
  BY <1>1, PortHeardKept DEF Living
<1>3. QED
  BY <1>1, <1>2 DEF Living, Owed, NotYetIdle, Expiring

\* A message of the session's own is appended.
LEMMA NotedLiving ==
    ASSUME TypeOK, Living, NEW m \in Message, m.type \notin FromPort,
           mailbox' = Append(mailbox, m),
           m.type = "idle_timeout" => status # "starting",
           UNCHANGED <<portOpen, run, mode, controlQueue, dropped, stdin, status>>,
           idleTimer' = idleTimer \/ (~idleTimer' /\ m.type = "idle_timeout")
    PROVE  Living'
<1>1. /\ Closed(mailbox')
      /\ Has(mailbox', {"port_down"}) <=> Has(mailbox, {"port_down"})
      /\ Has(mailbox', FromPort) <=> Has(mailbox, FromPort)
      /\ Has(mailbox, {"idle_timeout"}) => Has(mailbox', {"idle_timeout"})
      /\ m.type = "idle_timeout" => Has(mailbox', {"idle_timeout"})
      /\ m.type # "idle_timeout" =>
             (Has(mailbox', {"idle_timeout"}) <=> Has(mailbox, {"idle_timeout"}))
      /\ Has(mailbox, Answers) => Has(mailbox', Answers)
  BY OwnAppended DEF Alike, Living, PortHeard, TypeOK
<1>2. PortHeard'
  BY <1>1, PortHeardKept DEF Living
<1>3. QED
  BY <1>1, <1>2 DEF Living, Owed, NotYetIdle, Expiring

LEMMA HandlerLiving ==
    ASSUME TypeOK, Living, HandleMessage, ended' = "no"
    PROVE  Living'
<1> USE DEF RuntimeSide
<1>1. ASSUME NEW how \in Ending \ {"no"}, Stop(how) \/ Die(how, <<>>)
      PROVE  FALSE
  BY <1>1 DEF Stop, Die
<1>2. \A s : Alike(s, s)
  BY DEF Alike
<1>3. CASE HandleReady
  BY <1>3, ReadyLiving
<1>4. CASE HandleInterrupted
  BY <1>4, WayOn, AnswerLiving DEF HandleInterrupted
<1>5. CASE HandleToolUse
  <2>1. /\ Receives("tool_use") /\ mailbox' = Tail(mailbox)
        /\ UNCHANGED <<portOpen, run, mode, controlQueue, dropped, stdin, status, idleTimer>>
    BY <1>5 DEF HandleToolUse
  <2>2. QED
    BY <1>2, <2>1, TakenLiving DEF Answers
<1>6. CASE HandleToolResult
  <2>1. /\ Receives("tool_result")
        /\ UNCHANGED <<portOpen, run, mode, controlQueue, dropped, stdin, status, idleTimer>>
        /\ \E label : Elevate(label, Tail(mailbox))
    BY <1>6 DEF HandleToolResult
  <2>2. Alike(mailbox', Tail(mailbox))
    BY <2>1, ReceivesType, ElevateMail
  <2>3. QED
    BY <2>1, <2>2, TakenLiving DEF Answers
<1>7. CASE HandleResult
  <2>1. Receives("result") /\ AfterAnswer /\ (NextPrompt \/ GoIdle)
    BY <1>1, <1>7 DEF HandleResult, Ending
  <2>2. QED
    BY <2>1, WayOn, AnswerLiving
<1>8. CASE HandlePortDown
  <2>1. Receives("port_down") /\ AfterAnswer /\ status' = "stopped"
    BY <1>1, <1>8 DEF HandlePortDown, Ending
  <2>2. mailbox' = Tail(mailbox) /\ UNCHANGED <<portOpen, run>>
    BY <2>1 DEF AfterAnswer
  <2>3. Closed(mailbox') /\ ~Has(mailbox', FromPort) /\ Has(mailbox, {"port_down"})
    <3>1. Has(mailbox, {"port_down"})
      BY <2>1, HasTail DEF Receives, TypeOK
    <3>2. QED
      BY <2>1, <2>2, <3>1, RestOfMail DEF Living, PortHeard
  <2>4. PortHeard'
    BY <2>1, <2>2, <2>3 DEF Living, PortHeard
  <2>5. QED
    BY <2>1, <2>4 DEF Living, Owed, NotYetIdle, Expiring
<1>9. CASE HandleIdleTimeout
  <2>1. Receives("idle_timeout") /\ status # "stopped" /\ BeginSave(Tail(mailbox))
    BY <1>1, <1>9 DEF HandleIdleTimeout, Ending
  <2>2. /\ Closed(Tail(mailbox))
        /\ Has(Tail(mailbox), {"port_down"}) <=> Has(mailbox, {"port_down"})
    BY <2>1, RestOfMail DEF Living, PortHeard
  <2>3. QED
    BY <2>1, <2>2, BeginSaveLiving
<1>10. CASE HandleSaveTimeout
  <2>1. /\ Receives("memory_save_timeout") /\ mailbox' = Tail(mailbox)
        /\ UNCHANGED <<portOpen, run, mode, controlQueue, dropped, stdin, status, idleTimer>>
    BY <1>1, <1>10 DEF HandleSaveTimeout, AfterAnswer, Ending
  <2>2. QED
    BY <1>2, <2>1, TakenLiving DEF Answers
<1>11. CASE HandleKill
  BY <1>1, <1>11 DEF HandleKill, Ending
<1>12. QED
  BY <1>3, <1>4, <1>5, <1>6, <1>7, <1>8, <1>9, <1>10, <1>11 DEF HandleMessage

LEMMA MailStep == TypeOK /\ MailInv /\ [Next]_vars => MailInv'
<1> SUFFICES ASSUME TypeOK, MailInv, [Next]_vars, ended' = "no"
             PROVE  Living'
  BY DEF MailInv, alive
<1> USE DEF RuntimeSide
<1>1. CASE RuntimeNext /\ UNCHANGED sessionVars
  <2>1. Living
    BY <1>1 DEF sessionVars, MailInv, alive
  <2>2. QED
    BY <1>1, <2>1, RuntimeLiving
<1>2. CASE UNCHANGED vars
  BY <1>2 DEF vars, runtimeVars, sessionVars, MailInv, alive, Living, PortHeard,
             NotYetIdle, Owed, Expiring
<1>3. CASE PromptArrives
  <2>1. Living
    BY <1>3 DEF PromptArrives, PromptWhenReady, PromptWhenStarting, PromptWhenRunning,
               AcceptPrompt, MailInv
  <2>2. QED
    BY <1>3, <2>1, PromptLiving
<1>4. CASE BcpArrives
  BY <1>4, BcpLiving DEF BcpArrives, MailInv
<1>5. CASE GracefulStop
  <2>1. Living /\ status \in {"ready", "running"} /\ BeginSave(mailbox)
    BY <1>5 DEF GracefulStop, Stop, Die, MailInv
  <2>2. QED
    BY <2>1, BeginSaveLiving DEF Living, PortHeard
<1>6. CASE HandleMessage
  <2>1. alive
    BY <1>6
    DEF HandleMessage, HandleReady, HandleInterrupted, HandleToolUse, HandleToolResult,
        HandleResult, HandlePortDown, HandleIdleTimeout, HandleSaveTimeout, HandleKill,
        Receives
  <2>2. QED
    BY <1>6, <2>1, HandlerLiving DEF MailInv
<1>7. CASE IdleTimerFires
  <2>1. Living
    BY <1>7 DEF IdleTimerFires, Fires, MailInv, alive
  <2>2. /\ Note("idle_timeout") \in Message
        /\ Note("idle_timeout").type = "idle_timeout"
    BY MessageTypes DEF Note
  <2>3. status # "starting"
    BY <1>7, <2>1 DEF IdleTimerFires, Living, NotYetIdle
  <2>4. /\ mailbox' = Append(mailbox, Note("idle_timeout"))
        /\ UNCHANGED <<portOpen, run, mode, controlQueue, dropped, stdin, status>>
        /\ ~idleTimer'
    BY <1>7 DEF IdleTimerFires, Fires
  <2>5. QED
    BY <2>1, <2>2, <2>3, <2>4, NotedLiving DEF FromPort
<1>8. CASE SaveTimerFires
  <2>1. Living
    BY <1>8 DEF SaveTimerFires, Fires, MailInv, alive
  <2>2. /\ Note("memory_save_timeout") \in Message
        /\ Note("memory_save_timeout").type = "memory_save_timeout"
    BY MessageTypes DEF Note
  <2>3. /\ mailbox' = Append(mailbox, Note("memory_save_timeout"))
        /\ UNCHANGED <<portOpen, run, mode, controlQueue, dropped, stdin, status, idleTimer>>
    BY <1>8 DEF SaveTimerFires, Fires
  <2>4. QED
    BY <2>1, <2>2, <2>3, NotedLiving DEF FromPort
<1>9. CASE PortExits
  <2>1. Living /\ portOpen /\ ~portOpen' /\ run' = "exited"
        /\ mailbox' = Append(mailbox, Note("port_down"))
        /\ UNCHANGED <<status, mode, idleTimer, dropped>>
    BY <1>9 DEF PortExits, sessionVars, MailInv, alive
  <2>2. /\ Note("port_down") \in Message /\ Note("port_down").type = "port_down"
        /\ mailbox \in Seq(Message)
    BY MessageTypes DEF Note, TypeOK
  <2>3. /\ Has(mailbox', {"port_down"}) /\ Has(mailbox', Answers)
        /\ Has(mailbox', {"idle_timeout"}) <=> Has(mailbox, {"idle_timeout"})
    <3> DEFINE m == Note("port_down")
    <3>1. m \in Message /\ m.type = "port_down" /\ mailbox' = Append(mailbox, m)
      BY <2>1, <2>2
    <3> HIDE DEF m
    <3>2. /\ Has(Append(mailbox, m), {"port_down"})
          /\ Has(Append(mailbox, m), Answers)
          /\ Has(Append(mailbox, m), {"idle_timeout"})
                 <=> Has(mailbox, {"idle_timeout"}) \/ m.type \in {"idle_timeout"}
      <4>1. \A T : Has(Append(mailbox, m), T) <=> Has(mailbox, T) \/ m.type \in T
        BY <2>2, <3>1, HasOne
      <4>2. m.type \in {"port_down"} /\ m.type \in Answers
        BY <3>1 DEF Answers
      <4>3. QED
        BY <4>1, <4>2
    <3>3. QED
      BY <3>1, <3>2
  <2>4. Closed(mailbox')
    <3>1. ~Has(mailbox, {"port_down"}) /\ Closed(mailbox)
      BY <2>1 DEF Living, PortHeard
    <3>2. Append(mailbox, Note("port_down")) = mailbox \o <<Note("port_down")>>
          /\ <<Note("port_down")>> \in Seq(Message)
      BY <2>2
    <3>3. Closed(mailbox \o <<Note("port_down")>>)
      BY <2>2, <3>1, <3>2, ClosedConcat, ClosedOne
    <3>4. QED
      BY <2>1, <3>2, <3>3
  <2>5. PortHeard'
    BY <2>1, <2>3, <2>4 DEF Living, PortHeard
  <2>6. QED
    BY <2>1, <2>3, <2>5 DEF Living, Owed, NotYetIdle, Expiring
<1>10. CASE PortCommandFails
  BY <1>10 DEF PortCommandFails, Die
<1>11. QED
  BY <1>1, <1>2, <1>3, <1>4, <1>5, <1>6, <1>7, <1>8, <1>9, <1>10 DEF Next, SessionNext

LEMMA MailInit == Init => MailInv
BY DEF Init, RuntimeInit, MailInv, Living, PortHeard, NotYetIdle, Owed, Expiring, Has, Closed

LEMMA WorkIsQueued ==
    ASSUME TypeOK, Work(stdin) \/ Work(controlQueue)
    PROVE  Queued(stdin \o controlQueue)
<1>1. Work(stdin \o controlQueue)
  BY WorkConcat DEF TypeOK
<1>2. QED
  BY <1>1 DEF Work, Queued

LEMMA HasIsPending == \A types : Has(mailbox, types) <=> Pending(types)
BY DEF Has, Pending

\* A :running session is owed an answer: however prompts, interrupts, retries,
\* tool calls, memory saves, timeouts and the loss of the container interleave,
\* something that will move it on is under way, unless a blank prompt was
\* thrown away.
THEOREM AlwaysOwedAnswer == Spec => []RunningIsOwedAnswer
<1>1. TypeOK /\ MailInv => RunningIsOwedAnswer
  BY WorkIsQueued, HasIsPending
  DEF MailInv, Living, Owed, Answers, RunningIsOwedAnswer
<1>2. QED
  BY <1>1, MailInit, MailStep, TypeCorrect, PTL DEF Spec

\* An idle session is always on its way to be reclaimed: no order of answers,
\* prompts and cancelled timeouts leaves it :ready without a timer.
THEOREM AlwaysExpires == Spec => []IdleSessionExpires
<1>1. MailInv => IdleSessionExpires
  BY HasIsPending DEF MailInv, Living, Expiring, IdleSessionExpires
<1>2. QED
  BY <1>1, MailInit, MailStep, TypeCorrect, PTL DEF Spec

-----------------------------------------------------------------------------
\* The life the rest of the gateway relies on.

\* Where a step may take the status of a session that goes on.
LEMMA StatusMoves ==
    ASSUME TypeOK, MailInv, Next, alive, ended' = "no"
    PROVE  \/ status' = status
           \/ status \notin {"stopped"} /\ status' \in {"ready", "running"}
           \/ status \notin {"starting", "stopped"} /\ status' = "saving_memory"
           \/ mode # "reflection" /\ status' = "stopped"
<1> USE DEF RuntimeSide
<1>1. CASE RuntimeNext /\ UNCHANGED sessionVars
  BY <1>1 DEF sessionVars
<1>2. CASE PromptArrives
  BY <1>2 DEF PromptArrives, PromptWhenReady, PromptWhenStarting, PromptWhenRunning
<1>3. CASE BcpArrives \/ IdleTimerFires \/ SaveTimerFires \/ PortExits
  BY <1>3 DEF BcpArrives, IdleTimerFires, SaveTimerFires, Fires, PortExits, sessionVars
<1>4. CASE GracefulStop
  BY <1>4 DEF GracefulStop, BeginSave, Stop, Die
<1>5. CASE PortCommandFails
  BY <1>5 DEF PortCommandFails, Die
<1>6. CASE HandleMessage
  <2>1. ASSUME NEW how \in Ending \ {"no"}, Stop(how) \/ Die(how, <<>>)
        PROVE  FALSE
    BY <2>1 DEF Stop, Die
  <2>2. ASSUME NEW type \in FromPort, Receives(type)
        PROVE  status # "stopped"
    <3>1. Has(mailbox, FromPort)
      BY <2>2, RestOfMail DEF MailInv, Living, PortHeard
    <3>2. QED
      BY <3>1 DEF MailInv, Living, PortHeard
  <2>3. CASE HandleReady \/ HandleInterrupted
    BY <2>2, <2>3, WayOn DEF HandleReady, HandleInterrupted, FromPort
  <2>4. CASE HandleToolUse \/ HandleToolResult
    BY <2>4 DEF HandleToolUse, HandleToolResult
  <2>5. CASE HandleResult
    BY <2>1, <2>2, <2>5, WayOn DEF HandleResult, Ending, FromPort
  <2>6. CASE HandlePortDown
    BY <2>1, <2>6 DEF HandlePortDown, Ending
  <2>7. CASE HandleIdleTimeout
    <3>1. Receives("idle_timeout") /\ status # "stopped" /\ status' = "saving_memory"
      BY <2>1, <2>7 DEF HandleIdleTimeout, BeginSave, Ending
    <3>2. Has(mailbox, {"idle_timeout"})
      BY <3>1, HasTail DEF Receives, TypeOK
    <3>3. QED
      BY <3>1, <3>2 DEF MailInv, Living, NotYetIdle
  <2>8. CASE HandleSaveTimeout
    BY <2>1, <2>8 DEF HandleSaveTimeout, Ending
  <2>9. CASE HandleKill
    BY <2>1, <2>9 DEF HandleKill, Ending
  <2>10. QED
    BY <1>6, <2>3, <2>4, <2>5, <2>6, <2>7, <2>8, <2>9 DEF HandleMessage
<1>7. QED
  BY <1>1, <1>2, <1>3, <1>4, <1>5, <1>6 DEF Next, SessionNext

LEMMA LifeStep ==
    ASSUME TypeOK, MailInv, QueueInv, [Next]_vars
    PROVE  [ /\ life' # life => life' \in Successors(mode, life)
             /\ accepted' # accepted => life \in Accepting ]_vars
<1>1. CASE UNCHANGED vars
  BY <1>1
<1>2. CASE Next
  <2>1. ended' # ended => alive /\ ended' # "no"
    BY <1>2, StepShape DEF Quiet, Enqueues, HandsOn, SendsAtOnce, Ends, alive
  <2>2. life' # life => life' \in Successors(mode, life)
    <3>1. CASE ~alive
      BY <2>1, <3>1 DEF life, alive
    <3>2. CASE alive /\ ended' # "no"
      <4>1. life' = "gone" /\ life \in {"starting", "open", "saving", "stopped"}
        BY <3>2 DEF life, alive, TypeOK, Status
      <4>2. QED
        BY <4>1 DEF Successors
    <3>3. CASE alive /\ ended' = "no"
      <4>1. \/ status' = status
            \/ status \notin {"stopped"} /\ status' \in {"ready", "running"}
            \/ status \notin {"starting", "stopped"} /\ status' = "saving_memory"
            \/ mode # "reflection" /\ status' = "stopped"
        BY <1>2, <3>3, StatusMoves
      <4>2. QED
        BY <3>3, <4>1 DEF life, alive, TypeOK, Status, Successors, Orphaned
    <3>4. QED
      BY <3>1, <3>2, <3>3
  <2>3. accepted' # accepted => life \in Accepting
    <3>1. CASE PromptArrives
      BY <3>1 DEF PromptArrives, PromptWhenReady, PromptWhenStarting, PromptWhenRunning,
                  AcceptPrompt, life, Accepting
    <3>2. CASE ~PromptArrives
      <4>1. UNCHANGED accepted
        BY <1>2, <3>2
        DEF Next, SessionNext, sessionVars, BcpArrives, GracefulStop, BeginSave, Stop, Die,
            IdleTimerFires, SaveTimerFires, Fires, PortExits, PortCommandFails,
            HandleMessage, HandleReady, HandleInterrupted, HandleToolUse, HandleToolResult,
            HandleResult, HandlePortDown, HandleIdleTimeout, HandleSaveTimeout, HandleKill,
            AfterAnswer
      <4>2. QED
        BY <4>1
    <3>3. QED
      BY <3>1, <3>2
  <2>4. QED
    BY <2>2, <2>3
<1>3. QED
  BY <1>1, <1>2

\* The session goes through its life as SessionLife says, which is what
\* TriggerRouting builds on: it accepts prompts only while it starts or is
\* open, and one that lost its container never comes back to work.
THEOREM LifeFollowed == Spec => FollowsLife
BY LifeStep, MailInit, MailStep, QueueInit, QueueStep, TypeCorrect, PTL
DEF Spec, FollowsLife

-----------------------------------------------------------------------------
\* Calls and results in a mailbox.

Says(s, i, type, t) == s[i].type = type /\ t \in s[i].tools

\* A result of t has still to be handled.
Owes(s, t) == \E i \in DOMAIN s : Says(s, i, "tool_result", t)

\* A message is about one call at most.
OneTool(s) == \A i \in DOMAIN s : \A t, u \in s[i].tools : t = u

\* A call that is being executed is remembered, or will be before its result
\* is handled; a result that waits is the only one of its call, and its call
\* is remembered or waits in front of it.
CallsKnown(s, pending, made) ==
    \A t \in Tools : made[t] = "open" =>
        t \in pending \/ \E i \in DOMAIN s : Says(s, i, "tool_use", t)
ResultsKnown(s, pending, made) ==
    \A t \in Tools : \A i \in DOMAIN s : Says(s, i, "tool_result", t) =>
        /\ made[t] = "returned"
        /\ \A j \in DOMAIN s : Says(s, j, "tool_result", t) => i = j
        /\ t \in pending \/ \E j \in DOMAIN s : j < i /\ Says(s, j, "tool_use", t)

Known(s, pending, made) ==
    OneTool(s) /\ CallsKnown(s, pending, made) /\ ResultsKnown(s, pending, made)

\* Messages about no call.
Plain(e) == \A i \in DOMAIN e : e[i].tools = {}

LEMMA SaysConcat ==
    ASSUME NEW s \in Seq(Message), NEW e \in Seq(Message), NEW type, NEW t
    PROVE  /\ \A i \in DOMAIN s : /\ i \in DOMAIN (s \o e)
                                  /\ Says(s \o e, i, type, t) <=> Says(s, i, type, t)
           /\ Plain(e) => \A i \in DOMAIN (s \o e) :
                              Says(s \o e, i, type, t) => i \in DOMAIN s
BY ConcatIs DEF Says, Plain

LEMMA PlainKnown ==
    ASSUME NEW s \in Seq(Message), NEW e \in Seq(Message), Plain(e),
           NEW pending, NEW made, Known(s, pending, made)
    PROVE  /\ Known(s \o e, pending, made)
           /\ \A t : Owes(s, t) => Owes(s \o e, t)
<1>1. OneTool(s \o e)
  BY ConcatIs DEF Known, OneTool, Plain
<1>2. \A type, t :
          /\ \A i \in DOMAIN s : /\ i \in DOMAIN (s \o e)
                                 /\ Says(s \o e, i, type, t) <=> Says(s, i, type, t)
          /\ \A i \in DOMAIN (s \o e) : Says(s \o e, i, type, t) => i \in DOMAIN s
  BY SaysConcat
<1>3. CallsKnown(s \o e, pending, made)
  BY <1>2 DEF Known, CallsKnown
<1>4. ResultsKnown(s \o e, pending, made)
  <2> SUFFICES ASSUME NEW t \in Tools, NEW i \in DOMAIN (s \o e), Says(s \o e, i, "tool_result", t)
               PROVE  /\ made[t] = "returned"
                      /\ \A j \in DOMAIN (s \o e) : Says(s \o e, j, "tool_result", t) => i = j
                      /\ t \in pending \/ \E j \in DOMAIN (s \o e) :
                                             j < i /\ Says(s \o e, j, "tool_use", t)
    BY DEF ResultsKnown
  <2>1. i \in DOMAIN s /\ Says(s, i, "tool_result", t)
    BY <1>2
  <2>2. /\ made[t] = "returned"
        /\ \A j \in DOMAIN s : Says(s, j, "tool_result", t) => i = j
        /\ t \in pending \/ \E j \in DOMAIN s : j < i /\ Says(s, j, "tool_use", t)
    BY <2>1 DEF Known, ResultsKnown
  <2>3. QED
    BY <1>2, <2>2
<1>5. \A t : Owes(s, t) => Owes(s \o e, t)
  BY <1>2 DEF Owes
<1>6. QED
  BY <1>1, <1>3, <1>4, <1>5 DEF Known

LEMMA SaysAppend ==
    ASSUME NEW s \in Seq(Message), NEW m \in Message, NEW type, NEW t
    PROVE  /\ DOMAIN Append(s, m) = DOMAIN s \cup {Len(s) + 1}
           /\ \A i \in DOMAIN s : i \in Nat /\ i < Len(s) + 1
           /\ \A i \in DOMAIN s : Says(Append(s, m), i, type, t) <=> Says(s, i, type, t)
           /\ Says(Append(s, m), Len(s) + 1, type, t) <=> m.type = type /\ t \in m.tools
<1>1. /\ DOMAIN Append(s, m) = 1 .. Len(s) + 1 /\ DOMAIN s = 1 .. Len(s) /\ Len(s) \in Nat
      /\ \A i \in 1 .. Len(s) : Append(s, m)[i] = s[i]
      /\ Append(s, m)[Len(s) + 1] = m
  OBVIOUS
<1>2. QED
  BY <1>1 DEF Says

LEMMA OneToolAppend ==
    ASSUME NEW s \in Seq(Message), NEW m \in Message, OneTool(s), NEW t, m.tools = {t}
    PROVE  OneTool(Append(s, m))
<1>1. /\ DOMAIN Append(s, m) = 1 .. Len(s) + 1 /\ DOMAIN s = 1 .. Len(s) /\ Len(s) \in Nat
      /\ \A i \in 1 .. Len(s) : Append(s, m)[i] = s[i]
      /\ Append(s, m)[Len(s) + 1] = m
  OBVIOUS
<1>2. QED
  BY <1>1 DEF OneTool

\* The model calls a tool.
LEMMA CallKnown ==
    ASSUME NEW s \in Seq(Message), NEW t \in Tools, NEW m \in Message,
           m.type = "tool_use", m.tools = {t},
           NEW pending, NEW made \in [Tools -> {"unused", "open", "returned"}],
           made[t] = "unused", Known(s, pending, made)
    PROVE  /\ Known(Append(s, m), pending, [made EXCEPT ![t] = "open"])
           /\ \A u : Owes(s, u) => Owes(Append(s, m), u)
<1> DEFINE r == Append(s, m)
           now == [made EXCEPT ![t] = "open"]
           n == Len(s) + 1
<1>1. OneTool(r)
  BY OneToolAppend DEF Known
<1>2. /\ DOMAIN r = DOMAIN s \cup {n}
      /\ \A i \in DOMAIN s : i \in Nat /\ i < n
      /\ \A type, u :
            /\ \A i \in DOMAIN s : Says(r, i, type, u) <=> Says(s, i, type, u)
            /\ Says(r, n, type, u) <=> type = "tool_use" /\ u = t
  BY SaysAppend
<1>3. /\ now[t] = "open"
      /\ \A u \in Tools : u # t => now[u] = made[u]
  OBVIOUS
<1> HIDE DEF r, now, n
<1>4. CallsKnown(r, pending, now)
  BY <1>2, <1>3 DEF Known, CallsKnown
<1>5. ResultsKnown(r, pending, now)
  <2> SUFFICES ASSUME NEW u \in Tools, NEW i \in DOMAIN r, Says(r, i, "tool_result", u)
               PROVE  /\ now[u] = "returned"
                      /\ \A j \in DOMAIN r : Says(r, j, "tool_result", u) => i = j
                      /\ u \in pending \/ \E j \in DOMAIN r : j < i /\ Says(r, j, "tool_use", u)
    BY DEF ResultsKnown
  <2>1. i \in DOMAIN s /\ Says(s, i, "tool_result", u)
    BY <1>2
  <2>2. /\ made[u] = "returned"
        /\ \A j \in DOMAIN s : Says(s, j, "tool_result", u) => i = j
        /\ u \in pending \/ \E j \in DOMAIN s : j < i /\ Says(s, j, "tool_use", u)
    BY <2>1 DEF Known, ResultsKnown
  <2>3. now[u] = "returned"
    BY <1>3, <2>2
  <2>4. \A j \in DOMAIN r : Says(r, j, "tool_result", u) => i = j
    BY <1>2, <2>2
  <2>5. ASSUME NEW j \in DOMAIN s, j < i, Says(s, j, "tool_use", u)
        PROVE  j \in DOMAIN r /\ Says(r, j, "tool_use", u)
    BY <1>2, <2>5
  <2>6. QED
    BY <2>2, <2>3, <2>4, <2>5
<1>6. \A u : Owes(s, u) => Owes(r, u)
  BY <1>2 DEF Owes
<1>7. QED
  BY <1>1, <1>4, <1>5, <1>6 DEF Known, r, now

\* A tool returns.
LEMMA ResultKnown ==
    ASSUME NEW s \in Seq(Message), NEW t \in Tools, NEW m \in Message,
           m.type = "tool_result", m.tools = {t},
           NEW pending, NEW made \in [Tools -> {"unused", "open", "returned"}],
           made[t] = "open", Known(s, pending, made)
    PROVE  /\ Known(Append(s, m), pending, [made EXCEPT ![t] = "returned"])
           /\ \A u : Owes(s, u) => Owes(Append(s, m), u)
           /\ Owes(Append(s, m), t)
<1> DEFINE r == Append(s, m)
           now == [made EXCEPT ![t] = "returned"]
           n == Len(s) + 1
<1>1. OneTool(r)
  BY OneToolAppend DEF Known
<1>2. /\ DOMAIN r = DOMAIN s \cup {n}
      /\ \A i \in DOMAIN s : i \in Nat /\ i < n
      /\ \A type, u :
            /\ \A i \in DOMAIN s : Says(r, i, type, u) <=> Says(s, i, type, u)
            /\ Says(r, n, type, u) <=> type = "tool_result" /\ u = t
  BY SaysAppend
<1>3. /\ now[t] = "returned"
      /\ \A u \in Tools : u # t => now[u] = made[u]
  OBVIOUS
<1> HIDE DEF r, now, n
<1>4. CallsKnown(r, pending, now)
  BY <1>2, <1>3 DEF Known, CallsKnown
<1>5. ResultsKnown(r, pending, now)
  <2> SUFFICES ASSUME NEW u \in Tools, NEW i \in DOMAIN r, Says(r, i, "tool_result", u)
               PROVE  /\ now[u] = "returned"
                      /\ \A j \in DOMAIN r : Says(r, j, "tool_result", u) => i = j
                      /\ u \in pending \/ \E j \in DOMAIN r : j < i /\ Says(r, j, "tool_use", u)
    BY DEF ResultsKnown
  <2>1. \A j \in DOMAIN s : ~Says(s, j, "tool_result", t)
    BY DEF Known, ResultsKnown
  <2>2. CASE u = t
    <3>1. i = n /\ \A j \in DOMAIN r : Says(r, j, "tool_result", u) => j = n
      BY <1>2, <2>1, <2>2
    <3>2. u \in pending \/ \E j \in DOMAIN s : Says(s, j, "tool_use", u)
      BY <2>2 DEF Known, CallsKnown
    <3>3. QED
      BY <1>2, <1>3, <2>2, <3>1, <3>2
  <2>3. CASE u # t
    <3>1. i \in DOMAIN s /\ Says(s, i, "tool_result", u)
      BY <1>2, <2>3
    <3>2. /\ made[u] = "returned"
          /\ \A j \in DOMAIN s : Says(s, j, "tool_result", u) => i = j
          /\ u \in pending \/ \E j \in DOMAIN s : j < i /\ Says(s, j, "tool_use", u)
      BY <3>1 DEF Known, ResultsKnown
    <3>3. now[u] = "returned"
      BY <1>3, <2>3, <3>2
    <3>4. \A j \in DOMAIN r : Says(r, j, "tool_result", u) => i = j
      BY <1>2, <2>3, <3>2
    <3>5. ASSUME NEW j \in DOMAIN s, j < i, Says(s, j, "tool_use", u)
          PROVE  j \in DOMAIN r /\ Says(r, j, "tool_use", u)
      BY <1>2, <3>5
    <3>6. QED
      BY <3>2, <3>3, <3>4, <3>5
  <2>4. QED
    BY <2>2, <2>3
<1>6. (\A u : Owes(s, u) => Owes(r, u)) /\ Owes(r, t)
  BY <1>2 DEF Owes
<1>7. QED
  BY <1>1, <1>4, <1>5, <1>6 DEF Known, r, now

\* The first message is handled: what it leaves in pending_tools.
Remembered(pending, m) ==
    IF m.type = "tool_use" THEN pending \cup m.tools
    ELSE IF m.type = "tool_result" THEN pending \ m.tools
    ELSE pending

LEMMA HandledKnown ==
    ASSUME NEW s \in Seq(Message), s # <<>>, NEW pending,
           NEW made \in [Tools -> {"unused", "open", "returned"}],
           Known(s, pending, made)
    PROVE  /\ Known(Tail(s), Remembered(pending, Head(s)), made)
           /\ Head(s).type = "tool_result" => Head(s).tools \subseteq pending
           /\ \A t \in Tools : Owes(s, t) => \/ Owes(Tail(s), t)
                                             \/ /\ Head(s).type = "tool_result"
                                                /\ t \in Head(s).tools
<1> DEFINE r == Tail(s)
           now == Remembered(pending, Head(s))
<1>1. /\ Head(s) = s[1] /\ 1 \in DOMAIN s
      /\ \A i \in DOMAIN s : i \in Nat /\ i >= 1
      /\ \A i \in DOMAIN s : i # 1 => i - 1 \in DOMAIN r /\ r[i - 1] = s[i]
      /\ \A i \in DOMAIN r : i \in Nat /\ i >= 1 /\ i + 1 \in DOMAIN s /\ r[i] = s[i + 1]
  BY TailIs
<1>2. \A type, t : \A i \in DOMAIN r : Says(r, i, type, t) <=> Says(s, i + 1, type, t)
  BY <1>1 DEF Says
<1>3. \A type, t : \A i \in DOMAIN s :
          i # 1 /\ Says(s, i, type, t) => i - 1 \in DOMAIN r /\ Says(r, i - 1, type, t)
  BY <1>1 DEF Says
<1>4. OneTool(r)
  BY <1>1 DEF Known, OneTool
<1>5. \A type, t : Says(s, 1, type, t) <=> Head(s).type = type /\ t \in Head(s).tools
  BY <1>1 DEF Says
<1>6. Head(s).tools \subseteq Tools
  BY TailIs DEF Message
<1> HIDE DEF r
<1>7. ASSUME NEW t \in Tools, NEW i \in DOMAIN r, Says(r, i, "tool_result", t)
      PROVE  /\ made[t] = "returned"
             /\ \A j \in DOMAIN r : Says(r, j, "tool_result", t) => i = j
             /\ t \in now \/ \E j \in DOMAIN r : j < i /\ Says(r, j, "tool_use", t)
  <2>1. i + 1 \in DOMAIN s /\ Says(s, i + 1, "tool_result", t)
    BY <1>1, <1>2, <1>7
  <2>2. /\ made[t] = "returned"
        /\ \A j \in DOMAIN s : Says(s, j, "tool_result", t) => i + 1 = j
        /\ t \in pending \/ \E j \in DOMAIN s : j < i + 1 /\ Says(s, j, "tool_use", t)
    BY <2>1 DEF Known, ResultsKnown
  <2>3. \A j \in DOMAIN r : Says(r, j, "tool_result", t) => i = j
    BY <1>1, <1>2, <2>2
  <2>4. CASE t \in pending
    <3>1. ~Says(s, 1, "tool_result", t)
      BY <1>1, <2>2
    <3>2. t \in now
      BY <1>5, <2>4, <3>1 DEF Remembered
    <3>3. QED
      BY <2>2, <2>3, <3>2
  <2>5. ASSUME NEW j \in DOMAIN s, j < i + 1, Says(s, j, "tool_use", t)
        PROVE  t \in now \/ \E k \in DOMAIN r : k < i /\ Says(r, k, "tool_use", t)
    <3>1. CASE j = 1
      BY <1>5, <2>5, <3>1 DEF Remembered
    <3>2. CASE j # 1
      <4>1. j - 1 \in DOMAIN r /\ Says(r, j - 1, "tool_use", t) /\ j - 1 < i
        BY <1>1, <1>3, <2>5, <3>2, SMTT(30)
      <4>2. QED
        BY <4>1
    <3>3. QED
      BY <3>1, <3>2
  <2>6. QED
    BY <2>2, <2>3, <2>4, <2>5
<1>8. ASSUME NEW t \in Tools, made[t] = "open"
      PROVE  t \in now \/ \E i \in DOMAIN r : Says(r, i, "tool_use", t)
  <2>1. \A i \in DOMAIN s : ~Says(s, i, "tool_result", t)
    BY <1>8 DEF Known, ResultsKnown
  <2>2. CASE t \in pending
    BY <1>1, <1>5, <2>1, <2>2 DEF Remembered
  <2>3. ASSUME NEW i \in DOMAIN s, Says(s, i, "tool_use", t)
        PROVE  t \in now \/ \E k \in DOMAIN r : Says(r, k, "tool_use", t)
    <3>1. CASE i = 1
      BY <1>5, <2>3, <3>1 DEF Remembered
    <3>2. CASE i # 1
      BY <1>3, <2>3, <3>2
    <3>3. QED
      BY <3>1, <3>2
  <2>4. QED
    BY <1>8, <2>2, <2>3 DEF Known, CallsKnown
<1>9. Known(r, now, made)
  BY <1>4, <1>7, <1>8 DEF Known, CallsKnown, ResultsKnown
<1>10. ASSUME Head(s).type = "tool_result", NEW t \in Head(s).tools
       PROVE  t \in pending
  <2>1. Says(s, 1, "tool_result", t) /\ t \in Tools
    BY <1>5, <1>6, <1>10
  <2>2. ~\E j \in DOMAIN s : j < 1 /\ Says(s, j, "tool_use", t)
    BY <1>1
  <2>3. QED
    BY <1>1, <2>1, <2>2 DEF Known, ResultsKnown
<1>11. ASSUME NEW t \in Tools, Owes(s, t)
       PROVE  Owes(r, t) \/ (Head(s).type = "tool_result" /\ t \in Head(s).tools)
  <2>1. PICK i \in DOMAIN s : Says(s, i, "tool_result", t)
    BY <1>11 DEF Owes
  <2>2. QED
    BY <1>3, <1>5, <2>1 DEF Owes
<1>12. QED
  BY <1>9, <1>10, <1>11 DEF r

-----------------------------------------------------------------------------
\* What is in the model's context, against the levels.

Tracked(s, l, k) ==
    /\ k.taint <= l.taint \/ \E t \in Tools : Owes(s, t) /\ k.taint <= ToolLabel[t].taint
    /\ k.sens <= l.sens \/ \E t \in Tools : Owes(s, t) /\ k.sens <= ToolLabel[t].sens

\* Higher levels make up for what is no longer owed.
LEMMA TrackedRises ==
    ASSUME NEW s, NEW r, NEW k \in Label, NEW l \in Label, NEW m \in Label,
           Tracked(s, l, k), Below(l, m),
           \A t \in Tools : Owes(s, t) => Owes(r, t) \/ Below(ToolLabel[t], m)
    PROVE  Tracked(r, m, k)
<1>1. /\ \A t \in Tools : ToolLabel[t] \in Label
      /\ \A j \in Label : j.taint \in Nat /\ j.sens \in Nat
  BY RuntimeAssumption DEF Label, Level, Low, Medium, High
<1>2. \A t \in Tools : Below(ToolLabel[t], m) =>
          ToolLabel[t].taint <= m.taint /\ ToolLabel[t].sens <= m.sens
  BY DEF Below
<1>3. l.taint <= m.taint /\ l.sens <= m.sens
  BY DEF Below
<1>4. k.taint <= m.taint \/ \E t \in Tools : Owes(r, t) /\ k.taint <= ToolLabel[t].taint
  BY <1>1, <1>2, <1>3 DEF Tracked
<1>5. k.sens <= m.sens \/ \E t \in Tools : Owes(r, t) /\ k.sens <= ToolLabel[t].sens
  BY <1>1, <1>2, <1>3 DEF Tracked
<1>6. QED
  BY <1>4, <1>5 DEF Tracked

\* More enters the context: a prompt under the levels, or a result on its way.
LEMMA TrackedJoins ==
    ASSUME NEW s, NEW k \in Label, NEW l \in Label, NEW j \in Label, Tracked(s, l, k),
           Below(j, l) \/ \E t \in Tools : Owes(s, t) /\ j = ToolLabel[t]
    PROVE  Tracked(s, l, Join(k, j))
<1>1. /\ Join(k, j).taint = k.taint \/ Join(k, j).taint = j.taint
      /\ Join(k, j).sens = k.sens \/ Join(k, j).sens = j.sens
  BY DEF Join, HigherLevel
<1>2. j.taint \in Nat /\ j.sens \in Nat
  BY DEF Label, Level, Low, Medium, High
<1>3. /\ j.taint <= l.taint \/ \E t \in Tools : Owes(s, t) /\ j.taint <= ToolLabel[t].taint
      /\ j.sens <= l.sens \/ \E t \in Tools : Owes(s, t) /\ j.sens <= ToolLabel[t].sens
  BY <1>2 DEF Below
<1>4. QED
  BY <1>1, <1>3 DEF Tracked

-----------------------------------------------------------------------------
\* What is on its way into the context.

Covered(lines, l) == \A i \in DOMAIN lines : Below(lines[i].label, l)

LEMMA LineLabels ==
    ASSUME NEW lines \in Seq(Line)
    PROVE  \A i \in DOMAIN lines : lines[i].label \in Label
<1>1. \A i \in DOMAIN lines : lines[i] \in Line
  OBVIOUS
<1>2. QED
  BY <1>1 DEF Line

LEMMA CoveredRises ==
    ASSUME NEW lines \in Seq(Line), NEW l \in Label, NEW m \in Label, Below(l, m),
           Covered(lines, l)
    PROVE  Covered(lines, m)
BY LineLabels, BelowTransitive DEF Covered

LEMMA CoveredConcat ==
    ASSUME NEW s \in Seq(Line), NEW e \in Seq(Line), NEW l, Covered(s, l), Covered(e, l)
    PROVE  Covered(s \o e, l)
<1> SUFFICES ASSUME NEW i \in DOMAIN (s \o e)
             PROVE  Below((s \o e)[i].label, l)
  BY DEF Covered
<1>1. \/ i \in DOMAIN s /\ (s \o e)[i] = s[i]
      \/ i - Len(s) \in DOMAIN e /\ (s \o e)[i] = e[i - Len(s)]
  BY ConcatIs
<1>2. QED
  BY <1>1 DEF Covered

LEMMA CoveredParts ==
    ASSUME NEW s \in Seq(Line), s # <<>>, NEW l, Covered(s, l)
    PROVE  Below(Head(s).label, l) /\ Covered(Tail(s), l)
BY TailIs DEF Covered

LEMMA CoveredOne ==
    ASSUME NEW line \in Line, NEW l, Below(line.label, l)
    PROVE  <<line>> \in Seq(Line) /\ Covered(<<line>>, l)
BY DEF Covered

LEMMA CoveredEmpty == \A l : Covered(<<>>, l)
BY DEF Covered

\* Lines without a label are covered by any levels.
LEMMA CoveredControl ==
    ASSUME NEW lines \in Seq(Line), NEW l \in Label,
           \A i \in DOMAIN lines : lines[i].label = NoRisk
    PROVE  Covered(lines, l)
BY NoRiskLeast DEF Covered

LEMMA SendCovered ==
    ASSUME TypeOK, NEW lines \in Seq(Line), Send(lines), NEW l,
           Covered(stdin, l), Covered(lines, l)
    PROVE  Covered(stdin', l)
BY CoveredConcat DEF Send, TypeOK

-----------------------------------------------------------------------------
\* The inductive invariant.

LinesCovered == Covered(stdin, level) /\ Covered(controlQueue, level)

Context ==
    /\ LinesCovered
    /\ Known(mailbox, pendingTools, calls)
    /\ Tracked(mailbox, level, seen)
ContextInv == alive => Context

LEMMA LevelRises ==
    ASSUME TypeOK, QueueInv, [Next]_vars
    PROVE  level' \in Label /\ Below(level, level')
<1>1. level \in Label /\ Below(level, level)
  BY LevelReflexive DEF TypeOK
<1>2. Quiet \/ Enqueues \/ HandsOn \/ SendsAtOnce \/ Ends
  BY StepShape
<1>3. \A label \in Label : Join(level, label) \in Label /\ Below(level, Join(level, label))
  BY <1>1, JoinType, JoinCovers
<1>4. QED
  BY <1>1, <1>2, <1>3 DEF Quiet, Enqueues, HandsOn, SendsAtOnce, Ends

-----------------------------------------------------------------------------
\* The container's steps.

LEMMA RuntimeLines ==
    ASSUME TypeOK, LinesCovered, RuntimeNext, UNCHANGED level
    PROVE  LinesCovered'
<1>1. stdin \in Seq(Line) /\ controlQueue \in Seq(Line)
  BY DEF TypeOK
<1>2. CASE UNCHANGED <<stdin, controlQueue>>
  BY <1>2 DEF LinesCovered
<1>3. CASE ReadStdin
  <2>1. stdin # <<>> /\ Head(stdin) \in Line
    BY <1>1, <1>3 DEF ReadStdin
  <2>2. Below(Head(stdin).label, level) /\ Covered(Tail(stdin), level)
    BY <1>1, <2>1, CoveredParts DEF LinesCovered
  <2>3. Covered(Append(controlQueue, Head(stdin)), level)
    <3>1. <<Head(stdin)>> \in Seq(Line) /\ Covered(<<Head(stdin)>>, level)
      BY <2>1, <2>2, CoveredOne
    <3>2. Covered(controlQueue \o <<Head(stdin)>>, level)
      BY <1>1, <3>1, CoveredConcat DEF LinesCovered
    <3>3. Append(controlQueue, Head(stdin)) = controlQueue \o <<Head(stdin)>>
      BY <1>1, <2>1
    <3>4. QED
      BY <3>2, <3>3
  <2>4. QED
    BY <1>3, <2>2, <2>3 DEF ReadStdin, LinesCovered
<1>4. CASE Exit
  BY <1>4, CoveredEmpty DEF Exit, LinesCovered
<1>5. CASE controlQueue # <<>> /\ controlQueue' = Tail(controlQueue) /\ UNCHANGED stdin
  BY <1>1, <1>5, CoveredParts DEF LinesCovered
<1>6. CASE NextControl
  BY <1>4, <1>5, <1>6
  DEF NextControl, Control, StartTurn, RefuseBlank, StartSave, LeaveLoop
<1>7. CASE Ready \/ WriteTree \/ \E t \in Tools : ToolUse(t) \/ ToolReturns(t)
  BY <1>2, <1>7 DEF Ready, WriteTree, ToolUse, ToolReturns
<1>8. CASE TurnEnds
  BY <1>2, <1>4, <1>8
  DEF TurnEnds, AbortTurn, CompleteTurn, CompleteAndAbort, SuppressEmptyResult,
      FailEmptyTurn, RetryCompletes, LastTurnCompletes, EndTurn
<1>9. QED
  BY <1>3, <1>4, <1>6, <1>7, <1>8 DEF RuntimeNext, Crash

\* Only a tool call or a result is about a call.
LEMMA RuntimePlain ==
    ASSUME TypeOK, RuntimeNext
    PROVE  \/ \E t \in Tools : ToolUse(t) \/ ToolReturns(t)
           \/ /\ UNCHANGED calls
              /\ \E e \in Seq(Message) : Plain(e) /\ Emit(e)
              /\ \/ UNCHANGED seen
                 \/ \E type \in Interruptible : StartTurn(type)
<1> DEFINE Fine(e) == e \in Seq(Message) /\ Plain(e)
<1>1. /\ Interruptible \subseteq Turn
      /\ "retry" \in Turn /\ "save" \in Turn /\ "reflect" \in Turn
  BY DEF Turn, Interruptible
<1>2. Fine(<<>>)
  BY EmptyTypes DEF Plain
<1>3. UNCHANGED mailbox => Emit(<<>>)
  BY DEF Emit, TypeOK
<1>4. ASSUME NEW m \in Message, NEW n \in Message, m.tools = {}, n.tools = {}
      PROVE  Fine(<<m>>) /\ Fine(<<m, n>>)
  <2>1. <<m>> \in Seq(Message) /\ <<m, n>> \in Seq(Message)
    OBVIOUS
  <2>2. /\ DOMAIN <<m>> = {1} /\ <<m>>[1] = m
        /\ DOMAIN <<m, n>> = {1, 2} /\ <<m, n>>[1] = m /\ <<m, n>>[2] = n
    OBVIOUS
  <2>3. QED
    BY <1>4, <2>1, <2>2 DEF Plain
<1>5. /\ Fine(<<Note("ready")>>) /\ Fine(<<Note("interrupted")>>)
      /\ \A turn \in Turn : /\ Fine(<<ResultOf(turn)>>)
                            /\ Fine(<<ResultOf(turn), Note("interrupted")>>)
  <2>1. /\ Note("ready").tools = {} /\ Note("interrupted").tools = {}
        /\ \A turn : ResultOf(turn).tools = {}
    BY DEF Note, ResultOf
  <2> HIDE DEF Fine
  <2>2. QED
    BY <1>4, <2>1, MessageTypes
<1> HIDE DEF Fine
<1>6. \/ \E t \in Tools : ToolUse(t) \/ ToolReturns(t)
      \/ /\ UNCHANGED calls
         /\ UNCHANGED mailbox \/ \E e : Fine(e) /\ Emit(e)
         /\ UNCHANGED seen \/ \E type \in Interruptible : StartTurn(type)
  <2>1. CASE Ready
    BY <1>5, <2>1 DEF Ready
  <2>2. CASE ReadStdin \/ WriteTree \/ Crash
    BY <2>2 DEF ReadStdin, WriteTree, Crash, Exit
  <2>3. CASE NextControl
    BY <2>3 DEF NextControl, Control, StartTurn, RefuseBlank, StartSave, LeaveLoop, Exit
  <2>4. CASE AbortTurn \/ CompleteTurn \/ CompleteAndAbort
    BY <1>1, <1>5, <2>4 DEF AbortTurn, CompleteTurn, CompleteAndAbort, EndTurn
  <2>5. CASE SuppressEmptyResult \/ FailEmptyTurn \/ RetryCompletes
    BY <1>1, <1>2, <1>5, <2>5
    DEF SuppressEmptyResult, FailEmptyTurn, RetryCompletes, EndTurn
  <2>6. CASE LastTurnCompletes
    BY <1>1, <1>5, <2>6 DEF LastTurnCompletes, Exit
  <2>7. QED
    BY <2>1, <2>2, <2>3, <2>4, <2>5, <2>6 DEF RuntimeNext, TurnEnds
<1>7. QED
  BY <1>2, <1>3, <1>6 DEF Fine

LEMMA RuntimeContext ==
    ASSUME TypeOK, Living, Context, RuntimeNext, UNCHANGED sessionVars
    PROVE  Context'
<1>1. /\ portOpen /\ UNCHANGED <<level, pendingTools>>
      /\ mailbox \in Seq(Message) /\ level \in Label /\ seen \in Label
      /\ calls \in [Tools -> {"unused", "open", "returned"}]
      /\ \A t \in Tools : ToolLabel[t] \in Label
  BY RuntimeSays, RuntimeAssumption DEF Living, PortHeard, sessionVars, TypeOK
<1>2. LinesCovered'
  BY <1>1, RuntimeLines DEF Context
<1>3. Below(level, level)
  BY LevelReflexive
<1>4. CASE /\ UNCHANGED calls
           /\ \E e \in Seq(Message) : Plain(e) /\ Emit(e)
           /\ UNCHANGED seen \/ \E type \in Interruptible : StartTurn(type)
  <2>1. PICK e \in Seq(Message) : Plain(e) /\ mailbox' = mailbox \o e
    BY <1>1, <1>4 DEF Emit
  <2>2. /\ Known(mailbox \o e, pendingTools, calls)
        /\ \A t : Owes(mailbox, t) => Owes(mailbox \o e, t)
    BY <1>1, <2>1, PlainKnown DEF Context
  <2>3. Tracked(mailbox', level, seen)
    BY <1>1, <1>3, <2>1, <2>2, TrackedRises DEF Context
  <2>4. Tracked(mailbox', level, seen')
    <3>1. CASE UNCHANGED seen
      BY <2>3, <3>1
    <3>2. CASE \E type \in Interruptible : StartTurn(type)
      <4>1. /\ controlQueue # <<>> /\ controlQueue \in Seq(Line)
            /\ seen' = Join(seen, Head(controlQueue).label)
        BY <3>2 DEF StartTurn, Control, TypeOK
      <4>2. Below(Head(controlQueue).label, level)
        BY <4>1, CoveredParts DEF Context, LinesCovered
      <4>3. Head(controlQueue).label \in Label
        BY <4>1, LineLabels, TailIs
      <4>4. QED
        BY <1>1, <2>3, <4>1, <4>2, <4>3, TrackedJoins
    <3>3. QED
      BY <1>4, <3>1, <3>2
  <2>5. QED
    BY <1>1, <1>2, <1>4, <2>1, <2>2, <2>4 DEF Context
<1>5. ASSUME NEW t \in Tools, ToolUse(t)
      PROVE  Context'
  <2> DEFINE m == ToolNote("tool_use", t)
  <2>1. m \in Message /\ m.type = "tool_use" /\ m.tools = {t}
    BY MessageTypes DEF ToolNote
  <2>2. /\ mailbox' = mailbox \o <<m>>
        /\ calls[t] = "unused" /\ calls' = [calls EXCEPT ![t] = "open"]
        /\ UNCHANGED seen
    BY <1>1, <1>5 DEF ToolUse, Emit
  <2> HIDE DEF m
  <2>3. /\ Known(mailbox', pendingTools, calls')
        /\ \A u : Owes(mailbox, u) => Owes(mailbox', u)
    <3>1. mailbox' = Append(mailbox, m)
      BY <1>1, <2>1, <2>2
    <3>2. /\ Known(Append(mailbox, m), pendingTools, [calls EXCEPT ![t] = "open"])
          /\ \A u : Owes(mailbox, u) => Owes(Append(mailbox, m), u)
      BY <1>1, <2>1, <2>2, CallKnown DEF Context
    <3>3. QED
      BY <2>2, <3>1, <3>2
  <2>4. Tracked(mailbox', level, seen)
    BY <1>1, <1>3, <2>3, TrackedRises DEF Context
  <2>5. QED
    BY <1>1, <1>2, <2>2, <2>3, <2>4 DEF Context
<1>6. ASSUME NEW t \in Tools, ToolReturns(t)
      PROVE  Context'
  <2> DEFINE m == ToolNote("tool_result", t)
  <2>1. m \in Message /\ m.type = "tool_result" /\ m.tools = {t}
    BY MessageTypes DEF ToolNote
  <2>2. /\ mailbox' = mailbox \o <<m>>
        /\ calls[t] = "open" /\ calls' = [calls EXCEPT ![t] = "returned"]
        /\ seen' = Join(seen, ToolLabel[t])
    BY <1>1, <1>6 DEF ToolReturns, Emit
  <2> HIDE DEF m
  <2>3. /\ Known(mailbox', pendingTools, calls')
        /\ \A u : Owes(mailbox, u) => Owes(mailbox', u)
        /\ Owes(mailbox', t)
    <3>1. mailbox' = Append(mailbox, m)
      BY <1>1, <2>1, <2>2
    <3>2. /\ Known(Append(mailbox, m), pendingTools, [calls EXCEPT ![t] = "returned"])
          /\ \A u : Owes(mailbox, u) => Owes(Append(mailbox, m), u)
          /\ Owes(Append(mailbox, m), t)
      BY <1>1, <2>1, <2>2, ResultKnown DEF Context
    <3>3. QED
      BY <2>2, <3>1, <3>2
  <2>4. Tracked(mailbox', level, seen)
    BY <1>1, <1>3, <2>3, TrackedRises DEF Context
  <2>5. Tracked(mailbox', level, Join(seen, ToolLabel[t]))
    BY <1>1, <2>3, <2>4, TrackedJoins
  <2>6. QED
    BY <1>1, <1>2, <2>2, <2>3, <2>5 DEF Context
<1>7. QED
  BY <1>4, <1>5, <1>6, RuntimePlain

-----------------------------------------------------------------------------
\* The session's steps.

\* The levels after a step cover what was already on its way.
LEMMA LinesStay ==
    ASSUME TypeOK, LinesCovered, level' \in Label, Below(level, level')
    PROVE  Covered(stdin, level') /\ Covered(controlQueue, level')
BY CoveredRises DEF TypeOK, LinesCovered

LEMMA ControlCovered ==
    ASSUME NEW l \in Label
    PROVE  /\ Covered(<<ControlLine("bcp")>>, l)
           /\ Covered(<<ControlLine("interrupt")>>, l)
           /\ Covered(<<ControlLine("memory_save")>>, l)
           /\ \A n \in Nat : Covered([i \in 1 .. n |-> ControlLine("bcp")], l)
<1>1. \A type : ControlLine(type).label = NoRisk /\ Below(NoRisk, l)
  BY NoRiskLeast DEF ControlLine
<1>2. QED
  BY <1>1 DEF Covered

\* Nothing about a call is appended, and nothing is taken.
LEMMA AddsContext ==
    ASSUME TypeOK, Context, NEW e \in Seq(Message), Plain(e), mailbox' = mailbox \o e,
           UNCHANGED <<calls, pendingTools, seen>>,
           level' \in Label, Below(level, level'), LinesCovered'
    PROVE  Context'
<1>1. mailbox \in Seq(Message) /\ level \in Label /\ seen \in Label
  BY DEF TypeOK
<1>2. /\ Known(mailbox \o e, pendingTools, calls)
      /\ \A t : Owes(mailbox, t) => Owes(mailbox \o e, t)
  BY <1>1, PlainKnown DEF Context
<1>3. Tracked(mailbox \o e, level', seen)
  BY <1>1, <1>2, TrackedRises DEF Context
<1>4. QED
  BY <1>2, <1>3 DEF Context

\* The head is handled, as pending_tools and the levels show, and nothing about
\* a call is appended.
LEMMA TakesContext ==
    ASSUME TypeOK, Context, mailbox # <<>>,
           NEW e \in Seq(Message), Plain(e), mailbox' = Tail(mailbox) \o e,
           UNCHANGED <<calls, seen>>,
           pendingTools' = Remembered(pendingTools, Head(mailbox)),
           Head(mailbox).type = "tool_result" =>
               \A t \in Head(mailbox).tools : Below(ToolLabel[t], level'),
           level' \in Label, Below(level, level'), LinesCovered'
    PROVE  Context'
<1>1. /\ mailbox \in Seq(Message) /\ level \in Label /\ seen \in Label
      /\ Tail(mailbox) \in Seq(Message)
      /\ calls \in [Tools -> {"unused", "open", "returned"}]
  BY DEF TypeOK
<1>2. /\ Known(Tail(mailbox), pendingTools', calls)
      /\ \A t \in Tools : Owes(mailbox, t) =>
             \/ Owes(Tail(mailbox), t)
             \/ Head(mailbox).type = "tool_result" /\ t \in Head(mailbox).tools
  BY <1>1, HandledKnown DEF Context
<1>3. PICK p : p = pendingTools'
  OBVIOUS
<1>4. /\ Known(Tail(mailbox) \o e, p, calls)
      /\ \A t : Owes(Tail(mailbox), t) => Owes(Tail(mailbox) \o e, t)
  BY <1>1, <1>2, <1>3, PlainKnown
<1>5. \A t \in Tools : Owes(mailbox, t) =>
          Owes(Tail(mailbox) \o e, t) \/ Below(ToolLabel[t], level')
  BY <1>2, <1>4
<1>6. Tracked(Tail(mailbox) \o e, level', seen)
  BY <1>1, <1>5, TrackedRises DEF Context
<1>7. QED
  BY <1>3, <1>4, <1>6 DEF Context

LEMMA OwnPlain ==
    /\ <<>> \in Seq(Message) /\ Plain(<<>>)
    /\ \A type : Note(type) \in Message =>
           <<Note(type)>> \in Seq(Message) /\ Plain(<<Note(type)>>)
<1>1. \A type : Note(type).tools = {}
  BY DEF Note
<1>2. <<>> \in Seq(Message) /\ Plain(<<>>)
  BY DEF Plain
<1>3. ASSUME NEW type, Note(type) \in Message
      PROVE  <<Note(type)>> \in Seq(Message) /\ Plain(<<Note(type)>>)
  <2> DEFINE m == Note(type)
  <2>1. m.tools = {} /\ m \in Message
    BY <1>1, <1>3
  <2> HIDE DEF m
  <2>2. <<m>> \in Seq(Message) /\ Plain(<<m>>)
    BY <2>1 DEF Plain
  <2>3. QED
    BY <2>2 DEF m
<1>4. QED
  BY <1>2, <1>3

\* What an escalation appends is a kill, or nothing.
LEMMA ElevatePlain ==
    ASSUME NEW label, NEW rest \in Seq(Message), Elevate(label, rest)
    PROVE  \E e \in Seq(Message) : Plain(e) /\ mailbox' = rest \o e
<1>1. CASE mailbox' = rest
  <2>1. mailbox' = rest \o <<>>
    BY <1>1
  <2>2. QED
    BY <2>1, OwnPlain
<1>2. CASE mailbox' = Append(rest, Note("kill_risk_exceeded"))
  <2>1. mailbox' = rest \o <<Note("kill_risk_exceeded")>>
    BY <1>2, MessageTypes
  <2>2. QED
    BY <2>1, OwnPlain, MessageTypes
<1>3. QED
  BY <1>1, <1>2 DEF Elevate

LEMMA PromptContext ==
    ASSUME TypeOK, Context, PromptArrives, level' \in Label, Below(level, level')
    PROVE  Context'
<1>1. PICK label \in PromptLabels, blank \in Blanks :
         \/ PromptWhenReady(label, blank)
         \/ PromptWhenStarting(label, blank)
         \/ \E reaction \in BOOLEAN : PromptWhenRunning(label, blank, reaction)
  BY DEF PromptArrives
<1>2. AcceptPrompt(label) /\ label \in Label /\ blank \in BOOLEAN
  BY <1>1, RiskAssumption, BoundAssumption
  DEF PromptWhenReady, PromptWhenStarting, PromptWhenRunning
<1>3. UNCHANGED <<controlQueue, calls, seen, pendingTools>>
  BY <1>2 DEF AcceptPrompt, RuntimeSide
<1>4. Below(label, level')
  BY <1>2, JoinCovers DEF AcceptPrompt, Elevate, TypeOK
<1>5. Covered(stdin, level') /\ Covered(controlQueue, level')
  BY LinesStay DEF Context
<1>6. Covered(stdin', level')
  <2>1. CASE PromptWhenReady(label, blank)
    <3>1. PromptLine(label, blank) \in Line /\ PromptLine(label, blank).label = label
      BY <1>2, LineTypes DEF PromptLine
    <3>2. /\ <<PromptLine(label, blank)>> \in Seq(Line)
          /\ Covered(<<PromptLine(label, blank)>>, level')
      BY <1>4, <3>1, CoveredOne
    <3>3. Send(<<PromptLine(label, blank)>>)
      BY <2>1 DEF PromptWhenReady, SendPrompt, NewPrompt
    <3>4. QED
      BY <1>5, <3>2, <3>3, SendCovered
  <2>2. CASE PromptWhenStarting(label, blank)
    BY <1>5, <2>2 DEF PromptWhenStarting
  <2>3. ASSUME NEW reaction \in BOOLEAN, PromptWhenRunning(label, blank, reaction)
        PROVE  Covered(stdin', level')
    <3> DEFINE lines == IF reaction THEN <<>> ELSE <<ControlLine("interrupt")>>
    <3>1. lines \in Seq(Line)
      BY EmptyTypes, LineTypes, SingletonTypes
    <3>2. Covered(lines, level')
      BY ControlCovered, CoveredEmpty
    <3>3. Send(lines)
      BY <2>3 DEF PromptWhenRunning
    <3> HIDE DEF lines
    <3>4. QED
      BY <1>5, <3>1, <3>2, <3>3, SendCovered
  <2>4. QED
    BY <1>1, <2>1, <2>2, <2>3
<1>7. LinesCovered'
  BY <1>3, <1>5, <1>6 DEF LinesCovered
<1>8. PICK e \in Seq(Message) : Plain(e) /\ mailbox' = mailbox \o e
  BY <1>2, ElevatePlain DEF AcceptPrompt, TypeOK
<1>9. QED
  BY <1>3, <1>7, <1>8, AddsContext

\* A memory save is a line of the gateway's own.
LEMMA SaveLines ==
    ASSUME TypeOK, LinesCovered, NEW rest, BeginSave(rest)
    PROVE  LinesCovered'
<1>1. /\ <<ControlLine("memory_save")>> \in Seq(Line)
      /\ Covered(<<ControlLine("memory_save")>>, level)
  <2>1. level \in Label
    BY DEF TypeOK
  <2>2. QED
    BY <2>1, LineTypes, SingletonTypes, ControlCovered
<1>2. Covered(stdin', level)
  BY <1>1, SendCovered DEF BeginSave, LinesCovered
<1>3. QED
  BY <1>2 DEF BeginSave, RuntimeSide, LinesCovered

\* What an answer's handler sends is a queued prompt, merged when it was queued.
LEMMA NextPromptLines ==
    ASSUME TypeOK, LinesCovered, QueueCovered, NextPrompt,
           UNCHANGED <<level, controlQueue>>
    PROVE  LinesCovered'
<1> DEFINE line == PromptLine(Head(queue).label, Head(queue).blank)
<1>1. <<line>> \in Seq(Line) /\ Send(<<line>>) /\ queue # <<>>
  BY QueueType DEF NextPrompt, SendPrompt
<1>2. Below(Head(queue).label, level)
  BY <1>1, TailIs DEF QueueCovered, TypeOK
<1>3. Below(line.label, level)
  BY <1>2 DEF PromptLine
<1> HIDE DEF line
<1>4. Covered(<<line>>, level)
  BY <1>3 DEF Covered
<1>5. Covered(stdin', level)
  BY <1>1, <1>4, SendCovered DEF LinesCovered
<1>6. QED
  BY <1>5 DEF LinesCovered

LEMMA HandlerContext ==
    ASSUME TypeOK, Context, QueueCovered, HandleMessage, ended' = "no",
           level' \in Label, Below(level, level')
    PROVE  Context'
<1> USE DEF RuntimeSide
<1>1. ASSUME NEW how \in Ending \ {"no"}, Stop(how) \/ Die(how, <<>>)
      PROVE  FALSE
  BY <1>1 DEF Stop, Die
<1>2. LinesCovered /\ level \in Label
  BY DEF Context, TypeOK
<1>3. ASSUME NEW type, Receives(type), type \notin {"tool_use", "tool_result"},
             mailbox' = Tail(mailbox), UNCHANGED <<calls, seen, pendingTools>>,
             LinesCovered'
      PROVE  Context'
  <2>1. /\ mailbox # <<>> /\ Tail(mailbox) \in Seq(Message)
        /\ Head(mailbox).type = type
    BY <1>3, ReceivesType DEF Receives
  <2>2. mailbox' = Tail(mailbox) \o <<>>
    BY <1>3, <2>1
  <2>3. pendingTools' = Remembered(pendingTools, Head(mailbox))
    BY <1>3, <2>1 DEF Remembered
  <2>4. QED
    BY <1>3, <2>1, <2>2, <2>3, OwnPlain, TakesContext
<1>4. ASSUME GoIdle, UNCHANGED <<level, controlQueue>>
      PROVE  LinesCovered'
  BY <1>2, <1>4 DEF GoIdle, LinesCovered
<1>5. ASSUME UNCHANGED <<stdin, level, controlQueue>>
      PROVE  LinesCovered'
  BY <1>2, <1>5 DEF LinesCovered
<1>6. AfterAnswer => /\ mailbox' = Tail(mailbox)
                     /\ UNCHANGED <<calls, seen, pendingTools, level, controlQueue>>
  BY DEF AfterAnswer
<1>7. CASE HandleReady
  <2>1. Receives("ready") /\ AfterAnswer
    BY <1>7 DEF HandleReady
  <2>2. CASE Send([i \in 1 .. pendingBcp |-> ControlLine("bcp")])
    <3> DEFINE kept == [i \in 1 .. pendingBcp |-> ControlLine("bcp")]
    <3>1. kept \in Seq(Line)
      BY LineTypes DEF TypeOK
    <3>2. Covered(kept, level) /\ Send(kept)
      BY <1>2, <2>2, ControlCovered DEF TypeOK
    <3> HIDE DEF kept
    <3>3. Covered(stdin', level)
      BY <1>2, <3>1, <3>2, SendCovered DEF LinesCovered
    <3>4. LinesCovered'
      BY <1>2, <1>6, <2>1, <3>3 DEF LinesCovered
    <3>5. QED
      BY <1>3, <1>6, <2>1, <3>4
  <2>3. CASE NextPrompt \/ GoIdle \/ UNCHANGED stdin
    <3>1. LinesCovered'
      BY <1>2, <1>4, <1>5, <1>6, <2>1, <2>3, NextPromptLines
    <3>2. QED
      BY <1>3, <1>6, <2>1, <3>1
  <2>4. QED
    BY <1>7, <2>2, <2>3 DEF HandleReady
<1>8. CASE HandleInterrupted
  <2>1. Receives("interrupted") /\ AfterAnswer /\ (NextPrompt \/ GoIdle)
    BY <1>8 DEF HandleInterrupted
  <2>2. LinesCovered'
    BY <1>2, <1>4, <1>6, <2>1, NextPromptLines
  <2>3. QED
    BY <1>3, <1>6, <2>1, <2>2
<1>9. CASE HandleResult
  <2>1. Receives("result") /\ AfterAnswer /\ (NextPrompt \/ GoIdle)
    BY <1>1, <1>9 DEF HandleResult, Ending
  <2>2. LinesCovered'
    BY <1>2, <1>4, <1>6, <2>1, NextPromptLines
  <2>3. QED
    BY <1>3, <1>6, <2>1, <2>2
<1>10. CASE HandlePortDown \/ HandleSaveTimeout
  <2>1. /\ Receives("port_down") \/ Receives("memory_save_timeout")
        /\ AfterAnswer /\ UNCHANGED stdin
    BY <1>1, <1>10 DEF HandlePortDown, HandleSaveTimeout, Ending
  <2>2. QED
    BY <1>3, <1>5, <1>6, <2>1
<1>11. CASE HandleIdleTimeout
  <2>1. Receives("idle_timeout") /\ BeginSave(Tail(mailbox))
    BY <1>1, <1>11 DEF HandleIdleTimeout, Ending
  <2>2. mailbox' = Tail(mailbox) /\ UNCHANGED <<calls, seen, pendingTools>>
    BY <2>1 DEF BeginSave
  <2>3. LinesCovered'
    BY <1>2, <2>1, SaveLines
  <2>4. QED
    BY <1>3, <2>1, <2>2, <2>3
<1>12. CASE HandleKill
  BY <1>1, <1>12 DEF HandleKill, Ending
<1>13. CASE HandleToolUse
  <2>1. /\ Receives("tool_use") /\ mailbox # <<>> /\ mailbox' = Tail(mailbox)
        /\ pendingTools' = Remembered(pendingTools, Head(mailbox))
        /\ Head(mailbox).type = "tool_use"
        /\ UNCHANGED <<stdin, level, controlQueue, calls, seen>>
    BY <1>13 DEF HandleToolUse, Receives, Remembered
  <2>2. mailbox' = Tail(mailbox) \o <<>>
    BY <2>1, ReceivesType
  <2>3. LinesCovered'
    BY <1>5, <2>1
  <2>4. QED
    BY <2>1, <2>2, <2>3, OwnPlain, TakesContext
<1>14. CASE HandleToolResult
  <2> DEFINE h == Head(mailbox)
             known == h.tools \cap pendingTools
  <2>1. /\ Receives("tool_result") /\ mailbox # <<>> /\ h.type = "tool_result"
        /\ mailbox \in Seq(Message) /\ Tail(mailbox) \in Seq(Message)
        /\ UNCHANGED <<stdin, controlQueue, calls, seen>>
        /\ calls \in [Tools -> {"unused", "open", "returned"}]
    BY <1>14, ReceivesType DEF HandleToolResult, Receives, TypeOK
  <2>2. h.tools \subseteq pendingTools
    BY <2>1, HandledKnown DEF Context
  <2>3. pendingTools' = Remembered(pendingTools, h)
    BY <1>14, <2>1, <2>2 DEF HandleToolResult, Remembered
  <2>4. \A t, u \in h.tools : t = u
    <3>1. 1 \in DOMAIN mailbox /\ h = mailbox[1]
      BY <2>1, TailIs
    <3>2. QED
      BY <3>1 DEF Context, Known, OneTool
  <2>5. \/ known = {} /\ Elevate(NoRisk, Tail(mailbox))
        \/ \E t \in known : Elevate(ToolLabel[t], Tail(mailbox))
    BY <1>14 DEF HandleToolResult
  <2>6. \A t \in h.tools : Below(ToolLabel[t], level')
    <3> SUFFICES ASSUME NEW t \in h.tools
                 PROVE  Below(ToolLabel[t], level')
      OBVIOUS
    <3>1. t \in known /\ \A u \in known : u = t
      BY <2>2, <2>4
    <3>2. Elevate(ToolLabel[t], Tail(mailbox))
      BY <2>5, <3>1
    <3>3. ToolLabel[t] \in Label
      BY <2>2, RuntimeAssumption DEF TypeOK
    <3>4. QED
      BY <1>2, <3>2, <3>3, JoinCovers DEF Elevate
  <2>7. PICK e \in Seq(Message) : Plain(e) /\ mailbox' = Tail(mailbox) \o e
    BY <2>1, <2>5, ElevatePlain
  <2>8. LinesCovered'
    BY <1>2, <2>1, LinesStay DEF LinesCovered
  <2>9. QED
    BY <2>1, <2>3, <2>6, <2>7, <2>8, TakesContext
<1>15. QED
  BY <1>7, <1>8, <1>9, <1>10, <1>11, <1>12, <1>13, <1>14 DEF HandleMessage

LEMMA ContextStep == TypeOK /\ MailInv /\ QueueInv /\ ContextInv /\ [Next]_vars => ContextInv'
<1> SUFFICES ASSUME TypeOK, MailInv, QueueInv, ContextInv, [Next]_vars, ended' = "no"
             PROVE  Context'
  BY DEF ContextInv, alive
<1> USE DEF RuntimeSide
<1>1. level' \in Label /\ Below(level, level')
  BY LevelRises
<1>2. ended = "no"
  <2>1. Quiet \/ Enqueues \/ HandsOn \/ SendsAtOnce \/ Ends
    BY StepShape
  <2>2. QED
    BY <2>1 DEF Quiet, Enqueues, HandsOn, SendsAtOnce, Ends, alive
<1>3. Living /\ Context /\ QueueCovered
  BY <1>2 DEF MailInv, ContextInv, QueueInv, alive
<1>4. CASE RuntimeNext /\ UNCHANGED sessionVars
  BY <1>3, <1>4, RuntimeContext
<1>5. CASE UNCHANGED vars
  BY <1>3, <1>5 DEF vars, runtimeVars, sessionVars, Context, LinesCovered
<1>6. CASE PromptArrives
  BY <1>1, <1>3, <1>6, PromptContext
<1>7. ASSUME NEW e \in Seq(Message), Plain(e), mailbox' = mailbox \o e,
             UNCHANGED <<calls, pendingTools, seen>>, LinesCovered'
      PROVE  Context'
  BY <1>1, <1>3, <1>7, AddsContext
<1>8. mailbox \in Seq(Message) /\ mailbox = mailbox \o <<>>
  BY DEF TypeOK
<1>9. CASE BcpArrives
  <2>1. LinesCovered'
    <3>1. Covered(stdin', level)
      <4>1. /\ <<ControlLine("bcp")>> \in Seq(Line)
            /\ Covered(<<ControlLine("bcp")>>, level)
        BY LineTypes, ControlCovered DEF TypeOK
      <4>2. Covered(stdin, level)
        BY <1>3 DEF Context, LinesCovered
      <4>3. Send(<<ControlLine("bcp")>>) \/ UNCHANGED stdin
        BY <1>9 DEF BcpArrives
      <4>4. QED
        BY <4>1, <4>2, <4>3, SendCovered
    <3>2. UNCHANGED <<controlQueue, level>>
      BY <1>9 DEF BcpArrives
    <3>3. QED
      BY <1>3, <3>1, <3>2 DEF Context, LinesCovered
  <2>2. mailbox' = mailbox \o <<>> /\ UNCHANGED <<calls, pendingTools, seen>>
    BY <1>8, <1>9 DEF BcpArrives
  <2>3. QED
    BY <1>7, <2>1, <2>2, OwnPlain
<1>10. CASE GracefulStop
  <2>1. BeginSave(mailbox)
    BY <1>10 DEF GracefulStop, Stop, Die
  <2>2. mailbox' = mailbox \o <<>> /\ UNCHANGED <<calls, pendingTools, seen>>
    BY <1>8, <2>1 DEF BeginSave
  <2>3. LinesCovered'
    BY <1>3, <2>1, SaveLines DEF Context
  <2>4. QED
    BY <1>7, <2>2, <2>3, OwnPlain
<1>11. CASE HandleMessage
  BY <1>1, <1>3, <1>11, HandlerContext
<1>12. ASSUME NEW type, Note(type) \in Message, mailbox' = Append(mailbox, Note(type)),
              UNCHANGED <<calls, pendingTools, seen>>, LinesCovered'
       PROVE  Context'
  <2>1. mailbox' = mailbox \o <<Note(type)>>
    BY <1>8, <1>12
  <2>2. QED
    BY <1>7, <1>12, <2>1, OwnPlain
<1>13. CASE IdleTimerFires \/ SaveTimerFires
  <2>1. LinesCovered'
    BY <1>3, <1>13 DEF IdleTimerFires, SaveTimerFires, Fires, Context, LinesCovered
  <2>2. QED
    BY <1>12, <1>13, <2>1, MessageTypes DEF IdleTimerFires, SaveTimerFires, Fires
<1>14. CASE PortExits
  <2>1. LinesCovered'
    BY <1>3, <1>14, CoveredEmpty DEF PortExits, sessionVars, Context, LinesCovered
  <2>2. QED
    BY <1>12, <1>14, <2>1, MessageTypes DEF PortExits, sessionVars
<1>15. CASE PortCommandFails
  BY <1>15 DEF PortCommandFails, Die
<1>16. QED
  BY <1>4, <1>5, <1>6, <1>9, <1>10, <1>11, <1>13, <1>14, <1>15 DEF Next, SessionNext

LEMMA ContextInit == Init => ContextInv
<1> SUFFICES ASSUME Init PROVE Context
  BY DEF ContextInv
<1>1. /\ stdin = <<>> /\ controlQueue = <<>> /\ mailbox = <<>> /\ seen = level
      /\ calls = [t \in Tools |-> "unused"] /\ level \in Label
  BY RiskAssumption DEF Init, RuntimeInit
<1>2. LinesCovered
  BY <1>1, CoveredEmpty DEF LinesCovered
<1>3. Known(mailbox, pendingTools, calls)
  BY <1>1 DEF Known, OneTool, CallsKnown, ResultsKnown
<1>4. Tracked(mailbox, level, seen)
  BY <1>1 DEF Tracked, Label, Level, Low, Medium, High
<1>5. QED
  BY <1>2, <1>3, <1>4 DEF Context

LEMMA ContextIsWhatIsOwed == TypeOK /\ ContextInv => ContextIsTracked
<1> SUFFICES ASSUME TypeOK, Context PROVE ContextIsTracked
  BY DEF ContextInv, ContextIsTracked
<1>1. \A t : Owes(mailbox, t) => t \in Reported
  BY DEF Owes, Says, Reported
<1>2. QED
  BY <1>1 DEF Context, Tracked, ContextIsTracked

\* Nothing gets into the model's context past the taint tracking: what the
\* model has read is in the session's levels, or a result that waits in the
\* mailbox brings it there, whatever is queued, aborted, retried or lost.
THEOREM ContextAlwaysTracked == Spec => []ContextIsTracked
BY ContextIsWhatIsOwed, ContextInit, ContextStep, MailInit, MailStep,
   QueueInit, QueueStep, TypeCorrect, PTL DEF Spec

=============================================================================
