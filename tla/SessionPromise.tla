--------------------------- MODULE SessionPromise ---------------------------
(***************************************************************************)
(* What an agent session promises to its clients and to the operator,      *)
(* without mailbox, container, timers or status: accepted prompts are      *)
(* handed on in order, each once, and only under levels that cover them;   *)
(* the levels only rise; and nothing happens after the end.                *)
(***************************************************************************)
EXTENDS Naturals, Sequences, RiskLevels

VARIABLES
    open,     \* the session exists
    level,    \* its two information levels
    waiting,  \* prompts accepted and not yet handed on, [id, label, ...] each
    handed    \* id of the last prompt handed on

promiseVars == <<open, level, waiting, handed>>

Init ==
    /\ open = TRUE
    /\ level \in Label
    /\ waiting = <<>>
    /\ handed = 0

\* Information enters: the levels rise, never fall.
Learn ==
    /\ open
    /\ level' \in Label
    /\ Below(level, level')
    /\ UNCHANGED <<open, waiting, handed>>

\* The next prompt in the order of acceptance joins those that wait.
Accept ==
    /\ open
    /\ \E p \in [id : {handed + Len(waiting) + 1}, label : Label, blank : BOOLEAN] :
          /\ level' = Join(level, p.label)
          /\ waiting' = Append(waiting, p)
    /\ UNCHANGED <<open, handed>>

\* The oldest waiting prompt is handed on, its label covered by the levels.
HandOn ==
    /\ open
    /\ waiting # <<>>
    /\ Head(waiting).id = handed + 1
    /\ Below(Head(waiting).label, level)
    /\ waiting' = Tail(waiting)
    /\ handed' = handed + 1
    /\ UNCHANGED <<open, level>>

\* Nothing waits: a prompt is accepted and handed on at once.
AcceptAndHandOn ==
    /\ open
    /\ waiting = <<>>
    /\ handed' = handed + 1
    /\ \E label \in Label : level' = Join(level, label)
    /\ UNCHANGED <<open, waiting>>

End ==
    /\ open
    /\ open' = FALSE
    /\ waiting' = <<>>
    /\ UNCHANGED <<level, handed>>

Next == Learn \/ Accept \/ HandOn \/ AcceptAndHandOn \/ End

Spec == Init /\ [][Next]_promiseVars
=============================================================================
