-------------------------- MODULE MCTriggerRouting --------------------------
(***************************************************************************)
(* Three requests, one of them a connector's message: three are what it    *)
(* takes to open two sessions and disturb one of them, or to find, lose    *)
(* and retry one. The other two are of any kind, in every combination.     *)
(***************************************************************************)
EXTENDS TriggerRouting, TLC

CONSTANTS c1, c2, c3, NoChannel

MCRequest == {c1, c2, c3}
MCTwo == {c1, c2}

Work(kind, key, level) == [kind |-> kind, key |-> key, taint |-> level]
ChatA == Work("chat", "room A", Low)
Chat == {ChatA, Work("chat", "room B", High)}
Other == {Work("trigger", NoChannel, High), Work("peer", NoChannel, High)}
         \cup {Work(kind, NoChannel, Low) : kind \in Kind \ {"chat", "trigger", "peer"}}

MCWorkLoads ==
    {load \in [MCRequest -> Chat \cup Other] : \E c \in MCRequest : load[c] = ChatA}

\* Two requests of any kinds.
MCPairs == [MCTwo -> Chat \cup Other]

MCSymmetry == Permutations(MCRequest)
=============================================================================
