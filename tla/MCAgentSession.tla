--------------------------- MODULE MCAgentSession ---------------------------
(***************************************************************************)
(* A small session: one web fetch (taint high) can be made and a prompt    *)
(* may carry sensitivity medium. Under medium capability both together are *)
(* :high, over a ceiling of :moderate, while either alone is not.          *)
(***************************************************************************)
EXTENDS AgentSession

MCTools == {"WebFetch"}
MCToolLabel == [t \in MCTools |-> [taint |-> High, sens |-> Low]]
MCNoToolLabel == [t \in {} |-> NoRisk]
MCInitLabels == {NoRisk}
MCPromptLabels == {NoRisk, [taint |-> Low, sens |-> Medium]}
=============================================================================
