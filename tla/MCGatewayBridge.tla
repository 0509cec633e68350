-------------------------- MODULE MCGatewayBridge --------------------------
EXTENDS GatewayBridge, TLC

\* One client and one conversation: keys share nothing but the connection.
MCClientOf == [c \in Calls |-> "client"]
MCConversationOf == [c \in Calls |-> "default"]

\* A gateway that ends a prompt at most once, and what else can go wrong.
MCOrdinary == {{"interrupt", "crash"}}
MCAll == {{"fails", "handoff", "cancel"}}

MCSymmetry == Permutations(Calls)
=============================================================================
