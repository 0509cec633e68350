--------------------------- MODULE GatewayClient ---------------------------
(***************************************************************************)
(* connector/gateway_client.py: the WebSocket connection that a connector  *)
(* keeps to the gateway. It connects, registers, reads frames one at a     *)
(* time and hands each to its owner's handler; when the socket ends, the   *)
(* owner is told and the loop connects again. Back-off, health pings and   *)
(* encoding are left out. Extended by the modules of the two owners, the   *)
(* MCP bridge and the chat connector, which say what the frames are.       *)
(***************************************************************************)
EXTENDS Naturals, Sequences

CONSTANT MaxLosses   \* bound: how often the connection may be lost

ASSUME LossAssumption == MaxLosses \in Nat

VARIABLES
    socket,      \* "none", "up", or "dead": closed, and the read loop not there yet
    registered,  \* the event _registered
    closing,     \* _closing: stop() was called
    inbound,     \* frames the gateway sent and the read loop has not handled
    losses       \* connections lost so far

linkVars == <<socket, registered, closing, inbound, losses>>

LinkTypeOK(Frame) ==
    /\ socket \in {"none", "up", "dead"}
    /\ registered \in BOOLEAN
    /\ closing \in BOOLEAN
    /\ inbound \in Seq(Frame)
    /\ losses \in 0 .. MaxLosses

LinkInit ==
    /\ socket = "none"
    /\ registered = FALSE
    /\ closing = FALSE
    /\ inbound = <<>>
    /\ losses = 0

\* _connect_loop: connected; _register clears the event and asks.
Connect ==
    /\ ~closing
    /\ socket = "none"
    /\ socket' = "up"
    /\ registered' = FALSE
    /\ UNCHANGED <<closing, inbound, losses>>

\* _handle_frame of RegisteredMessage, the first frame on a connection.
Acknowledged ==
    /\ socket = "up"
    /\ ~registered
    /\ registered' = TRUE
    /\ UNCHANGED <<socket, closing, inbound, losses>>

\* The connection breaks. What had arrived by then is still read; the rest of
\* what the gateway sent is gone.
LinkDies ==
    /\ socket = "up"
    /\ losses < MaxLosses
    /\ losses' = losses + 1
    /\ socket' = "dead"
    /\ \E n \in 0 .. Len(inbound) : inbound' = SubSeq(inbound, 1, n)
    /\ UNCHANGED <<registered, closing>>

\* The read loop ends: the finally block of _run. The owner's on_disconnect
\* runs in the same step.
ReadEnds ==
    /\ socket = "dead"
    /\ inbound = <<>>
    /\ socket' = "none"
    /\ registered' = FALSE
    /\ UNCHANGED <<closing, inbound, losses>>

\* stop: no more connections, and the open one is closed.
CloseLink ==
    /\ closing' = TRUE
    /\ socket' = IF socket = "up" THEN "dead" ELSE socket
    /\ UNCHANGED <<registered, inbound, losses>>

\* The read loop takes the next frame.
TakeFrame ==
    /\ inbound # <<>>
    /\ registered
    /\ inbound' = Tail(inbound)
    /\ UNCHANGED <<socket, registered, closing, losses>>

\* The gateway's process for this connection pushes frames; nothing arrives on
\* a connection that is gone or not acknowledged.
Push(frames) ==
    /\ inbound' = IF socket = "up" /\ registered THEN inbound \o frames ELSE inbound
    /\ UNCHANGED <<socket, registered, closing, losses>>
=============================================================================
