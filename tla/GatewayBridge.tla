--------------------------- MODULE GatewayBridge ---------------------------
(***************************************************************************)
(* mcp_server/gateway_bridge.py and the agent tools of server.py: how the  *)
(* calls of an MCP client become turns of an agent, over GatewayClient.    *)
(*                                                                         *)
(* A call waits for a soft deadline and is then told to ask again; its     *)
(* turn goes on without it until the agent's terminal frame, an error, a   *)
(* lost connection or the hard deadline. A turn that is given up while the *)
(* agent works on is counted as abandoned, and as many terminal frames are *)
(* swallowed. A turn is named after the call that started it, and so is    *)
(* the prompt that the call sent. Asyncio runs one step at a time, from    *)
(* await to await: those are the actions. Clocks are left out, every       *)
(* deadline may pass whenever it is running; so are the phases of a turn   *)
(* and the texts shown to the model.                                       *)
(***************************************************************************)
EXTENDS GatewayClient, SequencesExt

CONSTANTS
    Calls,           \* tool calls, each made once
    None,            \* no call
    ClientOf,        \* the OAuth client of each call
    ConversationOf,  \* its conversation id, after cleaning
    FaultSets        \* what may go wrong, see Fault; fixed at the start

\* What the gateway, the clock and the callers may do beyond the ordinary.
\*   interrupt  a prompt cuts short the one that runs, with no terminal frame
\*   crash      the container is lost, with no terminal frame
\*   fails      a prompt that fails emits agent_error and agent_result
\*   expiry     an abandonment expires with its turn still running
\*   handoff    the sweeper runs when a lock is released and not yet taken
\*   cancel     a caller is cancelled while its prompt is being written
Fault == {"interrupt", "crash", "fails", "expiry", "handoff", "cancel"}

ASSUME BridgeAssumption ==
    /\ None \notin Calls
    /\ IsFiniteSet(Calls)
    /\ FaultSets \subseteq SUBSET Fault

\* make_room_id: the client is part of the key; there is one agent.
KeyOf(c) == <<ClientOf[c], ConversationOf[c]>>
Keys == {KeyOf(c) : c \in Calls}

VARIABLES
    at,        \* where each call is in ask
    on,        \* the turn each call waited on or collected
    lockOf,    \* the lock each call holds or queues for, named after its maker
    pruned,    \* locks that were taken out of _locks while calls queued for them
    turn,      \* the turn each call started
    held,      \* _turns: the turn of each key
    stamps,    \* _abandoned: how many of each key
    upstream,  \* prompts at the gateway, the first of them running
    told,      \* those of them whose text was emitted, once each
    tracked,   \* keys whose events go to this connection (session_channels)
    faults     \* what may go wrong in this behaviour

bridgeVars == <<at, on, lockOf, pruned, turn, held, stamps>>
gatewayVars == <<upstream, told, tracked, faults>>
vars == <<linkVars, bridgeVars, gatewayVars>>

\* "done" stands for a reply, an error, the request to poll, a rejection and a
\* cancelled caller; whether a settled turn is a reply is in the turn.
Waiting == {"lock", "grace", "granted", "sending", "waiting"}
Inside == {"grace", "granted", "sending"}      \* holds its lock over an await

\* _Turn: texts names the prompt of each text, by the prompt whose terminal
\* frame settled it; old, that it was settled longer ago than parked_ttl.
Turn == [state : {"unborn", "open", "reply", "failed", "gone"},
         texts : Seq(Calls), by : Calls \cup {None}, old : BOOLEAN]
NewTurn(state) == [state |-> state, texts |-> <<>>, by |-> None, old |-> FALSE]

Frame == [prompt : Calls, kind : {"text", "result", "error"}]
FrameOf(prompt, kind) == [prompt |-> prompt, kind |-> kind]
Terminal == {"result", "error"}

TypeOK ==
    /\ LinkTypeOK(Frame)
    /\ at \in [Calls -> Waiting \cup {"new", "stale", "done"}]
    /\ on \in [Calls -> Calls \cup {None}]
    /\ lockOf \in [Calls -> Calls \cup {None}]
    /\ pruned \in SUBSET Calls
    /\ turn \in [Calls -> Turn]
    /\ held \in [Keys -> Calls \cup {None}]
    /\ stamps \in [Keys -> Nat]
    /\ upstream \in [Keys -> Seq(Calls)]
    /\ told \in SUBSET Calls
    /\ tracked \in SUBSET Keys
    /\ faults \in FaultSets

Init ==
    /\ LinkInit
    /\ at = [c \in Calls |-> "new"]
    /\ on = [c \in Calls |-> None]
    /\ lockOf = [c \in Calls |-> None]
    /\ pruned = {}
    /\ turn = [c \in Calls |-> NewTurn("unborn")]
    /\ held = [k \in Keys |-> None]
    /\ stamps = [k \in Keys |-> 0]
    /\ upstream = [k \in Keys |-> <<>>]
    /\ told = {}
    /\ tracked = {}
    /\ faults \in FaultSets

-----------------------------------------------------------------------------
\* Turns.
Open(t) == turn[t].state = "open"
Settled(t) == turn[t].state \in {"reply", "failed"}
Waiters(t) == {c \in Calls : at[c] = "waiting" /\ on[c] = t}

\* finish and fail: only the first one counts.
Settle(t, state, by) ==
    IF Open(t) THEN [turn EXCEPT ![t].state = state, ![t].by = by] ELSE turn

\* _drop: a late waiter must not drop a newer turn.
\* Defect: without the check of identity.
DropAny(from, t) == [from EXCEPT ![KeyOf(t)] = None]
Drop(from, t) == [from EXCEPT ![KeyOf(t)] = IF @ = t THEN None ELSE @]

\* _expire_parked: settled long ago and nobody waits.
AfterExpiry ==
    [k \in Keys |-> IF /\ held[k] # None
                       /\ Settled(held[k])
                       /\ turn[held[k]].old
                       /\ Waiters(held[k]) = {}
                    THEN None ELSE held[k]]

\* fail and _abandon of all turns in which.
Abandon(which) ==
    /\ turn' = [t \in Calls |-> IF t \in which
                                THEN [turn[t] EXCEPT !.state = "failed"] ELSE turn[t]]
    /\ stamps' = [k \in Keys |-> stamps[k] + (IF held[k] \in which THEN 1 ELSE 0)]

-----------------------------------------------------------------------------
\* ask, from the lock to the next await.

\* The lock is kept only over an await inside.
Keeping(c, lock) == [lockOf EXCEPT ![c] = IF at'[c] \in Inside THEN lock ELSE None]
Unlock(c) == lockOf' = [lockOf EXCEPT ![c] = None]

\* _start_turn, then the prompt is written. _send ignores a dead connection.
Start(c, table) ==
    /\ turn' = [turn EXCEPT ![c] = NewTurn("open")]
    /\ held' = [table EXCEPT ![KeyOf(c)] = c]
    /\ on' = [on EXCEPT ![c] = c]
    /\ at' = [at EXCEPT ![c] = "sending"]
    /\ IF socket = "up"
       THEN /\ upstream' = [upstream EXCEPT ![KeyOf(c)] = Append(@, c)]
            /\ tracked' = tracked \cup {KeyOf(c)}
       ELSE UNCHANGED <<upstream, tracked>>

\* A finished turn is collected, and labelled with the prompt it answers.
\* Defect: without the label.
CollectUnlabelled(c, t) ==
    /\ held' = Drop(AfterExpiry, t)
    /\ at' = [at EXCEPT ![c] = "reply"]
    /\ on' = [on EXCEPT ![c] = t]
    /\ UNCHANGED <<turn, upstream, tracked>>
Collect(c, t) ==
    /\ held' = Drop(AfterExpiry, t)
    /\ at' = [at EXCEPT ![c] = "stale"]
    /\ on' = [on EXCEPT ![c] = t]
    /\ UNCHANGED <<turn, upstream, tracked>>

\* A running turn is joined; the message is not sent.
Join(c, t) ==
    /\ held' = AfterExpiry
    /\ at' = [at EXCEPT ![c] = "waiting"]
    /\ on' = [on EXCEPT ![c] = t]
    /\ UNCHANGED <<turn, upstream, tracked>>

\* Not connected: a short grace, with the lock held.
WaitForLink(c) ==
    /\ held' = AfterExpiry
    /\ at' = [at EXCEPT ![c] = "grace"]
    /\ UNCHANGED <<on, turn, upstream, tracked>>

Locked(c) ==
    LET t == AfterExpiry[KeyOf(c)]
    IN /\ \/ t # None /\ Settled(t) /\ Collect(c, t)
          \/ t # None /\ ~Settled(t) /\ Join(c, t)
          \/ t = None /\ registered /\ Start(c, AfterExpiry)
          \/ t = None /\ ~registered /\ WaitForLink(c)
       /\ UNCHANGED <<stamps, told, faults, linkVars>>

\* A tool is called: server.py turns away blank messages and system commands
\* before the bridge. setdefault finds or makes the lock of the key, and an
\* asyncio.Lock that is free and awaited by nobody is taken at once.
Reject(c) ==
    /\ at[c] = "new"
    /\ ~closing
    /\ at' = [at EXCEPT ![c] = "done"]
    /\ UNCHANGED <<on, lockOf, pruned, turn, held, stamps, gatewayVars, linkVars>>

\* The lock _locks has for a key, if anyone uses it; an idle one is as good as
\* a new one.
LockOf(k) == {lockOf[d] : d \in {e \in Calls : lockOf[e] # None /\ KeyOf(e) = k}} \ pruned

Ask(c) ==
    /\ at[c] = "new"
    /\ ~closing
    /\ \/ /\ LockOf(KeyOf(c)) = {}
          /\ Locked(c)
          /\ lockOf' = Keeping(c, c)
       \/ /\ LockOf(KeyOf(c)) # {}
          /\ at' = [at EXCEPT ![c] = "lock"]
          /\ lockOf' = [lockOf EXCEPT ![c] = CHOOSE lock \in LockOf(KeyOf(c)) : TRUE]
          /\ UNCHANGED <<on, turn, held, stamps, gatewayVars, linkVars>>
    /\ UNCHANGED pruned

\* The lock is free. Which of those that queue gets it is left open.
TakeLock(c) ==
    /\ at[c] = "lock"
    /\ \A d \in Calls : lockOf[d] = lockOf[c] => at[d] = "lock"
    /\ Locked(c)
    /\ lockOf' = Keeping(c, lockOf[c])
    /\ UNCHANGED pruned

\* wait_registered: the event was set in time, or the grace is over. The call
\* goes on in a later step, when the connection may be gone again.
GraceMet(c) ==
    /\ at[c] = "grace"
    /\ registered
    /\ at' = [at EXCEPT ![c] = "granted"]
    /\ UNCHANGED <<on, lockOf, pruned, turn, held, stamps, gatewayVars, linkVars>>

GraceOver(c) ==
    /\ at[c] = "grace"
    /\ at' = [at EXCEPT ![c] = "done"]
    /\ Unlock(c)
    /\ UNCHANGED <<on, pruned, turn, held, stamps, gatewayVars, linkVars>>

Granted(c) ==
    /\ at[c] = "granted"
    /\ Start(c, held)
    /\ UNCHANGED <<lockOf, pruned, stamps, told, faults, linkVars>>

\* send_message returns; the lock is released and the wait begins.
Sent(c) ==
    /\ at[c] = "sending"
    /\ at' = [at EXCEPT ![c] = "waiting"]
    /\ Unlock(c)
    /\ UNCHANGED <<on, pruned, turn, held, stamps, gatewayVars, linkVars>>

\* Cancelled in send_message: the turn is dropped without a trace. The prompt
\* may have gone out.
CancelSend(c) ==
    /\ "cancel" \in faults
    /\ at[c] = "sending"
    /\ at' = [at EXCEPT ![c] = "done"]
    /\ held' = Drop(held, c)
    /\ turn' = [turn EXCEPT ![c].state = IF @ = "open" THEN "gone" ELSE @]
    /\ Unlock(c)
    /\ UNCHANGED <<on, pruned, stamps, gatewayVars, linkVars>>

\* Cancelled anywhere else: the turn goes on.
Cancel(c) ==
    /\ at[c] \in {"lock", "grace", "granted", "waiting"}
    /\ at' = [at EXCEPT ![c] = "done"]
    /\ Unlock(c)
    /\ UNCHANGED <<on, pruned, turn, held, stamps, gatewayVars, linkVars>>

\* asyncio.wait is over: the soft deadline, or the turn was settled.
SoftDeadline(c) ==
    /\ at[c] = "waiting"
    /\ Open(on[c])
    /\ at' = [at EXCEPT ![c] = "done"]
    /\ UNCHANGED <<on, lockOf, pruned, turn, held, stamps, gatewayVars, linkVars>>

\* Defect: a caller that waits for ever.
WakeReply(c) ==
    /\ at[c] = "waiting"
    /\ turn[on[c]].state = "reply"
    /\ held' = Drop(held, on[c])
    /\ at' = [at EXCEPT ![c] = "done"]
    /\ UNCHANGED <<on, lockOf, pruned, turn, stamps, gatewayVars, linkVars>>
Wake(c) ==
    /\ at[c] = "waiting"
    /\ Settled(on[c])
    /\ held' = Drop(held, on[c])
    /\ at' = [at EXCEPT ![c] = "done"]
    /\ UNCHANGED <<on, lockOf, pruned, turn, stamps, gatewayVars, linkVars>>

-----------------------------------------------------------------------------
\* The other tasks of the bridge.

\* _hard_deadline, the watchdog of an open turn.
\* Defect: the turn is failed and not counted as abandoned.
HardDeadlineUncounted(t) ==
    /\ Open(t)
    /\ turn' = Settle(t, "failed", None)
    /\ UNCHANGED <<at, on, lockOf, pruned, held, stamps, gatewayVars, linkVars>>
HardDeadline(t) ==
    /\ Open(t)
    /\ turn' = Settle(t, "failed", None)
    /\ stamps' = [stamps EXCEPT ![KeyOf(t)] = @ + 1]
    /\ UNCHANGED <<at, on, lockOf, pruned, held, gatewayVars, linkVars>>

\* Time passes for a finished turn that nobody collects.
ParkedAges(t) ==
    /\ Settled(t)
    /\ held[KeyOf(t)] = t
    /\ ~turn[t].old
    /\ turn' = [turn EXCEPT ![t].old = TRUE]
    /\ UNCHANGED <<at, on, lockOf, pruned, held, stamps, gatewayVars, linkVars>>

\* _expire_abandoned: the oldest go. Unless an agent can work for longer than
\* the time they are kept, all that was to come has come by then.
Quiet(k) ==
    /\ \A i \in 1 .. Len(upstream[k]) : Open(upstream[k][i])
    /\ \A i \in 1 .. Len(inbound) : KeyOf(inbound[i].prompt) = k => Open(inbound[i].prompt)
MayExpire(k) == "expiry" \in faults \/ Quiet(k)

\* _prune_locks: nobody inside, no turn, no abandonment. That calls queue for
\* the lock is not looked at.
Prunable(k) ==
    /\ "handoff" \in faults
    /\ held'[k] = None
    /\ stamps'[k] = 0
    /\ \A c \in Calls : lockOf[c] \in LockOf(k) => at[c] = "lock"

\* _sweep_loop.
Sweep ==
    /\ ~closing
    /\ \E gone \in [Keys -> 0 .. Cardinality(Calls)] :
          /\ \A k \in Keys : gone[k] <= stamps[k] /\ (gone[k] > 0 => MayExpire(k))
          /\ stamps' = [k \in Keys |-> stamps[k] - gone[k]]
    /\ held' = AfterExpiry
    /\ pruned' = pruned \cup UNION {LockOf(k) : k \in {j \in Keys : Prunable(j)}}
    /\ UNCHANGED <<at, on, lockOf, turn, gatewayVars, linkVars>>

\* _on_outbound: one frame of the gateway.
Swallow(k, f) ==
    /\ stamps' = [stamps EXCEPT ![k] = IF f.kind \in Terminal THEN @ - 1 ELSE @]
    /\ UNCHANGED turn

Apply(t, f) ==
    turn' = CASE ~Open(t) -> turn
              [] f.kind = "text" -> [turn EXCEPT ![t].texts = Append(@, f.prompt)]
              [] f.kind = "result" -> Settle(t, "reply", f.prompt)
              [] f.kind = "error" -> Settle(t, "failed", f.prompt)

HandleFrame ==
    /\ TakeFrame
    /\ LET f == Head(inbound)
           k == KeyOf(f.prompt)
       IN \/ stamps[k] > 0 /\ Swallow(k, f)
          \/ stamps[k] = 0 /\ held[k] = None /\ UNCHANGED <<turn, stamps>>
          \/ stamps[k] = 0 /\ held[k] # None /\ Apply(held[k], f) /\ UNCHANGED stamps
    /\ UNCHANGED <<at, on, lockOf, pruned, held, gatewayVars>>

\* _on_disconnect: every unsettled turn is failed and abandoned; finished ones
\* stay. The gateway forgets which sessions this connection followed.
Disconnect ==
    /\ ReadEnds
    /\ Abandon({held[k] : k \in {j \in Keys : held[j] # None /\ Open(held[j])}})
    /\ tracked' = {}
    /\ UNCHANGED <<at, on, lockOf, pruned, held, upstream, told, faults>>

\* stop: all turns are failed and dropped.
Stop ==
    /\ ~closing
    /\ CloseLink
    /\ turn' = [t \in Calls |-> IF t \in {held[k] : k \in Keys} /\ Open(t)
                                THEN [turn[t] EXCEPT !.state = "failed"] ELSE turn[t]]
    /\ held' = [k \in Keys |-> None]
    /\ UNCHANGED <<at, on, lockOf, pruned, stamps, gatewayVars>>

LinkStep ==
    /\ Connect \/ Acknowledged \/ LinkDies
    /\ UNCHANGED <<bridgeVars, gatewayVars>>

-----------------------------------------------------------------------------
\* The gateway, for the session of a key: AgentSession's queue and what
\* connector_handler.ex makes of its events.
ToClient(k, frames) == Push(IF k \in tracked THEN frames ELSE <<>>)
Ends(k) ==
    /\ upstream' = [upstream EXCEPT ![k] = Tail(@)]
    /\ told' = told \ {Head(upstream[k])}

AgentWrites(k) ==
    /\ upstream[k] # <<>>
    /\ Head(upstream[k]) \notin told
    /\ told' = told \cup {Head(upstream[k])}
    /\ ToClient(k, <<FrameOf(Head(upstream[k]), "text")>>)
    /\ UNCHANGED <<upstream, tracked, faults, bridgeVars>>

AgentFinishes(k) ==
    /\ upstream[k] # <<>>
    /\ Ends(k)
    /\ ToClient(k, <<FrameOf(Head(upstream[k]), "result")>>)
    /\ UNCHANGED <<tracked, faults, bridgeVars>>

\* run_prompt emits an error and then a result.
AgentFails(k) ==
    /\ "fails" \in faults
    /\ upstream[k] # <<>>
    /\ Ends(k)
    /\ ToClient(k, <<FrameOf(Head(upstream[k]), "error"), FrameOf(Head(upstream[k]), "result")>>)
    /\ UNCHANGED <<tracked, faults, bridgeVars>>

\* A prompt behind another one interrupts it.
AgentInterrupted(k) ==
    /\ "interrupt" \in faults
    /\ Len(upstream[k]) > 1
    /\ Ends(k)
    /\ UNCHANGED <<tracked, faults, bridgeVars, linkVars>>

\* port_down: only the typing indicator is cleared. What waited is lost too.
AgentCrashes(k) ==
    /\ "crash" \in faults
    /\ upstream[k] # <<>>
    /\ upstream' = [upstream EXCEPT ![k] = <<>>]
    /\ told' = told \ Range(upstream[k])
    /\ UNCHANGED <<tracked, faults, bridgeVars, linkVars>>

AgentStep(k) ==
    AgentWrites(k) \/ AgentFinishes(k) \/ AgentFails(k) \/ AgentInterrupted(k) \/ AgentCrashes(k)

-----------------------------------------------------------------------------
CallStep(c) ==
    \/ Reject(c) \/ Ask(c) \/ TakeLock(c)
    \/ GraceMet(c) \/ GraceOver(c) \/ Granted(c) \/ Sent(c) \/ CancelSend(c) \/ Cancel(c)
    \/ SoftDeadline(c) \/ Wake(c)

Next ==
    \/ \E c \in Calls : CallStep(c)
    \/ \E t \in Calls : HardDeadline(t) \/ ParkedAges(t)
    \/ \E k \in Keys : AgentStep(k)
    \/ Sweep \/ HandleFrame \/ Disconnect \/ Stop \/ LinkStep

\* The event loop runs every task that is ready and fires its timers.
Fairness ==
    \A c \in Calls :
        /\ WF_vars(TakeLock(c))
        /\ WF_vars(GraceMet(c) \/ GraceOver(c))
        /\ WF_vars(Granted(c))
        /\ WF_vars(Sent(c))
        /\ WF_vars(SoftDeadline(c) \/ Wake(c))

Spec == Init /\ [][Next]_vars /\ Fairness

-----------------------------------------------------------------------------
\* When the count of abandonments can be relied upon: without these faults, and
\* until stop drops the turns without counting them.
Counted == faults \cap {"fails", "expiry", "handoff", "cancel"} = {} /\ ~closing

\* A turn is settled, if by a frame at all, by the terminal frame of its own
\* prompt, and its reply is made of its own texts: no caller receives the
\* answer to another's question, whatever deadlines pass, connections break and
\* answers arrive late.
OwnAnswer ==
    Counted => \A t \in Calls :
        /\ turn[t].by \in {t, None}
        /\ \A i \in 1 .. Len(turn[t].texts) : turn[t].texts[i] = t

\* Terminal frames that are still to come for prompts of turns given up.
GivenUp(k) ==
    Cardinality({i \in 1 .. Len(upstream[k]) : ~Open(upstream[k][i])})
    + Cardinality({i \in 1 .. Len(inbound) :
                      /\ KeyOf(inbound[i].prompt) = k
                      /\ inbound[i].kind \in Terminal
                      /\ ~Open(inbound[i].prompt)})

\* A parked outcome is collected by one call only, never by the call that
\* started it, and a call that is not told so has waited on the turn itself.
CollectedOnce ==
    \A c, d \in Calls :
        /\ at[c] = "stale" => on[c] # c
        /\ at[c] = "stale" /\ at[d] = "stale" /\ on[c] = on[d] => c = d
AnswersApart == OwnAnswer /\ CollectedOnce

\* There are at least as many abandonments as terminal frames that may still
\* come for turns that were given up; this is what keeps answers apart.
StampsCover == Counted => \A k \in Keys : stamps[k] >= GivenUp(k)

\* A turn that is running is the one of its key, so that its frames reach it,
\* polls join it, and no second prompt is sent: late waiters, expiry and
\* reconnections never take it away.
OpenTurnIsHeld ==
    faults \cap {"handoff"} = {} => \A t \in Calls : Open(t) => held[KeyOf(t)] = t
TurnsCovered == StampsCover /\ OpenTurnIsHeld

\* Every call returns: with a reply, an error or the request to poll.
EveryAskReturns == \A c \in Calls : at[c] \in Waiting ~> at[c] \in {"stale", "done"}
=============================================================================
