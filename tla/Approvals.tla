----------------------------- MODULE Approvals -----------------------------
(***************************************************************************)
(* Human approval of an action, from end to end: bcp/approval_queue.ex in  *)
(* the gateway, the request that the connector posts as a card in the      *)
(* chats (connector/main.py and both adapters), and the thumb that comes   *)
(* back through connector_handler.ex. An approval is named after the tool  *)
(* call it is for. Slack's expiry after seven days and the votes through   *)
(* the HTTP API are left out.                                              *)
(***************************************************************************)
EXTENDS Naturals, Sequences

CONSTANTS
    Calls,     \* tool calls
    Scenarios  \* what may happen in a behaviour, one of which is chosen at its
               \* start: the tool of each call, the adapters in the order of the
               \* configuration, and bounds for the votes cast, the frames and
               \* posts lost, the restarts of the connector and of the queue, and
               \* the interrupts and deaths of the runtime

ASSUME ScenarioAssumption ==
    \A s \in Scenarios :
        /\ {"adapters", "votes", "losses", "restarts", "queues", "interrupts", "kills"}
             \subseteq DOMAIN s
        /\ s.adapters \in Seq({"matrix", "slack"})
        /\ {s.votes, s.losses, s.restarts, s.queues, s.interrupts, s.kills} \subseteq Nat

VARIABLES
    pending,    \* ApprovalQueue: items nobody has decided
    decided,    \* ApprovalQueue: decisions, kept for good
    waiters,    \* ApprovalQueue: items with a task in await_decision
    reply,      \* what GenServer.reply put into a waiting task's mailbox
    feed,       \* cards the connector has still to post, in order
    card,       \* each adapter's cards
    forwarding, \* Slack: votes between ApprovalStore.resolve and send_reaction
    votes,      \* reaction frames on their way to the gateway
    budget,     \* the chosen scenario, and what is left of its bounds
    firstVote,  \* history: the first vote on an item that reached the queue
    forwarded   \* history: how many votes on a Slack card were forwarded

queueVars == <<pending, decided, waiters, reply, firstVote>>
chatVars == <<feed, card, forwarding, forwarded>>
approvalVars == <<queueVars, chatVars, votes, budget>>

Thumbs == {"up", "down"}
Adapters == {"matrix", "slack"}
Vote == [call : Calls, thumb : Thumbs]

\* "posted": on display, but its event is not yet known to stand for the
\* approval; "orphan": on display and forgotten; "resolved": voted on.
CardStates == {"none", "posted", "mapped", "orphan", "resolved"}

ApprovalTypeOK ==
    /\ pending \in SUBSET Calls
    /\ decided \in [Calls -> Thumbs \cup {"none"}]
    /\ waiters \in SUBSET Calls
    /\ reply \in [Calls -> Thumbs \cup {"none"}]
    /\ feed \in Seq(Adapters \X Calls)
    /\ card \in [Adapters -> [Calls -> CardStates]]
    /\ forwarding \in SUBSET Vote
    /\ votes \in Seq(Vote)
    /\ firstVote \in [Calls -> Thumbs \cup {"none"}]
    /\ forwarded \in [Calls -> Nat]

ApprovalInit ==
    /\ pending = {}
    /\ decided = [c \in Calls |-> "none"]
    /\ waiters = {}
    /\ reply = [c \in Calls |-> "none"]
    /\ feed = <<>>
    /\ card = [a \in Adapters |-> [c \in Calls |-> "none"]]
    /\ forwarding = {}
    /\ votes = <<>>
    /\ budget \in Scenarios
    /\ firstVote = [c \in Calls |-> "none"]
    /\ forwarded = [c \in Calls |-> 0]

Spend(what) ==
    /\ budget[what] > 0
    /\ budget' = [budget EXCEPT ![what] = @ - 1]

-----------------------------------------------------------------------------
\* The queue.

Submit(c) ==
    /\ pending' = pending \cup {c}
    /\ UNCHANGED <<decided, waiters, reply, firstVote>>

\* handle_call({:approve | :reject, id}): an item that is not pending is not
\* found, whoever waits is told.
\* Defect: an item is looked up among the decided ones as well.
DecideAgain(c, thumb) ==
    /\ pending' = pending \ {c}
    /\ decided' = [decided EXCEPT ![c] = thumb]
    /\ reply' = IF c \in waiters THEN [reply EXCEPT ![c] = thumb] ELSE reply
    /\ waiters' = waiters \ {c}
Decide(c, thumb) ==
    IF c \in pending
    THEN /\ pending' = pending \ {c}
         /\ decided' = [decided EXCEPT ![c] = thumb]
         /\ reply' = IF c \in waiters THEN [reply EXCEPT ![c] = thumb] ELSE reply
         /\ waiters' = waiters \ {c}
    ELSE UNCHANGED <<pending, decided, reply, waiters>>

\* connector_handler: a reaction frame with an approval id.
TakeVote ==
    /\ votes # <<>>
    /\ LET vote == Head(votes)
       IN /\ Decide(vote.call, vote.thumb)
          /\ firstVote' = IF firstVote[vote.call] = "none"
                          THEN [firstVote EXCEPT ![vote.call] = vote.thumb] ELSE firstVote
    /\ votes' = Tail(votes)
    /\ UNCHANGED <<chatVars, budget>>

\* The queue restarts with nothing; the tasks that wait for it die with it.
EmptyQueue ==
    /\ Spend("queues")
    /\ pending' = {}
    /\ decided' = [c \in Calls |-> "none"]
    /\ waiters' = {}
    /\ UNCHANGED <<reply, firstVote, chatVars, votes>>

-----------------------------------------------------------------------------
\* The connector.

\* broadcast_to_connectors and _route_approval_request: one card per adapter,
\* one after the other. Without a connection the request is gone.
Broadcast(c) ==
    /\ \/ /\ feed' = feed \o [i \in DOMAIN budget.adapters |-> <<budget.adapters[i], c>>]
          /\ UNCHANGED budget
       \/ Spend("losses") /\ UNCHANGED feed
    /\ UNCHANGED <<queueVars, card, forwarding, forwarded, votes>>

\* send_approval_request: the post is awaited, and only then is its event
\* mapped to the approval. A post that fails is logged.
PostCard ==
    /\ feed # <<>>
    /\ LET a == Head(feed)[1]
           c == Head(feed)[2]
       IN /\ card[a][c] = "none"
          /\ \/ /\ card' = [card EXCEPT ![a][c] = "posted"]
                /\ UNCHANGED <<feed, budget>>
             \/ /\ Spend("losses")
                /\ feed' = Tail(feed)
                /\ UNCHANGED card
    /\ UNCHANGED <<queueVars, forwarding, forwarded, votes>>

MapCard ==
    /\ feed # <<>>
    /\ LET a == Head(feed)[1]
           c == Head(feed)[2]
       IN /\ card[a][c] = "posted"
          /\ card' = [card EXCEPT ![a][c] = "mapped"]
    /\ feed' = Tail(feed)
    /\ UNCHANGED <<queueVars, forwarding, forwarded, votes, budget>>

\* gateway_client._send: a frame is dropped while there is no connection.
SendVote(vote) ==
    \/ votes' = Append(votes, vote) /\ UNCHANGED budget
    \/ Spend("losses") /\ UNCHANGED votes

\* Matrix, _dispatch_reaction: the card stays mapped, every thumb is forwarded.
VoteMatrix(c, thumb) ==
    /\ card["matrix"][c] = "mapped"
    /\ Spend("votes")
    /\ votes' = Append(votes, [call |-> c, thumb |-> thumb])
    /\ UNCHANGED <<queueVars, chatVars>>

\* Slack, _handle_reaction: the mapping is forgotten, then the display name is
\* awaited, then the vote is sent.
VoteSlack(c, thumb) ==
    /\ card["slack"][c] = "mapped"
    /\ Spend("votes")
    /\ card' = [card EXCEPT !["slack"][c] = "resolved"]
    /\ forwarding' = forwarding \cup {[call |-> c, thumb |-> thumb]}
    /\ UNCHANGED <<queueVars, feed, forwarded, votes>>

ForwardSlack(vote) ==
    /\ vote \in forwarding
    /\ forwarding' = forwarding \ {vote}
    /\ forwarded' = [forwarded EXCEPT ![vote.call] = @ + 1]
    /\ SendVote(vote)
    /\ UNCHANGED <<queueVars, feed, card>>

\* The connector restarts: Matrix keeps its mappings in memory, Slack in a file.
Orphaned(a, state) ==
    IF state = "posted" \/ (a = "matrix" /\ state = "mapped") THEN "orphan" ELSE state
RestartConnector ==
    /\ Spend("restarts")
    /\ feed' = <<>>
    /\ card' = [a \in Adapters |-> [c \in Calls |-> Orphaned(a, card[a][c])]]
    /\ forwarding' = {}
    /\ UNCHANGED <<queueVars, forwarded, votes>>

ChatStep ==
    \/ TakeVote \/ PostCard \/ MapCard \/ RestartConnector
    \/ \E c \in Calls, thumb \in Thumbs : VoteMatrix(c, thumb) \/ VoteSlack(c, thumb)
    \/ \E vote \in forwarding : ForwardSlack(vote)
=============================================================================
