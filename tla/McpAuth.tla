------------------------------ MODULE McpAuth ------------------------------
(***************************************************************************)
(* The authorization server in front of the agent tools: mcp_server/       *)
(* auth.py, storage.py and the routes of server.py that use them. Clients  *)
(* register, park an authorization, and the operator's password turns it   *)
(* into a code, the code into an access and a refresh token, and a refresh *)
(* token into the next pair.                                               *)
(*                                                                         *)
(* Authorizations, codes and the count of wrong passwords live in memory;  *)
(* clients and tokens in memory and, saved whole after every change, in a  *)
(* file. No handler suspends between its steps, so that each is an action, *)
(* but it may save several times, and the process may end in between. A    *)
(* code is named after its transaction, a pair of tokens by a number. One  *)
(* address logs in; redirect and resource checks, PKCE, scopes, pages and  *)
(* the global back-off are left out.                                       *)
(***************************************************************************)
EXTENDS Naturals, Sequences, FiniteSets, SequencesExt

CONSTANTS
    Clients,      \* client ids, each registered at most once
    Txns,         \* login transactions
    MaxClients,   \* OAuthStore max_clients
    MaxPending,   \* _MAX_PENDING
    MaxFailures,  \* max_login_failures
    PendingTtl, CodeTtl, CompletedTtl, AccessTtl, RefreshTtl, ClientTtl, Lockout,
    MaxTime,      \* bound: the clock
    Limits        \* bounds of a behaviour, one of which is chosen at its start:
                  \* clients, transactions, pairs of tokens, wrong passwords,
                  \* restarts, and whether saves may fail

ASSUME AuthAssumption ==
    /\ {MaxClients, MaxPending, MaxFailures, MaxTime} \subseteq Nat \ {0}
    /\ {PendingTtl, CodeTtl, CompletedTtl, AccessTtl, RefreshTtl, ClientTtl, Lockout} \subseteq Nat
    /\ Limits \subseteq [clients : Nat, txns : Nat, pairs : Nat, guesses : Nat,
                          restarts : Nat, failing : BOOLEAN]

VARIABLES
    now,        \* the clock, which is never 0
    pending,    \* parked authorizations
    completed,  \* logins that can still be replayed
    codes,      \* authorization codes not yet exchanged
    failed,     \* LoginRateLimiter: consecutive failures of the address
    lockedTill, \* LoginRateLimiter: locked_until, 0 when there is none
    lastFailed, \* LoginRateLimiter: last_failure, 0 when there is none
    store,      \* OAuthStore: clients, tokens
    disk,       \* what its file holds
    used,       \* names given out: clients, transactions, pairs
    restarts,   \* restarts so far
    limits,     \* the bounds of this behaviour
    loginAt,    \* history: when each transaction's first pair was issued
    spent,      \* history: refresh tokens that were exchanged or revoked
    lost,       \* history: a save has failed
    guesses     \* history: when wrong passwords were evaluated, since a right one

memory == <<pending, completed, codes, failed, lockedTill, lastFailed>>
history == <<loginAt, spent, lost, guesses>>
vars == <<now, memory, store, disk, used, restarts, limits, history>>

Time == 0 .. MaxTime
Later == 0 .. MaxTime + PendingTtl + CodeTtl + CompletedTtl + AccessTtl + RefreshTtl + Lockout
Pairs == 1 .. limits.pairs

Parked == [txn : Txns, client : Clients, at : Time]
Code == [txn : Txns, client : Clients, expires : Later]
Replay == [txn : Txns, expires : Later]
Client == [id : Clients, at : Time]
Access == [pair : Pairs, client : Clients, login : Txns, expires : Later]
\* absolute is absolute_expires_at, which is never later than expires_at.
Refresh == [pair : Pairs, client : Clients, login : Txns, expires : Later, absolute : Later]
Store == [clients : SUBSET Client, access : SUBSET Access, refresh : SUBSET Refresh]

TypeOK ==
    /\ now \in Time
    /\ pending \in SUBSET Parked /\ Cardinality(pending) <= MaxPending
    /\ completed \in SUBSET Replay
    /\ codes \in SUBSET Code
    /\ failed \in 0 .. MaxFailures
    /\ lockedTill \in Later
    /\ lastFailed \in Time
    /\ store \in Store /\ Cardinality(store.clients) <= MaxClients
    /\ disk \in Store
    /\ used \in [clients : SUBSET Clients, txns : SUBSET Txns, pairs : 0 .. limits.pairs]
    /\ restarts \in 0 .. limits.restarts
    /\ limits \in Limits
    /\ loginAt \in [Txns -> Time]
    /\ spent \in SUBSET Pairs
    /\ lost \in BOOLEAN
    /\ guesses \in Seq(Time)

Empty == [clients |-> {}, access |-> {}, refresh |-> {}]

Init ==
    /\ now = 1
    /\ pending = {} /\ completed = {} /\ codes = {}
    /\ failed = 0 /\ lockedTill = 0 /\ lastFailed = 0
    /\ store = Empty
    /\ disk = Empty
    /\ used = [clients |-> {}, txns |-> {}, pairs |-> 0]
    /\ restarts = 0
    /\ limits \in Limits
    /\ loginAt = [x \in Txns |-> 0]
    /\ spent = {}
    /\ lost = FALSE
    /\ guesses = <<>>

-----------------------------------------------------------------------------
\* OAuthStore.

Ids(clients) == {c.id : c \in clients}

\* _client_ids_with_tokens.
\* Defect: only access tokens count.
TokenedByAccess(s) == {a.client : a \in s.access}
Tokened(s) == {a.client : a \in s.access} \cup {r.client : r \in s.refresh}

\* prune, when the file is loaded. Expired means before now, as everywhere.
Pruned(s) ==
    LET live == [s EXCEPT !.access = {a \in @ : a.expires >= now},
                          !.refresh = {r \in @ : r.expires >= now}]
    IN [live EXCEPT !.clients = {c \in @ : c.id \in Tokened(live) \/ c.at + ClientTtl >= now}]

\* A handler's saves: stages are the contents after each. A save replaces the
\* whole file or, failing, nothing, and the store goes on in memory.
Saves(stages) ==
    /\ store' = Last(stages)
    /\ disk' \in IF limits.failing THEN {disk} \cup Range(stages) ELSE {Last(stages)}
    /\ lost' = (lost \/ disk' # Last(stages))

\* The process ends after some of the saves, and starts again: the file is
\* loaded, what was in memory only is gone.
Restarts(stages) ==
    /\ restarts < limits.restarts
    /\ restarts' = restarts + 1
    /\ \E s \in {disk} \cup Range(stages) : store' = Pruned(s) /\ disk' = Pruned(s)
    /\ pending' = {} /\ completed' = {} /\ codes' = {}
    /\ failed' = 0 /\ lockedTill' = 0 /\ lastFailed' = 0
    /\ guesses' = <<>>
    /\ UNCHANGED <<now, lost>>

\* A handler of tokens saves, or the process ends on the way.
Serve(stages, kept) ==
    \/ /\ Saves(stages)
       /\ codes' = kept
       /\ UNCHANGED <<now, pending, completed, failed, lockedTill, lastFailed,
                      restarts, guesses>>
    \/ Restarts(stages)

\* Which of those of the same time is the oldest is left open.
Oldest(S) == {e \in S : \A d \in S : e.at <= d.at}

\* _evict_one_client: a client without tokens, and one with a parked
\* authorization only if there is no other.
\* Defect: parked authorizations are not looked at.
VictimsAny(parked) == {c \in store.clients : c.id \notin Tokened(store)}
Victims(parked) ==
    LET idle == {c \in store.clients : c.id \notin Tokened(store)}
        preferred == {c \in idle : c.id \notin parked}
    IN IF preferred # {} THEN preferred ELSE idle

\* put_client: refused when every stored client has tokens.
PutClient(id, parked) ==
    \E others \in IF Cardinality(store.clients) < MaxClients THEN {store.clients}
                  ELSE {store.clients \ {c} : c \in Oldest(Victims(parked))} :
        Saves(<<[store EXCEPT !.clients = others \cup {[id |-> id, at |-> now]}]>>)

-----------------------------------------------------------------------------
\* The provider.

\* _prune_pending.
Unexpired(q) == {p \in q : p.at + PendingTtl >= now}
Live(s) == {e \in s : e.expires >= now}
PrunePending ==
    /\ pending' = Unexpired(pending)
    /\ completed' = Live(completed)
    /\ codes' = Live(codes)

\* register_client.
Register(c) ==
    /\ c \notin used.clients
    /\ Cardinality(used.clients) < limits.clients
    /\ used' = [used EXCEPT !.clients = @ \cup {c}]
    /\ PrunePending
    /\ PutClient(c, {p.client : p \in pending'})
    /\ UNCHANGED <<now, failed, lockedTill, lastFailed, restarts, loginAt, spent, guesses>>

\* authorize: the oldest transaction makes room.
WithRoom(q) == IF Cardinality(q) < MaxPending THEN {q} ELSE {q \ {p} : p \in Oldest(q)}
Authorize(x, c) ==
    /\ x \notin used.txns
    /\ Cardinality(used.txns) < limits.txns
    /\ c \in Ids(store.clients)
    /\ used' = [used EXCEPT !.txns = @ \cup {x}]
    /\ \E others \in WithRoom(Unexpired(pending)) :
          pending' = others \cup {[txn |-> x, client |-> c, at |-> now]}
    /\ completed' = Live(completed)
    /\ codes' = Live(codes)
    /\ UNCHANGED <<now, failed, lockedTill, lastFailed, store, disk, restarts, history>>

\* LoginRateLimiter.locked_for: a lock that has elapsed is forgotten.
Locked == lockedTill > now

\* record_failure, after _sweep has dropped an entry that is stale.
RecordFailure ==
    LET elapsed == lockedTill # 0 \/ now > lastFailed + Lockout
        count == IF elapsed THEN 1 ELSE failed + 1
    IN /\ failed' = count
       /\ lockedTill' = IF count >= MaxFailures THEN now + Lockout ELSE 0
       /\ lastFailed' = now
       /\ guesses' = Append(guesses, now)

\* locked_for without a failure: only the elapsed lock is forgotten.
NoFailure ==
    /\ failed' = IF lockedTill # 0 THEN 0 ELSE failed
    /\ lockedTill' = 0
    /\ UNCHANGED <<lastFailed, guesses>>

\* POST /login by a browser with the transaction's cookie: complete_login.
\* While the address is locked nothing is evaluated and nothing changes.
Login(x) == /\ x \in used.txns
            /\ ~Locked
            /\ UNCHANGED <<now, store, disk, used, restarts, loginAt, spent, lost>>
ParkedAs(x) == {p \in Unexpired(pending) : p.txn = x}
Replayed(x) == \E r \in Live(completed) : r.txn = x

LoginSucceeds(x) ==
    /\ Login(x)
    /\ \E p \in ParkedAs(x) :
          /\ pending' = Unexpired(pending) \ ParkedAs(x)
          /\ codes' = Live(codes) \cup {[txn |-> x, client |-> p.client, expires |-> now + CodeTtl]}
    /\ completed' = Live(completed) \cup {[txn |-> x, expires |-> now + CompletedTtl]}
    /\ failed' = 0 /\ lockedTill' = 0
    /\ guesses' = <<>>
    /\ UNCHANGED lastFailed

LoginRejected(x) ==
    /\ Login(x)
    /\ ParkedAs(x) # {}
    /\ Len(guesses) < limits.guesses
    /\ PrunePending
    /\ RecordFailure

\* A form sent twice: with the right password the same redirect again, which
\* mints nothing and clears no failures; a wrong one counts.
\* Defect: a wrong password counts only for a parked transaction.
ReplayRejectedFree(x) ==
    /\ Login(x)
    /\ ParkedAs(x) = {} /\ Replayed(x)
    /\ Len(guesses) < limits.guesses
    /\ PrunePending
    /\ guesses' = Append(guesses, now)
    /\ UNCHANGED <<failed, lockedTill, lastFailed>>
ReplayRejected(x) ==
    /\ Login(x)
    /\ ParkedAs(x) = {} /\ Replayed(x)
    /\ Len(guesses) < limits.guesses
    /\ PrunePending
    /\ RecordFailure

\* The same with the right password, and a transaction that is not known.
LoginChangesNothing(x) ==
    /\ Login(x)
    /\ ParkedAs(x) = {}
    /\ PrunePending
    /\ NoFailure

-----------------------------------------------------------------------------
\* _issue_tokens, from a store: two saves.
NewAccess(c, x) == [pair |-> used.pairs + 1, client |-> c, login |-> x, expires |-> now + AccessTtl]
NewRefresh(c, x, absolute) ==
    [pair |-> used.pairs + 1, client |-> c, login |-> x, expires |-> absolute, absolute |-> absolute]
Issued(s, c, x, absolute) ==
    LET first == [s EXCEPT !.access = @ \cup {NewAccess(c, x)}]
    IN <<first, [first EXCEPT !.refresh = @ \cup {NewRefresh(c, x, absolute)}]>>
UsePair == used.pairs < limits.pairs /\ used' = [used EXCEPT !.pairs = @ + 1]

\* POST /token with a code: the SDK knows the client, the code is popped.
WithoutCode(k) == codes \ {k}

ExchangeCode(k) ==
    /\ k.client \in Ids(store.clients)
    /\ k.expires >= now
    /\ UsePair
    /\ loginAt' = [loginAt EXCEPT ![k.txn] = now]
    /\ Serve(Issued(store, k.client, k.txn, now + RefreshTtl), WithoutCode(k))
    /\ UNCHANGED spent

\* POST /token with a refresh token: it is consumed first, then the access
\* token it came with, then the next pair is issued with the same end.
End(r) == r.absolute

\* Defect: the token is looked up and stays.
WithoutRefreshKept(s, pair) == s
WithoutRefresh(s, pair) == [s EXCEPT !.refresh = {r \in @ : r.pair # pair}]
WithoutAccess(s, pair) == [s EXCEPT !.access = {a \in @ : a.pair # pair}]

\* Defect: the refresh token is consumed after the next one is stored.
RotationLate(r) ==
    LET issued == Issued(WithoutAccess(store, r.pair), r.client, r.login, End(r))
    IN issued \o <<WithoutRefresh(Last(issued), r.pair)>>
Rotation(r) ==
    LET consumed == WithoutRefresh(store, r.pair)
        revoked == WithoutAccess(consumed, r.pair)
    IN <<consumed, revoked>> \o Issued(revoked, r.client, r.login, End(r))

ExchangeRefresh(r) ==
    /\ r.expires >= now
    /\ UsePair
    /\ Serve(Rotation(r), codes)
    /\ spent' = IF restarts' = restarts THEN spent \cup {r.pair} ELSE spent
    /\ UNCHANGED loginAt

\* load_access_token: an expired token is deleted when it is presented.
PresentExpired(a) ==
    /\ a.expires < now
    /\ Serve(<<[store EXCEPT !.access = @ \ {a}]>>, codes)
    /\ UNCHANGED <<used, loginAt, spent>>

\* revoke_token: either token takes the other with it.
Revoke(pair) ==
    /\ \/ /\ \E r \in store.refresh : r.pair = pair
          /\ LET first == WithoutRefresh(store, pair)
             IN Serve(<<first, WithoutAccess(first, pair)>>, codes)
       \/ /\ \E a \in store.access : a.pair = pair /\ a.expires >= now
          /\ LET first == WithoutAccess(store, pair)
             IN Serve(<<first, WithoutRefresh(first, pair)>>, codes)
    /\ spent' = IF restarts' = restarts THEN spent \cup {pair} ELSE spent
    /\ UNCHANGED <<used, loginAt>>

Restart ==
    /\ Restarts(<<>>)
    /\ UNCHANGED <<used, loginAt, spent>>

Tick ==
    /\ now < MaxTime
    /\ now' = now + 1
    /\ UNCHANGED <<memory, store, disk, used, restarts, history>>

Step ==
    \/ \E c \in Clients : Register(c)
    \/ \E x \in Txns : \/ \E c \in Clients : Authorize(x, c)
                       \/ LoginSucceeds(x) \/ LoginRejected(x)
                       \/ ReplayRejected(x) \/ LoginChangesNothing(x)
    \/ \E k \in codes : ExchangeCode(k)
    \/ \E r \in store.refresh : ExchangeRefresh(r)
    \/ \E a \in store.access : PresentExpired(a)
    \/ \E pair \in Pairs : Revoke(pair)
    \/ Restart \/ Tick

Next == Step /\ UNCHANGED limits

Spec == Init /\ [][Next]_vars

-----------------------------------------------------------------------------
\* One login of the operator gives one session: however often the form and the
\* code are sent, wherever the process ends in a rotation and whichever saves
\* fail, there is at most one access token and one refresh token of a login,
\* and they were issued together.
OneSessionPerLogin ==
    \A a, b \in store.access \cup store.refresh : a.login = b.login => a.pair = b.pair

\* Rotation does not extend a session: no token outlives the operator's login
\* by more than the two lifetimes.
SessionEnds ==
    /\ \A r \in store.refresh : r.expires <= loginAt[r.login] + RefreshTtl
    /\ \A a \in store.access : a.expires <= loginAt[a.login] + RefreshTtl + AccessTtl
LoginGivesOneSession == OneSessionPerLogin /\ SessionEnds

\* As long as the file can be written, a refresh token that was exchanged or
\* revoked does not come back, whenever the process ends.
SpentStaysSpent == ~lost => \A r \in store.refresh \cup disk.refresh : r.pair \notin spent

\* Whoever holds a token is registered: neither a full table, nor the cleaning
\* at a start, nor what a failed save left in the file takes the client away.
TokensHaveClient == Tokened(store) \subseteq Ids(store.clients)
StoreConsistent == TypeOK /\ TokensHaveClient

\* A registration with a parked authorization is not evicted while an idle one
\* could be.
ParkedSurvives ==
    [][\A c \in Ids(store.clients) :
          /\ restarts' = restarts
          /\ c \notin Ids(store'.clients)
          /\ \E p \in pending' : p.client = c
          => \A d \in Ids(store.clients) :
                d \in Tokened(store) \/ \E p \in pending' : p.client = d]_vars

\* Wrong passwords: in no period of Lockout are more than MaxFailures evaluated,
\* for a parked transaction or for the replay of a finished one.
GuessesBounded ==
    \A i \in 1 .. Len(guesses) :
        i + MaxFailures <= Len(guesses) => guesses[i + MaxFailures] >= guesses[i] + Lockout
=============================================================================
