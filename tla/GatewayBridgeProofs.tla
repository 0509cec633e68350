------------------------ MODULE GatewayBridgeProofs ------------------------
(***************************************************************************)
(* Proofs about GatewayBridge for every set of calls, clients and          *)
(* conversations and every bound: whose answer a caller is given, that a   *)
(* parked outcome is collected once, that a running turn is the one its    *)
(* key holds, and that enough terminal frames will be swallowed.           *)
(***************************************************************************)
EXTENDS GatewayBridge, FiniteSetTheorems, TLAPS

-----------------------------------------------------------------------------
\* Turns, and the calls that own or collect them.

Born(t) == turn[t].state # "unborn"
Before == {"new", "lock", "grace", "granted"}     \* has no turn yet

\* The turn a key holds was started by a call of the key; an outcome that was
\* collected is held no more, and belonged to another call.
Parking ==
    /\ \A c \in Calls : at[c] \in Before => ~Born(c)
    /\ \A k \in Keys : held[k] # None => KeyOf(held[k]) = k /\ Born(held[k])
    /\ \A c \in Calls : at[c] = "stale" =>
          /\ on[c] \in Calls
          /\ on[c] # c
          /\ Born(on[c])
          /\ held[KeyOf(on[c])] # on[c]
    /\ \A c, d \in Calls : at[c] = "stale" /\ at[d] = "stale" /\ on[c] = on[d] => c = d

\* The lock of a key, unless the sweeper takes it out of the table under its
\* waiters: one call is inside at a time, and one that waits there for the
\* connection has found no turn.
Locking ==
    "handoff" \notin faults =>
      /\ pruned = {}
      /\ \A c \in Calls : lockOf[c] # None <=> at[c] \in {"lock"} \cup Inside
      /\ \A c, d \in Calls :
            KeyOf(c) = KeyOf(d) /\ lockOf[c] # None /\ lockOf[d] # None => lockOf[c] = lockOf[d]
      /\ \A c, d \in Calls :
            KeyOf(c) = KeyOf(d) /\ at[c] \in Inside /\ at[d] \in Inside => c = d
      /\ \A c \in Calls : at[c] \in {"grace", "granted"} => held[KeyOf(c)] = None
      /\ \A t \in Calls : Open(t) => held[KeyOf(t)] = t

-----------------------------------------------------------------------------
\* What is still to come from the gateway: prompts u that wait for a session,
\* and frames f that are on their way.
Waits(u, p) == \E i \in 1 .. Len(u) : u[i] = p
Ends1(f, n, p) == \E i \in 1 .. n : f[i].prompt = p /\ f[i].kind \in Terminal

Live == {t \in Calls : Open(t)}
Started == {t \in Calls : Born(t)}

\* Only prompts of turns that were started are on their way, each in the
\* session of its key and sent once.
Known(ups, f, born) ==
    /\ \A k \in Keys : \A i \in 1 .. Len(ups[k]) : KeyOf(ups[k][i]) = k /\ ups[k][i] \in born
    /\ \A i \in 1 .. Len(f) : f[i].prompt \in born
Once(ups) == \A k \in Keys : \A i, j \in 1 .. Len(ups[k]) : ups[k][i] = ups[k][j] => i = j

\* A prompt ends once, and nothing of it follows its end.
Ended(ups, f) ==
    \A i \in 1 .. Len(f) : f[i].kind \in Terminal =>
       /\ ~Waits(ups[KeyOf(f[i].prompt)], f[i].prompt)
       /\ \A j \in 1 .. Len(f) : i < j => f[j].prompt # f[i].prompt

\* Nothing of its key comes after the prompt of an open turn.
Newest(ups, f, live) ==
    /\ \A k \in Keys : \A i \in 1 .. Len(ups[k]) : ups[k][i] \in live => i = Len(ups[k])
    /\ \A i \in 1 .. Len(f) : f[i].prompt \in live =>
          /\ \A j \in 1 .. Len(f) :
                i < j /\ KeyOf(f[j].prompt) = KeyOf(f[i].prompt) => f[j].prompt = f[i].prompt
          /\ \A p \in Calls : Waits(ups[KeyOf(f[i].prompt)], p) => p = f[i].prompt

Ordered(ups, f, live, born) ==
    Known(ups, f, born) /\ Once(ups) /\ Ended(ups, f) /\ Newest(ups, f, live)

\* Prompts of turns given up whose terminal frame may still come; and those of
\* them that come before frame n of its key, or with it.
Owing(k, u, f, live) ==
    {p \in Calls \ live : KeyOf(p) = k /\ (Waits(u, p) \/ Ends1(f, Len(f), p))}
Behind(n, f, live) ==
    {p \in Calls \ live : KeyOf(p) = KeyOf(f[n].prompt) /\ (p = f[n].prompt \/ Ends1(f, n - 1, p))}

Paid(paid, ups, f, live) ==
    /\ \A k \in Keys : Cardinality(Owing(k, ups[k], f, live)) <= paid[k]
    /\ \A n \in 1 .. Len(f) : Cardinality(Behind(n, f, live)) <= paid[KeyOf(f[n].prompt)]

Counting ==
    Counted => Ordered(upstream, inbound, Live, Started) /\ Paid(stamps, upstream, inbound, Live)

IInv == TypeOK /\ Parking /\ Locking /\ Counting /\ OwnAnswer

-----------------------------------------------------------------------------
\* Tables of turns.

Table == [Keys -> Calls \cup {None}]

LEMMA KeyIs == \A c \in Calls : KeyOf(c) \in Keys
BY DEF Keys

LEMMA DropIs ==
    ASSUME NEW from \in Table, NEW t
    PROVE  /\ Drop(from, t) \in Table
           /\ \A k \in Keys : \/ Drop(from, t)[k] = from[k]
                              \/ Drop(from, t)[k] = None /\ from[k] = t
           /\ t \in Calls => Drop(from, t)[KeyOf(t)] # t
BY KeyIs, BridgeAssumption DEF Drop, Table

LEMMA AfterExpiryIs ==
    ASSUME TypeOK
    PROVE  /\ AfterExpiry \in Table
           /\ \A k \in Keys : \/ AfterExpiry[k] = held[k]
                              \/ AfterExpiry[k] = None /\ Settled(held[k])
BY DEF AfterExpiry, TypeOK, Table

\* The types of a step of a call.
LEMMA StartTypes ==
    ASSUME TypeOK, NEW c \in Calls, NEW table \in Table, Start(c, table)
    PROVE  /\ at' \in [Calls -> Waiting \cup {"new", "stale", "done"}]
           /\ on' \in [Calls -> Calls \cup {None}]
           /\ turn' \in [Calls -> Turn]
           /\ held' \in Table
           /\ upstream' \in [Keys -> Seq(Calls)]
           /\ tracked' \in SUBSET Keys
<1>1. NewTurn("open") \in Turn
  BY DEF NewTurn, Turn
<1>2. KeyOf(c) \in Keys
  BY KeyIs
<1>3. turn' \in [Calls -> Turn]
  BY <1>1 DEF TypeOK, Start
<1>4. upstream' \in [Keys -> Seq(Calls)] /\ tracked' \in SUBSET Keys
  <2>1. Append(upstream[KeyOf(c)], c) \in Seq(Calls)
    BY <1>2 DEF TypeOK
  <2>2. CASE socket = "up"
    BY <1>2, <2>1, <2>2 DEF TypeOK, Start
  <2>3. CASE socket # "up"
    BY <2>3 DEF TypeOK, Start
  <2>4. QED
    BY <2>2, <2>3
<1>5. QED
  BY <1>2, <1>3, <1>4 DEF TypeOK, Start, Table, Waiting

LEMMA LockedTypes ==
    ASSUME TypeOK, NEW c \in Calls, Locked(c)
    PROVE  /\ at' \in [Calls -> Waiting \cup {"new", "stale", "done"}]
           /\ on' \in [Calls -> Calls \cup {None}]
           /\ turn' \in [Calls -> Turn]
           /\ held' \in Table
           /\ upstream' \in [Keys -> Seq(Calls)]
           /\ tracked' \in SUBSET Keys
<1> DEFINE t == AfterExpiry[KeyOf(c)]
<1>1. AfterExpiry \in Table /\ t \in Calls \cup {None}
  BY AfterExpiryIs, KeyIs DEF Table
<1>2. ASSUME t # None, Collect(c, t) PROVE held' \in Table
  BY <1>1, <1>2, DropIs DEF Collect
<1>3. CASE t = None /\ registered /\ Start(c, AfterExpiry)
  BY <1>1, <1>3, StartTypes
<1>4. CASE t # None /\ Settled(t) /\ Collect(c, t)
  BY <1>1, <1>2, <1>4 DEF Collect, TypeOK, Waiting
<1>5. CASE t # None /\ ~Settled(t) /\ Join(c, t)
  BY <1>1, <1>5 DEF Join, TypeOK, Waiting
<1>6. CASE t = None /\ ~registered /\ WaitForLink(c)
  BY <1>1, <1>6 DEF WaitForLink, TypeOK, Waiting
<1>7. QED
  BY <1>3, <1>4, <1>5, <1>6 DEF Locked

LEMMA SettleTypes ==
    ASSUME TypeOK, NEW t \in Calls, NEW state \in {"reply", "failed"}, NEW by \in Calls \cup {None}
    PROVE  Settle(t, state, by) \in [Calls -> Turn]
<1>1. turn \in [Calls -> Turn]
  BY DEF TypeOK
<1>2. turn[t] \in Turn
  BY <1>1
<1>3. [turn[t] EXCEPT !.state = state] \in Turn
  BY <1>2 DEF Turn
<1>4. [turn[t] EXCEPT !.state = state, !.by = by] \in Turn
  BY <1>2 DEF Turn
<1>5. [turn EXCEPT ![t].state = state, ![t].by = by]
        = [turn EXCEPT ![t] = [turn[t] EXCEPT !.state = state, !.by = by]]
  BY <1>1
<1>6. QED
  BY <1>1, <1>4, <1>5 DEF Settle

LEMMA CallTypes ==
    ASSUME TypeOK, NEW c \in Calls, CallStep(c)
    PROVE  TypeOK'
<1>1. CASE Reject(c)
  BY <1>1 DEF Reject, TypeOK, gatewayVars, linkVars, LinkTypeOK
<1>2. CASE Ask(c)
  <2>1. CASE LockOf(KeyOf(c)) = {} /\ Locked(c) /\ lockOf' = Keeping(c, c)
    <3>1. lockOf' \in [Calls -> Calls \cup {None}]
      BY <2>1 DEF Keeping, TypeOK
    <3>2. UNCHANGED <<stamps, told, faults, linkVars, pruned>>
      BY <1>2, <2>1 DEF Locked, Ask
    <3>3. QED
      BY <2>1, <3>1, <3>2, LockedTypes DEF TypeOK, linkVars, LinkTypeOK, Table
  <2>2. CASE /\ LockOf(KeyOf(c)) # {}
             /\ at' = [at EXCEPT ![c] = "lock"]
             /\ lockOf' = [lockOf EXCEPT ![c] = CHOOSE lock \in LockOf(KeyOf(c)) : TRUE]
             /\ UNCHANGED <<on, turn, held, stamps, gatewayVars, linkVars>>
    <3>1. LockOf(KeyOf(c)) \subseteq Calls
      BY DEF LockOf, TypeOK
    <3>2. PICK lock : lock = CHOOSE l \in LockOf(KeyOf(c)) : TRUE
      OBVIOUS
    <3>3. lock \in Calls
      BY <2>2, <3>1, <3>2
    <3>4. lockOf' = [lockOf EXCEPT ![c] = lock]
      BY <2>2, <3>2
    <3>5. lockOf' \in [Calls -> Calls \cup {None}]
      BY <3>3, <3>4 DEF TypeOK
    <3>6. QED
      BY <1>2, <2>2, <3>5 DEF Ask, TypeOK, gatewayVars, linkVars, LinkTypeOK, Waiting
  <2>3. QED
    BY <1>2, <2>1, <2>2 DEF Ask
<1>3. CASE TakeLock(c)
  <2>1. lockOf' \in [Calls -> Calls \cup {None}]
    BY <1>3 DEF TakeLock, Keeping, TypeOK
  <2>2. UNCHANGED <<stamps, told, faults, linkVars, pruned>>
    BY <1>3 DEF Locked, TakeLock
  <2>3. QED
    BY <1>3, <2>1, <2>2, LockedTypes DEF TakeLock, TypeOK, linkVars, LinkTypeOK, Table
<1>4. CASE GraceMet(c)
  BY <1>4 DEF GraceMet, TypeOK, gatewayVars, linkVars, LinkTypeOK, Waiting
<1>5. CASE GraceOver(c)
  BY <1>5 DEF GraceOver, Unlock, TypeOK, gatewayVars, linkVars, LinkTypeOK
<1>6. CASE Granted(c)
  <2>1. held \in Table
    BY DEF TypeOK, Table
  <2>2. QED
    BY <1>6, <2>1, StartTypes DEF Granted, TypeOK, linkVars, LinkTypeOK, Table
<1>7. CASE Sent(c)
  <2>1. at' \in [Calls -> Waiting \cup {"new", "stale", "done"}]
    BY <1>7 DEF Sent, TypeOK, Waiting
  <2>2. lockOf' \in [Calls -> Calls \cup {None}]
    BY <1>7 DEF Sent, Unlock, TypeOK
  <2>3. QED
    BY <1>7, <2>1, <2>2 DEF Sent, TypeOK, gatewayVars, linkVars, LinkTypeOK
<1>8. CASE CancelSend(c)
  <2>1. held' \in Table
    BY <1>8, DropIs DEF CancelSend, TypeOK, Table
  <2>2. turn' \in [Calls -> Turn]
    <3>1. /\ turn \in [Calls -> Turn]
          /\ turn' = [turn EXCEPT ![c].state = IF @ = "open" THEN "gone" ELSE @]
      BY <1>8 DEF CancelSend, TypeOK
    <3>2. turn[c] \in Turn
      BY <3>1
    <3>3. [turn[c] EXCEPT !.state = IF @ = "open" THEN "gone" ELSE @] \in Turn
      BY <3>2 DEF Turn
    <3>4. QED
      BY <3>1, <3>3
  <2>3. QED
    BY <1>8, <2>1, <2>2
    DEF CancelSend, Unlock, TypeOK, gatewayVars, linkVars, LinkTypeOK, Table
<1>9. CASE Cancel(c)
  BY <1>9 DEF Cancel, Unlock, TypeOK, gatewayVars, linkVars, LinkTypeOK
<1>10. CASE SoftDeadline(c)
  BY <1>10 DEF SoftDeadline, TypeOK, gatewayVars, linkVars, LinkTypeOK
<1>11. CASE Wake(c)
  <2>1. held' \in Table
    BY <1>11, DropIs DEF Wake, TypeOK, Table
  <2>2. QED
    BY <1>11, <2>1 DEF Wake, TypeOK, gatewayVars, linkVars, LinkTypeOK, Table
<1>12. QED
  BY <1>1, <1>2, <1>3, <1>4, <1>5, <1>6, <1>7, <1>8, <1>9, <1>10, <1>11 DEF CallStep

LEMMA FrameTypes ==
    \A p \in Calls, kind \in {"text", "result", "error"} :
       FrameOf(p, kind) \in Frame /\ FrameOf(p, kind).prompt = p /\ FrameOf(p, kind).kind = kind
BY DEF FrameOf, Frame

LEMMA PushTypes ==
    ASSUME TypeOK, NEW k \in Keys, NEW frames \in Seq(Frame), ToClient(k, frames)
    PROVE  LinkTypeOK(Frame)'
<1> DEFINE new == IF k \in tracked THEN frames ELSE <<>>
<1>1. new \in Seq(Frame)
  OBVIOUS
<1>2. PICK n \in Seq(Frame) : n = new
  BY <1>1
<1>3. Push(n)
  BY <1>2 DEF ToClient
<1>4. inbound' \in Seq(Frame)
  BY <1>3 DEF Push, TypeOK, LinkTypeOK
<1>5. QED
  BY <1>3, <1>4 DEF Push, TypeOK, LinkTypeOK

LEMMA AgentTypes ==
    ASSUME TypeOK, NEW k \in Keys, AgentStep(k)
    PROVE  TypeOK'
<1> DEFINE h == Head(upstream[k])
<1>1. upstream[k] # <<>>
  BY DEF AgentStep, AgentWrites, AgentFinishes, AgentFails, AgentInterrupted, AgentCrashes, TypeOK
<1>2. h \in Calls /\ Tail(upstream[k]) \in Seq(Calls)
  BY <1>1 DEF TypeOK
<1>3. PICK p \in Calls : p = h
  BY <1>2
<1>4. /\ <<FrameOf(p, "text")>> \in Seq(Frame)
      /\ <<FrameOf(p, "result")>> \in Seq(Frame)
      /\ <<FrameOf(p, "error"), FrameOf(p, "result")>> \in Seq(Frame)
  BY FrameTypes
<1>5. ASSUME Ends(k)
      PROVE  upstream' \in [Keys -> Seq(Calls)] /\ told' \in SUBSET Calls
  BY <1>2, <1>5 DEF Ends, TypeOK
<1>6. ASSUME UNCHANGED bridgeVars, UNCHANGED <<tracked, faults>>,
             upstream' \in [Keys -> Seq(Calls)], told' \in SUBSET Calls, LinkTypeOK(Frame)'
      PROVE  TypeOK'
  BY <1>6 DEF TypeOK, bridgeVars
<1>7. CASE AgentWrites(k)
  <2>1. LinkTypeOK(Frame)'
    BY <1>3, <1>4, <1>7, PushTypes DEF AgentWrites
  <2>2. told' \in SUBSET Calls /\ upstream' = upstream
    BY <1>2, <1>7 DEF AgentWrites, TypeOK
  <2>3. QED
    BY <1>6, <1>7, <2>1, <2>2 DEF AgentWrites, TypeOK
<1>8. CASE AgentFinishes(k)
  <2>1. LinkTypeOK(Frame)'
    BY <1>3, <1>4, <1>8, PushTypes DEF AgentFinishes
  <2>2. QED
    BY <1>5, <1>6, <1>8, <2>1 DEF AgentFinishes
<1>9. CASE AgentFails(k)
  <2>1. LinkTypeOK(Frame)'
    BY <1>3, <1>4, <1>9, PushTypes DEF AgentFails
  <2>2. QED
    BY <1>5, <1>6, <1>9, <2>1 DEF AgentFails
<1>10. ASSUME UNCHANGED linkVars PROVE LinkTypeOK(Frame)'
  BY <1>10 DEF TypeOK, LinkTypeOK, linkVars
<1>11. CASE AgentInterrupted(k)
  BY <1>5, <1>6, <1>10, <1>11 DEF AgentInterrupted
<1>12. CASE AgentCrashes(k)
  <2>1. upstream' \in [Keys -> Seq(Calls)] /\ told' \in SUBSET Calls
    BY <1>12 DEF AgentCrashes, TypeOK
  <2>2. QED
    BY <1>6, <1>10, <1>12, <2>1 DEF AgentCrashes
<1>13. QED
  BY <1>7, <1>8, <1>9, <1>11, <1>12 DEF AgentStep

LEMMA HardDeadlineTypes ==
    ASSUME TypeOK, NEW t \in Calls, HardDeadline(t)
    PROVE  TypeOK'
<1>1. turn' \in [Calls -> Turn]
  BY SettleTypes DEF HardDeadline
<1>2. stamps' \in [Keys -> Nat]
  BY KeyIs DEF HardDeadline, TypeOK
<1>3. QED
  BY <1>1, <1>2 DEF HardDeadline, TypeOK, gatewayVars, linkVars, LinkTypeOK

LEMMA ParkedAgesTypes ==
    ASSUME TypeOK, NEW t \in Calls, ParkedAges(t)
    PROVE  TypeOK'
<1>1. turn' \in [Calls -> Turn]
  <2>1. turn \in [Calls -> Turn] /\ turn' = [turn EXCEPT ![t].old = TRUE]
    BY DEF ParkedAges, TypeOK
  <2>2. turn[t] \in Turn
    BY <2>1
  <2>3. [turn[t] EXCEPT !.old = TRUE] \in Turn
    BY <2>2 DEF Turn
  <2>4. QED
    BY <2>1, <2>3
<1>2. QED
  BY <1>1 DEF ParkedAges, TypeOK, gatewayVars, linkVars, LinkTypeOK

LEMMA SweepTypes ==
    ASSUME TypeOK, Sweep
    PROVE  TypeOK'
<1>1. PICK gone \in [Keys -> 0 .. Cardinality(Calls)] :
         /\ \A k \in Keys : gone[k] <= stamps[k] /\ (gone[k] > 0 => MayExpire(k))
         /\ stamps' = [k \in Keys |-> stamps[k] - gone[k]]
  BY DEF Sweep
<1>2. Cardinality(Calls) \in Nat
  BY BridgeAssumption, FS_CardinalityType
<1>3. stamps' \in [Keys -> Nat]
  BY <1>1, <1>2 DEF TypeOK
<1>4. held' \in Table
  BY AfterExpiryIs DEF Sweep
<1>5. \A k \in Keys : LockOf(k) \subseteq Calls
  BY DEF LockOf, TypeOK
<1>6. pruned' \in SUBSET Calls
  <2>1. pruned' = pruned \cup UNION {LockOf(k) : k \in {j \in Keys : Prunable(j)}}
    BY DEF Sweep
  <2>2. QED
    BY <1>5, <2>1 DEF TypeOK
<1>7. QED
  BY <1>3, <1>4, <1>6 DEF Sweep, TypeOK, gatewayVars, linkVars, LinkTypeOK, Table

LEMMA FrameStepTypes ==
    ASSUME TypeOK, HandleFrame
    PROVE  TypeOK'
<1> DEFINE f == Head(inbound)
           k == KeyOf(f.prompt)
<1>1. f \in Frame /\ Tail(inbound) \in Seq(Frame)
  BY DEF HandleFrame, TakeFrame, TypeOK, LinkTypeOK
<1>2. f.prompt \in Calls /\ f.kind \in {"text", "result", "error"} /\ k \in Keys
  BY <1>1, KeyIs DEF Frame
<1>3. LinkTypeOK(Frame)'
  BY <1>1 DEF HandleFrame, TakeFrame, TypeOK, LinkTypeOK
<1>4. \/ stamps[k] > 0 /\ Swallow(k, f)
      \/ stamps[k] = 0 /\ held[k] = None /\ UNCHANGED <<turn, stamps>>
      \/ stamps[k] = 0 /\ held[k] # None /\ Apply(held[k], f) /\ UNCHANGED stamps
  BY DEF HandleFrame
<1>5. stamps' \in [Keys -> Nat]
  <2>1. CASE stamps[k] > 0 /\ Swallow(k, f)
    BY <1>2, <2>1 DEF Swallow, TypeOK
  <2>2. QED
    BY <1>4, <2>1 DEF TypeOK
<1>6. turn' \in [Calls -> Turn]
  <2>1. CASE stamps[k] = 0 /\ held[k] # None /\ Apply(held[k], f)
    <3>1. PICK t \in Calls : t = held[k]
      BY <1>2, <2>1 DEF TypeOK
    <3>2. PICK p \in Calls : p = f.prompt
      BY <1>2
    <3>3. /\ Settle(t, "reply", p) \in [Calls -> Turn]
          /\ Settle(t, "failed", p) \in [Calls -> Turn]
      BY SettleTypes
    <3>4. [turn EXCEPT ![t].texts = Append(@, p)] \in [Calls -> Turn]
      <4>1. turn[t] \in Turn
        BY DEF TypeOK
      <4>2. PICK a \in Seq(Calls) : a = Append(turn[t].texts, p)
        <5>1. turn[t].texts \in Seq(Calls)
          BY <4>1 DEF Turn
        <5>2. Append(turn[t].texts, p) \in Seq(Calls)
          BY <5>1
        <5>3. QED
          BY <5>2
      <4>3. [turn[t] EXCEPT !.texts = a] \in Turn
        BY <4>1 DEF Turn
      <4>4. [turn EXCEPT ![t].texts = Append(@, p)] = [turn EXCEPT ![t] = [turn[t] EXCEPT !.texts = a]]
        BY <4>2
      <4>5. QED
        BY <4>3, <4>4 DEF TypeOK
    <3>5. QED
      BY <1>2, <2>1, <3>1, <3>2, <3>3, <3>4 DEF Apply, TypeOK
  <2>2. QED
    BY <1>4, <2>1 DEF Swallow, TypeOK
<1>7. QED
  BY <1>3, <1>5, <1>6 DEF HandleFrame, TypeOK, gatewayVars

LEMMA FailedTypes ==
    \A t \in Calls, r \in Turn : [r EXCEPT !.state = "failed"] \in Turn
BY DEF Turn

LEMMA DisconnectTypes ==
    ASSUME TypeOK, Disconnect
    PROVE  TypeOK'
<1> DEFINE which == {held[k] : k \in {j \in Keys : held[j] # None /\ Open(held[j])}}
<1>1. PICK w : w = which
  OBVIOUS
<1>2. Abandon(w)
  BY <1>1 DEF Disconnect
<1>3. turn' \in [Calls -> Turn]
  BY <1>2, FailedTypes DEF Abandon, TypeOK
<1>4. stamps' \in [Keys -> Nat]
  BY <1>2 DEF Abandon, TypeOK
<1>5. LinkTypeOK(Frame)'
  BY DEF Disconnect, ReadEnds, TypeOK, LinkTypeOK
<1>6. QED
  BY <1>3, <1>4, <1>5 DEF Disconnect, TypeOK

LEMMA StopTypes ==
    ASSUME TypeOK, Stop
    PROVE  TypeOK'
<1>1. turn' \in [Calls -> Turn]
  BY FailedTypes DEF Stop, TypeOK
<1>2. held' \in Table
  BY DEF Stop, Table
<1>3. LinkTypeOK(Frame)'
  BY DEF Stop, CloseLink, TypeOK, LinkTypeOK
<1>4. QED
  BY <1>1, <1>2, <1>3 DEF Stop, TypeOK, gatewayVars, Table

LEMMA LinkTypes ==
    ASSUME TypeOK, LinkStep
    PROVE  TypeOK'
<1>1. CASE LinkDies
  <2>1. PICK n \in 0 .. Len(inbound) : inbound' = SubSeq(inbound, 1, n)
    BY <1>1 DEF LinkDies
  <2>2. inbound' \in Seq(Frame)
    BY <2>1 DEF TypeOK, LinkTypeOK
  <2>3. LinkTypeOK(Frame)'
    BY <1>1, <2>2, LossAssumption DEF LinkDies, TypeOK, LinkTypeOK
  <2>4. QED
    BY <2>3 DEF LinkStep, TypeOK, bridgeVars, gatewayVars
<1>2. CASE Connect \/ Acknowledged
  <2>1. LinkTypeOK(Frame)'
    BY <1>2 DEF Connect, Acknowledged, TypeOK, LinkTypeOK
  <2>2. QED
    BY <2>1 DEF LinkStep, TypeOK, bridgeVars, gatewayVars
<1>3. QED
  BY <1>1, <1>2 DEF LinkStep

LEMMA TypeInit == Init => TypeOK
<1> SUFFICES ASSUME Init PROVE TypeOK
  OBVIOUS
<1>1. NewTurn("unborn") \in Turn
  BY DEF NewTurn, Turn
<1>2. LinkTypeOK(Frame)
  <2>1. <<>> \in Seq(Frame) /\ 0 \in 0 .. MaxLosses
    BY LossAssumption
  <2>2. QED
    BY <2>1 DEF Init, LinkInit, LinkTypeOK
<1>3. QED
  BY <1>1, <1>2 DEF Init, TypeOK

LEMMA TypeStep == TypeOK /\ [Next]_vars => TypeOK'
<1> SUFFICES ASSUME TypeOK, [Next]_vars PROVE TypeOK'
  OBVIOUS
<1>1. CASE UNCHANGED vars
  BY <1>1 DEF TypeOK, LinkTypeOK, vars, linkVars, bridgeVars, gatewayVars
<1>2. CASE Next
  BY <1>2, CallTypes, HardDeadlineTypes, ParkedAgesTypes, AgentTypes, SweepTypes,
     FrameStepTypes, DisconnectTypes, StopTypes, LinkTypes DEF Next
<1>3. QED
  BY <1>1, <1>2

\* The variables of the bridge keep to their types, whatever goes wrong.
THEOREM BridgeTypes == Spec => []TypeOK
BY TypeInit, TypeStep, PTL DEF Spec

-----------------------------------------------------------------------------
\* A parked outcome and the turn of a key.

\* Turns are born in a start, and in nothing else.
SameBorn == \A t \in Calls : Born(t)' <=> Born(t)

\* The table loses turns at most.
Thinner == held' \in Table /\ \A k \in Keys : held'[k] = held[k] \/ held'[k] = None

LEMMA ThinnerByDrop ==
    ASSUME TypeOK, NEW t, held' = Drop(held, t) \/ held' = Drop(AfterExpiry, t)
    PROVE  Thinner
<1>1. AfterExpiry \in Table /\ held \in Table
  BY AfterExpiryIs DEF TypeOK, Table
<1>2. CASE held' = Drop(held, t)
  BY <1>1, <1>2, DropIs DEF Thinner
<1>3. CASE held' = Drop(AfterExpiry, t)
  BY <1>1, <1>3, DropIs, AfterExpiryIs DEF Thinner
<1>4. QED
  BY <1>2, <1>3

LEMMA ThinnerOrSame ==
    ASSUME TypeOK, held' = held \/ held' = AfterExpiry
    PROVE  Thinner
BY AfterExpiryIs DEF Thinner, Table, TypeOK

\* A call moves on without collecting anything.
LEMMA ParkingMoves ==
    ASSUME TypeOK, Parking, NEW c \in Calls, NEW x \in Waiting \cup {"done"},
           at' = [at EXCEPT ![c] = x], x \in Before => at[c] \in Before,
           at[c] # "stale", \A d \in Calls \ {c} : on'[d] = on[d],
           SameBorn, Thinner
    PROVE  Parking'
<1>1. \A d \in Calls : at'[d] = IF d = c THEN x ELSE at[d]
  BY DEF TypeOK
<1>2. x # "stale"
  BY DEF Waiting
<1>3. \A d \in Calls : at'[d] = "stale" => d # c /\ at[d] = "stale" /\ on'[d] = on[d]
  BY <1>1, <1>2
<1>4. \A d \in Calls : at'[d] \in Before => ~Born(d)'
  BY <1>1 DEF Parking, SameBorn
<1>5. \A k \in Keys : held'[k] # None => KeyOf(held'[k]) = k /\ Born(held[k])' /\ held'[k] = held[k]
  BY DEF Thinner, Parking, SameBorn, TypeOK
<1>6. \A d \in Calls : at'[d] = "stale" =>
         /\ on'[d] \in Calls /\ on'[d] # d
         /\ Born(on[d])'
         /\ held'[KeyOf(on'[d])] # on'[d]
  BY <1>3, KeyIs, BridgeAssumption DEF Parking, Thinner, SameBorn
<1>7. \A d, e \in Calls : at'[d] = "stale" /\ at'[e] = "stale" /\ on'[d] = on'[e] => d = e
  BY <1>3 DEF Parking
<1>8. QED
  BY <1>3, <1>4, <1>5, <1>6, <1>7 DEF Parking, Born

LEMMA ParkingKept ==
    ASSUME TypeOK, Parking, UNCHANGED <<at, on>>, SameBorn, Thinner
    PROVE  Parking'
<1>1. \A k \in Keys : held'[k] # None => KeyOf(held'[k]) = k /\ Born(held[k])' /\ held'[k] = held[k]
  BY DEF Thinner, Parking, SameBorn, TypeOK
<1>2. \A d \in Calls : at[d] = "stale" => Born(on[d])' /\ held'[KeyOf(on[d])] # on[d]
  BY KeyIs, BridgeAssumption DEF Parking, Thinner, SameBorn
<1>3. QED
  BY <1>1, <1>2 DEF Parking, SameBorn, Born

LEMMA ParkingStart ==
    ASSUME TypeOK, Parking, NEW c \in Calls, at[c] \in Before, NEW table \in Table,
           \A k \in Keys : table[k] = held[k] \/ table[k] = None,
           Start(c, table)
    PROVE  Parking'
<1>1. \A t \in Calls : turn'[t] = IF t = c THEN NewTurn("open") ELSE turn[t]
  BY DEF Start, TypeOK
<1>2. NewTurn("open").state = "open"
  BY DEF NewTurn
<1>3. ~Born(c) /\ \A t \in Calls : Born(t)' <=> t = c \/ Born(t)
  BY <1>1, <1>2 DEF Parking, Born
<1>4. \A d \in Calls : /\ at'[d] = IF d = c THEN "sending" ELSE at[d]
                       /\ on'[d] = IF d = c THEN c ELSE on[d]
  BY DEF Start, TypeOK
<1>5. \A k \in Keys : held'[k] = IF k = KeyOf(c) THEN c ELSE table[k]
  BY DEF Start, Table
<1>6. \A d \in Calls : at'[d] = "stale" =>
         d # c /\ at[d] = "stale" /\ on'[d] = on[d] /\ on[d] # c
  BY <1>3, <1>4 DEF Parking
<1>7. \A d \in Calls : at'[d] \in Before => ~Born(d)'
  BY <1>3, <1>4 DEF Parking, Before
<1>8. ASSUME NEW k \in Keys, held'[k] # None
      PROVE  KeyOf(held'[k]) = k /\ Born(held[k])'
  <2>1. CASE k = KeyOf(c)
    BY <1>3, <1>5, <2>1
  <2>2. CASE k # KeyOf(c)
    <3>1. held'[k] = held[k] /\ held[k] \in Calls
      BY <1>5, <1>8, <2>2 DEF TypeOK
    <3>2. PICK t \in Calls : t = held[k]
      BY <3>1
    <3>3. KeyOf(t) = k /\ Born(t)
      BY <1>8, <3>1, <3>2 DEF Parking
    <3>4. Born(t)'
      BY <1>3, <3>3
    <3>5. QED
      BY <3>1, <3>2, <3>3, <3>4 DEF Born
  <2>3. QED
    BY <2>1, <2>2
<1>9. ASSUME NEW d \in Calls, at'[d] = "stale"
      PROVE  on'[d] \in Calls /\ on'[d] # d /\ Born(on[d])' /\ held'[KeyOf(on'[d])] # on'[d]
  <2>1. PICK t \in Calls : t = on[d]
    BY <1>6, <1>9 DEF Parking
  <2>2. Born(t) /\ t # d /\ held[KeyOf(t)] # t /\ t # c
    BY <1>6, <1>9, <2>1 DEF Parking
  <2>3. held'[KeyOf(t)] # t
    BY <1>5, <2>2, KeyIs, BridgeAssumption
  <2>4. Born(t)'
    BY <1>3, <2>2
  <2>5. QED
    BY <1>6, <1>9, <2>1, <2>2, <2>3, <2>4 DEF Born
<1>10. \A d, e \in Calls : at'[d] = "stale" /\ at'[e] = "stale" /\ on'[d] = on'[e] => d = e
  BY <1>6 DEF Parking
<1>11. QED
  BY <1>6, <1>7, <1>8, <1>9, <1>10 DEF Parking, Born

LEMMA ParkingCollect ==
    ASSUME TypeOK, Parking, NEW c \in Calls, at[c] \in Before,
           NEW t \in Calls, t = AfterExpiry[KeyOf(c)], Collect(c, t)
    PROVE  Parking'
<1>1. KeyOf(c) \in Keys /\ AfterExpiry \in Table
  BY KeyIs, AfterExpiryIs
<1>2. held[KeyOf(c)] = t /\ KeyOf(t) = KeyOf(c) /\ Born(t) /\ t # c
  BY <1>1, AfterExpiryIs, BridgeAssumption DEF Parking
<1>3. SameBorn
  BY DEF Collect, SameBorn, Born
<1>4. Thinner /\ held'[KeyOf(t)] # t
  BY <1>1, ThinnerByDrop, DropIs DEF Collect
<1>5. \A d \in Calls : /\ at'[d] = IF d = c THEN "stale" ELSE at[d]
                       /\ on'[d] = IF d = c THEN t ELSE on[d]
  BY DEF Collect, TypeOK
<1>6. \A d \in Calls : at'[d] \in Before => ~Born(d)'
  BY <1>3, <1>5 DEF Parking, SameBorn, Before
<1>7. \A k \in Keys : held'[k] # None => KeyOf(held'[k]) = k /\ Born(held[k])' /\ held'[k] = held[k]
  BY <1>3, <1>4 DEF Thinner, Parking, SameBorn, TypeOK
<1>8. ASSUME NEW d \in Calls, at'[d] = "stale"
      PROVE  on'[d] \in Calls /\ on'[d] # d /\ Born(on[d])' /\ held'[KeyOf(on'[d])] # on'[d]
  <2>1. CASE d = c
    <3>1. on'[d] = t /\ Born(t)'
      BY <1>2, <1>3, <1>5, <2>1 DEF SameBorn
    <3>2. QED
      BY <1>2, <1>4, <2>1, <3>1 DEF Born
  <2>2. CASE d # c
    <3>1. PICK p \in Calls : p = on[d]
      BY <1>5, <1>8, <2>2 DEF Parking
    <3>2. on'[d] = p /\ p # d /\ Born(p) /\ held[KeyOf(p)] # p
      BY <1>5, <1>8, <2>2, <3>1 DEF Parking
    <3>3. held'[KeyOf(p)] # p
      BY <1>4, <3>2, KeyIs, BridgeAssumption DEF Thinner
    <3>4. Born(p)'
      BY <1>3, <3>2 DEF SameBorn
    <3>5. QED
      BY <3>2, <3>3, <3>4 DEF Born
  <2>3. QED
    BY <2>1, <2>2
<1>9. ASSUME NEW d \in Calls, NEW e \in Calls,
             at'[d] = "stale", at'[e] = "stale", on'[d] = on'[e], d # e
      PROVE  FALSE
  <2>1. \A x \in Calls : x # c /\ at'[x] = "stale" => on'[x] # t
    BY <1>2, <1>5 DEF Parking
  <2>2. d # c /\ e # c
    BY <1>5, <1>9, <2>1
  <2>3. QED
    BY <1>5, <1>9, <2>2 DEF Parking
<1>10. QED
  BY <1>6, <1>7, <1>8, <1>9 DEF Parking, Born

LEMMA ParkingLocked ==
    ASSUME TypeOK, Parking, NEW c \in Calls, at[c] \in {"new", "lock"}, Locked(c)
    PROVE  Parking'
<1>1. KeyOf(c) \in Keys /\ AfterExpiry \in Table
  BY KeyIs, AfterExpiryIs
<1>2. PICK t \in Calls \cup {None} : t = AfterExpiry[KeyOf(c)]
  BY <1>1 DEF Table
<1>3. CASE t # None /\ Collect(c, t)
  BY <1>2, <1>3, ParkingCollect DEF Before
<1>4. CASE Join(c, t)
  <2>1. SameBorn /\ Thinner /\ \A d \in Calls \ {c} : on'[d] = on[d]
    BY <1>4, ThinnerOrSame DEF Join, SameBorn, Born, TypeOK
  <2>2. QED
    BY <1>4, <2>1, ParkingMoves DEF Join, Waiting, Before
<1>5. CASE Start(c, AfterExpiry)
  BY <1>1, <1>5, ParkingStart, AfterExpiryIs DEF Before
<1>6. CASE WaitForLink(c)
  <2>1. SameBorn /\ Thinner
    BY <1>6, ThinnerOrSame DEF WaitForLink, SameBorn, Born
  <2>2. QED
    BY <1>6, <2>1, ParkingMoves DEF WaitForLink, Waiting, Before
<1>7. QED
  BY <1>2, <1>3, <1>4, <1>5, <1>6 DEF Locked

LEMMA ParkingCall ==
    ASSUME TypeOK, Parking, NEW c \in Calls, CallStep(c)
    PROVE  Parking'
<1>1. ASSUME NEW x \in Waiting \cup {"done"}, at' = [at EXCEPT ![c] = x],
             x \in Before => at[c] \in Before, at[c] # "stale",
             UNCHANGED <<on, turn, held>>
      PROVE  Parking'
  BY <1>1, ParkingMoves, ThinnerOrSame DEF SameBorn, Born
<1>2. CASE Reject(c)
  BY <1>1, <1>2 DEF Reject, Before
<1>3. CASE Ask(c)
  BY <1>1, <1>3, ParkingLocked DEF Ask, Before, Waiting
<1>4. CASE TakeLock(c)
  BY <1>4, ParkingLocked DEF TakeLock
<1>5. CASE GraceMet(c)
  BY <1>1, <1>5 DEF GraceMet, Before, Waiting
<1>6. CASE GraceOver(c)
  BY <1>1, <1>6 DEF GraceOver, Before
<1>7. CASE Granted(c)
  BY <1>7, ParkingStart DEF Granted, Before, TypeOK, Table
<1>8. CASE Sent(c)
  BY <1>1, <1>8 DEF Sent, Before, Waiting
<1>9. CASE CancelSend(c)
  <2>1. SameBorn
    BY <1>9 DEF CancelSend, SameBorn, Born, TypeOK
  <2>2. Thinner
    BY <1>9, ThinnerByDrop DEF CancelSend
  <2>3. QED
    BY <1>9, <2>1, <2>2, ParkingMoves DEF CancelSend, Before
<1>10. CASE Cancel(c)
  BY <1>1, <1>10 DEF Cancel, Before
<1>11. CASE SoftDeadline(c)
  BY <1>1, <1>11 DEF SoftDeadline, Before
<1>12. CASE Wake(c)
  <2>1. Thinner /\ SameBorn
    BY <1>12, ThinnerByDrop DEF Wake, SameBorn, Born
  <2>2. QED
    BY <1>12, <2>1, ParkingMoves DEF Wake, Before
<1>13. QED
  BY <1>2, <1>3, <1>4, <1>5, <1>6, <1>7, <1>8, <1>9, <1>10, <1>11, <1>12 DEF CallStep

\* A frame settles the turn it is for, or leaves its state alone.
LEMMA ApplyStates ==
    ASSUME TypeOK, NEW t \in Calls, NEW g \in Frame, Apply(t, g)
    PROVE  \A x \in Calls : turn'[x].state = turn[x].state
                            \/ (x = t /\ Open(t) /\ turn'[x].state \in {"reply", "failed"})
<1> DEFINE a == Append(turn[t].texts, g.prompt)
<1>1. turn' = CASE ~Open(t) -> turn
                [] g.kind = "text" -> [turn EXCEPT ![t].texts = a]
                [] g.kind = "result" -> Settle(t, "reply", g.prompt)
                [] g.kind = "error" -> Settle(t, "failed", g.prompt)
  BY DEF Apply
<1> HIDE DEF a
<1>2. CASE turn' = turn
  BY <1>2
<1>3. CASE turn' = [turn EXCEPT ![t].texts = a]
  BY <1>3 DEF TypeOK, Turn
<1>4. ASSUME NEW state \in {"reply", "failed"}, turn' = Settle(t, state, g.prompt)
      PROVE  \A x \in Calls : turn'[x].state = turn[x].state
                              \/ (x = t /\ Open(t) /\ turn'[x].state \in {"reply", "failed"})
  BY <1>4 DEF Settle, TypeOK, Turn
<1>5. \/ turn' = turn
      \/ turn' = [turn EXCEPT ![t].texts = a]
      \/ turn' = Settle(t, "reply", g.prompt)
      \/ turn' = Settle(t, "failed", g.prompt)
  BY <1>1 DEF Frame
<1>6. QED
  BY <1>2, <1>3, <1>4, <1>5

\* The bridge's other tasks, the gateway and the link start no turn.
LEMMA BornOutside ==
    ASSUME TypeOK, Parking,
           \/ \E t \in Calls : HardDeadline(t) \/ ParkedAges(t)
           \/ \E k \in Keys : AgentStep(k)
           \/ Sweep \/ HandleFrame \/ Disconnect \/ Stop \/ LinkStep
           \/ UNCHANGED vars
    PROVE  SameBorn /\ Thinner /\ UNCHANGED <<at, on>>
<1>1. ASSUME NEW t \in Calls, HardDeadline(t) PROVE SameBorn /\ Thinner /\ UNCHANGED <<at, on>>
  BY <1>1, ThinnerOrSame DEF HardDeadline, Settle, Open, SameBorn, Born, TypeOK
<1>2. ASSUME NEW t \in Calls, ParkedAges(t) PROVE SameBorn /\ Thinner /\ UNCHANGED <<at, on>>
  BY <1>2, ThinnerOrSame DEF ParkedAges, SameBorn, Born, TypeOK, Turn
<1>3. ASSUME UNCHANGED bridgeVars PROVE SameBorn /\ Thinner /\ UNCHANGED <<at, on>>
  BY <1>3, ThinnerOrSame DEF bridgeVars, SameBorn, Born
<1>4. ASSUME NEW k \in Keys, AgentStep(k) PROVE SameBorn /\ Thinner /\ UNCHANGED <<at, on>>
  BY <1>3, <1>4
  DEF AgentStep, AgentWrites, AgentFinishes, AgentFails, AgentInterrupted, AgentCrashes
<1>5. ASSUME Sweep PROVE SameBorn /\ Thinner /\ UNCHANGED <<at, on>>
  BY <1>5, ThinnerOrSame DEF Sweep, SameBorn, Born
<1>6. ASSUME HandleFrame PROVE SameBorn /\ Thinner /\ UNCHANGED <<at, on>>
  <2> DEFINE f == Head(inbound)
             k == KeyOf(f.prompt)
  <2>1. f \in Frame
    BY <1>6 DEF HandleFrame, TakeFrame, TypeOK, LinkTypeOK
  <2>2. k \in Keys
    BY <2>1, KeyIs DEF Frame
  <2>3. \/ UNCHANGED turn
        \/ held[k] # None /\ Apply(held[k], f)
    BY <1>6 DEF HandleFrame, Swallow
  <2>4. UNCHANGED <<at, on, held>>
    BY <1>6 DEF HandleFrame
  <2>5. CASE held[k] # None /\ Apply(held[k], f)
    <3>1. PICK t \in Calls : t = held[k]
      BY <2>2, <2>5 DEF TypeOK
    <3>2. PICK g \in Frame : g = f
      BY <2>1
    <3>3. Apply(t, g)
      BY <2>5, <3>1, <3>2
    <3>4. \A x \in Calls : turn'[x].state = turn[x].state
                           \/ (x = t /\ Open(t) /\ turn'[x].state \in {"reply", "failed"})
      BY <3>3, ApplyStates
    <3>5. SameBorn
      BY <3>4 DEF SameBorn, Born, Open
    <3>6. QED
      BY <2>4, <3>5, ThinnerOrSame
  <2>6. CASE UNCHANGED turn
    BY <2>4, <2>6, ThinnerOrSame DEF SameBorn, Born
  <2>7. QED
    BY <2>3, <2>5, <2>6
<1>7. ASSUME Disconnect PROVE SameBorn /\ Thinner /\ UNCHANGED <<at, on>>
  <2> DEFINE which == {held[k] : k \in {j \in Keys : held[j] # None /\ Open(held[j])}}
  <2>1. \A t \in which : Born(t)
    BY DEF Parking
  <2>2. \A t \in Calls : turn'[t].state = IF t \in which THEN "failed" ELSE turn[t].state
    BY <1>7 DEF Disconnect, Abandon, TypeOK, Turn
  <2>3. UNCHANGED <<at, on, held>>
    BY <1>7 DEF Disconnect
  <2> HIDE DEF which
  <2>4. QED
    BY <2>1, <2>2, <2>3, ThinnerOrSame DEF SameBorn, Born
<1>8. ASSUME Stop PROVE SameBorn /\ Thinner /\ UNCHANGED <<at, on>>
  <2>1. Thinner
    BY <1>8 DEF Stop, Thinner, Table
  <2>2. \A t \in Calls : turn'[t].state = turn[t].state \/ (Open(t) /\ turn'[t].state = "failed")
    BY <1>8 DEF Stop, TypeOK, Turn
  <2>3. QED
    BY <1>8, <2>1, <2>2 DEF Stop, SameBorn, Born, Open
<1>9. ASSUME LinkStep PROVE SameBorn /\ Thinner /\ UNCHANGED <<at, on>>
  BY <1>3, <1>9 DEF LinkStep
<1>10. ASSUME UNCHANGED vars PROVE SameBorn /\ Thinner /\ UNCHANGED <<at, on>>
  BY <1>3, <1>10 DEF vars
<1>11. QED
  BY <1>1, <1>2, <1>4, <1>5, <1>6, <1>7, <1>8, <1>9, <1>10

LEMMA ParkingInit == Init => Parking
BY KeyIs DEF Init, Parking, Born, NewTurn

LEMMA ParkingStep ==
    ASSUME TypeOK, Parking, [Next]_vars
    PROVE  Parking'
BY ParkingCall, ParkingKept, BornOutside DEF Next

-----------------------------------------------------------------------------
\* The lock of a key.

\* An open turn stays where it is.
OpenStay ==
    \A t \in Calls : Open(t)' => Open(t) /\ held'[KeyOf(t)] = held[KeyOf(t)]

LEMMA OpenStayIs ==
    ASSUME TypeOK, Thinner, \A t \in Calls : Open(t)' => Open(t),
           \A k \in Keys : held[k] # None /\ held'[k] = None => turn'[held[k]].state # "open",
           "handoff" \notin faults => \A t \in Calls : Open(t) => held[KeyOf(t)] = t
    PROVE  "handoff" \notin faults => OpenStay
BY KeyIs, BridgeAssumption DEF OpenStay, Thinner, TypeOK, Open

LEMMA LockingKept ==
    ASSUME TypeOK, Locking, UNCHANGED <<at, lockOf, faults>>,
           "handoff" \notin faults => pruned' = pruned /\ OpenStay, Thinner
    PROVE  Locking'
BY KeyIs DEF Locking, OpenStay, Thinner, TypeOK

\* A call moves on without entering.
LEMMA LockingMoves ==
    ASSUME TypeOK, Locking, NEW c \in Calls, NEW x,
           at' = [at EXCEPT ![c] = x],
           x \in Inside => at[c] \in Inside,
           x \in {"grace", "granted"} => at[c] \in {"grace", "granted"},
           x # "lock",
           IF x \in Inside THEN lockOf' = lockOf ELSE Unlock(c),
           UNCHANGED <<pruned, faults>>, Thinner,
           "handoff" \notin faults => OpenStay
    PROVE  Locking'
<1> SUFFICES ASSUME "handoff" \notin faults PROVE Locking'
  BY DEF Locking
<1>1. \A d \in Calls : at'[d] = IF d = c THEN x ELSE at[d]
  BY DEF TypeOK
<1>2. \A d \in Calls : lockOf'[d] = IF d = c /\ x \notin Inside THEN None ELSE lockOf[d]
  BY DEF TypeOK, Unlock
<1>3. \A d \in Calls : at'[d] \in Inside => at[d] \in Inside
  BY <1>1
<1>4. \A d \in Calls : at'[d] \in {"grace", "granted"} => at[d] \in {"grace", "granted"}
  BY <1>1
<1>5. \A d \in Calls : lockOf'[d] # None => lockOf'[d] = lockOf[d]
  BY <1>2
<1>6. \A d \in Calls : lockOf'[d] # None <=> at'[d] \in {"lock"} \cup Inside
  BY <1>1, <1>2 DEF Locking
<1>7. \A d \in Calls : at'[d] \in {"grace", "granted"} => held'[KeyOf(d)] = None
  BY <1>4, KeyIs DEF Thinner, Locking
<1>8. \A t \in Calls : Open(t)' => held'[KeyOf(t)] = t
  BY DEF OpenStay, Locking
<1>9. \A d, e \in Calls :
         KeyOf(d) = KeyOf(e) /\ lockOf'[d] # None /\ lockOf'[e] # None => lockOf'[d] = lockOf'[e]
  BY <1>5 DEF Locking
<1>10. \A d, e \in Calls :
          KeyOf(d) = KeyOf(e) /\ at'[d] \in Inside /\ at'[e] \in Inside => d = e
  BY <1>3 DEF Locking
<1>11. pruned' = {}
  BY DEF Locking
<1>12. QED
  BY <1>6, <1>7, <1>8, <1>9, <1>10, <1>11 DEF Locking, Open

\* The turn of a call is the only open one of its key.
LEMMA StartOpens ==
    ASSUME TypeOK, NEW c \in Calls, NEW table \in Table, Start(c, table),
           \A t \in Calls : Open(t) => table[KeyOf(t)] = t, table[KeyOf(c)] = None
    PROVE  /\ \A t \in Calls : Open(t)' <=> t = c \/ Open(t)
           /\ \A t \in Calls : Open(t)' => held'[KeyOf(t)] = t
           /\ \A t \in Calls : Open(t) => KeyOf(t) # KeyOf(c)
<1>1. \A t \in Calls : turn'[t] = IF t = c THEN NewTurn("open") ELSE turn[t]
  BY DEF Start, TypeOK
<1>2. NewTurn("open").state = "open"
  BY DEF NewTurn
<1>3. \A t \in Calls : Open(t)' <=> t = c \/ Open(t)
  BY <1>1, <1>2 DEF Open
<1>4. \A k \in Keys : held'[k] = IF k = KeyOf(c) THEN c ELSE table[k]
  BY DEF Start, Table
<1>5. \A t \in Calls : Open(t) => KeyOf(t) # KeyOf(c)
  BY BridgeAssumption
<1>6. QED
  BY <1>3, <1>4, <1>5, KeyIs

LEMMA LockingGranted ==
    ASSUME TypeOK, Locking, NEW c \in Calls, Granted(c)
    PROVE  Locking'
<1> SUFFICES ASSUME "handoff" \notin faults PROVE Locking'
  BY DEF Locking, Granted
<1>1. held \in Table /\ held[KeyOf(c)] = None
  BY DEF Granted, Locking, TypeOK, Table
<1>2. \A t \in Calls : Open(t)' => held'[KeyOf(t)] = t
  BY <1>1, StartOpens DEF Granted, Locking
<1>3. \A d \in Calls : at'[d] = IF d = c THEN "sending" ELSE at[d]
  BY DEF Granted, Start, TypeOK
<1>4. \A d \in Calls : at'[d] \in Inside <=> at[d] \in Inside
  BY <1>3 DEF Granted, Inside
<1>5. \A d \in Calls : at'[d] \in {"grace", "granted"} => KeyOf(d) # KeyOf(c)
  BY <1>3 DEF Granted, Locking, Inside
<1>6. \A k \in Keys : held'[k] = IF k = KeyOf(c) THEN c ELSE held[k]
  BY <1>1 DEF Granted, Start, Table
<1>7. \A d \in Calls : at'[d] \in {"grace", "granted"} => held'[KeyOf(d)] = None
  BY <1>3, <1>5, <1>6, KeyIs DEF Locking
<1>8. \A d \in Calls : lockOf[d] # None <=> at'[d] \in {"lock"} \cup Inside
  BY <1>3, <1>4 DEF Locking, Granted
<1>9. UNCHANGED <<lockOf, pruned, faults>>
  BY DEF Granted
<1>10. QED
  BY <1>2, <1>4, <1>7, <1>8, <1>9 DEF Locking, Open

\* What a call finds that has the lock: what it does to the table.
LEMMA LockedHolds ==
    ASSUME TypeOK, Locking, Parking, "handoff" \notin faults, NEW c \in Calls, Locked(c)
    PROVE  /\ \E x \in {"stale", "waiting", "sending", "grace"} :
                 /\ at' = [at EXCEPT ![c] = x]
                 /\ x = "grace" => held'[KeyOf(c)] = None
           /\ \A k \in Keys : k # KeyOf(c) /\ held[k] = None => held'[k] = None
           /\ \A t \in Calls : Open(t)' => held'[KeyOf(t)] = t
<1>1. KeyOf(c) \in Keys /\ AfterExpiry \in Table
  BY KeyIs, AfterExpiryIs
<1>2. PICK t \in Calls \cup {None} : t = AfterExpiry[KeyOf(c)]
  BY <1>1 DEF Table
<1>3. \A p \in Calls : Open(p) => AfterExpiry[KeyOf(p)] = p
  BY KeyIs, AfterExpiryIs DEF Locking, Open, Settled
<1>4. \A k \in Keys : held[k] = None => AfterExpiry[k] = None
  BY AfterExpiryIs
<1>5. CASE t # None /\ Settled(t) /\ Collect(c, t)
  <2>1. \A k \in Keys : \/ held'[k] = AfterExpiry[k]
                        \/ held'[k] = None /\ AfterExpiry[k] = t
    BY <1>1, <1>5, DropIs DEF Collect
  <2>2. \A p \in Calls : Open(p)' => Open(p) /\ p # t
    BY <1>5 DEF Collect, Open, Settled
  <2>3. \A p \in Calls : Open(p)' => held'[KeyOf(p)] = p
    BY <1>3, <2>1, <2>2, KeyIs
  <2>4. QED
    BY <1>4, <1>5, <2>1, <2>3 DEF Collect
<1>6. CASE t # None /\ ~Settled(t) /\ Join(c, t)
  BY <1>3, <1>4, <1>6 DEF Join, Open
<1>7. CASE t = None /\ registered /\ Start(c, AfterExpiry)
  <2>1. \A p \in Calls : Open(p)' => held'[KeyOf(p)] = p
    BY <1>1, <1>2, <1>3, <1>7, StartOpens
  <2>2. \A k \in Keys : held'[k] = IF k = KeyOf(c) THEN c ELSE AfterExpiry[k]
    BY <1>1, <1>7 DEF Start, Table
  <2>3. QED
    BY <1>4, <1>7, <2>1, <2>2 DEF Start
<1>8. CASE t = None /\ ~registered /\ WaitForLink(c)
  BY <1>2, <1>3, <1>4, <1>8 DEF WaitForLink, Open
<1>9. QED
  BY <1>2, <1>5, <1>6, <1>7, <1>8 DEF Locked

LEMMA LockingEnters ==
    ASSUME TypeOK, Locking, Parking, "handoff" \notin faults,
           NEW c \in Calls, Locked(c), NEW lock \in Calls, lockOf' = Keeping(c, lock),
           \A d \in Calls : KeyOf(d) = KeyOf(c) /\ lockOf[d] # None =>
              lockOf[d] = lock /\ at[d] \notin Inside,
           UNCHANGED <<pruned, faults>>
    PROVE  Locking'
<1>1. PICK x \in {"stale", "waiting", "sending", "grace"} :
         at' = [at EXCEPT ![c] = x] /\ (x = "grace" => held'[KeyOf(c)] = None)
  BY LockedHolds
<1>2. \A d \in Calls : at'[d] = IF d = c THEN x ELSE at[d]
  BY <1>1 DEF TypeOK
<1>3. \A d \in Calls : lockOf'[d] = IF d = c THEN (IF x \in Inside THEN lock ELSE None) ELSE lockOf[d]
  BY <1>1, <1>2 DEF Keeping, TypeOK
<1>4. \A d \in Calls : lockOf'[d] # None <=> at'[d] \in {"lock"} \cup Inside
  BY <1>2, <1>3, BridgeAssumption DEF Locking
<1>5. \A d, e \in Calls :
         KeyOf(d) = KeyOf(e) /\ lockOf'[d] # None /\ lockOf'[e] # None => lockOf'[d] = lockOf'[e]
  BY <1>3 DEF Locking
<1>6. \A d \in Calls : d # c /\ at[d] \in Inside => KeyOf(d) # KeyOf(c)
  BY DEF Locking
<1>7. \A d, e \in Calls :
         KeyOf(d) = KeyOf(e) /\ at'[d] \in Inside /\ at'[e] \in Inside => d = e
  BY <1>2, <1>6 DEF Locking
<1>8. \A d \in Calls : at'[d] \in {"grace", "granted"} => held'[KeyOf(d)] = None
  <2>1. \A d \in Calls : d # c /\ at[d] \in {"grace", "granted"} =>
           KeyOf(d) # KeyOf(c) /\ held[KeyOf(d)] = None
    BY <1>6 DEF Locking, Inside
  <2>2. QED
    BY <1>1, <1>2, <2>1, LockedHolds, KeyIs
<1>9. pruned' = {}
  BY DEF Locking
<1>10. \A t \in Calls : Open(t)' => held'[KeyOf(t)] = t
  BY LockedHolds
<1>11. QED
  BY <1>4, <1>5, <1>7, <1>8, <1>9, <1>10 DEF Locking, Open

LEMMA LockingAsk ==
    ASSUME TypeOK, Locking, Parking, NEW c \in Calls, Ask(c)
    PROVE  Locking'
<1>0. faults' = faults
  BY DEF Ask, Locked, gatewayVars
<1> SUFFICES ASSUME "handoff" \notin faults PROVE Locking'
  BY <1>0 DEF Locking
<1> DEFINE k == KeyOf(c)
<1>1. pruned = {} /\ pruned' = {}
  BY DEF Ask, Locking
<1>2. LockOf(k) = {lockOf[d] : d \in {e \in Calls : lockOf[e] # None /\ KeyOf(e) = k}}
  BY <1>1 DEF LockOf
<1>3. CASE LockOf(k) = {} /\ Locked(c) /\ lockOf' = Keeping(c, c)
  <2>1. \A d \in Calls : ~(KeyOf(d) = KeyOf(c) /\ lockOf[d] # None)
    BY <1>2, <1>3
  <2>2. QED
    BY <1>0, <1>3, <2>1, LockingEnters DEF Ask
<1>4. CASE /\ LockOf(k) # {}
           /\ at' = [at EXCEPT ![c] = "lock"]
           /\ lockOf' = [lockOf EXCEPT ![c] = CHOOSE lock \in LockOf(k) : TRUE]
           /\ UNCHANGED <<on, turn, held, stamps, gatewayVars, linkVars>>
  <2>1. PICK lock : lock = CHOOSE l \in LockOf(k) : TRUE
    OBVIOUS
  <2>2. lock \in LockOf(k) /\ lockOf' = [lockOf EXCEPT ![c] = lock]
    BY <1>4, <2>1
  <2>3. PICK o \in Calls : lockOf[o] = lock /\ lock # None /\ KeyOf(o) = k
    BY <1>2, <2>2
  <2>4. \A d \in Calls : lockOf'[d] = IF d = c THEN lock ELSE lockOf[d]
    BY <2>2 DEF TypeOK
  <2>5. \A d \in Calls : at'[d] = IF d = c THEN "lock" ELSE at[d]
    BY <1>4 DEF TypeOK
  <2>6. \A d \in Calls : at'[d] \in Inside => d # c /\ at[d] \in Inside
    BY <2>5 DEF Inside
  <2>7. \A d \in Calls : at'[d] \in {"grace", "granted"} => at[d] \in {"grace", "granted"}
    BY <2>5
  <2>8. \A d, e \in Calls :
           KeyOf(d) = KeyOf(e) /\ lockOf'[d] # None /\ lockOf'[e] # None => lockOf'[d] = lockOf'[e]
    BY <2>3, <2>4 DEF Locking
  <2>9. \A d \in Calls : lockOf'[d] # None <=> at'[d] \in {"lock"} \cup Inside
    BY <2>3, <2>4, <2>5 DEF Locking
  <2>10. QED
    BY <1>1, <1>4, <2>6, <2>7, <2>8, <2>9 DEF Locking, Open
<1>5. QED
  BY <1>3, <1>4 DEF Ask

LEMMA LockingCall ==
    ASSUME TypeOK, Locking, Parking, NEW c \in Calls, CallStep(c)
    PROVE  Locking'
<1>1. ASSUME UNCHANGED <<turn, held>> PROVE Thinner /\ OpenStay
  BY <1>1, ThinnerOrSame DEF OpenStay, Open
<1>2. CASE Reject(c)
  <2>1. "handoff" \notin faults => lockOf' = [lockOf EXCEPT ![c] = None] /\ lockOf' = lockOf
    BY <1>2 DEF Reject, Locking, Inside, TypeOK
  <2>2. CASE "handoff" \notin faults
    BY <1>1, <1>2, <2>1, <2>2, LockingMoves DEF Reject, Unlock, Inside, gatewayVars
  <2>3. CASE "handoff" \in faults
    BY <1>2, <2>3 DEF Reject, Locking, gatewayVars
  <2>4. QED
    BY <2>2, <2>3
<1>3. CASE Ask(c)
  BY <1>3, LockingAsk
<1>4. CASE TakeLock(c)
  <2>0. UNCHANGED <<pruned, faults>>
    BY <1>4 DEF TakeLock, Locked
  <2>1. CASE "handoff" \in faults
    BY <2>0, <2>1 DEF Locking
  <2>2. CASE "handoff" \notin faults
    <3>1. PICK lock \in Calls : lock = lockOf[c]
      BY <1>4, <2>2 DEF TakeLock, Locking, TypeOK
    <3>2. \A d \in Calls : KeyOf(d) = KeyOf(c) /\ lockOf[d] # None =>
             lockOf[d] = lock /\ at[d] = "lock"
      BY <1>4, <2>2, <3>1, BridgeAssumption DEF TakeLock, Locking
    <3>3. QED
      BY <1>4, <2>0, <2>2, <3>1, <3>2, LockingEnters DEF TakeLock, Inside
  <2>3. QED
    BY <2>1, <2>2
<1>5. CASE GraceMet(c)
  BY <1>1, <1>5, LockingMoves DEF GraceMet, Inside, gatewayVars
<1>6. CASE GraceOver(c)
  BY <1>1, <1>6, LockingMoves DEF GraceOver, Inside, gatewayVars
<1>7. CASE Granted(c)
  BY <1>7, LockingGranted
<1>8. CASE Sent(c)
  BY <1>1, <1>8, LockingMoves DEF Sent, Inside, gatewayVars
<1>9. CASE CancelSend(c)
  <2>1. Thinner
    BY <1>9, ThinnerByDrop DEF CancelSend
  <2>2. \A t \in Calls : Open(t)' => Open(t) /\ t # c
    BY <1>9 DEF CancelSend, Open, TypeOK, Turn
  <2>3. \A k \in Keys : held'[k] = held[k] \/ (held'[k] = None /\ held[k] = c)
    <3>1. held \in Table /\ held' = Drop(held, c)
      BY <1>9 DEF CancelSend, TypeOK, Table
    <3>2. QED
      BY <3>1, DropIs
  <2>4. "handoff" \notin faults => OpenStay
    BY <2>2, <2>3, KeyIs DEF OpenStay, Locking
  <2>5. QED
    BY <1>9, <2>1, <2>4, LockingMoves DEF CancelSend, Inside, gatewayVars
<1>10. CASE Cancel(c)
  BY <1>1, <1>10, LockingMoves DEF Cancel, Inside, gatewayVars
<1>11. ASSUME at[c] = "waiting", at' = [at EXCEPT ![c] = "done"],
              UNCHANGED <<lockOf, pruned, faults>>, Thinner, "handoff" \notin faults => OpenStay
       PROVE  Locking'
  <2>1. CASE "handoff" \in faults
    BY <1>11, <2>1 DEF Locking
  <2>2. CASE "handoff" \notin faults
    <3>1. Unlock(c)
      BY <1>11, <2>2 DEF Unlock, Locking, Inside, TypeOK
    <3>2. QED
      BY <1>11, <3>1, LockingMoves DEF Inside
  <2>3. QED
    BY <2>1, <2>2
<1>12. CASE SoftDeadline(c)
  BY <1>1, <1>11, <1>12 DEF SoftDeadline, gatewayVars
<1>13. CASE Wake(c)
  <2>1. Thinner
    BY <1>13, ThinnerByDrop DEF Wake
  <2>2. \A k \in Keys : held'[k] = held[k] \/ (held'[k] = None /\ Settled(held[k]))
    <3>1. held \in Table /\ held' = Drop(held, on[c]) /\ Settled(on[c])
      BY <1>13 DEF Wake, TypeOK, Table
    <3>2. QED
      BY <3>1, DropIs
  <2>3. "handoff" \notin faults => OpenStay
    BY <1>13, <2>2, KeyIs DEF OpenStay, Locking, Open, Settled, Wake
  <2>4. QED
    BY <1>11, <1>13, <2>1, <2>3 DEF Wake, gatewayVars
<1>14. QED
  BY <1>2, <1>3, <1>4, <1>5, <1>6, <1>7, <1>8, <1>9, <1>10, <1>12, <1>13 DEF CallStep

\* Outside the calls no turn opens, and an open one keeps its place.
LEMMA OpenOutside ==
    ASSUME TypeOK, Locking, "handoff" \notin faults,
           \/ \E t \in Calls : HardDeadline(t) \/ ParkedAges(t)
           \/ \E k \in Keys : AgentStep(k)
           \/ Sweep \/ HandleFrame \/ Disconnect \/ Stop \/ LinkStep
           \/ UNCHANGED vars
    PROVE  OpenStay /\ pruned' = pruned
<1>1. ASSUME NEW t \in Calls, HardDeadline(t) PROVE OpenStay /\ pruned' = pruned
  BY <1>1 DEF HardDeadline, Settle, Open, OpenStay, TypeOK, Turn
<1>2. ASSUME NEW t \in Calls, ParkedAges(t) PROVE OpenStay /\ pruned' = pruned
  BY <1>2 DEF ParkedAges, Open, OpenStay, TypeOK, Turn
<1>3. ASSUME UNCHANGED bridgeVars PROVE OpenStay /\ pruned' = pruned
  BY <1>3 DEF bridgeVars, Open, OpenStay
<1>4. ASSUME NEW k \in Keys, AgentStep(k) PROVE OpenStay /\ pruned' = pruned
  BY <1>3, <1>4
  DEF AgentStep, AgentWrites, AgentFinishes, AgentFails, AgentInterrupted, AgentCrashes
<1>5. ASSUME Sweep PROVE OpenStay /\ pruned' = pruned
  <2>1. pruned' = pruned
    BY <1>5 DEF Sweep, Prunable
  <2>2. held' = AfterExpiry /\ turn' = turn
    BY <1>5 DEF Sweep
  <2>3. QED
    BY <2>1, <2>2, AfterExpiryIs, KeyIs DEF OpenStay, Locking, Open, Settled
<1>6. ASSUME HandleFrame PROVE OpenStay /\ pruned' = pruned
  <2> DEFINE f == Head(inbound)
             k == KeyOf(f.prompt)
  <2>1. f \in Frame
    BY <1>6 DEF HandleFrame, TakeFrame, TypeOK, LinkTypeOK
  <2>2. k \in Keys
    BY <2>1, KeyIs DEF Frame
  <2>3. \/ UNCHANGED turn
        \/ held[k] # None /\ Apply(held[k], f)
    BY <1>6 DEF HandleFrame, Swallow
  <2>4. UNCHANGED <<held, pruned>>
    BY <1>6 DEF HandleFrame
  <2>5. CASE held[k] # None /\ Apply(held[k], f)
    <3>1. PICK t \in Calls : t = held[k]
      BY <2>2, <2>5 DEF TypeOK
    <3>2. \A x \in Calls : turn'[x].state = turn[x].state
                           \/ (x = t /\ Open(t) /\ turn'[x].state \in {"reply", "failed"})
      BY <2>1, <2>5, <3>1, ApplyStates
    <3>3. QED
      BY <2>4, <3>2 DEF OpenStay, Open
  <2>6. CASE UNCHANGED turn
    BY <2>4, <2>6 DEF OpenStay, Open
  <2>7. QED
    BY <2>3, <2>5, <2>6
<1>7. ASSUME Disconnect PROVE OpenStay /\ pruned' = pruned
  <2> DEFINE which == {held[k] : k \in {j \in Keys : held[j] # None /\ Open(held[j])}}
  <2>1. \A t \in Calls : turn'[t].state = IF t \in which THEN "failed" ELSE turn[t].state
    BY <1>7 DEF Disconnect, Abandon, TypeOK, Turn
  <2>2. UNCHANGED <<held, pruned>>
    BY <1>7 DEF Disconnect
  <2> HIDE DEF which
  <2>3. QED
    BY <2>1, <2>2 DEF OpenStay, Open
<1>8. ASSUME Stop PROVE OpenStay /\ pruned' = pruned
  <2>1. \A t \in Calls : Open(t)' => Open(t) /\ t \notin {held[k] : k \in Keys}
    BY <1>8 DEF Stop, Open, TypeOK, Turn
  <2>2. \A t \in Calls : ~Open(t)'
    BY <2>1, KeyIs DEF Locking
  <2>3. QED
    BY <1>8, <2>2 DEF Stop, OpenStay
<1>9. ASSUME LinkStep PROVE OpenStay /\ pruned' = pruned
  BY <1>3, <1>9 DEF LinkStep
<1>10. ASSUME UNCHANGED vars PROVE OpenStay /\ pruned' = pruned
  BY <1>3, <1>10 DEF vars
<1>11. QED
  BY <1>1, <1>2, <1>4, <1>5, <1>6, <1>7, <1>8, <1>9, <1>10

LEMMA LockOutside ==
    ASSUME \/ \E t \in Calls : HardDeadline(t) \/ ParkedAges(t)
           \/ \E k \in Keys : AgentStep(k)
           \/ Sweep \/ HandleFrame \/ Disconnect \/ Stop \/ LinkStep
           \/ UNCHANGED vars
    PROVE  UNCHANGED <<at, lockOf, faults>>
BY DEF HardDeadline, ParkedAges, AgentStep, AgentWrites, AgentFinishes, AgentFails,
   AgentInterrupted, AgentCrashes, Sweep, HandleFrame, Disconnect, Stop, LinkStep,
   vars, bridgeVars, gatewayVars

LEMMA LockingInit == Init => Locking
BY DEF Init, Locking, Open, NewTurn, Inside

LEMMA LockingStep ==
    ASSUME TypeOK, Parking, Locking, [Next]_vars
    PROVE  Locking'
<1>1. CASE \E c \in Calls : CallStep(c)
  BY <1>1, LockingCall
<1>2. CASE \/ \E t \in Calls : HardDeadline(t) \/ ParkedAges(t)
           \/ \E k \in Keys : AgentStep(k)
           \/ Sweep \/ HandleFrame \/ Disconnect \/ Stop \/ LinkStep
           \/ UNCHANGED vars
  <2>1. UNCHANGED <<at, lockOf, faults>>
    BY <1>2, LockOutside
  <2>2. Thinner
    BY <1>2, BornOutside
  <2>3. "handoff" \notin faults => OpenStay /\ pruned' = pruned
    BY <1>2, OpenOutside
  <2>4. QED
    BY <2>1, <2>2, <2>3, LockingKept
<1>3. QED
  BY <1>1, <1>2 DEF Next

-----------------------------------------------------------------------------
\* Sequences and finite sets.

LEMMA AppendIs ==
    ASSUME NEW S, NEW s \in Seq(S), NEW e \in S
    PROVE  /\ Append(s, e) \in Seq(S)
           /\ Len(s) \in Nat /\ Len(Append(s, e)) = Len(s) + 1
           /\ \A i \in 1 .. Len(s) : Append(s, e)[i] = s[i]
           /\ Append(s, e)[Len(s) + 1] = e
OBVIOUS

LEMMA TailIs ==
    ASSUME NEW S, NEW s \in Seq(S), s # <<>>
    PROVE  /\ Tail(s) \in Seq(S)
           /\ Head(s) \in S /\ Head(s) = s[1]
           /\ Len(s) \in Nat /\ Len(s) >= 1 /\ Len(Tail(s)) = Len(s) - 1
           /\ \A i \in 1 .. Len(s) - 1 : Tail(s)[i] = s[i + 1]
OBVIOUS

LEMMA PrefixIs ==
    ASSUME NEW S, NEW s \in Seq(S), NEW n \in 0 .. Len(s)
    PROVE  /\ SubSeq(s, 1, n) \in Seq(S)
           /\ Len(s) \in Nat /\ Len(SubSeq(s, 1, n)) = n
           /\ \A i \in 1 .. n : SubSeq(s, 1, n)[i] = s[i]
OBVIOUS

LEMMA FrameIs ==
    ASSUME NEW f \in Seq(Frame), NEW n \in 1 .. Len(f)
    PROVE  /\ f[n] \in Frame
           /\ f[n].prompt \in Calls /\ f[n].kind \in {"text", "result", "error"}
           /\ KeyOf(f[n].prompt) \in Keys
<1>1. f[n] \in Frame
  OBVIOUS
<1>2. QED
  BY <1>1, KeyIs DEF Frame

LEMMA CountSub ==
    ASSUME NEW B \in SUBSET Calls, NEW A \in SUBSET B
    PROVE  /\ Cardinality(A) \in Nat /\ Cardinality(B) \in Nat
           /\ Cardinality(A) <= Cardinality(B)
<1>1. IsFiniteSet(B) /\ IsFiniteSet(A)
  BY BridgeAssumption, FS_Subset
<1>2. QED
  BY <1>1, FS_Subset, FS_CardinalityType

LEMMA CountMore ==
    ASSUME NEW B \in SUBSET Calls, NEW x \in Calls, NEW A, A \subseteq B \cup {x}
    PROVE  /\ Cardinality(A) \in Nat /\ Cardinality(B) \in Nat
           /\ Cardinality(A) <= Cardinality(B) + 1
<1>1. IsFiniteSet(B)
  BY BridgeAssumption, FS_Subset
<1>2. Cardinality(B) \in Nat
  BY <1>1, FS_CardinalityType
<1>3. Cardinality(B \cup {x}) <= Cardinality(B) + 1
  BY <1>1, <1>2, FS_AddElement
<1>4. Cardinality(A) <= Cardinality(B \cup {x}) /\ Cardinality(A) \in Nat
      /\ Cardinality(B \cup {x}) \in Nat
  BY CountSub
<1>5. QED
  BY <1>2, <1>3, <1>4

LEMMA CountLess ==
    ASSUME NEW B \in SUBSET Calls, NEW x \in B, NEW A \in SUBSET (B \ {x})
    PROVE  /\ Cardinality(A) \in Nat /\ Cardinality(B) \in Nat
           /\ Cardinality(A) + 1 <= Cardinality(B)
<1>1. IsFiniteSet(B)
  BY BridgeAssumption, FS_Subset
<1>2. Cardinality(B) \in Nat /\ Cardinality(B \ {x}) = Cardinality(B) - 1
  BY <1>1, FS_CardinalityType, FS_RemoveElement
<1>3. Cardinality(A) <= Cardinality(B \ {x}) /\ Cardinality(A) \in Nat
  BY CountSub
<1>4. QED
  BY <1>2, <1>3

LEMMA CountNone == Cardinality({}) = 0
BY FS_EmptySet

-----------------------------------------------------------------------------
\* What happens to the prompts and frames on their way.

Prompts == [Keys -> Seq(Calls)]

\* Turns are closed, and each is accounted for.
LEMMA ClosingKeepsOrder ==
    ASSUME NEW ups \in Prompts, NEW f \in Seq(Frame), NEW live, NEW born,
           NEW live2 \in SUBSET live, NEW born2, born \subseteq born2,
           Ordered(ups, f, live, born)
    PROVE  Ordered(ups, f, live2, born2)
<1>1. Known(ups, f, born2)
  BY DEF Ordered, Known
<1>2. Newest(ups, f, live2)
  BY DEF Ordered, Newest
<1>3. QED
  BY <1>1, <1>2 DEF Ordered

LEMMA ClosingIsPaid ==
    ASSUME NEW ups \in Prompts, NEW f \in Seq(Frame), NEW live \in SUBSET Calls,
           NEW live2 \in SUBSET live,
           NEW paid \in [Keys -> Nat], NEW paid2 \in [Keys -> Nat], Paid(paid, ups, f, live),
           \A k \in Keys :
              \/ paid2[k] >= paid[k] /\ \A t \in live \ live2 : KeyOf(t) # k
              \/ \E x \in Calls : paid2[k] >= paid[k] + 1
                                  /\ \A t \in live \ live2 : KeyOf(t) = k => t = x
    PROVE  Paid(paid2, ups, f, live2)
<1>1. ASSUME NEW k \in Keys, NEW A \in SUBSET Calls, NEW B \in SUBSET Calls,
             A \subseteq B \cup {t \in live \ live2 : KeyOf(t) = k}, Cardinality(B) <= paid[k]
      PROVE  Cardinality(A) <= paid2[k]
  <2>1. CASE paid2[k] >= paid[k] /\ \A t \in live \ live2 : KeyOf(t) # k
    <3>1. A \subseteq B
      BY <1>1, <2>1
    <3>2. Cardinality(A) \in Nat /\ Cardinality(B) \in Nat /\ Cardinality(A) <= Cardinality(B)
      BY <3>1, CountSub
    <3>3. QED
      BY <1>1, <2>1, <3>2
  <2>2. ASSUME NEW x \in Calls, paid2[k] >= paid[k] + 1,
               \A t \in live \ live2 : KeyOf(t) = k => t = x
        PROVE  Cardinality(A) <= paid2[k]
    <3>1. A \subseteq B \cup {x}
      BY <1>1, <2>2
    <3>2. /\ Cardinality(A) \in Nat /\ Cardinality(B) \in Nat
          /\ Cardinality(A) <= Cardinality(B) + 1
      BY <3>1, CountMore
    <3>3. paid[k] \in Nat /\ paid2[k] \in Nat
      OBVIOUS
    <3>4. QED
      BY <1>1, <2>2, <3>2, <3>3
  <2>3. QED
    BY <2>1, <2>2
<1>2. ASSUME NEW k \in Keys PROVE Cardinality(Owing(k, ups[k], f, live2)) <= paid2[k]
  <2>1. Owing(k, ups[k], f, live2)
           \subseteq Owing(k, ups[k], f, live) \cup {t \in live \ live2 : KeyOf(t) = k}
    BY DEF Owing
  <2>2. Owing(k, ups[k], f, live2) \subseteq Calls /\ Owing(k, ups[k], f, live) \subseteq Calls
    BY DEF Owing
  <2>3. Cardinality(Owing(k, ups[k], f, live)) <= paid[k]
    BY DEF Paid
  <2>4. QED
    BY <1>1, <2>1, <2>2, <2>3
<1>3. ASSUME NEW n \in 1 .. Len(f)
      PROVE  Cardinality(Behind(n, f, live2)) <= paid2[KeyOf(f[n].prompt)]
  <2>1. PICK k \in Keys : k = KeyOf(f[n].prompt)
    BY FrameIs
  <2>2. Behind(n, f, live2) \subseteq Behind(n, f, live) \cup {t \in live \ live2 : KeyOf(t) = k}
    BY <2>1 DEF Behind
  <2>3. Behind(n, f, live2) \subseteq Calls /\ Behind(n, f, live) \subseteq Calls
    BY DEF Behind
  <2>4. Cardinality(Behind(n, f, live)) <= paid[k]
    BY <2>1 DEF Paid
  <2>5. QED
    BY <1>1, <2>1, <2>2, <2>3, <2>4
<1>4. QED
  BY <1>2, <1>3 DEF Paid

\* What comes later is less, and so are the debts.
LEMMA LessIsPaid ==
    ASSUME NEW ups \in Prompts, NEW f \in Seq(Frame), NEW live,
           NEW ups2 \in Prompts, NEW f2 \in Seq(Frame), NEW live2,
           NEW paid \in [Keys -> Nat], Paid(paid, ups, f, live),
           \A k \in Keys : Owing(k, ups2[k], f2, live2) \subseteq Owing(k, ups[k], f, live),
           \A n \in 1 .. Len(f2) :
              \/ \E m \in 1 .. Len(f) : /\ KeyOf(f[m].prompt) = KeyOf(f2[n].prompt)
                                        /\ Behind(n, f2, live2) \subseteq Behind(m, f, live)
              \/ LET k == KeyOf(f2[n].prompt)
                 IN Behind(n, f2, live2) \subseteq Owing(k, ups[k], f, live)
    PROVE  Paid(paid, ups2, f2, live2)
<1>1. ASSUME NEW k \in Keys PROVE Cardinality(Owing(k, ups2[k], f2, live2)) <= paid[k]
  <2>1. Owing(k, ups[k], f, live) \subseteq Calls
    BY DEF Owing
  <2>2. Cardinality(Owing(k, ups[k], f, live)) <= paid[k]
    BY DEF Paid
  <2>3. /\ Cardinality(Owing(k, ups2[k], f2, live2)) \in Nat
        /\ Cardinality(Owing(k, ups[k], f, live)) \in Nat
        /\ Cardinality(Owing(k, ups2[k], f2, live2)) <= Cardinality(Owing(k, ups[k], f, live))
    BY <2>1, CountSub
  <2>4. QED
    BY <2>2, <2>3
<1>2. ASSUME NEW n \in 1 .. Len(f2)
      PROVE  Cardinality(Behind(n, f2, live2)) <= paid[KeyOf(f2[n].prompt)]
  <2>1. PICK k \in Keys : k = KeyOf(f2[n].prompt)
    BY FrameIs
  <2>2. ASSUME NEW m \in 1 .. Len(f), KeyOf(f[m].prompt) = k,
               Behind(n, f2, live2) \subseteq Behind(m, f, live)
        PROVE  Cardinality(Behind(n, f2, live2)) <= paid[k]
    <3>1. Behind(m, f, live) \subseteq Calls
      BY DEF Behind
    <3>2. Cardinality(Behind(m, f, live)) <= paid[k]
      BY <2>2 DEF Paid
    <3>3. /\ Cardinality(Behind(n, f2, live2)) \in Nat
          /\ Cardinality(Behind(m, f, live)) \in Nat
          /\ Cardinality(Behind(n, f2, live2)) <= Cardinality(Behind(m, f, live))
      BY <2>2, <3>1, CountSub
    <3>4. paid[k] \in Nat
      OBVIOUS
    <3>5. QED
      BY <3>2, <3>3, <3>4
  <2>3. ASSUME Behind(n, f2, live2) \subseteq Owing(k, ups[k], f, live)
        PROVE  Cardinality(Behind(n, f2, live2)) <= paid[k]
    <3>1. Owing(k, ups[k], f, live) \subseteq Calls
      BY DEF Owing
    <3>2. Cardinality(Owing(k, ups[k], f, live)) <= paid[k]
      BY DEF Paid
    <3>3. QED
      BY <2>3, <3>1, <3>2, CountSub
  <2>4. QED
    BY <2>1, <2>2, <2>3
<1>3. QED
  BY <1>1, <1>2 DEF Paid

\* A turn opens, and its prompt is sent or not.
LEMMA OpeningIsFine ==
    ASSUME NEW ups \in Prompts, NEW f \in Seq(Frame), NEW live \in SUBSET Calls, NEW born,
           Ordered(ups, f, live, born),
           NEW paid \in [Keys -> Nat], Paid(paid, ups, f, live),
           NEW c \in Calls, c \notin born, \A t \in live : KeyOf(t) # KeyOf(c),
           NEW ups2, ups2 = ups \/ ups2 = [ups EXCEPT ![KeyOf(c)] = Append(@, c)]
    PROVE  /\ Ordered(ups2, f, live \cup {c}, born \cup {c})
           /\ Paid(paid, ups2, f, live \cup {c})
<1> DEFINE live2 == live \cup {c}
           born2 == born \cup {c}
           kc == KeyOf(c)
<1>1. kc \in Keys
  BY KeyIs
<1>2. \A k \in Keys : ups[k] \in Seq(Calls) /\ Len(ups[k]) \in Nat
  BY DEF Prompts
<1>3. \A k \in Keys : ups2[k] = ups[k] \/ (k = kc /\ ups2[k] = Append(ups[k], c))
  BY <1>1, <1>2 DEF Prompts
<1>4. \A k \in Keys : /\ ups2[k] \in Seq(Calls)
                      /\ Len(ups2[k]) = Len(ups[k]) \/ (k = kc /\ Len(ups2[k]) = Len(ups[k]) + 1)
                      /\ \A i \in 1 .. Len(ups[k]) : ups2[k][i] = ups[k][i]
                      /\ Len(ups2[k]) = Len(ups[k]) + 1 => ups2[k][Len(ups[k]) + 1] = c
  <2> SUFFICES ASSUME NEW k \in Keys
               PROVE  /\ ups2[k] \in Seq(Calls)
                      /\ Len(ups2[k]) = Len(ups[k]) \/ (k = kc /\ Len(ups2[k]) = Len(ups[k]) + 1)
                      /\ \A i \in 1 .. Len(ups[k]) : ups2[k][i] = ups[k][i]
                      /\ Len(ups2[k]) = Len(ups[k]) + 1 => ups2[k][Len(ups[k]) + 1] = c
    OBVIOUS
  <2>1. CASE ups2[k] = ups[k]
    BY <1>2, <2>1
  <2>2. CASE k = kc /\ ups2[k] = Append(ups[k], c)
    <3>1. PICK u \in Seq(Calls) : u = ups[k]
      BY <1>2
    <3>2. /\ Append(u, c) \in Seq(Calls)
          /\ Len(Append(u, c)) = Len(u) + 1
          /\ \A i \in 1 .. Len(u) : Append(u, c)[i] = u[i]
          /\ Append(u, c)[Len(u) + 1] = c
      BY AppendIs
    <3>3. QED
      BY <2>2, <3>1, <3>2
  <2>3. QED
    BY <1>3, <2>1, <2>2
<1>5. ups2 \in Prompts
  BY <1>1, <1>2, <1>4 DEF Prompts
<1>6. \A k \in Keys : \A i \in 1 .. Len(ups2[k]) :
         \/ i \in 1 .. Len(ups[k]) /\ ups2[k][i] = ups[k][i]
         \/ k = kc /\ i = Len(ups2[k]) /\ ups2[k][i] = c /\ i = Len(ups[k]) + 1
  BY <1>2, <1>4, SMTT(30)
<1>7. \A k \in Keys : \A i \in 1 .. Len(ups[k]) : KeyOf(ups[k][i]) = k /\ ups[k][i] \in born
  BY DEF Ordered, Known
<1>8. \A i \in 1 .. Len(f) : f[i].prompt \in born /\ f[i].prompt # c
  BY DEF Ordered, Known
<1>9. \A k \in Keys, p \in Calls : Waits(ups2[k], p) => Waits(ups[k], p) \/ (p = c /\ k = kc)
  BY <1>6 DEF Waits
<1>10. Known(ups2, f, born2)
  BY <1>6, <1>7, <1>8 DEF Known
<1>11. Once(ups2)
  <2> SUFFICES ASSUME NEW k \in Keys, NEW i \in 1 .. Len(ups2[k]), NEW j \in 1 .. Len(ups2[k]),
                      ups2[k][i] = ups2[k][j]
               PROVE  i = j
    BY DEF Once
  <2>1. CASE i \in 1 .. Len(ups[k]) /\ j \in 1 .. Len(ups[k])
    BY <1>4, <2>1 DEF Ordered, Once
  <2>2. CASE i \notin 1 .. Len(ups[k]) /\ j \notin 1 .. Len(ups[k])
    <3>1. i = Len(ups[k]) + 1
      BY <1>6, <2>2
    <3>2. j = Len(ups[k]) + 1
      BY <1>6, <2>2
    <3>3. QED
      BY <3>1, <3>2
  <2>3. ASSUME NEW a \in 1 .. Len(ups2[k]), NEW b \in 1 .. Len(ups2[k]),
               a \in 1 .. Len(ups[k]), b \notin 1 .. Len(ups[k])
        PROVE  ups2[k][a] # ups2[k][b]
    <3>1. ups2[k][b] = c
      BY <1>6, <2>3
    <3>2. Len(ups[k]) \in Nat
      BY DEF Prompts
    <3>3. a # Len(ups[k]) + 1
      BY <2>3, <3>2
    <3>4. ups2[k][a] = ups[k][a]
      BY <1>6, <3>3
    <3>5. ups2[k][a] \in born
      BY <1>7, <2>3, <3>4
    <3>6. QED
      BY <3>1, <3>5
  <2>4. QED
    BY <2>1, <2>2, <2>3
<1>12. Ended(ups2, f)
  <2> SUFFICES ASSUME NEW i \in 1 .. Len(f), f[i].kind \in Terminal
               PROVE  ~Waits(ups2[KeyOf(f[i].prompt)], f[i].prompt)
    BY DEF Ordered, Ended
  <2>1. f[i].prompt \in Calls /\ KeyOf(f[i].prompt) \in Keys
    BY FrameIs
  <2>2. ~Waits(ups[KeyOf(f[i].prompt)], f[i].prompt)
    BY DEF Ordered, Ended
  <2>3. QED
    BY <1>8, <1>9, <2>1, <2>2
<1>13. Newest(ups2, f, live2)
  <2>1. ASSUME NEW k \in Keys, NEW i \in 1 .. Len(ups2[k]), ups2[k][i] \in live2
        PROVE  i = Len(ups2[k])
    <3>1. CASE i \in 1 .. Len(ups[k]) /\ ups2[k][i] = ups[k][i]
      <4>1. ups[k][i] \in live /\ KeyOf(ups[k][i]) = k
        BY <1>7, <2>1, <3>1
      <4>2. k # kc
        BY <4>1
      <4>3. ups2[k] = ups[k]
        BY <1>3, <4>2
      <4>4. QED
        BY <3>1, <4>1, <4>3 DEF Ordered, Newest
    <3>2. QED
      BY <1>6, <3>1
  <2>2. ASSUME NEW i \in 1 .. Len(f), f[i].prompt \in live2
        PROVE  /\ f[i].prompt \in live
               /\ KeyOf(f[i].prompt) # kc
               /\ ups2[KeyOf(f[i].prompt)] = ups[KeyOf(f[i].prompt)]
    BY <1>3, <1>8, <2>2, FrameIs
  <2>3. QED
    BY <2>1, <2>2 DEF Ordered, Newest
<1>14. Paid(paid, ups2, f, live2)
  <2>1. \A k \in Keys : Owing(k, ups2[k], f, live2) \subseteq Owing(k, ups[k], f, live)
    BY <1>9 DEF Owing
  <2>2. \A n \in 1 .. Len(f) : Behind(n, f, live2) \subseteq Behind(n, f, live)
    BY DEF Behind
  <2>3. QED
    BY <1>5, <2>1, <2>2, LessIsPaid
<1>15. QED
  BY <1>10, <1>11, <1>12, <1>13, <1>14 DEF Ordered

\* Prompts are lost at the gateway: the first of a session, or all.
LEMMA LosingIsFine ==
    ASSUME NEW ups \in Prompts, NEW f \in Seq(Frame), NEW live \in SUBSET Calls, NEW born,
           Ordered(ups, f, live, born),
           NEW paid \in [Keys -> Nat], Paid(paid, ups, f, live),
           NEW k \in Keys, NEW rest, rest = <<>> \/ (ups[k] # <<>> /\ rest = Tail(ups[k]))
    PROVE  /\ [ups EXCEPT ![k] = rest] \in Prompts
           /\ Ordered([ups EXCEPT ![k] = rest], f, live, born)
           /\ Paid(paid, [ups EXCEPT ![k] = rest], f, live)
<1>1. PICK ups2 : ups2 = [ups EXCEPT ![k] = rest]
  OBVIOUS
<1>2. \A j \in Keys : ups2[j] = IF j = k THEN rest ELSE ups[j]
  BY <1>1 DEF Prompts
<1>3. \A j \in Keys : ups[j] \in Seq(Calls) /\ Len(ups[j]) \in Nat
  BY DEF Prompts
<1>4. PICK u \in Seq(Calls) : u = ups[k]
  BY <1>3
<1>5. PICK d \in {0, 1} :
         /\ rest \in Seq(Calls) /\ Len(rest) \in Nat
         /\ \A i \in 1 .. Len(rest) :
               /\ i + d \in 1 .. Len(u) /\ rest[i] = u[i + d]
               /\ i + d = Len(u) => i = Len(rest)
  <2>1. CASE rest = <<>>
    BY <2>1
  <2>2. CASE u # <<>> /\ rest = Tail(u)
    <3>1. /\ rest \in Seq(Calls) /\ Len(u) \in Nat /\ Len(rest) \in Nat
          /\ Len(rest) = Len(u) - 1
          /\ \A i \in 1 .. Len(u) - 1 : rest[i] = u[i + 1]
      BY <2>2, TailIs
    <3>2. \A i \in 1 .. Len(rest) :
             /\ i + 1 \in 1 .. Len(u) /\ rest[i] = u[i + 1]
             /\ i + 1 = Len(u) => i = Len(rest)
      BY <3>1
    <3>3. QED
      BY <3>1, <3>2
  <2>3. QED
    BY <1>4, <2>1, <2>2
<1>6. ups2 \in Prompts
  BY <1>1, <1>5 DEF Prompts
<1>7. ASSUME NEW j \in Keys, NEW i \in 1 .. Len(ups2[j])
      PROVE  \E m \in 1 .. Len(ups[j]) :
                ups2[j][i] = ups[j][m] /\ (m = Len(ups[j]) => i = Len(ups2[j]))
  <2>1. CASE j = k
    BY <1>2, <1>4, <1>5, <2>1
  <2>2. CASE j # k
    BY <1>2, <2>2
  <2>3. QED
    BY <2>1, <2>2
<1>8. ASSUME NEW j \in Keys, NEW p, Waits(ups2[j], p) PROVE Waits(ups[j], p)
  <2>1. PICK i \in 1 .. Len(ups2[j]) : ups2[j][i] = p
    BY <1>8 DEF Waits
  <2>2. PICK n \in 1 .. Len(ups[j]) : ups2[j][i] = ups[j][n]
    BY <1>7
  <2>3. QED
    BY <2>1, <2>2 DEF Waits
<1>9. Known(ups2, f, born)
  <2>1. Known(ups, f, born)
    BY DEF Ordered
  <2>2. ASSUME NEW j \in Keys, NEW i \in 1 .. Len(ups2[j])
        PROVE  KeyOf(ups2[j][i]) = j /\ ups2[j][i] \in born
    <3>1. PICK n \in 1 .. Len(ups[j]) : ups2[j][i] = ups[j][n]
      BY <1>7
    <3>2. KeyOf(ups[j][n]) = j /\ ups[j][n] \in born
      BY <2>1 DEF Known
    <3>3. QED
      BY <3>1, <3>2
  <2>3. QED
    BY <2>1, <2>2 DEF Known
<1>10. Once(ups2)
  <2> SUFFICES ASSUME NEW j \in Keys, NEW i \in 1 .. Len(ups2[j]), NEW m \in 1 .. Len(ups2[j]),
                      ups2[j][i] = ups2[j][m]
               PROVE  i = m
    BY DEF Once
  <2>1. CASE j = k
    <3>1. /\ i + d \in 1 .. Len(u) /\ m + d \in 1 .. Len(u)
          /\ u[i + d] = u[m + d]
      BY <1>2, <1>5, <2>1
    <3>2. i + d = m + d
      BY <1>4, <3>1 DEF Ordered, Once
    <3>3. QED
      BY <1>2, <1>5, <2>1, <3>2
  <2>2. CASE j # k
    BY <1>2, <2>2 DEF Ordered, Once
  <2>3. QED
    BY <2>1, <2>2
<1>11. Ended(ups2, f)
  BY <1>8, FrameIs DEF Ordered, Ended
<1>12. Newest(ups2, f, live)
  <2>1. ASSUME NEW j \in Keys, NEW i \in 1 .. Len(ups2[j]), ups2[j][i] \in live
        PROVE  i = Len(ups2[j])
    <3>1. PICK n \in 1 .. Len(ups[j]) :
             ups2[j][i] = ups[j][n] /\ (n = Len(ups[j]) => i = Len(ups2[j]))
      BY <1>7
    <3>2. QED
      BY <2>1, <3>1 DEF Ordered, Newest
  <2>2. QED
    BY <1>8, <2>1, FrameIs DEF Ordered, Newest
<1>13. Paid(paid, ups2, f, live)
  <2>1. \A j \in Keys : Owing(j, ups2[j], f, live) \subseteq Owing(j, ups[j], f, live)
    BY <1>8 DEF Owing
  <2>2. QED
    BY <1>6, <2>1, LessIsPaid
<1>14. QED
  BY <1>1, <1>6, <1>9, <1>10, <1>11, <1>12, <1>13 DEF Ordered

\* The connection breaks, and the last frames with it.
LEMMA CuttingIsFine ==
    ASSUME NEW ups \in Prompts, NEW f \in Seq(Frame), NEW live \in SUBSET Calls, NEW born,
           Ordered(ups, f, live, born),
           NEW paid \in [Keys -> Nat], Paid(paid, ups, f, live),
           NEW m \in 0 .. Len(f)
    PROVE  /\ Ordered(ups, SubSeq(f, 1, m), live, born)
           /\ Paid(paid, ups, SubSeq(f, 1, m), live)
<1>1. PICK g : g = SubSeq(f, 1, m)
  OBVIOUS
<1>2. /\ g \in Seq(Frame) /\ Len(g) = m /\ m <= Len(f) /\ m \in Nat /\ Len(f) \in Nat
      /\ \A i \in 1 .. m : i \in 1 .. Len(f) /\ g[i] = f[i]
  BY <1>1, PrefixIs
<1>3. Ordered(ups, g, live, born)
  <2>1. Known(ups, g, born)
    BY <1>2 DEF Ordered, Known
  <2>2. Ended(ups, g)
    BY <1>2 DEF Ordered, Ended
  <2>3. Newest(ups, g, live)
    BY <1>2 DEF Ordered, Newest
  <2>4. QED
    BY <2>1, <2>2, <2>3 DEF Ordered
<1>4. \A n, p : n \in 0 .. m /\ Ends1(g, n, p) => Ends1(f, n, p)
  BY <1>2 DEF Ends1
<1>5. \A p : Ends1(f, m, p) => Ends1(f, Len(f), p)
  BY <1>2 DEF Ends1
<1>6. \A k \in Keys : Owing(k, ups[k], g, live) \subseteq Owing(k, ups[k], f, live)
  BY <1>2, <1>4, <1>5 DEF Owing
<1>7. \A n \in 1 .. Len(g) : n - 1 \in 0 .. m /\ Behind(n, g, live) \subseteq Behind(n, f, live)
  BY <1>2, <1>4 DEF Behind
<1>8. \A n \in 1 .. Len(g) : n \in 1 .. Len(f) /\ KeyOf(f[n].prompt) = KeyOf(g[n].prompt)
  BY <1>2
<1>9. Paid(paid, ups, g, live)
  BY <1>2, <1>6, <1>7, <1>8, LessIsPaid
<1>10. QED
  BY <1>1, <1>3, <1>9

\* A frame of the prompt that a session runs is sent to the client; after the
\* last one the prompt is gone from the session.
LEMMA PushingIsFine ==
    ASSUME NEW ups \in Prompts, NEW f \in Seq(Frame), NEW live \in SUBSET Calls, NEW born,
           Ordered(ups, f, live, born),
           NEW paid \in [Keys -> Nat], Paid(paid, ups, f, live),
           NEW k \in Keys, ups[k] # <<>>,
           NEW g \in Frame, g.prompt = Head(ups[k]),
           NEW ups2 \in Prompts, Ordered(ups2, f, live, born),
           \A j \in Keys : \A p : Waits(ups2[j], p) => Waits(ups[j], p),
           g.kind \in Terminal => ~Waits(ups2[k], Head(ups[k]))
    PROVE  /\ Ordered(ups2, Append(f, g), live, born)
           /\ Paid(paid, ups2, Append(f, g), live)
<1>1. PICK h \in Calls : h = Head(ups[k]) /\ g.prompt = h
  BY DEF Frame
<1>2. /\ Len(ups[k]) \in Nat /\ Len(ups[k]) >= 1 /\ ups[k][1] = h
      /\ 1 \in 1 .. Len(ups[k])
  BY <1>1, TailIs DEF Prompts
<1>3. Waits(ups[k], h) /\ KeyOf(h) = k /\ h \in born
  BY <1>2 DEF Waits, Ordered, Known
<1>4. PICK f2 : f2 = Append(f, g)
  OBVIOUS
<1>5. /\ f2 \in Seq(Frame) /\ Len(f) \in Nat /\ Len(f2) = Len(f) + 1
      /\ \A i \in 1 .. Len(f) : f2[i] = f[i]
      /\ f2[Len(f) + 1] = g
  BY <1>4, AppendIs
<1>6. \A i \in 1 .. Len(f2) : \/ i \in 1 .. Len(f) /\ f2[i] = f[i]
                              \/ i = Len(f) + 1 /\ f2[i] = g
  BY <1>5
<1>7. \A i \in 1 .. Len(f) : /\ f[i].prompt \in Calls /\ KeyOf(f[i].prompt) \in Keys
  BY FrameIs
<1>8. Known(ups2, f2, born)
  BY <1>1, <1>3, <1>6 DEF Ordered, Known
<1>9. Ended(ups2, f2)
  <2>1. ASSUME NEW i \in 1 .. Len(f), f[i].kind \in Terminal
        PROVE  f[i].prompt # h /\ ~Waits(ups2[KeyOf(f[i].prompt)], f[i].prompt)
    BY <1>3, <2>1 DEF Ordered, Ended
  <2> SUFFICES ASSUME NEW i \in 1 .. Len(f2), f2[i].kind \in Terminal
               PROVE  /\ ~Waits(ups2[KeyOf(f2[i].prompt)], f2[i].prompt)
                      /\ \A j \in 1 .. Len(f2) : i < j => f2[j].prompt # f2[i].prompt
    BY DEF Ended
  <2>2. CASE i \in 1 .. Len(f) /\ f2[i] = f[i]
    <3>1. \A j \in 1 .. Len(f) : i < j => f[j].prompt # f[i].prompt
      BY <2>2 DEF Ordered, Ended
    <3>2. QED
      BY <1>1, <1>6, <2>1, <2>2, <3>1
  <2>3. CASE i = Len(f) + 1 /\ f2[i] = g
    <3>1. ~Waits(ups2[k], h) /\ KeyOf(g.prompt) = k
      BY <1>1, <1>3, <2>3
    <3>2. \A j \in 1 .. Len(f2) : ~(i < j)
      BY <1>5, <2>3
    <3>3. QED
      BY <1>1, <2>3, <3>1, <3>2
  <2>4. QED
    BY <1>6, <2>2, <2>3
<1>10. Newest(ups2, f2, live)
  <2> SUFFICES ASSUME NEW i \in 1 .. Len(f2), f2[i].prompt \in live
               PROVE  /\ \A j \in 1 .. Len(f2) :
                            i < j /\ KeyOf(f2[j].prompt) = KeyOf(f2[i].prompt)
                               => f2[j].prompt = f2[i].prompt
                      /\ \A p \in Calls : Waits(ups2[KeyOf(f2[i].prompt)], p) => p = f2[i].prompt
    BY DEF Ordered, Newest
  <2>1. CASE i \in 1 .. Len(f) /\ f2[i] = f[i]
    <3>1. /\ \A j \in 1 .. Len(f) :
                i < j /\ KeyOf(f[j].prompt) = KeyOf(f[i].prompt) => f[j].prompt = f[i].prompt
          /\ \A p \in Calls : Waits(ups[KeyOf(f[i].prompt)], p) => p = f[i].prompt
      BY <2>1 DEF Ordered, Newest
    <3>2. KeyOf(h) = KeyOf(f[i].prompt) => h = f[i].prompt
      BY <1>3, <3>1
    <3>3. QED
      BY <1>1, <1>6, <1>7, <2>1, <3>1, <3>2
  <2>2. CASE i = Len(f) + 1 /\ f2[i] = g
    <3>1. \A j \in 1 .. Len(f2) : ~(i < j)
      BY <1>5, <2>2
    <3>2. h \in live /\ Len(ups[k]) = 1
      BY <1>1, <1>2, <2>2 DEF Ordered, Newest
    <3>3. \A p : Waits(ups[k], p) => p = h
      BY <1>2, <3>2 DEF Waits
    <3>4. QED
      BY <1>1, <1>3, <2>2, <3>1, <3>3
  <2>3. QED
    BY <1>6, <2>1, <2>2
<1>11. Paid(paid, ups2, f2, live)
  <2>1. ASSUME NEW n \in 0 .. Len(f), NEW p, Ends1(f2, n, p) PROVE Ends1(f, n, p)
    BY <1>5, <2>1 DEF Ends1
  <2>2. ASSUME NEW p, Ends1(f2, Len(f2), p) PROVE Ends1(f, Len(f), p) \/ p = h
    BY <1>1, <1>6, <2>2 DEF Ends1
  <2>3. ASSUME NEW j \in Keys, NEW p \in Owing(j, ups2[j], f2, live)
        PROVE  p \in Owing(j, ups[j], f, live)
    BY <1>3, <2>2, <2>3 DEF Owing
  <2>4. ASSUME NEW n \in 1 .. Len(f), NEW p \in Behind(n, f2, live)
        PROVE  p \in Behind(n, f, live)
    BY <1>5, <2>1, <2>4 DEF Behind
  <2>5. ASSUME NEW p \in Behind(Len(f) + 1, f2, live)
        PROVE  p \in Owing(k, ups[k], f, live)
    <3>1. p \in Calls \ live /\ KeyOf(p) = k /\ (p = h \/ Ends1(f2, Len(f), p))
      BY <1>1, <1>3, <1>5, <2>5 DEF Behind
    <3>2. p = h \/ Ends1(f, Len(f), p)
      BY <1>5, <2>1, <3>1
    <3>3. QED
      BY <1>3, <3>1, <3>2 DEF Owing
  <2>6. \A n \in 1 .. Len(f2) :
           \/ \E m \in 1 .. Len(f) : /\ KeyOf(f[m].prompt) = KeyOf(f2[n].prompt)
                                     /\ Behind(n, f2, live) \subseteq Behind(m, f, live)
           \/ LET j == KeyOf(f2[n].prompt)
              IN Behind(n, f2, live) \subseteq Owing(j, ups[j], f, live)
    BY <1>1, <1>3, <1>6, <2>4, <2>5
  <2>7. QED
    BY <1>5, <2>3, <2>6, LessIsPaid
<1>12. QED
  BY <1>4, <1>8, <1>9, <1>10, <1>11 DEF Ordered

\* The next frame is taken.
LEMMA TakingKeepsOrder ==
    ASSUME NEW ups \in Prompts, NEW f \in Seq(Frame), NEW live, NEW born,
           Ordered(ups, f, live, born), f # <<>>
    PROVE  Ordered(ups, Tail(f), live, born)
<1>1. PICK g : g = Tail(f)
  OBVIOUS
<1>2. /\ Len(f) \in Nat /\ Len(g) = Len(f) - 1
      /\ \A i \in 1 .. Len(g) : i + 1 \in 1 .. Len(f) /\ g[i] = f[i + 1]
  BY <1>1, TailIs
<1>3. \A i, j \in 1 .. Len(g) : i < j => i + 1 < j + 1
  BY <1>2
<1>4. Known(ups, g, born)
  BY <1>2 DEF Ordered, Known
<1>5. Ended(ups, g)
  BY <1>2, <1>3 DEF Ordered, Ended
<1>6. Newest(ups, g, live)
  <2> SUFFICES ASSUME NEW i \in 1 .. Len(g), g[i].prompt \in live
               PROVE  /\ \A j \in 1 .. Len(g) :
                            i < j /\ KeyOf(g[j].prompt) = KeyOf(g[i].prompt)
                               => g[j].prompt = g[i].prompt
                      /\ \A p \in Calls : Waits(ups[KeyOf(g[i].prompt)], p) => p = g[i].prompt
    BY DEF Ordered, Newest
  <2>1. PICK m \in 1 .. Len(f) : m = i + 1 /\ f[m] = g[i]
    BY <1>2
  <2>2. /\ \A j \in 1 .. Len(f) :
              m < j /\ KeyOf(f[j].prompt) = KeyOf(f[m].prompt) => f[j].prompt = f[m].prompt
        /\ \A p \in Calls : Waits(ups[KeyOf(f[m].prompt)], p) => p = f[m].prompt
    BY <2>1 DEF Ordered, Newest
  <2>3. QED
    BY <1>2, <1>3, <2>1, <2>2
<1>7. QED
  BY <1>1, <1>4, <1>5, <1>6 DEF Ordered

\* What the debts are then.
LEMMA TakingOwes ==
    ASSUME NEW f \in Seq(Frame), f # <<>>, NEW live
    PROVE  /\ \A k \in Keys : \A u : Owing(k, u, Tail(f), live) \subseteq Owing(k, u, f, live)
           /\ \A n \in 1 .. Len(Tail(f)) :
                 /\ n + 1 \in 1 .. Len(f) /\ Tail(f)[n] = f[n + 1]
                 /\ Behind(n, Tail(f), live) \subseteq Behind(n + 1, f, live)
<1>1. PICK g : g = Tail(f)
  OBVIOUS
<1>2. /\ Len(f) \in Nat /\ Len(g) = Len(f) - 1
      /\ \A i \in 1 .. Len(g) : i + 1 \in 1 .. Len(f) /\ g[i] = f[i + 1]
  BY <1>1, TailIs
<1>3. ASSUME NEW n \in 0 .. Len(g), NEW p, Ends1(g, n, p) PROVE Ends1(f, n + 1, p)
  <2>1. PICK i \in 1 .. n : g[i].prompt = p /\ g[i].kind \in Terminal
    BY <1>3 DEF Ends1
  <2>2. i + 1 \in 1 .. n + 1 /\ f[i + 1] = g[i]
    BY <1>2, <2>1
  <2>3. QED
    BY <2>1, <2>2 DEF Ends1
<1>4. \A p : Ends1(g, Len(g), p) => Ends1(f, Len(f), p)
  BY <1>2, <1>3
<1>5. \A k \in Keys : \A u : Owing(k, u, g, live) \subseteq Owing(k, u, f, live)
  BY <1>4 DEF Owing
<1>6. ASSUME NEW n \in 1 .. Len(g) PROVE Behind(n, g, live) \subseteq Behind(n + 1, f, live)
  <2>1. n - 1 \in 0 .. Len(g) /\ (n + 1) - 1 = (n - 1) + 1 /\ g[n] = f[n + 1]
    BY <1>2
  <2>2. QED
    BY <1>3, <2>1 DEF Behind
<1>7. QED
  BY <1>1, <1>2, <1>5, <1>6

\* A frame that is not swallowed is one of an open turn.
LEMMA ThroughIsOpen ==
    ASSUME NEW ups \in Prompts, NEW f \in Seq(Frame), f # <<>>, NEW live \in SUBSET Calls,
           NEW paid \in [Keys -> Nat], Paid(paid, ups, f, live),
           paid[KeyOf(Head(f).prompt)] = 0
    PROVE  Head(f).prompt \in live
<1> SUFFICES ASSUME Head(f).prompt \notin live PROVE FALSE
  OBVIOUS
<1>1. 1 \in 1 .. Len(f) /\ f[1] = Head(f)
  BY TailIs
<1>2. PICK h \in Calls : h = f[1].prompt
  BY <1>1, FrameIs
<1>3. h \in Behind(1, f, live) /\ Behind(1, f, live) \subseteq Calls
  BY <1>1, <1>2 DEF Behind
<1>4. Cardinality(Behind(1, f, live)) <= 0
  BY <1>1 DEF Paid
<1>5. {} \in SUBSET (Behind(1, f, live) \ {h})
  OBVIOUS
<1>6. Cardinality({}) + 1 <= Cardinality(Behind(1, f, live)) /\ Cardinality(Behind(1, f, live)) \in Nat
  BY <1>3, <1>5, CountLess
<1>7. QED
  BY <1>4, <1>6, CountNone

\* A terminal frame is swallowed: it was owed, or nothing is owed any more.
LEMMA SwallowingIsPaid ==
    ASSUME NEW ups \in Prompts, NEW f \in Seq(Frame), f # <<>>, NEW live \in SUBSET Calls, NEW born,
           Ordered(ups, f, live, born),
           NEW paid \in [Keys -> Nat], Paid(paid, ups, f, live),
           Head(f).kind \in Terminal, paid[KeyOf(Head(f).prompt)] > 0
    PROVE  Paid([paid EXCEPT ![KeyOf(Head(f).prompt)] = @ - 1], ups, Tail(f), live)
<1>1. 1 \in 1 .. Len(f) /\ f[1] = Head(f) /\ Len(f) \in Nat
  BY TailIs
<1>2. PICK h \in Calls : h = f[1].prompt
  BY <1>1, FrameIs
<1>3. PICK k \in Keys : k = KeyOf(h)
  BY KeyIs
<1>4. PICK paid2 : paid2 = [paid EXCEPT ![k] = @ - 1]
  OBVIOUS
<1>5. /\ paid2 \in [Keys -> Nat] /\ paid2[k] = paid[k] - 1
      /\ \A j \in Keys : j # k => paid2[j] = paid[j]
  BY <1>1, <1>2, <1>3, <1>4
<1>6. PICK g : g = Tail(f)
  OBVIOUS
<1>7. /\ g \in Seq(Frame) /\ Len(g) = Len(f) - 1
      /\ \A i \in 1 .. Len(g) : i + 1 \in 1 .. Len(f) /\ 1 < i + 1 /\ g[i] = f[i + 1]
  BY <1>6, TailIs
<1>8. /\ ~Waits(ups[k], h)
      /\ \A i \in 1 .. Len(g) : g[i].prompt # h
  <2>1. f[1].kind \in Terminal
    BY <1>1
  <2>2. ~Waits(ups[k], h) /\ \A j \in 1 .. Len(f) : 1 < j => f[j].prompt # h
    BY <1>1, <1>2, <1>3, <2>1 DEF Ordered, Ended
  <2>3. QED
    BY <1>7, <2>2
<1>9. \A n \in 0 .. Len(g) : ~Ends1(g, n, h)
  BY <1>7, <1>8 DEF Ends1
<1>10. /\ \A j \in Keys : \A u : Owing(j, u, g, live) \subseteq Owing(j, u, f, live)
       /\ \A n \in 1 .. Len(g) :
             /\ n + 1 \in 1 .. Len(f) /\ g[n] = f[n + 1]
             /\ Behind(n, g, live) \subseteq Behind(n + 1, f, live)
  BY <1>6, TakingOwes
<1>11. CASE h \in live
  <2>1. \A p \in Calls : ~Waits(ups[k], p)
    BY <1>1, <1>2, <1>3, <1>8, <1>11 DEF Ordered, Newest
  <2>2. ASSUME NEW n \in 1 .. Len(g) PROVE KeyOf(g[n].prompt) # k
    <3>1. \A j \in 1 .. Len(f) : 1 < j /\ KeyOf(f[j].prompt) = KeyOf(f[1].prompt) => f[j].prompt = h
      BY <1>1, <1>2, <1>11 DEF Ordered, Newest
    <3>2. PICK j \in 1 .. Len(f) : j = n + 1 /\ 1 < j /\ f[j] = g[n]
      BY <1>7
    <3>3. QED
      BY <1>2, <1>3, <1>8, <3>1, <3>2
  <2>3. \A p : KeyOf(p) = k => ~Ends1(g, Len(g), p)
    BY <2>2 DEF Ends1
  <2>4. Owing(k, ups[k], g, live) = {}
    BY <2>1, <2>3 DEF Owing
  <2>5. Paid(paid, ups, g, live)
    BY <1>7, <1>10, LessIsPaid
  <2>6. \A j \in Keys : Cardinality(Owing(j, ups[j], g, live)) <= paid2[j]
    <3>1. Cardinality(Owing(k, ups[k], g, live)) = 0
      BY <2>4, CountNone
    <3>2. \A j \in Keys : Cardinality(Owing(j, ups[j], g, live)) <= paid[j]
      BY <2>5 DEF Paid
    <3>3. paid2[k] \in Nat
      BY <1>5
    <3>4. QED
      BY <1>5, <3>1, <3>2, <3>3
  <2>7. \A n \in 1 .. Len(g) : Cardinality(Behind(n, g, live)) <= paid2[KeyOf(g[n].prompt)]
    BY <1>5, <1>7, <2>2, <2>5, FrameIs DEF Paid
  <2>8. QED
    BY <1>1, <1>2, <1>3, <1>4, <1>6, <2>6, <2>7 DEF Paid
<1>12. CASE h \notin live
  <2>1. ASSUME NEW B \in SUBSET Calls, NEW A \in SUBSET (B \ {h}), h \in B,
               Cardinality(B) <= paid[k]
        PROVE  Cardinality(A) <= paid2[k]
    BY <1>5, <2>1, CountLess
  <2>2. ASSUME NEW j \in Keys PROVE Cardinality(Owing(j, ups[j], g, live)) <= paid2[j]
    <3>1. /\ Owing(j, ups[j], f, live) \subseteq Calls
          /\ Cardinality(Owing(j, ups[j], f, live)) <= paid[j]
          /\ Owing(j, ups[j], g, live) \subseteq Owing(j, ups[j], f, live)
      BY <1>10 DEF Paid, Owing
    <3>2. CASE j = k
      <4>1. h \in Owing(j, ups[j], f, live)
        BY <1>1, <1>2, <1>3, <1>12, <3>2 DEF Owing, Ends1
      <4>2. h \notin Owing(j, ups[j], g, live)
        BY <1>7, <1>8, <1>9, <3>2 DEF Owing
      <4>3. QED
        BY <2>1, <3>1, <3>2, <4>1, <4>2
    <3>3. CASE j # k
      <4>1. Cardinality(Owing(j, ups[j], g, live)) <= Cardinality(Owing(j, ups[j], f, live))
            /\ Cardinality(Owing(j, ups[j], g, live)) \in Nat
            /\ Cardinality(Owing(j, ups[j], f, live)) \in Nat
        BY <3>1, CountSub
      <4>2. QED
        BY <1>5, <3>1, <3>3, <4>1
    <3>4. QED
      BY <3>2, <3>3
  <2>3. ASSUME NEW n \in 1 .. Len(g)
        PROVE  Cardinality(Behind(n, g, live)) <= paid2[KeyOf(g[n].prompt)]
    <3>1. PICK j \in Keys : j = KeyOf(g[n].prompt)
      BY <1>7, FrameIs
    <3>2. /\ Behind(n + 1, f, live) \subseteq Calls
          /\ Cardinality(Behind(n + 1, f, live)) <= paid[j]
          /\ Behind(n, g, live) \subseteq Behind(n + 1, f, live)
      BY <1>7, <1>10, <3>1 DEF Paid, Behind
    <3>3. CASE j = k
      <4>1. Ends1(f, (n + 1) - 1, h)
        <5>1. 1 \in 1 .. (n + 1) - 1
          BY <1>7
        <5>2. QED
          BY <1>1, <1>2, <5>1 DEF Ends1
      <4>2. h \in Behind(n + 1, f, live)
        BY <1>3, <1>7, <1>12, <3>1, <3>3, <4>1 DEF Behind
      <4>3. n - 1 \in 0 .. Len(g)
        BY <1>7
      <4>4. h \notin Behind(n, g, live)
        BY <1>8, <1>9, <4>3 DEF Behind
      <4>5. QED
        BY <2>1, <3>1, <3>2, <3>3, <4>2, <4>4
    <3>4. CASE j # k
      <4>1. Cardinality(Behind(n, g, live)) <= Cardinality(Behind(n + 1, f, live))
            /\ Cardinality(Behind(n, g, live)) \in Nat
            /\ Cardinality(Behind(n + 1, f, live)) \in Nat
        BY <3>2, CountSub
      <4>2. QED
        BY <1>5, <3>1, <3>2, <3>4, <4>1
    <3>5. QED
      BY <3>3, <3>4
  <2>4. QED
    BY <1>1, <1>2, <1>3, <1>4, <1>6, <2>2, <2>3 DEF Paid
<1>13. QED
  BY <1>11, <1>12

\* A turn is settled by its own terminal frame, of which there is no other.
LEMMA SettlingIsPaid ==
    ASSUME NEW ups \in Prompts, NEW f \in Seq(Frame), f # <<>>, NEW live \in SUBSET Calls, NEW born,
           Ordered(ups, f, live, born),
           NEW paid \in [Keys -> Nat], Paid(paid, ups, f, live),
           Head(f).kind \in Terminal
    PROVE  Paid(paid, ups, Tail(f), live \ {Head(f).prompt})
<1>1. 1 \in 1 .. Len(f) /\ f[1] = Head(f) /\ Len(f) \in Nat
  BY TailIs
<1>2. PICK h \in Calls : h = f[1].prompt
  BY <1>1, FrameIs
<1>3. PICK g : g = Tail(f)
  OBVIOUS
<1>4. /\ g \in Seq(Frame) /\ Len(g) = Len(f) - 1
      /\ \A i \in 1 .. Len(g) : i + 1 \in 1 .. Len(f) /\ 1 < i + 1 /\ g[i] = f[i + 1]
  BY <1>3, TailIs
<1>5. /\ ~Waits(ups[KeyOf(h)], h)
      /\ \A i \in 1 .. Len(g) : g[i].prompt # h
  BY <1>1, <1>2, <1>4 DEF Ordered, Ended
<1>6. \A n \in 0 .. Len(g) : ~Ends1(g, n, h)
  BY <1>4, <1>5 DEF Ends1
<1>7. PICK live2 : live2 = live \ {h}
  OBVIOUS
<1>8. \A j \in Keys : Owing(j, ups[j], g, live2) \subseteq Owing(j, ups[j], g, live)
  <2> SUFFICES ASSUME NEW j \in Keys, NEW p \in Owing(j, ups[j], g, live2)
               PROVE  p \in Owing(j, ups[j], g, live)
    OBVIOUS
  <2>1. p # h
    BY <1>4, <1>5, <1>6 DEF Owing
  <2>2. QED
    BY <1>7, <2>1 DEF Owing
<1>9. \A n \in 1 .. Len(g) : Behind(n, g, live2) \subseteq Behind(n, g, live)
  <2> SUFFICES ASSUME NEW n \in 1 .. Len(g), NEW p \in Behind(n, g, live2)
               PROVE  p \in Behind(n, g, live)
    OBVIOUS
  <2>1. n - 1 \in 0 .. Len(g)
    BY <1>4
  <2>2. p # h
    BY <1>5, <1>6, <2>1 DEF Behind
  <2>3. QED
    BY <1>7, <2>2 DEF Behind
<1>10. /\ \A j \in Keys : Owing(j, ups[j], g, live) \subseteq Owing(j, ups[j], f, live)
       /\ \A n \in 1 .. Len(g) :
             /\ n + 1 \in 1 .. Len(f) /\ g[n] = f[n + 1]
             /\ Behind(n, g, live) \subseteq Behind(n + 1, f, live)
  BY <1>3, TakingOwes
<1>11. \A n \in 1 .. Len(g) :
          \E m \in 1 .. Len(f) : /\ KeyOf(f[m].prompt) = KeyOf(g[n].prompt)
                                 /\ Behind(n, g, live2) \subseteq Behind(m, f, live)
  BY <1>9, <1>10
<1>12. \A j \in Keys : Owing(j, ups[j], g, live2) \subseteq Owing(j, ups[j], f, live)
  BY <1>8, <1>10
<1>13. Paid(paid, ups, g, live2)
  BY <1>4, <1>11, <1>12, LessIsPaid
<1>14. QED
  BY <1>1, <1>2, <1>3, <1>7, <1>13

-----------------------------------------------------------------------------
\* Every step keeps the count, and settles a turn by its own frame.

\* What a step does to the turns whose count does not depend on the call.
SameTurns == \A t \in Calls : /\ turn'[t].state = turn[t].state
                              /\ turn'[t].texts = turn[t].texts
                              /\ turn'[t].by = turn[t].by

LEMMA SameTurnsAre ==
    ASSUME SameTurns
    PROVE  Live' = Live /\ Started' = Started
BY DEF SameTurns, Live, Started, Open, Born

LEMMA OwnKept ==
    ASSUME OwnAnswer, Counted' => Counted, SameTurns
    PROVE  OwnAnswer'
<1> SUFFICES ASSUME Counted', NEW t \in Calls
             PROVE  /\ turn'[t].by \in {t, None}
                    /\ \A i \in 1 .. Len(turn'[t].texts) : turn'[t].texts[i] = t
  BY DEF OwnAnswer
<1>1. /\ turn[t].by \in {t, None}
      /\ \A i \in 1 .. Len(turn[t].texts) : turn[t].texts[i] = t
  BY DEF OwnAnswer
<1>2. QED
  BY <1>1 DEF SameTurns

LEMMA CountingStart ==
    ASSUME TypeOK, Parking, Counting, OwnAnswer, Counted,
           NEW c \in Calls, at[c] \in Before, NEW table \in Table, Start(c, table),
           \A t \in Calls : Open(t) => table[KeyOf(t)] = t, table[KeyOf(c)] = None,
           UNCHANGED <<stamps, inbound>>
    PROVE  Counting' /\ OwnAnswer'
<1>1. \A t \in Calls : turn'[t] = IF t = c THEN NewTurn("open") ELSE turn[t]
  BY DEF Start, TypeOK
<1>2. NewTurn("open").state = "open" /\ NewTurn("open").by = None /\ NewTurn("open").texts = <<>>
  BY DEF NewTurn
<1>3. Live' = Live \cup {c} /\ Started' = Started \cup {c}
  BY <1>1, <1>2 DEF Live, Started, Open, Born
<1>4. c \notin Started /\ \A t \in Live : KeyOf(t) # KeyOf(c)
  BY StartOpens DEF Parking, Started, Live
<1>5. upstream' = upstream \/ upstream' = [upstream EXCEPT ![KeyOf(c)] = Append(@, c)]
  BY DEF Start
<1>6. /\ upstream \in Prompts /\ inbound \in Seq(Frame) /\ Live \in SUBSET Calls
      /\ stamps \in [Keys -> Nat]
  BY DEF TypeOK, LinkTypeOK, Prompts, Live
<1>7. Ordered(upstream, inbound, Live, Started) /\ Paid(stamps, upstream, inbound, Live)
  BY DEF Counting
<1>8. /\ Ordered(upstream', inbound, Live \cup {c}, Started \cup {c})
      /\ Paid(stamps, upstream', inbound, Live \cup {c})
  BY <1>4, <1>5, <1>6, <1>7, OpeningIsFine
<1>9. Counting'
  BY <1>3, <1>8 DEF Counting
<1>10. OwnAnswer'
  BY <1>1, <1>2 DEF OwnAnswer
<1>11. QED
  BY <1>9, <1>10

LEMMA CountingSame ==
    ASSUME Counting, OwnAnswer, Counted' => Counted,
           SameTurns, UNCHANGED <<stamps, upstream, inbound>>
    PROVE  Counting' /\ OwnAnswer'
BY SameTurnsAre, OwnKept DEF Counting

LEMMA CountingLocked ==
    ASSUME TypeOK, Parking, Locking, Counting, OwnAnswer, Counted,
           NEW c \in Calls, at[c] \in Before, Locked(c)
    PROVE  Counting' /\ OwnAnswer'
<1>1. KeyOf(c) \in Keys /\ AfterExpiry \in Table
  BY KeyIs, AfterExpiryIs
<1>2. \A p \in Calls : Open(p) => AfterExpiry[KeyOf(p)] = p
  BY KeyIs, AfterExpiryIs DEF Locking, Open, Settled, Counted
<1>3. PICK t : t = AfterExpiry[KeyOf(c)]
  OBVIOUS
<1>4. UNCHANGED <<stamps, inbound>> /\ (Counted' => Counted)
  BY DEF Locked, linkVars
<1>5. CASE t = None /\ Start(c, AfterExpiry)
  BY <1>1, <1>2, <1>3, <1>4, <1>5, CountingStart
<1>6. CASE Collect(c, t) \/ Join(c, t) \/ WaitForLink(c)
  BY <1>4, <1>6, CountingSame DEF Collect, Join, WaitForLink, SameTurns
<1>7. QED
  BY <1>3, <1>5, <1>6 DEF Locked

LEMMA CountingCall ==
    ASSUME TypeOK, Parking, Locking, Counting, OwnAnswer, Counted,
           NEW c \in Calls, CallStep(c)
    PROVE  Counting' /\ OwnAnswer'
<1>1. ASSUME UNCHANGED <<turn, stamps, upstream, inbound>> PROVE Counting' /\ OwnAnswer'
  BY <1>1, CountingSame DEF SameTurns
<1>2. CASE Ask(c)
  BY <1>1, <1>2, CountingLocked DEF Ask, Before, gatewayVars, linkVars
<1>3. CASE TakeLock(c)
  BY <1>3, CountingLocked DEF TakeLock, Before
<1>4. CASE Granted(c)
  <2>1. /\ held \in Table /\ held[KeyOf(c)] = None
        /\ \A t \in Calls : Open(t) => held[KeyOf(t)] = t
    BY <1>4 DEF Granted, Locking, Counted, TypeOK, Table
  <2>2. QED
    BY <1>4, <2>1, CountingStart DEF Granted, Before, linkVars
<1>5. CASE Reject(c) \/ GraceMet(c) \/ GraceOver(c) \/ Sent(c) \/ Cancel(c) \/ SoftDeadline(c) \/ Wake(c)
  BY <1>1, <1>5
  DEF Reject, GraceMet, GraceOver, Sent, Cancel, SoftDeadline, Wake, gatewayVars, linkVars
<1>6. ~CancelSend(c)
  BY DEF CancelSend, Counted
<1>7. QED
  BY <1>2, <1>3, <1>4, <1>5, <1>6 DEF CallStep

\* A turn is given up: by its deadline, or with the connection.
LEMMA CountingDeadline ==
    ASSUME TypeOK, Counting, OwnAnswer, Counted, NEW t \in Calls, HardDeadline(t), TypeOK'
    PROVE  Counting' /\ OwnAnswer'
<1>1. turn' = [turn EXCEPT ![t].state = "failed", ![t].by = None]
  BY DEF HardDeadline, Settle
<1>2. \A x \in Calls : /\ turn'[x].state = IF x = t THEN "failed" ELSE turn[x].state
                       /\ turn'[x].texts = turn[x].texts
                       /\ turn'[x].by = IF x = t THEN None ELSE turn[x].by
  BY <1>1 DEF TypeOK, Turn
<1>3. Live' = Live \ {t} /\ Started' = Started
  BY <1>2 DEF Live, Started, Open, Born, HardDeadline
<1>4. /\ upstream \in Prompts /\ inbound \in Seq(Frame) /\ Live \in SUBSET Calls
      /\ stamps \in [Keys -> Nat] /\ stamps' \in [Keys -> Nat]
  BY DEF TypeOK, LinkTypeOK, Prompts, Live
<1>5. Ordered(upstream, inbound, Live, Started) /\ Paid(stamps, upstream, inbound, Live)
  BY DEF Counting
<1>6. \A k \in Keys : stamps'[k] = IF k = KeyOf(t) THEN stamps[k] + 1 ELSE stamps[k]
  BY <1>4, KeyIs DEF HardDeadline
<1>7. \A k \in Keys :
         \/ stamps'[k] >= stamps[k] /\ \A x \in Live \ (Live \ {t}) : KeyOf(x) # k
         \/ \E x \in Calls : stamps'[k] >= stamps[k] + 1
                             /\ \A y \in Live \ (Live \ {t}) : KeyOf(y) = k => y = x
  BY <1>4, <1>6
<1>8. Paid(stamps', upstream, inbound, Live \ {t})
  BY <1>4, <1>5, <1>7, ClosingIsPaid
<1>9. Ordered(upstream, inbound, Live \ {t}, Started)
  BY <1>4, <1>5, ClosingKeepsOrder
<1>10. UNCHANGED <<upstream, inbound>>
  BY DEF HardDeadline, gatewayVars, linkVars
<1>11. Counting'
  BY <1>3, <1>8, <1>9, <1>10 DEF Counting
<1>12. OwnAnswer'
  BY <1>2 DEF OwnAnswer
<1>13. QED
  BY <1>11, <1>12

LEMMA CountingDisconnect ==
    ASSUME TypeOK, Parking, Locking, Counting, OwnAnswer, Counted, Disconnect, TypeOK'
    PROVE  Counting' /\ OwnAnswer'
<1> DEFINE which == {held[k] : k \in {j \in Keys : held[j] # None /\ Open(held[j])}}
<1>1. \A x \in Calls : /\ turn'[x].state = IF x \in which THEN "failed" ELSE turn[x].state
                       /\ turn'[x].texts = turn[x].texts
                       /\ turn'[x].by = turn[x].by
  BY DEF Disconnect, Abandon, TypeOK, Turn
<1>2. \A t \in Live : t \in which /\ held[KeyOf(t)] = t /\ KeyOf(t) \in Keys
  BY KeyIs, BridgeAssumption DEF Locking, Live, Counted
<1>3. \A t \in which : t \in Calls /\ Open(t)
  BY DEF TypeOK
<1>4. \A k \in Keys : stamps'[k] = stamps[k] + (IF held[k] \in which THEN 1 ELSE 0)
  BY DEF Disconnect, Abandon
<1> HIDE DEF which
<1>5. Live' = {} /\ Started' = Started
  BY <1>1, <1>2, <1>3 DEF Live, Started, Open, Born
<1>6. /\ upstream \in Prompts /\ inbound \in Seq(Frame) /\ Live \in SUBSET Calls
      /\ stamps \in [Keys -> Nat] /\ stamps' \in [Keys -> Nat]
  BY DEF TypeOK, LinkTypeOK, Prompts, Live
<1>7. Ordered(upstream, inbound, Live, Started) /\ Paid(stamps, upstream, inbound, Live)
  BY DEF Counting
<1>8. ASSUME NEW k \in Keys
      PROVE  \/ stamps'[k] >= stamps[k] /\ \A x \in Live \ {} : KeyOf(x) # k
             \/ \E x \in Calls : stamps'[k] >= stamps[k] + 1
                                 /\ \A y \in Live \ {} : KeyOf(y) = k => y = x
  <2>1. stamps[k] \in Nat
    BY <1>6
  <2>2. CASE held[k] \in which
    <3>1. held[k] \in Calls /\ stamps'[k] = stamps[k] + 1
      BY <1>3, <1>4, <2>2
    <3>2. \A y \in Live : KeyOf(y) = k => y = held[k]
      BY <1>2
    <3>3. QED
      BY <2>1, <3>1, <3>2
  <2>3. CASE held[k] \notin which
    <3>1. stamps'[k] = stamps[k]
      BY <1>4, <2>1, <2>3
    <3>2. \A y \in Live : KeyOf(y) # k
      BY <1>2, <2>3
    <3>3. QED
      BY <2>1, <3>1, <3>2
  <2>4. QED
    BY <2>2, <2>3
<1>9. {} \in SUBSET Live
  OBVIOUS
<1>10. Paid(stamps', upstream, inbound, {})
  BY <1>6, <1>7, <1>8, <1>9, ClosingIsPaid
<1>11. Ordered(upstream, inbound, {}, Started)
  BY <1>6, <1>7, <1>9, ClosingKeepsOrder
<1>12. UNCHANGED <<upstream, inbound>>
  BY DEF Disconnect, ReadEnds
<1>13. Counting'
  BY <1>5, <1>10, <1>11, <1>12 DEF Counting
<1>14. OwnAnswer'
  BY <1>1 DEF OwnAnswer
<1>15. QED
  BY <1>13, <1>14

\* Abandonments expire where nothing is to come any more.
LEMMA CountingSweep ==
    ASSUME TypeOK, Counting, OwnAnswer, Counted, Sweep, TypeOK'
    PROVE  Counting' /\ OwnAnswer'
<1>1. PICK gone \in [Keys -> 0 .. Cardinality(Calls)] :
         /\ \A k \in Keys : gone[k] <= stamps[k] /\ (gone[k] > 0 => MayExpire(k))
         /\ stamps' = [k \in Keys |-> stamps[k] - gone[k]]
  BY DEF Sweep
<1>2. Cardinality(Calls) \in Nat
  BY BridgeAssumption, FS_CardinalityType
<1>3. UNCHANGED <<turn, upstream, inbound>>
  BY DEF Sweep, gatewayVars, linkVars
<1>4. SameTurns /\ Live' = Live /\ Started' = Started
  BY <1>3, SameTurnsAre DEF SameTurns
<1>5. Ordered(upstream, inbound, Live, Started) /\ Paid(stamps, upstream, inbound, Live)
  BY DEF Counting
<1>6. \A k \in Keys : stamps[k] \in Nat /\ stamps'[k] \in Nat
                      /\ (stamps'[k] = stamps[k] \/ Quiet(k))
  <2>1. "expiry" \notin faults
    BY DEF Counted
  <2>2. \A k \in Keys : gone[k] > 0 => Quiet(k)
    BY <1>1, <2>1 DEF MayExpire
  <2>3. \A k \in Keys : stamps[k] \in Nat /\ gone[k] \in Nat /\ stamps'[k] = stamps[k] - gone[k]
    BY <1>1, <1>2 DEF TypeOK
  <2>4. \A k \in Keys : gone[k] <= stamps[k]
    BY <1>1
  <2>5. QED
    BY <2>2, <2>3, <2>4
<1>7. ASSUME NEW k \in Keys, Quiet(k)
      PROVE  /\ Owing(k, upstream[k], inbound, Live) = {}
             /\ \A n \in 1 .. Len(inbound) :
                   KeyOf(inbound[n].prompt) = k => Behind(n, inbound, Live) = {}
  <2>1. \A p \in Calls : Waits(upstream[k], p) => p \in Live
    BY <1>7 DEF Quiet, Waits, Live
  <2>2. \A i \in 1 .. Len(inbound) : KeyOf(inbound[i].prompt) = k => inbound[i].prompt \in Live
    BY <1>7, FrameIs DEF Quiet, Live, TypeOK, LinkTypeOK
  <2>3. Len(inbound) \in Nat
    BY DEF TypeOK, LinkTypeOK
  <2>4. \A p : \A n \in 0 .. Len(inbound) : KeyOf(p) = k /\ Ends1(inbound, n, p) => p \in Live
    BY <2>2, <2>3 DEF Ends1
  <2>5. Owing(k, upstream[k], inbound, Live) = {}
    BY <2>1, <2>3, <2>4 DEF Owing
  <2>6. ASSUME NEW n \in 1 .. Len(inbound), KeyOf(inbound[n].prompt) = k
        PROVE  Behind(n, inbound, Live) = {}
    <3>1. n - 1 \in 0 .. Len(inbound)
      BY <2>3
    <3>2. QED
      BY <2>2, <2>4, <2>6, <3>1 DEF Behind
  <2>7. QED
    BY <2>5, <2>6
<1>8. Paid(stamps', upstream, inbound, Live)
  <2>1. ASSUME NEW k \in Keys
        PROVE  Cardinality(Owing(k, upstream[k], inbound, Live)) <= stamps'[k]
    <3>1. Cardinality(Owing(k, upstream[k], inbound, Live)) <= stamps[k]
      BY <1>5 DEF Paid
    <3>2. Quiet(k) => Cardinality(Owing(k, upstream[k], inbound, Live)) = 0
      BY <1>7, CountNone
    <3>3. QED
      BY <1>6, <3>1, <3>2
  <2>2. ASSUME NEW n \in 1 .. Len(inbound)
        PROVE  Cardinality(Behind(n, inbound, Live)) <= stamps'[KeyOf(inbound[n].prompt)]
    <3>1. PICK k \in Keys : k = KeyOf(inbound[n].prompt)
      BY FrameIs DEF TypeOK, LinkTypeOK
    <3>2. Cardinality(Behind(n, inbound, Live)) <= stamps[k]
      BY <1>5, <3>1 DEF Paid
    <3>3. Quiet(k) => Cardinality(Behind(n, inbound, Live)) = 0
      BY <1>7, <3>1, CountNone
    <3>4. QED
      BY <1>6, <3>1, <3>2, <3>3
  <2>3. QED
    BY <2>1, <2>2 DEF Paid
<1>9. Counting'
  BY <1>3, <1>4, <1>5, <1>8 DEF Counting
<1>10. QED
  BY <1>4, <1>9, OwnKept

\* What reaches the client of the frames of one step.
LEMMA PushIs ==
    ASSUME TypeOK, NEW k \in Keys, NEW g \in Frame, ToClient(k, <<g>>)
    PROVE  inbound' = inbound \/ inbound' = Append(inbound, g)
<1>1. inbound \in Seq(Frame)
  BY DEF TypeOK, LinkTypeOK
<1>2. inbound \o <<>> = inbound /\ inbound \o <<g>> = Append(inbound, g)
  BY <1>1
<1>3. CASE k \in tracked
  BY <1>2, <1>3 DEF ToClient, Push
<1>4. CASE k \notin tracked
  BY <1>2, <1>4 DEF ToClient, Push
<1>5. QED
  BY <1>3, <1>4

LEMMA CountingAgent ==
    ASSUME TypeOK, Counting, OwnAnswer, Counted, NEW k \in Keys, AgentStep(k)
    PROVE  Counting' /\ OwnAnswer'
<1>1. UNCHANGED <<turn, stamps, faults>>
  BY DEF AgentStep, AgentWrites, AgentFinishes, AgentFails, AgentInterrupted, AgentCrashes, bridgeVars
<1>2. SameTurns /\ Live' = Live /\ Started' = Started
  BY <1>1, SameTurnsAre DEF SameTurns
<1>3. OwnAnswer'
  BY <1>2, OwnKept
<1>4. /\ upstream \in Prompts /\ inbound \in Seq(Frame) /\ Live \in SUBSET Calls
      /\ stamps \in [Keys -> Nat] /\ upstream[k] \in Seq(Calls)
  BY DEF TypeOK, LinkTypeOK, Prompts, Live
<1>5. Ordered(upstream, inbound, Live, Started) /\ Paid(stamps, upstream, inbound, Live)
  BY DEF Counting
<1>6. ASSUME NEW u, NEW f, upstream' = u, inbound' = f,
             Ordered(u, f, Live, Started), Paid(stamps, u, f, Live)
      PROVE  Counting'
  BY <1>1, <1>2, <1>6 DEF Counting
<1>7. CASE AgentWrites(k)
  <2>1. PICK g \in Frame : g = FrameOf(Head(upstream[k]), "text")
    BY <1>4, <1>7, FrameTypes, TailIs DEF AgentWrites
  <2>2. g.prompt = Head(upstream[k]) /\ g.kind = "text"
    BY <2>1 DEF FrameOf
  <2>3. inbound' = inbound \/ inbound' = Append(inbound, g)
    BY <1>7, <2>1, PushIs DEF AgentWrites
  <2>4. upstream' = upstream /\ upstream[k] # <<>>
    BY <1>7 DEF AgentWrites
  <2>5. g.kind \notin Terminal
    BY <2>2 DEF Terminal
  <2>6. /\ Ordered(upstream, Append(inbound, g), Live, Started)
        /\ Paid(stamps, upstream, Append(inbound, g), Live)
    BY <1>4, <1>5, <2>2, <2>4, <2>5, PushingIsFine
  <2>7. QED
    BY <1>3, <1>5, <1>6, <2>3, <2>4, <2>6
<1>8. ASSUME upstream[k] # <<>>
      PROVE  LET u == [upstream EXCEPT ![k] = Tail(upstream[k])]
             IN /\ u \in Prompts
                /\ Ordered(u, inbound, Live, Started)
                /\ Paid(stamps, u, inbound, Live)
  BY <1>4, <1>5, <1>8, LosingIsFine
<1>9. CASE AgentFinishes(k)
  <2>1. PICK g \in Frame : g = FrameOf(Head(upstream[k]), "result")
    BY <1>4, <1>9, FrameTypes, TailIs DEF AgentFinishes
  <2>2. g.prompt = Head(upstream[k]) /\ g.kind = "result"
    BY <2>1 DEF FrameOf
  <2>3. inbound' = inbound \/ inbound' = Append(inbound, g)
    BY <1>9, <2>1, PushIs DEF AgentFinishes
  <2>4. upstream[k] # <<>> /\ upstream' = [upstream EXCEPT ![k] = Tail(upstream[k])]
    BY <1>9 DEF AgentFinishes, Ends
  <2>5. PICK u : u = [upstream EXCEPT ![k] = Tail(upstream[k])]
    OBVIOUS
  <2>6. u \in Prompts /\ Ordered(u, inbound, Live, Started) /\ Paid(stamps, u, inbound, Live)
    BY <1>8, <2>4, <2>5
  <2>7. \A j \in Keys : u[j] = IF j = k THEN Tail(upstream[k]) ELSE upstream[j]
    BY <1>4, <2>5 DEF Prompts
  <2>8. /\ Len(upstream[k]) \in Nat /\ Len(upstream[k]) >= 1
        /\ Len(Tail(upstream[k])) = Len(upstream[k]) - 1
        /\ Head(upstream[k]) = upstream[k][1]
        /\ \A i \in 1 .. Len(upstream[k]) - 1 : Tail(upstream[k])[i] = upstream[k][i + 1]
    BY <1>4, <2>4, TailIs
  <2>9. ASSUME NEW j \in Keys, NEW p, Waits(u[j], p) PROVE Waits(upstream[j], p)
    <3>1. CASE j # k
      BY <2>7, <2>9, <3>1
    <3>2. CASE j = k
      <4>1. PICK i \in 1 .. Len(upstream[k]) - 1 : Tail(upstream[k])[i] = p
        BY <2>7, <2>8, <2>9, <3>2 DEF Waits
      <4>2. i + 1 \in 1 .. Len(upstream[k]) /\ upstream[k][i + 1] = p
        BY <2>8, <4>1
      <4>3. QED
        BY <3>2, <4>2 DEF Waits
    <3>3. QED
      BY <3>1, <3>2
  <2>10. ~Waits(u[k], Head(upstream[k]))
    <3> SUFFICES ASSUME NEW i \in 1 .. Len(upstream[k]) - 1, upstream[k][i + 1] = upstream[k][1]
                 PROVE  FALSE
      BY <2>7, <2>8 DEF Waits
    <3>1. i + 1 \in 1 .. Len(upstream[k]) /\ 1 \in 1 .. Len(upstream[k]) /\ i + 1 # 1
      BY <2>8
    <3>2. QED
      BY <1>5, <3>1 DEF Ordered, Once
  <2>11. /\ Ordered(u, Append(inbound, g), Live, Started)
         /\ Paid(stamps, u, Append(inbound, g), Live)
    BY <1>4, <1>5, <2>2, <2>4, <2>6, <2>9, <2>10, PushingIsFine
  <2>12. QED
    BY <1>3, <1>6, <2>3, <2>4, <2>5, <2>6, <2>11
<1>10. ~AgentFails(k)
  BY DEF AgentFails, Counted
<1>11. CASE AgentInterrupted(k)
  <2>1. /\ upstream[k] # <<>> /\ upstream' = [upstream EXCEPT ![k] = Tail(upstream[k])]
        /\ inbound' = inbound
    BY <1>4, <1>11 DEF AgentInterrupted, Ends, linkVars
  <2>2. QED
    BY <1>3, <1>6, <1>8, <2>1
<1>12. CASE AgentCrashes(k)
  <2>1. upstream' = [upstream EXCEPT ![k] = <<>>] /\ inbound' = inbound
    BY <1>12 DEF AgentCrashes, linkVars
  <2>2. PICK rest : rest = <<>>
    OBVIOUS
  <2>3. /\ Ordered([upstream EXCEPT ![k] = rest], inbound, Live, Started)
        /\ Paid(stamps, [upstream EXCEPT ![k] = rest], inbound, Live)
    BY <1>4, <1>5, <2>2, LosingIsFine
  <2>4. QED
    BY <1>3, <1>6, <2>1, <2>2, <2>3
<1>13. QED
  BY <1>7, <1>9, <1>10, <1>11, <1>12 DEF AgentStep

LEMMA CountingLink ==
    ASSUME TypeOK, Counting, OwnAnswer, Counted, LinkStep
    PROVE  Counting' /\ OwnAnswer'
<1>1. UNCHANGED <<turn, stamps, upstream, faults>>
  BY DEF LinkStep, bridgeVars, gatewayVars
<1>2. SameTurns /\ Live' = Live /\ Started' = Started
  BY <1>1, SameTurnsAre DEF SameTurns
<1>3. Ordered(upstream, inbound, Live, Started) /\ Paid(stamps, upstream, inbound, Live)
  BY DEF Counting
<1>4. /\ upstream \in Prompts /\ inbound \in Seq(Frame) /\ Live \in SUBSET Calls
      /\ stamps \in [Keys -> Nat]
  BY DEF TypeOK, LinkTypeOK, Prompts, Live
<1>5. CASE LinkDies
  <2>1. PICK n \in 0 .. Len(inbound) : inbound' = SubSeq(inbound, 1, n)
    BY <1>5 DEF LinkDies
  <2>2. Ordered(upstream, inbound', Live, Started) /\ Paid(stamps, upstream, inbound', Live)
    BY <1>3, <1>4, <2>1, CuttingIsFine
  <2>3. QED
    BY <1>1, <1>2, <2>2, OwnKept DEF Counting
<1>6. CASE Connect \/ Acknowledged
  BY <1>1, <1>2, <1>6, CountingSame DEF Connect, Acknowledged
<1>7. QED
  BY <1>5, <1>6 DEF LinkStep

\* One frame: swallowed as long as an abandonment is counted, and otherwise of
\* the turn its key holds.
LEMMA CountingFrame ==
    ASSUME TypeOK, Parking, Locking, Counting, OwnAnswer, Counted, HandleFrame
    PROVE  Counting' /\ OwnAnswer'
<1> DEFINE first == Head(inbound)
           key == KeyOf(first.prompt)
<1>1. /\ inbound # <<>> /\ inbound' = Tail(inbound)
      /\ UNCHANGED <<upstream, held, faults, closing>>
      /\ \/ stamps[key] > 0 /\ Swallow(key, first)
         \/ stamps[key] = 0 /\ held[key] = None /\ UNCHANGED <<turn, stamps>>
         \/ stamps[key] = 0 /\ held[key] # None /\ Apply(held[key], first) /\ UNCHANGED stamps
  BY DEF HandleFrame, TakeFrame, gatewayVars
<1>2. /\ upstream \in Prompts /\ inbound \in Seq(Frame) /\ Live \in SUBSET Calls
      /\ stamps \in [Keys -> Nat]
  BY DEF TypeOK, LinkTypeOK, Prompts, Live
<1>3. Ordered(upstream, inbound, Live, Started) /\ Paid(stamps, upstream, inbound, Live)
  BY DEF Counting
<1>4. 1 \in 1 .. Len(inbound) /\ inbound[1] = first
  BY <1>1, <1>2, TailIs
<1>5. /\ first \in Frame /\ first.prompt \in Calls /\ key \in Keys
      /\ first.kind \in {"text", "result", "error"}
  BY <1>2, <1>4, FrameIs
<1>6. PICK g : g = Tail(inbound)
  OBVIOUS
<1>7. g \in Seq(Frame) /\ Ordered(upstream, g, Live, Started)
  BY <1>1, <1>2, <1>3, <1>6, TailIs, TakingKeepsOrder
<1>8. Paid(stamps, upstream, g, Live)
  <2>1. /\ \A k \in Keys : Owing(k, upstream[k], g, Live) \subseteq Owing(k, upstream[k], inbound, Live)
        /\ \A n \in 1 .. Len(g) :
              \E m \in 1 .. Len(inbound) : /\ KeyOf(inbound[m].prompt) = KeyOf(g[n].prompt)
                                           /\ Behind(n, g, Live) \subseteq Behind(m, inbound, Live)
    BY <1>1, <1>2, <1>6, TakingOwes
  <2>2. QED
    BY <1>2, <1>3, <1>7, <2>1, LessIsPaid
<1> HIDE DEF first
<1>9. CASE stamps[key] > 0 /\ Swallow(key, first)
  <2>1. SameTurns /\ Live' = Live /\ Started' = Started
    BY <1>9, SameTurnsAre DEF Swallow, SameTurns
  <2>2. CASE first.kind \in Terminal
    <3>1. stamps' = [stamps EXCEPT ![key] = @ - 1]
      BY <1>9, <2>2 DEF Swallow
    <3>2. Paid(stamps', upstream, g, Live)
      BY <1>1, <1>2, <1>3, <1>6, <1>9, <2>2, <3>1, SwallowingIsPaid DEF first
    <3>3. QED
      BY <1>1, <1>6, <1>7, <2>1, <3>2, OwnKept DEF Counting
  <2>3. CASE first.kind \notin Terminal
    <3>1. stamps' = stamps
      BY <1>2, <1>9, <2>3 DEF Swallow
    <3>2. QED
      BY <1>1, <1>6, <1>7, <1>8, <2>1, <3>1, OwnKept DEF Counting
  <2>4. QED
    BY <2>2, <2>3
<1>10. ASSUME stamps[key] = 0 PROVE first.prompt \in Live /\ held[key] = first.prompt
  <2>1. first.prompt \in Live
    BY <1>1, <1>2, <1>3, <1>10, ThroughIsOpen DEF first
  <2>2. QED
    BY <2>1 DEF Locking, Counted, Live
<1>11. CASE stamps[key] = 0 /\ Apply(held[key], first) /\ UNCHANGED stamps
  <2>1. PICK t \in Calls : t = first.prompt /\ Open(t)
    BY <1>10, <1>11 DEF Live
  <2>2. Apply(t, first)
    BY <1>10, <1>11, <2>1
  <2>3. CASE first.kind = "text"
    <3>1. turn' = [turn EXCEPT ![t].texts = Append(@, t)]
      BY <2>1, <2>2, <2>3 DEF Apply
    <3>2. turn[t].texts \in Seq(Calls)
      BY DEF TypeOK, Turn
    <3>3. \A x \in Calls : /\ turn'[x].state = turn[x].state /\ turn'[x].by = turn[x].by
                           /\ turn'[x].texts = IF x = t THEN Append(turn[t].texts, t)
                                                        ELSE turn[x].texts
      BY <3>1 DEF TypeOK, Turn
    <3>4. Live' = Live /\ Started' = Started
      BY <3>3 DEF Live, Started, Open, Born
    <3>5. Counting'
      BY <1>1, <1>6, <1>7, <1>8, <1>11, <3>4 DEF Counting
    <3>6. ASSUME NEW x \in Calls
          PROVE  /\ turn'[x].by \in {x, None}
                 /\ \A i \in 1 .. Len(turn'[x].texts) : turn'[x].texts[i] = x
      <4>1. /\ turn[x].by \in {x, None}
            /\ \A i \in 1 .. Len(turn[x].texts) : turn[x].texts[i] = x
        BY DEF OwnAnswer
      <4>2. CASE x = t
        <5>1. PICK ts \in Seq(Calls) : ts = turn[t].texts
          BY <3>2
        <5>2. /\ Len(ts) \in Nat /\ Len(Append(ts, t)) = Len(ts) + 1
              /\ \A i \in 1 .. Len(ts) : Append(ts, t)[i] = ts[i]
              /\ Append(ts, t)[Len(ts) + 1] = t
          BY AppendIs
        <5>3. \A i \in 1 .. Len(ts) + 1 : Append(ts, t)[i] = t
          BY <4>1, <4>2, <5>1, <5>2
        <5>4. turn'[x].texts = Append(ts, t)
          BY <3>3, <4>2, <5>1
        <5>5. QED
          BY <3>3, <4>1, <5>2, <5>3, <5>4
      <4>3. CASE x # t
        BY <3>3, <4>1, <4>3
      <4>4. QED
        BY <4>2, <4>3
    <3>7. QED
      BY <3>5, <3>6 DEF OwnAnswer
  <2>4. CASE first.kind \in Terminal
    <3>1. \A x \in Calls : /\ x # t => turn'[x] = turn[x]
                           /\ turn'[t].state \in {"reply", "failed"}
                           /\ turn'[t].by = t /\ turn'[t].texts = turn[t].texts
      <4>1. \/ turn' = [turn EXCEPT ![t].state = "reply", ![t].by = t]
            \/ turn' = [turn EXCEPT ![t].state = "failed", ![t].by = t]
        BY <2>1, <2>2, <2>4 DEF Apply, Settle, Terminal
      <4>2. QED
        BY <4>1 DEF TypeOK, Turn
    <3>2. Live' = Live \ {t} /\ Started' = Started
      BY <2>1, <3>1 DEF Live, Started, Open, Born
    <3>3. Paid(stamps, upstream, g, Live \ {t})
      BY <1>1, <1>2, <1>3, <1>6, <2>1, <2>4, SettlingIsPaid DEF first
    <3>4. Ordered(upstream, g, Live \ {t}, Started)
      BY <1>2, <1>7, ClosingKeepsOrder
    <3>5. Counting'
      BY <1>1, <1>6, <1>11, <3>2, <3>3, <3>4 DEF Counting
    <3>6. OwnAnswer'
      BY <3>1 DEF OwnAnswer
    <3>7. QED
      BY <3>5, <3>6
  <2>5. QED
    BY <1>5, <2>3, <2>4 DEF Terminal
<1>12. CASE stamps[key] = 0 /\ held[key] = None
  BY <1>5, <1>10, <1>12, BridgeAssumption
<1>13. QED
  BY <1>1, <1>9, <1>11, <1>12 DEF first

LEMMA CountingInit == Init => Counting /\ OwnAnswer
<1> SUFFICES ASSUME Init PROVE Counting /\ OwnAnswer
  OBVIOUS
<1>1. \A k \in Keys : upstream[k] = <<>> /\ stamps[k] = 0
  BY DEF Init
<1>2. inbound = <<>> /\ Len(inbound) = 0
  BY DEF Init, LinkInit
<1>3. \A k \in Keys : \A i \in 1 .. Len(upstream[k]) : FALSE
  BY <1>1
<1>4. \A i \in 1 .. Len(inbound) : FALSE
  BY <1>2
<1>5. Ordered(upstream, inbound, Live, Started)
  BY <1>3, <1>4 DEF Ordered, Known, Once, Ended, Newest
<1>6. ASSUME NEW k \in Keys PROVE Cardinality(Owing(k, upstream[k], inbound, Live)) <= stamps[k]
  <2>1. Owing(k, upstream[k], inbound, Live) = {}
    BY <1>3, <1>4 DEF Owing, Waits, Ends1
  <2>2. QED
    BY <1>1, <2>1, CountNone
<1>7. Paid(stamps, upstream, inbound, Live)
  BY <1>4, <1>6 DEF Paid
<1>8. \A t \in Calls : turn[t].by = None /\ turn[t].texts = <<>>
  BY DEF Init, NewTurn
<1>9. QED
  BY <1>5, <1>7, <1>8 DEF Counting, OwnAnswer

LEMMA CountingStep ==
    ASSUME TypeOK, Parking, Locking, Counting, OwnAnswer, [Next]_vars, TypeOK'
    PROVE  Counting' /\ OwnAnswer'
<1>1. Counted' => Counted
  <2>1. CASE \E c \in Calls : CallStep(c)
    BY <2>1
    DEF CallStep, Reject, Ask, TakeLock, Locked, GraceMet, GraceOver, Granted, Sent, CancelSend,
        Cancel, SoftDeadline, Wake, Counted, linkVars, gatewayVars
  <2>2. CASE \/ \E t \in Calls : HardDeadline(t) \/ ParkedAges(t)
             \/ \E k \in Keys : AgentStep(k)
             \/ Sweep \/ HandleFrame \/ Disconnect \/ Stop \/ LinkStep
             \/ UNCHANGED vars
    <3>1. faults' = faults
      BY <2>2, LockOutside
    <3>2. closing' = closing \/ Stop
      BY <2>2
      DEF HardDeadline, ParkedAges, AgentStep, AgentWrites, AgentFinishes, AgentFails,
          AgentInterrupted, AgentCrashes, ToClient, Push, Sweep, HandleFrame, TakeFrame,
          Disconnect, ReadEnds, LinkStep, Connect, Acknowledged, LinkDies, vars, linkVars
    <3>3. QED
      BY <3>1, <3>2 DEF Stop, CloseLink, Counted
  <2>3. QED
    BY <2>1, <2>2 DEF Next
<1>2. SUFFICES ASSUME Counted PROVE Counting' /\ OwnAnswer'
  BY <1>1 DEF Counting, OwnAnswer
<1>3. CASE \E c \in Calls : CallStep(c)
  BY <1>2, <1>3, CountingCall
<1>4. ASSUME NEW t \in Calls, HardDeadline(t) PROVE Counting' /\ OwnAnswer'
  BY <1>2, <1>4, CountingDeadline
<1>5. ASSUME NEW t \in Calls, ParkedAges(t) PROVE Counting' /\ OwnAnswer'
  <2>1. SameTurns
    BY <1>5 DEF ParkedAges, SameTurns, TypeOK, Turn
  <2>2. UNCHANGED <<stamps, upstream, inbound>>
    BY <1>5 DEF ParkedAges, gatewayVars, linkVars
  <2>3. QED
    BY <1>1, <2>1, <2>2, CountingSame
<1>6. ASSUME NEW k \in Keys, AgentStep(k) PROVE Counting' /\ OwnAnswer'
  BY <1>2, <1>6, CountingAgent
<1>7. CASE Sweep
  BY <1>2, <1>7, CountingSweep
<1>8. CASE HandleFrame
  BY <1>2, <1>8, CountingFrame
<1>9. CASE Disconnect
  BY <1>2, <1>9, CountingDisconnect
<1>10. CASE Stop
  BY <1>10 DEF Stop, CloseLink, Counting, OwnAnswer, Counted
<1>11. CASE LinkStep
  BY <1>2, <1>11, CountingLink
<1>12. CASE UNCHANGED vars
  <2>1. SameTurns /\ UNCHANGED <<stamps, upstream, inbound>>
    BY <1>12 DEF SameTurns, vars, linkVars, bridgeVars, gatewayVars
  <2>2. QED
    BY <1>1, <2>1, CountingSame
<1>13. QED
  BY <1>3, <1>4, <1>5, <1>6, <1>7, <1>8, <1>9, <1>10, <1>11, <1>12 DEF Next

\* Terminal frames that may still come are counted by the prompts they end.
LEMMA GivenUpIsOwing ==
    ASSUME TypeOK, Ordered(upstream, inbound, Live, Started), NEW k \in Keys
    PROVE  /\ GivenUp(k) <= Cardinality(Owing(k, upstream[k], inbound, Live))
           /\ GivenUp(k) \in Nat
<1>1. PICK u \in Seq(Calls) : u = upstream[k]
  BY DEF TypeOK
<1>2. PICK f \in Seq(Frame) : f = inbound
  BY DEF TypeOK, LinkTypeOK
<1> DEFINE I == {i \in 1 .. Len(u) : ~Open(u[i])}
           J == {i \in 1 .. Len(f) : /\ KeyOf(f[i].prompt) = k
                                     /\ f[i].kind \in Terminal
                                     /\ ~Open(f[i].prompt)}
           P == {p \in Calls \ Live : KeyOf(p) = k /\ Waits(u, p)}
           Q == {p \in Calls \ Live : KeyOf(p) = k /\ Ends1(f, Len(f), p)}
<1>3. /\ IsFiniteSet(P) /\ IsFiniteSet(Q)
      /\ Cardinality(P) \in Nat /\ Cardinality(Q) \in Nat
  <2>1. P \in SUBSET Calls /\ Q \in SUBSET Calls
    OBVIOUS
  <2>2. IsFiniteSet(P) /\ IsFiniteSet(Q)
    BY <2>1, BridgeAssumption, FS_Subset
  <2>3. QED
    BY <2>2, FS_CardinalityType
<1>4. Cardinality(I) <= Cardinality(P) /\ Cardinality(I) \in Nat
  <2> DEFINE m == [i \in I |-> u[i]]
  <2>1. \A i \in I : u[i] \in P
    BY <1>1 DEF Ordered, Known, Live, Waits
  <2>2. \A i, j \in I : u[i] = u[j] => i = j
    BY <1>1 DEF Ordered, Once
  <2> HIDE DEF I, P
  <2>3. m \in Injection(I, P)
    BY <2>1, <2>2 DEF Injection, IsInjective
  <2>4. IsFiniteSet(I) /\ Cardinality(I) <= Cardinality(P)
    BY <1>3, <2>3, FS_Injection
  <2>5. QED
    BY <2>4, FS_CardinalityType
<1>5. Cardinality(J) <= Cardinality(Q) /\ Cardinality(J) \in Nat
  <2> DEFINE m == [i \in J |-> f[i].prompt]
  <2>1. \A i \in J : f[i].prompt \in Q
    BY FrameIs DEF Ends1, Live
  <2>2. ASSUME NEW i \in J, NEW j \in J, f[i].prompt = f[j].prompt PROVE i = j
    <3>1. i \in 1 .. Len(f) /\ j \in 1 .. Len(f) /\ ~(i < j) /\ ~(j < i)
      BY <1>2, <2>2 DEF Ordered, Ended
    <3>2. QED
      BY <3>1
  <2> HIDE DEF J, Q
  <2>3. m \in Injection(J, Q)
    BY <2>1, <2>2 DEF Injection, IsInjective
  <2>4. IsFiniteSet(J) /\ Cardinality(J) <= Cardinality(Q)
    BY <1>3, <2>3, FS_Injection
  <2>5. QED
    BY <2>4, FS_CardinalityType
<1>6. P \cap Q = {} /\ P \cup Q = Owing(k, u, f, Live)
  <2>1. ASSUME NEW p \in P \cap Q PROVE FALSE
    <3>1. PICK i \in 1 .. Len(f) : f[i].prompt = p /\ f[i].kind \in Terminal
      BY DEF Ends1
    <3>2. ~Waits(upstream[KeyOf(p)], p)
      BY <1>2, <3>1 DEF Ordered, Ended
    <3>3. QED
      BY <1>1, <3>2
  <2>2. QED
    BY <2>1 DEF Owing
<1> HIDE DEF P, Q
<1>7. Cardinality(P \cup Q) = Cardinality(P) + Cardinality(Q)
  <2>1. Cardinality(P \cup Q) = Cardinality(P) + Cardinality(Q) - Cardinality(P \cap Q)
    BY <1>3, FS_Union
  <2>2. Cardinality(P \cap Q) = 0
    BY <1>6, CountNone
  <2>3. QED
    BY <1>3, <2>1, <2>2
<1>8. GivenUp(k) = Cardinality(I) + Cardinality(J)
  BY <1>1, <1>2 DEF GivenUp
<1> HIDE DEF I, J
<1>9. GivenUp(k) <= Cardinality(P \cup Q) /\ GivenUp(k) \in Nat
  BY <1>3, <1>4, <1>5, <1>7, <1>8
<1>10. P \cup Q = Owing(k, upstream[k], inbound, Live)
  BY <1>1, <1>2, <1>6
<1>11. QED
  BY <1>9, <1>10

-----------------------------------------------------------------------------
\* The invariant, and what follows from it.

LEMMA BridgeInvariant == Spec => []IInv
<1>1. Init => IInv
  BY TypeInit, ParkingInit, LockingInit, CountingInit DEF IInv
<1>2. IInv /\ [Next]_vars => IInv'
  BY TypeStep, ParkingStep, LockingStep, CountingStep DEF IInv
<1>3. QED
  BY <1>1, <1>2, PTL DEF Spec

\* No caller receives the answer to another's question, whatever deadlines
\* pass, connections break and answers arrive late; a parked outcome is
\* collected by one call, which did not start it. (ask, _on_outbound, _abandon)
THEOREM AnswersAlwaysApart == Spec => []AnswersApart
<1>1. IInv => AnswersApart
  BY DEF IInv, Parking, AnswersApart, CollectedOnce
<1>2. QED
  BY <1>1, BridgeInvariant, PTL

\* Every terminal frame that may still come for a turn given up is counted as
\* an abandonment, so that it will be swallowed; and a turn that is running is
\* the one its key holds, so that its frames and polls find it. (_abandon,
\* _expire_abandoned, _drop, _expire_parked)
THEOREM TurnsAlwaysCovered == Spec => []TurnsCovered
<1>1. ASSUME TypeOK, Counting PROVE StampsCover
  <2> SUFFICES ASSUME Counted, NEW k \in Keys PROVE stamps[k] >= GivenUp(k)
    BY DEF StampsCover
  <2>1. Ordered(upstream, inbound, Live, Started) /\ Paid(stamps, upstream, inbound, Live)
    BY <1>1 DEF Counting
  <2>2. Cardinality(Owing(k, upstream[k], inbound, Live)) <= stamps[k]
    BY <2>1 DEF Paid
  <2>3. GivenUp(k) <= Cardinality(Owing(k, upstream[k], inbound, Live)) /\ GivenUp(k) \in Nat
    BY <1>1, <2>1, GivenUpIsOwing
  <2>4. /\ stamps[k] \in Nat
        /\ Cardinality(Owing(k, upstream[k], inbound, Live)) \in Nat
    <3>1. Owing(k, upstream[k], inbound, Live) \in SUBSET Calls
      BY DEF Owing
    <3>2. QED
      BY <1>1, <3>1, CountSub DEF TypeOK
  <2>5. QED
    BY <2>2, <2>3, <2>4
<1>2. Locking => OpenTurnIsHeld
  BY DEF Locking, OpenTurnIsHeld
<1>3. IInv => TurnsCovered
  BY <1>1, <1>2 DEF IInv, TurnsCovered
<1>4. QED
  BY <1>3, BridgeInvariant, PTL
=============================================================================
