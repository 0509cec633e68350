--------------------------- MODULE McpAuthProofs ---------------------------
(***************************************************************************)
(* Theorems about McpAuth, for every set of clients and transactions, all  *)
(* limits and lifetimes, and whatever saves fail.                          *)
(***************************************************************************)
EXTENDS McpAuth, FiniteSetTheorems, SequenceTheorems, TLAPS

-----------------------------------------------------------------------------
\* What a handler saves.

LEMMA Stages0 == Range(<<>>) = {}
  BY DEF Range

LEMMA Stages1 == ASSUME NEW a PROVE Range(<<a>>) = {a} /\ Last(<<a>>) = a
  BY DEF Range, Last

LEMMA Stages2 == ASSUME NEW a, NEW b PROVE Range(<<a, b>>) = {a, b} /\ Last(<<a, b>>) = b
  BY DEF Range, Last

LEMMA Stages4 ==
    ASSUME NEW a, NEW b, NEW c, NEW d
    PROVE  /\ Range(<<a, b>> \o <<c, d>>) = {a, b, c, d}
           /\ Last(<<a, b>> \o <<c, d>>) = d
<1>1. <<a, b>> \in Seq({a, b, c, d}) /\ <<c, d>> \in Seq({a, b, c, d})
  OBVIOUS
<1>. DEFINE both == <<a, b>> \o <<c, d>>
<1>3. both \in Seq({a, b, c, d}) /\ Len(both) = 4
  BY <1>1, ConcatProperties
<1>4. both[1] = a /\ both[2] = b /\ both[3] = c /\ both[4] = d
  BY <1>1, ConcatProperties
<1>. HIDE DEF both
<1>5. DOMAIN both = 1 .. 4
  BY <1>3
<1>6. QED
  BY <1>3, <1>4, <1>5 DEF Range, Last

\* Whatever holds of the file and of every stage holds of the store and the
\* file afterwards, but for the cleaning at a start.
LEMMA SavesIn ==
    ASSUME NEW G, disk \in G, NEW stages, Range(stages) \subseteq G, Last(stages) \in G,
           Saves(stages)
    PROVE  store' \in G /\ disk' \in G /\ store' = Last(stages)
  BY DEF Saves

LEMMA RestartsIn ==
    ASSUME NEW G, disk \in G, NEW stages, Range(stages) \subseteq G, Restarts(stages)
    PROVE  \E s \in G : store' = Pruned(s) /\ disk' = Pruned(s)
  BY DEF Restarts

LEMMA OneMore ==
    ASSUME NEW S, NEW e, NEW n \in Nat, IsFiniteSet(S), Cardinality(S) < n
    PROVE  IsFiniteSet(S \cup {e}) /\ Cardinality(S \cup {e}) <= n
<1>1. Cardinality(S) \in Nat
  BY FS_CardinalityType
<1>2. CASE e \in S
  <2>1. S \cup {e} = S
    BY <1>2
  <2>2. QED
    BY <1>1, <2>1
<1>3. CASE e \notin S
  <2>1. IsFiniteSet(S \cup {e}) /\ Cardinality(S \cup {e}) = Cardinality(S) + 1
    BY <1>3, FS_AddElement
  <2>2. QED
    BY <1>1, <2>1
<1>4. QED
  BY <1>2, <1>3

LEMMA ConstantsAreNat ==
    /\ MaxClients \in Nat \ {0} /\ MaxPending \in Nat \ {0} /\ MaxFailures \in Nat \ {0}
    /\ PendingTtl \in Nat /\ CodeTtl \in Nat /\ CompletedTtl \in Nat /\ AccessTtl \in Nat
    /\ RefreshTtl \in Nat /\ ClientTtl \in Nat /\ Lockout \in Nat /\ MaxTime \in Nat \ {0}
  BY AuthAssumption

LEMMA TimesAreLater ==
    /\ 0 \in Later /\ 1 \in Time
    /\ \A t \in Time : /\ t \in Later /\ t + CodeTtl \in Later /\ t + CompletedTtl \in Later
                       /\ t + AccessTtl \in Later /\ t + RefreshTtl \in Later
                       /\ t + Lockout \in Later
  BY ConstantsAreNat DEF Time, Later

-----------------------------------------------------------------------------
\* Types, and that whoever holds a token is registered.

Sound(s) ==
    /\ s \in Store
    /\ IsFiniteSet(s.clients) /\ Cardinality(s.clients) <= MaxClients
    /\ Tokened(s) \subseteq Ids(s.clients)
SoundStores == {s \in Store : Sound(s)}

TInv ==
    /\ TypeOK
    /\ {store, disk} \subseteq SoundStores
    /\ IsFiniteSet(pending)
    /\ lockedTill = 0 => failed < MaxFailures
    /\ now # 0

LEMMA SameStores ==
    ASSUME limits' = limits
    PROVE  Store' = Store /\ SoundStores' = SoundStores
  BY DEF Store, Access, Refresh, Pairs, SoundStores, Sound, Store

LEMMA LimitsAreNat ==
    ASSUME TInv
    PROVE  limits.pairs \in Nat /\ limits.restarts \in Nat /\ limits.failing \in BOOLEAN
  BY AuthAssumption DEF TInv, TypeOK

\* A smaller store with the same clients, or without some that hold no token.
LEMMA SmallerSound ==
    ASSUME NEW s \in SoundStores, NEW r \in Store,
           r.clients \subseteq s.clients, r.access \subseteq s.access, r.refresh \subseteq s.refresh,
           \A c \in s.clients : c.id \in Tokened(r) => c \in r.clients
    PROVE  r \in SoundStores
<1>1. IsFiniteSet(r.clients) /\ Cardinality(r.clients) <= Cardinality(s.clients)
  BY FS_Subset DEF SoundStores, Sound
<1>2. Cardinality(r.clients) \in Nat /\ Cardinality(s.clients) \in Nat
  BY <1>1, FS_CardinalityType DEF SoundStores, Sound
<1>3. Cardinality(r.clients) <= MaxClients
  BY <1>1, <1>2, AuthAssumption DEF SoundStores, Sound
<1>4. Tokened(r) \subseteq Ids(r.clients)
  BY DEF SoundStores, Sound, Tokened, Ids
<1>5. QED
  BY <1>1, <1>3, <1>4 DEF SoundStores, Sound

LEMMA PrunedSound ==
    ASSUME NEW s \in SoundStores
    PROVE  Pruned(s) \in SoundStores
<1>1. /\ Pruned(s) \in Store
      /\ Pruned(s).clients \subseteq s.clients
      /\ Pruned(s).access \subseteq s.access
      /\ Pruned(s).refresh \subseteq s.refresh
  BY DEF Pruned, SoundStores, Store
<1>2. \A c \in s.clients : c.id \in Tokened(Pruned(s)) => c \in Pruned(s).clients
  BY DEF Pruned, SoundStores, Store, Tokened
<1>3. QED
  BY <1>1, <1>2, SmallerSound

LEMMA WithoutSound ==
    ASSUME NEW s \in SoundStores, NEW pair
    PROVE  WithoutRefresh(s, pair) \in SoundStores /\ WithoutAccess(s, pair) \in SoundStores
<1>1. WithoutRefresh(s, pair) \in Store /\ WithoutAccess(s, pair) \in Store
  BY DEF WithoutRefresh, WithoutAccess, SoundStores, Store
<1>2. QED
  BY <1>1, SmallerSound DEF WithoutRefresh, WithoutAccess, SoundStores, Store

\* The next pair of tokens.
IssuedFirst(s, c, x) == [s EXCEPT !.access = @ \cup {NewAccess(c, x)}]
IssuedSecond(s, c, x, absolute) ==
    [IssuedFirst(s, c, x) EXCEPT !.refresh = @ \cup {NewRefresh(c, x, absolute)}]

LEMMA IssuedIs ==
    ASSUME NEW s, NEW c, NEW x, NEW absolute
    PROVE  Issued(s, c, x, absolute) = <<IssuedFirst(s, c, x), IssuedSecond(s, c, x, absolute)>>
  BY DEF Issued, IssuedFirst, IssuedSecond

LEMMA NewTokens ==
    ASSUME TInv, UsePair, NEW c \in Clients, NEW x \in Txns, NEW absolute \in Later
    PROVE  NewAccess(c, x) \in Access /\ NewRefresh(c, x, absolute) \in Refresh
<1>1. used.pairs + 1 \in Pairs
  <2>1. used.pairs \in 0 .. limits.pairs /\ limits.pairs \in Nat
    BY LimitsAreNat DEF TInv, TypeOK
  <2>2. used.pairs < limits.pairs
    BY DEF UsePair
  <2>3. QED
    BY <2>1, <2>2 DEF Pairs
<1>2. now + AccessTtl \in Later
  BY TimesAreLater DEF TInv, TypeOK
<1>3. QED
  BY <1>1, <1>2 DEF NewAccess, NewRefresh, Access, Refresh

LEMMA IssuedSound ==
    ASSUME TInv, UsePair, NEW s \in SoundStores, NEW c \in Ids(s.clients), NEW x \in Txns,
           NEW absolute \in Later
    PROVE  IssuedFirst(s, c, x) \in SoundStores /\ IssuedSecond(s, c, x, absolute) \in SoundStores
<1>1. c \in Clients
  BY DEF SoundStores, Store, Client, Ids
<1>2. NewAccess(c, x) \in Access /\ NewRefresh(c, x, absolute) \in Refresh
  BY <1>1, NewTokens
<1>3. NewAccess(c, x).client = c /\ NewRefresh(c, x, absolute).client = c
  BY DEF NewAccess, NewRefresh
<1>4. IssuedFirst(s, c, x) \in SoundStores
  BY <1>2, <1>3 DEF IssuedFirst, SoundStores, Sound, Store, Tokened
<1> DEFINE first == IssuedFirst(s, c, x)
           second == [first EXCEPT !.refresh = @ \cup {NewRefresh(c, x, absolute)}]
<1>5. c \in Ids(first.clients) /\ first \in SoundStores
  BY <1>4 DEF IssuedFirst, SoundStores, Store
<1> HIDE DEF first
<1>6. second \in SoundStores
  BY <1>2, <1>3, <1>5 DEF SoundStores, Sound, Store, Tokened
<1>7. QED
  BY <1>4, <1>6 DEF first, IssuedSecond

\* What the type of the names given out amounts to.
Used == [clients : SUBSET Clients, txns : SUBSET Txns, pairs : 0 .. limits.pairs]

LEMMA UsedTypes ==
    ASSUME TInv, UsePair
    PROVE  used' \in Used
<1>1. used \in Used /\ limits.pairs \in Nat
  BY LimitsAreNat DEF TInv, TypeOK, Used
<1>2. used.pairs < limits.pairs /\ used' = [used EXCEPT !.pairs = @ + 1]
  BY DEF UsePair
<1>3. used.pairs + 1 \in 0 .. limits.pairs
  BY <1>1, <1>2 DEF Used
<1>4. QED
  BY <1>1, <1>2, <1>3 DEF Used

LEMMA InitTypes == Init => TInv
<1> SUFFICES ASSUME Init PROVE TInv
  OBVIOUS
<1>1. IsFiniteSet({}) /\ Cardinality({}) = 0
  BY FS_EmptySet
<1>2. Empty \in SoundStores
  BY <1>1, ConstantsAreNat DEF Empty, SoundStores, Sound, Store, Tokened
<1>3. QED
  <2>1. limits \in [clients : Nat, txns : Nat, pairs : Nat, guesses : Nat, restarts : Nat, failing : BOOLEAN]
    BY AuthAssumption DEF Init
  <2>2. 0 \in Later /\ 1 \in Time
    BY TimesAreLater
  <2>3. store \in SoundStores /\ disk \in SoundStores /\ Cardinality(store.clients) <= MaxClients
        /\ store \in Store /\ disk \in Store
    BY <1>2 DEF Init, SoundStores, Sound
  <2>4. used \in [clients : SUBSET Clients, txns : SUBSET Txns, pairs : 0 .. limits.pairs]
        /\ restarts \in 0 .. limits.restarts
    BY <2>1 DEF Init
  <2>5. 0 \in Time
    BY ConstantsAreNat DEF Time
  <2>6. guesses \in Seq(Time) /\ loginAt \in [Txns -> Time]
    BY <2>5 DEF Init
  <2>7. failed \in 0 .. MaxFailures /\ failed < MaxFailures /\ Cardinality(pending) <= MaxPending
    BY <1>1, ConstantsAreNat DEF Init
  <2>8. TypeOK
    BY <2>2, <2>3, <2>4, <2>5, <2>6, <2>7 DEF Init, TypeOK
  <2>9. {store, disk} \subseteq SoundStores /\ IsFiniteSet(pending) /\ now # 0
    BY <1>1, <2>3 DEF Init
  <2>10. QED
    BY <2>7, <2>8, <2>9 DEF TInv

LEMMA RestartsTypes ==
    ASSUME TInv, limits' = limits, NEW stages, Range(stages) \subseteq SoundStores,
           Restarts(stages), used' \in Used, loginAt' \in [Txns -> Time], spent' \in SUBSET Pairs
    PROVE  TInv'
<1>1. store' \in SoundStores /\ disk' \in SoundStores
  BY RestartsIn, PrunedSound DEF TInv
<1>2. store' \in SoundStores' /\ disk' \in SoundStores'
  BY <1>1, SameStores
<1>3. IsFiniteSet({}) /\ Cardinality({}) = 0
  BY FS_EmptySet
<1>4. restarts' \in 0 .. limits'.restarts
  <2>1. restarts \in 0 .. limits.restarts /\ limits.restarts \in Nat
    BY LimitsAreNat DEF TInv, TypeOK
  <2>2. restarts < limits.restarts /\ restarts' = restarts + 1
    BY DEF Restarts
  <2>3. QED
    BY <2>1, <2>2
<1>5. QED
  BY <1>2, <1>3, <1>4, ConstantsAreNat
     DEF Restarts, TInv, TypeOK, SoundStores, Sound, Used, Pairs, Later, Time

LEMMA ServeTypes ==
    ASSUME TInv, limits' = limits, NEW stages, Range(stages) \subseteq SoundStores,
           Last(stages) \in SoundStores, NEW kept \in SUBSET codes, Serve(stages, kept),
           used' \in Used, loginAt' \in [Txns -> Time], spent' \in SUBSET Pairs
    PROVE  TInv'
<1>1. CASE Restarts(stages)
  BY <1>1, RestartsTypes
<1>2. CASE /\ Saves(stages)
           /\ codes' = kept
           /\ UNCHANGED <<now, pending, completed, failed, lockedTill, lastFailed,
                          restarts, guesses>>
  <2>1. store' \in SoundStores' /\ disk' \in SoundStores'
    BY <1>2, SavesIn, SameStores DEF TInv
  <2>2. lost' \in BOOLEAN
    BY <1>2 DEF Saves, TInv, TypeOK
  <2>3. QED
    BY <1>2, <2>1, <2>2 DEF TInv, TypeOK, SoundStores, Sound, Used, Pairs, Later, Time,
       Parked, Replay, Code
<1>3. QED
  BY <1>1, <1>2 DEF Serve

\* Handlers that change neither the store nor what was given out.
LEMMA ParkedTypes ==
    ASSUME TInv, limits' = limits,
           UNCHANGED <<now, store, disk, used, restarts, loginAt, spent, lost>>,
           pending' \subseteq pending, completed' \subseteq Replay, codes' \subseteq Code,
           failed' \in 0 .. MaxFailures, lockedTill' \in Later, lastFailed' \in Time,
           guesses' \in Seq(Time), lockedTill' = 0 => failed' < MaxFailures
    PROVE  TInv'
<1>1. IsFiniteSet(pending') /\ Cardinality(pending') <= Cardinality(pending)
  BY FS_Subset DEF TInv
<1>2. Cardinality(pending') <= MaxPending
  BY <1>1, FS_CardinalityType, ConstantsAreNat DEF TInv, TypeOK
<1>3. QED
  BY <1>1, <1>2, SameStores DEF TInv, TypeOK, Pairs, Later, Time, Parked, Replay, Code

LEMMA PrunePendingTypes ==
    ASSUME TInv
    PROVE  /\ Unexpired(pending) \subseteq pending /\ Live(completed) \subseteq completed
           /\ Live(codes) \subseteq codes
  BY DEF Unexpired, Live

LEMMA PutClientSound ==
    ASSUME TInv, NEW id \in Clients, NEW parked, PutClient(id, parked)
    PROVE  store' \in SoundStores /\ disk' \in SoundStores /\ lost' \in BOOLEAN
<1> DEFINE new == [id |-> id, at |-> now]
           Others == IF Cardinality(store.clients) < MaxClients THEN {store.clients}
                     ELSE {store.clients \ {c} : c \in Oldest(Victims(parked))}
<1>1. PICK others \in Others : Saves(<<[store EXCEPT !.clients = others \cup {new}]>>)
  BY DEF PutClient
<1> DEFINE next == [store EXCEPT !.clients = others \cup {new}]
<1>2. store \in SoundStores /\ store \in Store /\ IsFiniteSet(store.clients)
      /\ Cardinality(store.clients) \in Nat /\ Cardinality(store.clients) <= MaxClients
  BY FS_CardinalityType DEF TInv, SoundStores, Sound
<1>3. /\ others \subseteq store.clients /\ IsFiniteSet(others) /\ Cardinality(others) < MaxClients
      /\ Tokened(store) \subseteq Ids(others)
  <2>1. CASE Cardinality(store.clients) < MaxClients
    BY <1>2, <2>1 DEF SoundStores, Sound
  <2>2. CASE ~(Cardinality(store.clients) < MaxClients)
    <3>1. PICK c \in Oldest(Victims(parked)) : others = store.clients \ {c}
      BY <2>2
    <3>2. c \in store.clients /\ c.id \notin Tokened(store)
      BY DEF Oldest, Victims
    <3>3. IsFiniteSet(others) /\ Cardinality(others) = Cardinality(store.clients) - 1
      BY <1>2, <3>1, <3>2, FS_RemoveElement
    <3>4. Tokened(store) \subseteq Ids(others)
      BY <1>2, <3>1, <3>2 DEF SoundStores, Sound, Ids
    <3>5. Cardinality(others) < MaxClients
      BY <1>2, <3>3, ConstantsAreNat
    <3>6. others \subseteq store.clients
      BY <3>1
    <3>7. QED
      BY <3>3, <3>4, <3>5, <3>6
  <2>3. QED
    BY <2>1, <2>2
<1>4. IsFiniteSet(others \cup {new}) /\ Cardinality(others \cup {new}) <= MaxClients
  BY <1>3, OneMore, ConstantsAreNat
<1>5. new \in Client
  BY DEF TInv, TypeOK, Client
<1>6. next \in SoundStores
  BY <1>2, <1>3, <1>4, <1>5 DEF SoundStores, Sound, Store, Tokened, Ids
<1>7. Range(<<next>>) \subseteq SoundStores /\ Last(<<next>>) \in SoundStores
  BY <1>6, Stages1
<1>8. QED
  BY <1>1, <1>7, SavesIn DEF TInv, TypeOK, Saves

LEMMA RegisterTypes ==
    ASSUME TInv, limits' = limits, NEW c \in Clients, Register(c)
    PROVE  TInv'
<1>1. store' \in SoundStores' /\ disk' \in SoundStores' /\ lost' \in BOOLEAN
  BY PutClientSound, SameStores DEF Register
<1>2. /\ pending' \subseteq pending /\ completed' \subseteq completed /\ codes' \subseteq codes
  BY PrunePendingTypes DEF Register, PrunePending
<1>3. IsFiniteSet(pending') /\ Cardinality(pending') <= MaxPending
  BY <1>2, FS_Subset, FS_CardinalityType, ConstantsAreNat DEF TInv, TypeOK
<1>4. used' \in Used
  BY DEF Register, TInv, TypeOK, Used
<1>5. QED
  BY <1>1, <1>2, <1>3, <1>4 DEF Register, TInv, TypeOK, SoundStores, Sound, Used, Pairs, Later, Time,
     Parked, Replay, Code

LEMMA AuthorizeTypes ==
    ASSUME TInv, limits' = limits, NEW x \in Txns, NEW c \in Clients, Authorize(x, c)
    PROVE  TInv'
<1> DEFINE new == [txn |-> x, client |-> c, at |-> now]
<1>1. PICK others \in WithRoom(Unexpired(pending)) : pending' = others \cup {new}
  BY DEF Authorize
<1>2. /\ Unexpired(pending) \subseteq pending /\ IsFiniteSet(Unexpired(pending))
      /\ Cardinality(Unexpired(pending)) \in Nat /\ Cardinality(Unexpired(pending)) <= MaxPending
  BY FS_Subset, FS_CardinalityType, ConstantsAreNat, PrunePendingTypes DEF TInv, TypeOK
<1>3. others \subseteq pending /\ IsFiniteSet(others) /\ Cardinality(others) < MaxPending
  <2>1. CASE Cardinality(Unexpired(pending)) < MaxPending
    BY <1>2, <2>1 DEF WithRoom
  <2>2. CASE ~(Cardinality(Unexpired(pending)) < MaxPending)
    <3>1. PICK p \in Unexpired(pending) : others = Unexpired(pending) \ {p}
      BY <2>2 DEF WithRoom, Oldest
    <3>2. IsFiniteSet(others) /\ Cardinality(others) = Cardinality(Unexpired(pending)) - 1
      BY <1>2, <3>1, FS_RemoveElement
    <3>3. Cardinality(others) < MaxPending
      BY <1>2, <3>2, ConstantsAreNat
    <3>4. QED
      BY <1>2, <3>1, <3>2, <3>3
  <2>3. QED
    BY <2>1, <2>2
<1>4. IsFiniteSet(pending') /\ Cardinality(pending') <= MaxPending
  BY <1>1, <1>3, OneMore, ConstantsAreNat
<1>5. pending' \in SUBSET Parked
  BY <1>1, <1>3 DEF TInv, TypeOK, Parked
<1>6. used' \in Used
  BY DEF Authorize, TInv, TypeOK, Used
<1>7. QED
  BY <1>4, <1>5, <1>6, SameStores DEF Authorize, history, TInv, TypeOK, Live, Used, Pairs, Later, Time,
     Replay, Code

\* Logging in.
LEMMA RecordFailureTypes ==
    ASSUME TInv, ~Locked, RecordFailure
    PROVE  /\ failed' \in 0 .. MaxFailures /\ lockedTill' \in Later /\ lastFailed' \in Time
           /\ guesses' \in Seq(Time) /\ (lockedTill' = 0 => failed' < MaxFailures)
<1>1. now + Lockout \in Later /\ 0 \in Later /\ now + Lockout # 0
  BY ConstantsAreNat DEF TInv, TypeOK, Later, Time
<1>2. failed' \in 0 .. MaxFailures /\ lockedTill' \in Later /\ (lockedTill' = 0 => failed' < MaxFailures)
  BY <1>1, ConstantsAreNat DEF RecordFailure, TInv, TypeOK
<1>3. QED
  BY <1>2 DEF RecordFailure, TInv, TypeOK

LEMMA LoginTypes ==
    ASSUME TInv, limits' = limits, NEW x \in Txns,
           LoginSucceeds(x) \/ LoginRejected(x) \/ ReplayRejected(x) \/ LoginChangesNothing(x)
    PROVE  TInv'
<1>1. ~Locked /\ UNCHANGED <<now, store, disk, used, restarts, loginAt, spent, lost>>
  BY DEF LoginSucceeds, LoginRejected, ReplayRejected, LoginChangesNothing, Login
<1>2. CASE LoginSucceeds(x)
  <2>1. now + CodeTtl \in Later /\ now + CompletedTtl \in Later /\ 0 \in Later
    BY TimesAreLater DEF TInv, TypeOK
  <2>2. PICK p \in ParkedAs(x) :
          /\ pending' = Unexpired(pending) \ ParkedAs(x)
          /\ codes' = Live(codes) \cup {[txn |-> x, client |-> p.client, expires |-> now + CodeTtl]}
    BY <1>2 DEF LoginSucceeds
  <2>3. p \in Parked
    BY DEF ParkedAs, Unexpired, TInv, TypeOK
  <2>4. codes' \subseteq Code /\ completed' \subseteq Replay
    BY <1>2, <2>1, <2>2, <2>3, PrunePendingTypes DEF LoginSucceeds, TInv, TypeOK, Code, Replay, Parked
  <2>5. pending' \subseteq pending
    BY <2>2, PrunePendingTypes
  <2>6. QED
    BY <1>1, <1>2, <2>1, <2>4, <2>5, ParkedTypes, ConstantsAreNat DEF LoginSucceeds, TInv, TypeOK
<1>3. CASE LoginRejected(x) \/ ReplayRejected(x)
  <2>1. PrunePending /\ RecordFailure
    BY <1>3 DEF LoginRejected, ReplayRejected
  <2>2. QED
    BY <1>1, <2>1, ParkedTypes, PrunePendingTypes, RecordFailureTypes
       DEF PrunePending, TInv, TypeOK
<1>4. CASE LoginChangesNothing(x)
  <2>1. 0 \in Later
    BY ConstantsAreNat DEF Later
  <2>2. QED
    BY <1>1, <1>4, <2>1, ParkedTypes, PrunePendingTypes, ConstantsAreNat
       DEF LoginChangesNothing, PrunePending, NoFailure, TInv, TypeOK
<1>5. QED
  BY <1>2, <1>3, <1>4

\* Tokens.
LEMMA ExchangeCodeTypes ==
    ASSUME TInv, limits' = limits, NEW k \in codes, ExchangeCode(k)
    PROVE  TInv'
<1> DEFINE first == IssuedFirst(store, k.client, k.txn)
           second == IssuedSecond(store, k.client, k.txn, now + RefreshTtl)
<1>1. now + RefreshTtl \in Later
  BY TimesAreLater DEF TInv, TypeOK
<1>2. first \in SoundStores /\ second \in SoundStores
  BY <1>1, IssuedSound DEF ExchangeCode, TInv, TypeOK, Code
<1> HIDE DEF first, second
<1>3. Serve(<<first, second>>, WithoutCode(k))
  BY IssuedIs DEF ExchangeCode, first, second
<1>4. Range(<<first, second>>) \subseteq SoundStores /\ Last(<<first, second>>) \in SoundStores
  BY <1>2, Stages2
<1>5. used' \in Used /\ loginAt' \in [Txns -> Time] /\ spent' \in SUBSET Pairs /\ WithoutCode(k) \in SUBSET codes
  <2>1. used' \in Used
    BY UsedTypes DEF ExchangeCode
  <2>2. QED
    BY <2>1 DEF ExchangeCode, TInv, TypeOK, WithoutCode, Code
<1>6. QED
  BY <1>3, <1>4, <1>5, ServeTypes

\* The stages of a rotation.
Consumed(r) == WithoutRefresh(store, r.pair)
Revoked(r) == WithoutAccess(Consumed(r), r.pair)
RotatedFirst(r) == IssuedFirst(Revoked(r), r.client, r.login)
RotatedSecond(r) == IssuedSecond(Revoked(r), r.client, r.login, End(r))

LEMMA RotationIs ==
    ASSUME NEW r
    PROVE  /\ Range(Rotation(r)) = {Consumed(r), Revoked(r), RotatedFirst(r), RotatedSecond(r)}
           /\ Last(Rotation(r)) = RotatedSecond(r)
<1>1. Rotation(r) = <<Consumed(r), Revoked(r)>> \o <<RotatedFirst(r), RotatedSecond(r)>>
  BY IssuedIs DEF Rotation, Consumed, Revoked, RotatedFirst, RotatedSecond
<1>2. QED
  BY <1>1, Stages4

LEMMA ExchangeRefreshTypes ==
    ASSUME TInv, limits' = limits, NEW r \in store.refresh, ExchangeRefresh(r)
    PROVE  TInv'
<1>1. r \in Refresh /\ r.client \in Ids(store.clients) /\ End(r) \in Later
  BY DEF TInv, SoundStores, Sound, Store, Tokened, Refresh, End
<1>2. Consumed(r) \in SoundStores /\ Revoked(r) \in SoundStores
  BY WithoutSound DEF Consumed, Revoked, TInv
<1>3. r.client \in Ids(Revoked(r).clients)
  BY <1>1 DEF Revoked, Consumed, WithoutAccess, WithoutRefresh, TInv, SoundStores, Store
<1>4. RotatedFirst(r) \in SoundStores /\ RotatedSecond(r) \in SoundStores
  BY <1>1, <1>2, <1>3, IssuedSound DEF ExchangeRefresh, RotatedFirst, RotatedSecond, Refresh
<1>5. Range(Rotation(r)) \subseteq SoundStores /\ Last(Rotation(r)) \in SoundStores
  BY <1>2, <1>4, RotationIs
<1>6. used' \in Used /\ loginAt' \in [Txns -> Time] /\ spent' \in SUBSET Pairs /\ codes \in SUBSET codes
  <2>1. used' \in Used
    BY UsedTypes DEF ExchangeRefresh
  <2>2. QED
    BY <1>1, <2>1 DEF ExchangeRefresh, TInv, TypeOK, Refresh
<1>7. QED
  BY <1>5, <1>6, ServeTypes DEF ExchangeRefresh

LEMMA PresentExpiredTypes ==
    ASSUME TInv, limits' = limits, NEW a \in store.access, PresentExpired(a)
    PROVE  TInv'
<1> DEFINE rest == [store EXCEPT !.access = @ \ {a}]
<1>1. rest \in Store
  BY DEF TInv, SoundStores, Store
<1>2. rest \in SoundStores
  BY <1>1, SmallerSound DEF TInv, SoundStores, Store
<1>3. Range(<<rest>>) \subseteq SoundStores /\ Last(<<rest>>) \in SoundStores
  BY <1>2, Stages1
<1>4. used' \in Used /\ loginAt' \in [Txns -> Time] /\ spent' \in SUBSET Pairs
  BY DEF PresentExpired, TInv, TypeOK, Used
<1>5. QED
  BY <1>3, <1>4, ServeTypes DEF PresentExpired

LEMMA RevokeTypes ==
    ASSUME TInv, limits' = limits, NEW pair \in Pairs, Revoke(pair)
    PROVE  TInv'
<1>1. PICK stages :
        /\ Serve(stages, codes)
        /\ \/ stages = <<WithoutRefresh(store, pair), WithoutAccess(WithoutRefresh(store, pair), pair)>>
           \/ stages = <<WithoutAccess(store, pair), WithoutRefresh(WithoutAccess(store, pair), pair)>>
  BY DEF Revoke
<1>2. Range(stages) \subseteq SoundStores /\ Last(stages) \in SoundStores
  BY <1>1, WithoutSound, Stages2 DEF TInv
<1>3. used' \in Used /\ loginAt' \in [Txns -> Time] /\ spent' \in SUBSET Pairs
  BY DEF Revoke, TInv, TypeOK, Used
<1>4. QED
  BY <1>1, <1>2, <1>3, ServeTypes

LEMMA RestartTypes == ASSUME TInv, limits' = limits, Restart PROVE TInv'
<1>1. Range(<<>>) \subseteq SoundStores
  BY Stages0
<1>2. QED
  BY <1>1, RestartsTypes DEF Restart, TInv, TypeOK, Used

LEMMA TickTypes == ASSUME TInv, limits' = limits, Tick PROVE TInv'
  BY SameStores, ConstantsAreNat DEF Tick, memory, history, TInv, TypeOK, Time, Pairs, Later,
     Parked, Replay, Code

LEMMA StepTypes == ASSUME TInv, [Next]_vars PROVE TInv'
<1>1. CASE UNCHANGED vars
  BY <1>1, SameStores DEF vars, memory, history, TInv, TypeOK, Pairs
<1>2. CASE Next
  BY <1>2, RegisterTypes, AuthorizeTypes, LoginTypes, ExchangeCodeTypes, ExchangeRefreshTypes,
     PresentExpiredTypes, RevokeTypes, RestartTypes, TickTypes DEF Next, Step
<1>3. QED
  BY <1>1, <1>2

\* Whoever holds a token is registered, whatever fills the table, whatever the
\* cleaning at a start removes, and whichever save failed before it.
THEOREM HoldersRegistered == Spec => []StoreConsistent
<1>1. TInv => StoreConsistent
  BY DEF TInv, SoundStores, Sound, StoreConsistent, TokensHaveClient
<1>2. QED
  BY <1>1, InitTypes, StepTypes, PTL DEF Spec

-----------------------------------------------------------------------------
\* Sessions.

Tokens(s) == s.access \cup s.refresh

\* The logins whose code was exchanged, dropped or lost; the others are under
\* way, parked or as a code, in one place each.
UnderWay == {p.txn : p \in pending} \cup {k.txn : k \in codes}
Over == used.txns \ UnderWay

\* A store has tokens of finished logins only, of one pair for each login, that
\* end on time; n pairs were given out, and at says when logins were finished.
Fits(s, n, logins, at) ==
    /\ \A t \in Tokens(s) : t.pair <= n /\ t.login \in logins
    /\ \A a, b \in Tokens(s) : a.login = b.login => a.pair = b.pair
    /\ \A r \in s.refresh : /\ r.expires <= at[r.login] + RefreshTtl
                            /\ r.absolute <= at[r.login] + RefreshTtl
    /\ \A a \in s.access : a.expires <= at[a.login] + RefreshTtl + AccessTtl

InOnePlace ==
    /\ UnderWay \subseteq used.txns
    /\ \A p, q \in pending : p.txn = q.txn => p = q
    /\ \A j, k \in codes : j.txn = k.txn => j = k
    /\ \A p \in pending, k \in codes : p.txn # k.txn

SInv ==
    /\ InOnePlace
    /\ Fits(store, used.pairs, Over, loginAt)
    /\ Fits(disk, used.pairs, Over, loginAt)

LEMMA FewerFit ==
    ASSUME NEW s, NEW r, NEW n, NEW logins, NEW at, Fits(s, n, logins, at),
           r.access \subseteq s.access, r.refresh \subseteq s.refresh
    PROVE  Fits(r, n, logins, at)
  BY DEF Fits, Tokens

LEMMA StillFits ==
    ASSUME NEW s \in Store, NEW n \in Nat, NEW m \in Nat, n <= m, NEW logins, NEW more,
           logins \subseteq more, NEW at, NEW at2, \A x \in logins : at2[x] = at[x],
           Fits(s, n, logins, at)
    PROVE  Fits(s, m, more, at2)
<1>1. \A t \in Tokens(s) : t.pair \in Int
  BY DEF Tokens, Store, Access, Refresh, Pairs
<1>2. \A t \in Tokens(s) : t.pair <= m /\ t.login \in more /\ at2[t.login] = at[t.login]
  BY <1>1 DEF Fits
<1>3. QED
  BY <1>2 DEF Fits, Tokens

\* What is in the stages of a handler, or was in the file, fits afterwards.
LEMMA FitSaves ==
    ASSUME NEW n, NEW logins, NEW at, Fits(disk, n, logins, at),
           NEW stages, \A s \in Range(stages) : Fits(s, n, logins, at),
           Last(stages) \in Range(stages), Saves(stages)
    PROVE  Fits(store', n, logins, at) /\ Fits(disk', n, logins, at)
  BY DEF Saves

LEMMA FitRestarts ==
    ASSUME TInv, NEW n, NEW logins, NEW at, Fits(disk, n, logins, at),
           NEW stages, \A s \in Range(stages) : Fits(s, n, logins, at) /\ s \in Store,
           Restarts(stages)
    PROVE  Fits(store', n, logins, at) /\ Fits(disk', n, logins, at)
<1>1. PICK s \in {disk} \cup Range(stages) : store' = Pruned(s) /\ disk' = Pruned(s)
  BY DEF Restarts
<1>2. s \in Store /\ Fits(s, n, logins, at)
  BY DEF TInv, TypeOK
<1>3. Pruned(s).access \subseteq s.access /\ Pruned(s).refresh \subseteq s.refresh
  BY <1>2 DEF Pruned, Store
<1>4. QED
  BY <1>1, <1>2, <1>3, FewerFit

LEMMA FitServe ==
    ASSUME TInv, NEW n, NEW logins, NEW at, Fits(disk, n, logins, at),
           NEW stages, \A s \in Range(stages) : Fits(s, n, logins, at) /\ s \in Store,
           Last(stages) \in Range(stages), NEW kept, Serve(stages, kept)
    PROVE  Fits(store', n, logins, at) /\ Fits(disk', n, logins, at)
  BY FitSaves, FitRestarts DEF Serve

LEMMA InitSessions == Init => SInv
  BY DEF Init, SInv, InOnePlace, UnderWay, Fits, Tokens, Empty

\* Handlers that leave the tokens alone.
LEMMA SameSessions ==
    ASSUME TInv, SInv, limits' = limits, InOnePlace', Over \subseteq Over',
           used'.pairs = used.pairs, loginAt' = loginAt,
           store'.access = store.access, store'.refresh = store.refresh,
           \E s \in {store, disk} : disk'.access = s.access /\ disk'.refresh = s.refresh
    PROVE  SInv'
<1>1. store \in Store /\ disk \in Store /\ used.pairs \in Nat
  BY LimitsAreNat DEF TInv, TypeOK
<1>2. Fits(store, used'.pairs, Over', loginAt') /\ Fits(disk, used'.pairs, Over', loginAt')
  BY <1>1, StillFits DEF SInv
<1>3. Fits(store', used'.pairs, Over', loginAt') /\ Fits(disk', used'.pairs, Over', loginAt')
  BY <1>2, FewerFit
<1>4. QED
  BY <1>3 DEF SInv

LEMMA RegisterSessions ==
    ASSUME TInv, SInv, limits' = limits, NEW c \in Clients, Register(c)
    PROVE  SInv'
<1>1. PICK others : Saves(<<[store EXCEPT !.clients = others \cup {[id |-> c, at |-> now]}]>>)
  BY DEF Register, PutClient
<1> DEFINE next == [store EXCEPT !.clients = others \cup {[id |-> c, at |-> now]}]
<1>2. next.access = store.access /\ next.refresh = store.refresh
  BY DEF TInv, TypeOK, Store
<1> HIDE DEF next
<1>3. store' = next /\ disk' \in {disk, next}
  BY <1>1, Stages1 DEF Saves, next
<1>4. /\ pending' \subseteq pending /\ codes' \subseteq codes
      /\ used'.txns = used.txns /\ used'.pairs = used.pairs /\ loginAt' = loginAt
  BY PrunePendingTypes DEF Register, PrunePending, TInv, TypeOK
<1>5. InOnePlace' /\ Over \subseteq Over'
  BY <1>4 DEF SInv, InOnePlace, UnderWay, Over
<1>6. QED
  BY <1>2, <1>3, <1>4, <1>5, SameSessions

LEMMA AuthorizeSessions ==
    ASSUME TInv, SInv, limits' = limits, NEW x \in Txns, NEW c \in Clients, Authorize(x, c)
    PROVE  SInv'
<1>1. PICK others \in WithRoom(Unexpired(pending)) :
         pending' = others \cup {[txn |-> x, client |-> c, at |-> now]}
  BY DEF Authorize
<1>2. others \subseteq pending /\ codes' \subseteq codes
  BY PrunePendingTypes DEF WithRoom, Authorize
<1>3. x \notin used.txns /\ used'.txns = used.txns \cup {x} /\ used'.pairs = used.pairs
  BY DEF Authorize, TInv, TypeOK
<1>4. InOnePlace' /\ Over \subseteq Over'
  BY <1>1, <1>2, <1>3 DEF SInv, InOnePlace, UnderWay, Over
<1>5. QED
  BY <1>3, <1>4, SameSessions DEF Authorize, history

LEMMA LoginSessions ==
    ASSUME TInv, SInv, limits' = limits, NEW x \in Txns,
           LoginSucceeds(x) \/ LoginRejected(x) \/ ReplayRejected(x) \/ LoginChangesNothing(x)
    PROVE  SInv'
<1>1. UNCHANGED <<store, disk, used, loginAt>>
  BY DEF LoginSucceeds, LoginRejected, ReplayRejected, LoginChangesNothing, Login
<1>2. CASE LoginSucceeds(x)
  <2>1. PICK p \in ParkedAs(x) :
          /\ pending' = Unexpired(pending) \ ParkedAs(x)
          /\ codes' = Live(codes) \cup {[txn |-> x, client |-> p.client, expires |-> now + CodeTtl]}
    BY <1>2 DEF LoginSucceeds
  <2>2. p \in pending /\ p.txn = x
    BY DEF ParkedAs, Unexpired
  <2>3. pending' \subseteq pending \ {p} /\ \A q \in pending' : q.txn # x
    BY <2>1, <2>2, PrunePendingTypes DEF ParkedAs
  <2>4. InOnePlace' /\ Over \subseteq Over'
    BY <1>1, <2>1, <2>2, <2>3, PrunePendingTypes DEF SInv, InOnePlace, UnderWay, Over
  <2>5. QED
    BY <1>1, <2>4, SameSessions
<1>3. CASE LoginRejected(x) \/ ReplayRejected(x) \/ LoginChangesNothing(x)
  <2>1. pending' \subseteq pending /\ codes' \subseteq codes
    BY <1>3, PrunePendingTypes DEF LoginRejected, ReplayRejected, LoginChangesNothing, PrunePending
  <2>2. InOnePlace' /\ Over \subseteq Over'
    BY <1>1, <2>1 DEF SInv, InOnePlace, UnderWay, Over
  <2>3. QED
    BY <1>1, <2>2, SameSessions
<1>4. QED
  BY <1>2, <1>3

\* The next pair fits if its login has no other tokens in the store.
LEMMA IssuedFits ==
    ASSUME TInv, UsePair, NEW s \in Store, NEW logins, NEW at \in [Txns -> Time],
           NEW c, NEW x \in Txns, NEW absolute \in Later, x \in logins,
           Fits(s, used.pairs, logins, at), \A t \in Tokens(s) : t.login # x,
           now <= at[x] + RefreshTtl, absolute <= at[x] + RefreshTtl
    PROVE  /\ Fits(IssuedFirst(s, c, x), used.pairs + 1, logins, at)
           /\ Fits(IssuedSecond(s, c, x, absolute), used.pairs + 1, logins, at)
<1> DEFINE n == used.pairs
           a == NewAccess(c, x)
           r == NewRefresh(c, x, absolute)
           first == IssuedFirst(s, c, x)
           second == IssuedSecond(s, c, x, absolute)
<1>1. n \in Nat /\ now \in Nat /\ at[x] \in Nat /\ absolute \in Int
  BY LimitsAreNat, ConstantsAreNat DEF TInv, TypeOK, Time, Later
<1>2. /\ a.pair = n + 1 /\ a.login = x /\ a.expires = now + AccessTtl
      /\ r.pair = n + 1 /\ r.login = x /\ r.expires = absolute /\ r.absolute = absolute
  BY DEF NewAccess, NewRefresh
<1>3. a.expires <= at[x] + RefreshTtl + AccessTtl
  BY <1>1, <1>2, ConstantsAreNat
<1>4. /\ first.access = s.access \cup {a} /\ first.refresh = s.refresh
      /\ second.access = s.access \cup {a} /\ second.refresh = s.refresh \cup {r}
  BY DEF IssuedFirst, IssuedSecond, Store
<1> HIDE DEF a, r, first, second, n
<1>5. \A t \in Tokens(s) : t.pair \in Int /\ t.pair <= n
  BY DEF Tokens, Store, Access, Refresh, Pairs, Fits, n
<1>6. \A t \in Tokens(s) : t.pair <= n + 1 /\ t.login \in logins /\ t.login # x
  BY <1>1, <1>5 DEF Fits, n
<1>7. Fits(second, n + 1, logins, at)
  <2>1. \A t \in Tokens(second) : t.pair <= n + 1 /\ t.login \in logins
    BY <1>1, <1>2, <1>4, <1>6 DEF Tokens
  <2>2. \A t, u \in Tokens(second) : t.login = u.login => t.pair = u.pair
    BY <1>2, <1>4, <1>6 DEF Tokens, Fits
  <2>3. \A t \in second.refresh : /\ t.expires <= at[t.login] + RefreshTtl
                                  /\ t.absolute <= at[t.login] + RefreshTtl
    BY <1>2, <1>4 DEF Fits
  <2>4. \A t \in second.access : t.expires <= at[t.login] + RefreshTtl + AccessTtl
    BY <1>2, <1>3, <1>4 DEF Fits
  <2>5. QED
    BY <2>1, <2>2, <2>3, <2>4 DEF Fits
<1>8. Fits(first, n + 1, logins, at)
  BY <1>4, <1>7, FewerFit
<1>9. QED
  BY <1>7, <1>8 DEF first, second, n

\* Serving a token leaves what is under way, but for the code it takes, or the
\* process ends and with it all of that.
LEMMA ServeSessions ==
    ASSUME TInv, SInv, limits' = limits, NEW kept \in SUBSET codes, used'.txns = used.txns,
           NEW logins \in SUBSET used.txns, logins \cap {p.txn : p \in pending} = {},
           logins \cap {k.txn : k \in kept} = {},
           NEW stages, \A s \in Range(stages) : Fits(s, used'.pairs, logins, loginAt') /\ s \in Store,
           Last(stages) \in Range(stages), Serve(stages, kept), used'.pairs \in Nat,
           Fits(disk, used'.pairs, logins, loginAt')
    PROVE  SInv'
<1>1. Fits(store', used'.pairs, logins, loginAt') /\ Fits(disk', used'.pairs, logins, loginAt')
  BY FitServe
<1>2. pending' \subseteq pending /\ codes' \subseteq kept
  BY DEF Serve, Restarts
<1>3. InOnePlace' /\ logins \subseteq Over'
  BY <1>2 DEF SInv, InOnePlace, UnderWay, Over
<1>4. QED
  BY <1>1, <1>3 DEF SInv, Fits

LEMMA ExchangeCodeSessions ==
    ASSUME TInv, SInv, limits' = limits, NEW k \in codes, ExchangeCode(k)
    PROVE  SInv'
<1> DEFINE x == k.txn
           first == IssuedFirst(store, k.client, x)
           second == IssuedSecond(store, k.client, x, now + RefreshTtl)
           logins == Over \cup {x}
<1>1. /\ store \in Store /\ disk \in Store /\ x \in Txns /\ now \in Nat /\ now + RefreshTtl \in Later
      /\ used.pairs \in Nat /\ loginAt \in [Txns -> Time] /\ loginAt' = [loginAt EXCEPT ![x] = now]
      /\ loginAt' \in [Txns -> Time] /\ UsePair
  BY TimesAreLater, LimitsAreNat DEF TInv, TypeOK, Code, ExchangeCode, Time
<1>2. used'.txns = used.txns /\ used'.pairs = used.pairs + 1
  BY <1>1 DEF UsePair, TInv, TypeOK
<1>3. x \notin Over /\ logins \subseteq used.txns /\ logins \cap {p.txn : p \in pending} = {}
      /\ logins \cap {j.txn : j \in WithoutCode(k)} = {} /\ WithoutCode(k) \in SUBSET codes
  BY DEF SInv, InOnePlace, UnderWay, Over, WithoutCode
<1>4. \A y \in Over : loginAt'[y] = loginAt[y]
  BY <1>1, <1>3
<1>5. /\ Fits(store, used.pairs, logins, loginAt') /\ Fits(disk, used.pairs, logins, loginAt')
      /\ Fits(disk, used'.pairs, logins, loginAt')
  <2>1. Over \subseteq logins /\ used.pairs <= used.pairs /\ used.pairs <= used'.pairs /\ used'.pairs \in Nat
    BY <1>1, <1>2
  <2>2. Fits(store, used.pairs, Over, loginAt) /\ Fits(disk, used.pairs, Over, loginAt)
    BY DEF SInv
  <2> HIDE DEF logins, x, first, second
  <2>3. ASSUME NEW s \in {store, disk}, NEW m \in Nat, used.pairs <= m
        PROVE  Fits(s, m, logins, loginAt')
    <3>1. s \in Store /\ used.pairs \in Nat /\ Fits(s, used.pairs, Over, loginAt)
      BY <1>1, <2>2
    <3>2. QED
      BY <1>4, <2>1, <2>3, <3>1, StillFits
  <2>4. QED
    BY <1>1, <2>1, <2>3
<1>6. \A t \in Tokens(store) : t.login # x
  BY <1>3 DEF SInv, Fits
<1>7. now <= loginAt'[x] + RefreshTtl /\ now + RefreshTtl <= loginAt'[x] + RefreshTtl
  BY <1>1, ConstantsAreNat
<1>8. Fits(first, used'.pairs, logins, loginAt') /\ Fits(second, used'.pairs, logins, loginAt')
  <2>1. x \in logins
    OBVIOUS
  <2> DEFINE c == k.client
             absolute == now + RefreshTtl
  <2>2. absolute <= loginAt'[x] + RefreshTtl /\ absolute \in Later
    BY <1>1, <1>7
  <2>3. first = IssuedFirst(store, c, x) /\ second = IssuedSecond(store, c, x, absolute)
    OBVIOUS
  <2> HIDE DEF logins, x, first, second, c, absolute
  <2>4. /\ Fits(IssuedFirst(store, c, x), used.pairs + 1, logins, loginAt')
        /\ Fits(IssuedSecond(store, c, x, absolute), used.pairs + 1, logins, loginAt')
    BY <1>1, <1>5, <1>6, <1>7, <2>1, <2>2, IssuedFits
  <2>5. QED
    BY <1>2, <2>3, <2>4
<1>9. first \in Store /\ second \in Store
  BY <1>1, IssuedSound DEF ExchangeCode, SoundStores, TInv
<1>10. Serve(<<first, second>>, WithoutCode(k))
  BY IssuedIs DEF ExchangeCode
<1> HIDE DEF first, second, logins, x
<1>11. \A s \in Range(<<first, second>>) : Fits(s, used'.pairs, logins, loginAt') /\ s \in Store
  BY <1>8, <1>9, Stages2
<1>12. Last(<<first, second>>) \in Range(<<first, second>>) /\ used'.pairs \in Nat
  BY <1>1, <1>2, Stages2
<1>13. QED
  BY <1>2, <1>3, <1>5, <1>10, <1>11, <1>12, ServeSessions

LEMMA ExchangeRefreshSessions ==
    ASSUME TInv, SInv, limits' = limits, NEW r \in store.refresh, ExchangeRefresh(r)
    PROVE  SInv'
<1> DEFINE x == r.login
<1>1. /\ store \in Store /\ disk \in Store /\ r \in Refresh /\ x \in Txns /\ End(r) \in Later
      /\ used.pairs \in Nat /\ loginAt \in [Txns -> Time] /\ loginAt' = loginAt /\ UsePair
      /\ r.client \in Ids(store.clients)
  BY LimitsAreNat DEF TInv, TypeOK, Store, Refresh, End, ExchangeRefresh, SoundStores, Sound, Tokened
<1>2. used'.txns = used.txns /\ used'.pairs = used.pairs + 1 /\ used'.pairs \in Nat
  BY <1>1 DEF UsePair, TInv, TypeOK
<1>3. /\ Over \in SUBSET used.txns /\ Over \cap {p.txn : p \in pending} = {}
      /\ Over \cap {k.txn : k \in codes} = {}
  BY DEF UnderWay, Over
<1>4. x \in Over
  BY DEF SInv, Fits, Tokens
<1>5. now <= loginAt[x] + RefreshTtl /\ End(r) <= loginAt[x] + RefreshTtl
  <2>1. r.expires <= loginAt[x] + RefreshTtl /\ r.absolute <= loginAt[x] + RefreshTtl /\ r.expires >= now
    BY DEF SInv, Fits, ExchangeRefresh
  <2>2. r.expires \in Int /\ now \in Int /\ loginAt[x] + RefreshTtl \in Int
    BY <1>1, ConstantsAreNat DEF Refresh, Later, TInv, TypeOK, Time
  <2>3. QED
    BY <2>1, <2>2 DEF End
<1>6. /\ Consumed(r) \in SoundStores /\ Revoked(r) \in SoundStores
      /\ Consumed(r) \in Store /\ Revoked(r) \in Store
  BY WithoutSound DEF Consumed, Revoked, TInv, SoundStores
<1>7. /\ Consumed(r).access \subseteq store.access /\ Consumed(r).refresh \subseteq store.refresh
      /\ Revoked(r).access \subseteq store.access /\ Revoked(r).refresh \subseteq store.refresh
      /\ Revoked(r).clients = store.clients
      /\ \A t \in Tokens(Revoked(r)) : t.pair # r.pair
  BY <1>1 DEF Consumed, Revoked, WithoutRefresh, WithoutAccess, Store, Tokens
<1>8. \A t \in Tokens(Revoked(r)) : t.login # x
  BY <1>7 DEF SInv, Fits, Tokens
<1>9. Fits(Consumed(r), used.pairs, Over, loginAt) /\ Fits(Revoked(r), used.pairs, Over, loginAt)
  BY <1>7, FewerFit DEF SInv
<1>10. /\ Fits(Consumed(r), used'.pairs, Over, loginAt) /\ Fits(Revoked(r), used'.pairs, Over, loginAt)
       /\ Fits(disk, used'.pairs, Over, loginAt)
  BY <1>1, <1>2, <1>6, <1>9, StillFits DEF SInv
<1>11. /\ Fits(RotatedFirst(r), used'.pairs, Over, loginAt)
       /\ Fits(RotatedSecond(r), used'.pairs, Over, loginAt)
  BY <1>1, <1>2, <1>4, <1>5, <1>6, <1>8, <1>9, IssuedFits DEF RotatedFirst, RotatedSecond
<1>12. RotatedFirst(r) \in Store /\ RotatedSecond(r) \in Store
  BY <1>1, <1>6, <1>7, IssuedSound DEF RotatedFirst, RotatedSecond, SoundStores
<1>13. \A s \in Range(Rotation(r)) : Fits(s, used'.pairs, Over, loginAt') /\ s \in Store
  BY <1>1, <1>6, <1>10, <1>11, <1>12, RotationIs
<1>14. Last(Rotation(r)) \in Range(Rotation(r)) /\ codes \in SUBSET codes
  BY RotationIs
<1>15. QED
  BY <1>1, <1>2, <1>3, <1>10, <1>13, <1>14, ServeSessions DEF ExchangeRefresh

\* Handlers that only take tokens away.
LEMMA TakingSessions ==
    ASSUME TInv, SInv, limits' = limits, UNCHANGED <<used, loginAt>>,
           NEW stages, \A s \in Range(stages) : /\ s \in Store
                                               /\ s.access \subseteq store.access
                                               /\ s.refresh \subseteq store.refresh,
           Last(stages) \in Range(stages), Serve(stages, codes)
    PROVE  SInv'
<1>1. /\ Over \in SUBSET used.txns /\ Over \cap {p.txn : p \in pending} = {}
      /\ Over \cap {k.txn : k \in codes} = {} /\ used.pairs \in Nat
  BY LimitsAreNat DEF UnderWay, Over, TInv, TypeOK
<1>2. \A s \in Range(stages) : Fits(s, used.pairs, Over, loginAt)
  BY FewerFit DEF SInv
<1>3. QED
  BY <1>1, <1>2, ServeSessions DEF SInv

LEMMA PresentExpiredSessions ==
    ASSUME TInv, SInv, limits' = limits, NEW a \in store.access, PresentExpired(a)
    PROVE  SInv'
<1> DEFINE rest == [store EXCEPT !.access = @ \ {a}]
<1>1. rest \in Store /\ rest.access \subseteq store.access /\ rest.refresh \subseteq store.refresh
  BY DEF TInv, TypeOK, Store
<1> HIDE DEF rest
<1>2. Range(<<rest>>) = {rest} /\ Last(<<rest>>) = rest
  BY Stages1
<1>3. Serve(<<rest>>, codes) /\ UNCHANGED <<used, loginAt>>
  BY DEF PresentExpired, rest
<1>4. QED
  BY <1>1, <1>2, <1>3, TakingSessions

LEMMA WithoutLess ==
    ASSUME NEW s \in Store, NEW pair
    PROVE  /\ WithoutRefresh(s, pair) \in Store /\ WithoutAccess(s, pair) \in Store
           /\ WithoutRefresh(s, pair).access = s.access /\ WithoutAccess(s, pair).refresh = s.refresh
           /\ WithoutRefresh(s, pair).refresh = {r \in s.refresh : r.pair # pair}
           /\ WithoutAccess(s, pair).access \subseteq s.access
  BY DEF WithoutRefresh, WithoutAccess, Store

LEMMA RevokeStages ==
    ASSUME TInv, NEW pair \in Pairs, Revoke(pair)
    PROVE  \E stages : /\ Serve(stages, codes)
                      /\ Last(stages) \in Range(stages)
                      /\ \A s \in Range(stages) : /\ s \in Store
                                                  /\ s.access \subseteq store.access
                                                  /\ s.refresh \subseteq store.refresh
                      /\ \A r \in Last(stages).refresh : r.pair # pair
<1> DEFINE a == WithoutRefresh(store, pair)
           b == WithoutAccess(a, pair)
           c == WithoutAccess(store, pair)
           d == WithoutRefresh(c, pair)
<1>1. store \in Store
  BY DEF TInv, TypeOK
<1>2. /\ a \in Store /\ b \in Store /\ c \in Store /\ d \in Store
      /\ a.access \subseteq store.access /\ a.refresh \subseteq store.refresh
      /\ b.access \subseteq store.access /\ b.refresh \subseteq store.refresh
      /\ c.access \subseteq store.access /\ c.refresh \subseteq store.refresh
      /\ d.access \subseteq store.access /\ d.refresh \subseteq store.refresh
      /\ \A r \in b.refresh : r.pair # pair
      /\ \A r \in d.refresh : r.pair # pair
  BY <1>1, WithoutLess
<1>3. Serve(<<a, b>>, codes) \/ Serve(<<c, d>>, codes)
  BY DEF Revoke
<1> HIDE DEF a, b, c, d
<1>4. CASE Serve(<<a, b>>, codes)
  BY <1>2, <1>4, Stages2
<1>5. CASE Serve(<<c, d>>, codes)
  BY <1>2, <1>5, Stages2
<1>6. QED
  BY <1>3, <1>4, <1>5

LEMMA RevokeSessions ==
    ASSUME TInv, SInv, limits' = limits, NEW pair \in Pairs, Revoke(pair)
    PROVE  SInv'
  BY RevokeStages, TakingSessions DEF Revoke

LEMMA RestartSessions == ASSUME TInv, SInv, limits' = limits, Restart PROVE SInv'
<1>1. Fits(store', used.pairs, Over, loginAt) /\ Fits(disk', used.pairs, Over, loginAt)
  BY FitRestarts, Stages0 DEF Restart, SInv
<1>2. InOnePlace' /\ Over \subseteq Over' /\ UNCHANGED <<used, loginAt>>
  BY DEF Restart, Restarts, InOnePlace, UnderWay, Over
<1>3. QED
  BY <1>1, <1>2 DEF SInv, Fits

LEMMA StepSessions == ASSUME TInv, SInv, [Next]_vars PROVE SInv'
<1>1. CASE UNCHANGED vars \/ (Tick /\ limits' = limits)
  <2>1. UNCHANGED <<pending, codes, used, store, disk, loginAt>>
    BY <1>1 DEF vars, Tick, memory, history
  <2>2. QED
    BY <2>1 DEF SInv, InOnePlace, UnderWay, Over
<1>2. CASE Next
  BY <1>1, <1>2, RegisterSessions, AuthorizeSessions, LoginSessions, ExchangeCodeSessions,
     ExchangeRefreshSessions, PresentExpiredSessions, RevokeSessions, RestartSessions DEF Next, Step
<1>3. QED
  BY <1>1, <1>2

\* However often a form, a code or a refresh token is sent, whichever saves fail
\* and wherever the process ends, a login has at most one pair of tokens, which
\* end on time.
THEOREM OneSessionAlways == Spec => []LoginGivesOneSession
<1>1. TInv /\ SInv => LoginGivesOneSession
  BY DEF SInv, Fits, Tokens, LoginGivesOneSession, OneSessionPerLogin, SessionEnds
<1>2. QED
  BY <1>1, InitTypes, StepTypes, InitSessions, StepSessions, PTL DEF Spec

-----------------------------------------------------------------------------
\* Spent tokens.

\* As long as every save has succeeded the file is the store, and no refresh
\* token that was exchanged or revoked is in it; pairs are never given out twice.
SpInv ==
    /\ \A pair \in spent : pair <= used.pairs
    /\ ~lost => disk = store /\ \A r \in store.refresh : r.pair \notin spent

LEMMA ServeSpent ==
    ASSUME TInv, SpInv, NEW kept, NEW stages, Serve(stages, kept), Last(stages) \in Range(stages),
           \A s \in Range(stages) :
              s \in Store /\ (~lost => \A r \in s.refresh : r.pair \notin spent),
           ~lost /\ restarts' = restarts => \A r \in Last(stages).refresh : r.pair \notin spent',
           restarts' # restarts => spent' = spent,
           \A pair \in spent' : pair <= used'.pairs
    PROVE  SpInv'
<1>1. CASE Restarts(stages)
  <2>1. PICK s \in {disk} \cup Range(stages) : store' = Pruned(s) /\ disk' = Pruned(s)
    BY <1>1 DEF Restarts
  <2>2. lost' = lost /\ spent' = spent
    BY <1>1 DEF Restarts, TInv, TypeOK
  <2>3. s \in Store /\ (~lost => \A r \in s.refresh : r.pair \notin spent)
    BY DEF TInv, TypeOK, SpInv
  <2>4. Pruned(s).refresh \subseteq s.refresh
    BY <2>3 DEF Pruned, Store
  <2>5. QED
    BY <2>1, <2>2, <2>3, <2>4 DEF SpInv
<1>2. CASE Saves(stages) /\ restarts' = restarts
  BY <1>2 DEF Saves, SpInv
<1>3. QED
  BY <1>1, <1>2 DEF Serve

LEMMA InitSpent == Init => SpInv
  BY DEF Init, SpInv, Empty

LEMMA RegisterSpent ==
    ASSUME TInv, SpInv, NEW c \in Clients, Register(c)
    PROVE  SpInv'
<1>1. PICK others : Saves(<<[store EXCEPT !.clients = others \cup {[id |-> c, at |-> now]}]>>)
  BY DEF Register, PutClient
<1> DEFINE next == [store EXCEPT !.clients = others \cup {[id |-> c, at |-> now]}]
<1>2. next.refresh = store.refresh
  BY DEF TInv, TypeOK, Store
<1> HIDE DEF next
<1>3. store' = next /\ (~lost' => ~lost /\ disk' = next)
  BY <1>1, Stages1 DEF Saves, next
<1>4. spent' = spent /\ used'.pairs = used.pairs
  BY DEF Register, TInv, TypeOK
<1>5. QED
  BY <1>2, <1>3, <1>4 DEF SpInv

LEMMA ExchangeCodeSpent ==
    ASSUME TInv, SInv, SpInv, NEW k \in codes, ExchangeCode(k)
    PROVE  SpInv'
<1> DEFINE first == IssuedFirst(store, k.client, k.txn)
           second == IssuedSecond(store, k.client, k.txn, now + RefreshTtl)
           r == NewRefresh(k.client, k.txn, now + RefreshTtl)
<1>1. store \in Store /\ k.txn \in Txns /\ used.pairs \in Nat /\ now + RefreshTtl \in Later /\ UsePair
  BY TimesAreLater, LimitsAreNat DEF TInv, TypeOK, Code, ExchangeCode
<1>2. used'.pairs = used.pairs + 1 /\ spent' = spent
  BY <1>1 DEF UsePair, TInv, TypeOK, ExchangeCode
<1>3. first \in Store /\ second \in Store
  BY <1>1, IssuedSound DEF ExchangeCode, SoundStores, TInv
<1>4. first.refresh = store.refresh /\ second.refresh = store.refresh \cup {r} /\ r.pair = used.pairs + 1
  BY <1>1 DEF IssuedFirst, IssuedSecond, NewRefresh, Store
<1>5. Serve(<<first, second>>, WithoutCode(k))
  BY IssuedIs DEF ExchangeCode
<1> HIDE DEF first, second, r
<1>6. \A pair \in spent : pair \in Nat /\ pair <= used.pairs
  BY LimitsAreNat DEF SpInv, TInv, TypeOK, Pairs
<1>7. r.pair \notin spent /\ \A pair \in spent' : pair <= used'.pairs
  BY <1>1, <1>2, <1>4, <1>6
<1>8. /\ Last(<<first, second>>) = second /\ Range(<<first, second>>) = {first, second}
      /\ ~lost => \A t \in first.refresh \cup second.refresh : t.pair \notin spent
  BY <1>4, <1>7, Stages2 DEF SpInv
<1>9. QED
  BY <1>2, <1>3, <1>5, <1>7, <1>8, ServeSpent

LEMMA ExchangeRefreshSpent ==
    ASSUME TInv, SInv, SpInv, NEW r \in store.refresh, ExchangeRefresh(r)
    PROVE  SpInv'
<1> DEFINE new == NewRefresh(r.client, r.login, End(r))
<1>1. /\ store \in Store /\ store \in SoundStores /\ r \in Refresh /\ End(r) \in Later
      /\ used.pairs \in Nat /\ UsePair
      /\ r.client \in Ids(store.clients)
  BY LimitsAreNat DEF TInv, TypeOK, Store, Refresh, End, ExchangeRefresh, SoundStores, Sound, Tokened
<1>2. used'.pairs = used.pairs + 1 /\ r.pair \in Nat /\ r.pair <= used.pairs
  BY <1>1 DEF UsePair, TInv, TypeOK, SInv, Fits, Tokens, Refresh, Pairs
<1>3. /\ Consumed(r) \in SoundStores /\ Revoked(r) \in SoundStores
      /\ Consumed(r) \in Store /\ Revoked(r) \in Store
  BY <1>1, WithoutSound DEF Consumed, Revoked, SoundStores
<1>4. r.login \in Txns /\ r.client \in Ids(Revoked(r).clients)
  BY <1>1 DEF Refresh, Revoked, Consumed, WithoutAccess, WithoutRefresh, Store
<1>5. RotatedFirst(r) \in Store /\ RotatedSecond(r) \in Store
  BY <1>1, <1>3, <1>4, IssuedSound DEF RotatedFirst, RotatedSecond, SoundStores
<1>6. /\ Consumed(r).refresh = {t \in store.refresh : t.pair # r.pair}
      /\ Revoked(r).refresh = Consumed(r).refresh
  BY <1>1, <1>3, WithoutLess DEF Consumed, Revoked
<1>7. /\ RotatedFirst(r).refresh = Consumed(r).refresh
      /\ RotatedSecond(r).refresh = Consumed(r).refresh \cup {new}
  <2> DEFINE s == Revoked(r)
             first == IssuedFirst(s, r.client, r.login)
             second == IssuedSecond(s, r.client, r.login, End(r))
  <2>1. s \in Store /\ s.refresh = Consumed(r).refresh
    BY <1>3, <1>6
  <2>2. first = RotatedFirst(r) /\ second = RotatedSecond(r)
    BY DEF RotatedFirst, RotatedSecond
  <2> HIDE DEF s
  <2>3. first.refresh = s.refresh /\ second.refresh = s.refresh \cup {new}
    BY <2>1 DEF IssuedFirst, IssuedSecond, Store
  <2>4. QED
    BY <2>1, <2>2, <2>3
<1>8. new.pair = used.pairs + 1
  BY DEF NewRefresh
<1> HIDE DEF new
<1>9. \A pair \in spent : pair \in Nat /\ pair <= used.pairs
  BY LimitsAreNat DEF SpInv, TInv, TypeOK, Pairs
<1>10. new.pair \notin spent /\ new.pair # r.pair /\ \A pair \in spent' : pair <= used'.pairs
  BY <1>1, <1>2, <1>8, <1>9 DEF ExchangeRefresh
<1>11. ~lost => \A t \in RotatedSecond(r).refresh : t.pair \notin spent /\ t.pair # r.pair
  BY <1>6, <1>7, <1>10 DEF SpInv
<1>12. \A s \in Range(Rotation(r)) : /\ s \in Store
                                     /\ s.refresh \subseteq RotatedSecond(r).refresh
  BY <1>3, <1>5, <1>6, <1>7, RotationIs
<1>13. /\ Last(Rotation(r)) = RotatedSecond(r) /\ Last(Rotation(r)) \in Range(Rotation(r))
       /\ Serve(Rotation(r), codes)
       /\ spent' = IF restarts' = restarts THEN spent \cup {r.pair} ELSE spent
  BY RotationIs DEF ExchangeRefresh
<1>14. /\ \A s \in Range(Rotation(r)) : ~lost => \A t \in s.refresh : t.pair \notin spent
       /\ ~lost => \A t \in Last(Rotation(r)).refresh : t.pair \notin spent'
  BY <1>11, <1>12, <1>13
<1>15. QED
  BY <1>10, <1>12, <1>13, <1>14, ServeSpent

LEMMA PresentExpiredSpent ==
    ASSUME TInv, SpInv, NEW a \in store.access, PresentExpired(a)
    PROVE  SpInv'
<1> DEFINE rest == [store EXCEPT !.access = @ \ {a}]
<1>1. rest \in Store /\ rest.refresh = store.refresh
  BY DEF TInv, TypeOK, Store
<1> HIDE DEF rest
<1>2. Range(<<rest>>) = {rest} /\ Last(<<rest>>) = rest
  BY Stages1
<1>3. Serve(<<rest>>, codes) /\ UNCHANGED <<used, spent>>
  BY DEF PresentExpired, rest
<1>4. QED
  BY <1>1, <1>2, <1>3, ServeSpent DEF SpInv

LEMMA RevokeSpent ==
    ASSUME TInv, SInv, SpInv, NEW pair \in Pairs, Revoke(pair)
    PROVE  SpInv'
<1>1. PICK stages : /\ Serve(stages, codes)
                    /\ Last(stages) \in Range(stages)
                    /\ \A s \in Range(stages) : s \in Store /\ s.refresh \subseteq store.refresh
                    /\ \A r \in Last(stages).refresh : r.pair # pair
  BY RevokeStages
<1>2. pair <= used.pairs
  BY DEF Revoke, SInv, Fits, Tokens
<1>3. /\ spent' = IF restarts' = restarts THEN spent \cup {pair} ELSE spent
      /\ used' = used
  BY DEF Revoke
<1>4. \A p \in spent' : p <= used'.pairs
  BY <1>2, <1>3 DEF SpInv
<1>5. \A s \in Range(stages) : ~lost => \A r \in s.refresh : r.pair \notin spent
  BY <1>1 DEF SpInv
<1>6. ~lost => \A r \in Last(stages).refresh : r.pair \notin spent'
  BY <1>1, <1>3, <1>5
<1>7. QED
  BY <1>1, <1>3, <1>4, <1>5, <1>6, ServeSpent

LEMMA RestartSpent == ASSUME TInv, SpInv, Restart PROVE SpInv'
<1>1. PICK s \in {disk} : store' = Pruned(s) /\ disk' = Pruned(s)
  BY Stages0 DEF Restart, Restarts
<1>2. disk \in Store /\ Pruned(disk).refresh \subseteq disk.refresh
  BY DEF TInv, TypeOK, Pruned, Store
<1>3. UNCHANGED <<used, spent, lost>>
  BY DEF Restart, Restarts
<1>4. QED
  BY <1>1, <1>2, <1>3 DEF SpInv

LEMMA StepSpent == ASSUME TInv, SInv, SpInv, [Next]_vars PROVE SpInv'
<1>1. CASE /\ UNCHANGED <<store, disk, spent, lost>>
           /\ used'.pairs = used.pairs
  BY <1>1 DEF SpInv
<1>2. CASE UNCHANGED vars \/ Tick
  BY <1>1, <1>2 DEF vars, Tick, history
<1>3. ASSUME NEW x \in Txns, NEW c \in Clients, Authorize(x, c)
      PROVE  SpInv'
  BY <1>1, <1>3 DEF Authorize, history, TInv, TypeOK
<1>4. ASSUME NEW x \in Txns,
             LoginSucceeds(x) \/ LoginRejected(x) \/ ReplayRejected(x) \/ LoginChangesNothing(x)
      PROVE  SpInv'
  BY <1>1, <1>4 DEF LoginSucceeds, LoginRejected, ReplayRejected, LoginChangesNothing, Login
<1>5. CASE Next
  BY <1>2, <1>3, <1>4, <1>5, RegisterSpent, ExchangeCodeSpent, ExchangeRefreshSpent,
     PresentExpiredSpent, RevokeSpent, RestartSpent DEF Next, Step
<1>6. QED
  BY <1>2, <1>5

\* As long as the file can be written, a refresh token that was exchanged or
\* revoked does not come back, between whichever two saves the process ends.
THEOREM SpentForGood == Spec => []SpentStaysSpent
<1>1. SpInv => SpentStaysSpent
  BY DEF SpInv, SpentStaysSpent
<1>2. QED
  BY <1>1, InitTypes, StepTypes, InitSessions, StepSessions, InitSpent, StepSpent, PTL DEF Spec

-----------------------------------------------------------------------------
\* Wrong passwords.

\* The failures counted are the last evaluations: what was evaluated before
\* them is a period of Lockout away, and a lock lasts that long from the last.
GInv ==
    LET n == Len(guesses) IN
    /\ \A i \in 1 .. n : guesses[i] <= now
    /\ \A i, j \in 1 .. n : i <= j => guesses[i] <= guesses[j]
    /\ failed <= n
    /\ failed > 0 => lastFailed = guesses[n]
    /\ lockedTill # 0 => failed > 0 /\ lockedTill = guesses[n] + Lockout
    /\ 0 < failed /\ failed < n => guesses[n - failed + 1] >= guesses[n - failed] + Lockout
    /\ failed = 0 /\ n > 0 => now >= guesses[n] + Lockout

GuessInv == GInv /\ GuessesBounded

LEMMA GuessTypes ==
    ASSUME TInv
    PROVE  /\ now \in Nat /\ Lockout \in Nat /\ MaxFailures \in Nat \ {0} /\ failed \in Nat
           /\ failed <= MaxFailures /\ lockedTill \in Nat /\ lastFailed \in Nat
           /\ Len(guesses) \in Nat /\ \A i \in 1 .. Len(guesses) : guesses[i] \in Nat
<1>1. now \in Time /\ failed \in 0 .. MaxFailures /\ lockedTill \in Later
      /\ lastFailed \in Time /\ guesses \in Seq(Time)
  BY DEF TInv, TypeOK
<1>2. Time \subseteq Nat /\ Later \subseteq Nat
  BY ConstantsAreNat DEF Time, Later
<1>3. Lockout \in Nat /\ MaxFailures \in Nat \ {0}
  BY ConstantsAreNat
<1>4. Len(guesses) \in Nat /\ \A i \in 1 .. Len(guesses) : guesses[i] \in Time
  <2>1. PICK g \in Seq(Time) : g = guesses
    BY <1>1
  <2>2. Len(g) \in Nat /\ \A i \in 1 .. Len(g) : g[i] \in Time
    OBVIOUS
  <2>3. QED
    BY <2>1, <2>2
<1>5. now \in Nat /\ failed \in Nat /\ lockedTill \in Nat /\ lastFailed \in Nat
  BY <1>1, <1>2, <1>3
<1>6. failed <= MaxFailures
  BY <1>1, <1>3
<1>7. QED
  BY <1>2, <1>3, <1>4, <1>5, <1>6

LEMMA InitGuesses == Init => GuessInv
  BY ConstantsAreNat DEF Init, GuessInv, GInv, GuessesBounded

\* Nothing was evaluated since a start or a right password.
LEMMA NoGuesses ==
    ASSUME guesses' = <<>>, failed' = 0, lockedTill' = 0
    PROVE  GuessInv'
<1>1. Len(guesses') = 0 /\ \A i \in 1 .. Len(guesses') : FALSE
  OBVIOUS
<1>2. GInv'
  BY <1>1 DEF GInv
<1>3. GuessesBounded'
  BY <1>1 DEF GuessesBounded
<1>4. QED
  BY <1>2, <1>3 DEF GuessInv

LEMMA SameGuesses ==
    ASSUME TInv, GuessInv, UNCHANGED <<failed, lockedTill, lastFailed, guesses>>,
           now' \in Nat, now <= now'
    PROVE  GuessInv'
<1>1. GInv'
  BY GuessTypes DEF GuessInv, GInv
<1>2. GuessesBounded'
  BY DEF GuessInv, GuessesBounded
<1>3. QED
  BY <1>1, <1>2 DEF GuessInv

LEMMA NoFailureGuesses ==
    ASSUME TInv, GuessInv, ~Locked, NoFailure, now' = now
    PROVE  GuessInv'
  BY GuessTypes DEF GuessInv, GInv, GuessesBounded, NoFailure, Locked

LEMMA RecordFailureGuesses ==
    ASSUME TInv, GuessInv, ~Locked, RecordFailure, now' = now
    PROVE  GuessInv'
<1> DEFINE n == Len(guesses)
           old == guesses
           new == guesses'
<1>1. /\ n \in Nat /\ Len(new) = n + 1 /\ new[n + 1] = now
      /\ \A i \in 1 .. n : new[i] = old[i] /\ old[i] \in Nat /\ old[i] <= now
  BY GuessTypes DEF RecordFailure, TInv, TypeOK, GuessInv, GInv
<1>2. /\ now \in Nat /\ Lockout \in Nat /\ MaxFailures \in Nat \ {0} /\ failed \in Nat
      /\ lockedTill \in Nat /\ lastFailed \in Nat
  BY GuessTypes
<1>3. /\ failed <= n
      /\ failed > 0 => lastFailed = old[n]
      /\ lockedTill # 0 => failed > 0 /\ lockedTill = old[n] + Lockout
      /\ 0 < failed /\ failed < n => old[n - failed + 1] >= old[n - failed] + Lockout
      /\ failed = 0 /\ n > 0 => now >= old[n] + Lockout
      /\ \A i, j \in 1 .. n : i <= j => old[i] <= old[j]
  BY DEF GuessInv, GInv
<1>4. /\ failed' = IF lockedTill # 0 \/ now > lastFailed + Lockout THEN 1 ELSE failed + 1
      /\ lockedTill' = IF failed' >= MaxFailures THEN now + Lockout ELSE 0
      /\ lastFailed' = now
  BY DEF RecordFailure
<1>5. failed' \in Nat /\ failed' > 0 /\ failed' <= n + 1 /\ failed' <= MaxFailures
  BY <1>1, <1>2, <1>3, <1>4, RecordFailureTypes, GuessTypes
<1>6. ~Locked
  OBVIOUS
<1> HIDE DEF n, old, new
<1>7. failed' = 1 /\ n > 0 => now >= old[n] + Lockout
  BY <1>1, <1>2, <1>3, <1>4, <1>6 DEF Locked
<1>8. failed' # 1 => failed > 0 /\ failed' = failed + 1
  BY <1>2, <1>4
<1>9. ASSUME failed' < n + 1
      PROVE  new[n + 1 - failed' + 1] >= new[n + 1 - failed'] + Lockout
  <2>1. CASE failed' = 1
    BY <1>1, <1>2, <1>5, <1>7, <1>9, <2>1
  <2>2. CASE failed' # 1
    <3>1. /\ failed < n /\ n + 1 - failed' + 1 = n - failed + 1 /\ n + 1 - failed' = n - failed
          /\ n - failed \in 1 .. n /\ n - failed + 1 \in 1 .. n
      BY <1>1, <1>2, <1>8, <1>9, <2>2
    <3>2. QED
      BY <1>1, <1>3, <1>8, <2>2, <3>1
  <2>3. QED
    BY <2>1, <2>2
<1>10. \A i, j \in 1 .. n + 1 : i <= j => new[i] <= new[j]
  BY <1>1, <1>2, <1>3
<1>11. GInv'
  BY <1>1, <1>2, <1>4, <1>5, <1>9, <1>10 DEF GInv, n, old, new
<1>12. ASSUME NEW i \in 1 .. n + 1, i + MaxFailures <= n + 1
       PROVE  new[i + MaxFailures] >= new[i] + Lockout
  <2>1. CASE i + MaxFailures <= n
    <3>1. i \in 1 .. n /\ i + MaxFailures \in 1 .. n
      BY <1>1, <1>2, <2>1
    <3>2. old[i + MaxFailures] >= old[i] + Lockout
      BY <2>1, <3>1 DEF GuessInv, GuessesBounded, n, old
    <3>3. QED
      BY <1>1, <3>1, <3>2
  <2>2. CASE i + MaxFailures = n + 1
    <3>1. failed' < n + 1 /\ n + 1 - failed' \in 1 .. n + 1 /\ i <= n + 1 - failed'
          /\ n + 1 - failed' + 1 \in 1 .. n + 1
      <4>1. ASSUME NEW f \in Nat, f > 0, f <= MaxFailures
            PROVE  f < n + 1 /\ n + 1 - f \in 1 .. n + 1 /\ i <= n + 1 - f /\ n + 1 - f + 1 \in 1 .. n + 1
        BY <1>1, <1>2, <2>2, <4>1
      <4>2. QED
        BY <1>5, <4>1
    <3>2. /\ new[i] <= new[n + 1 - failed']
          /\ new[n + 1 - failed' + 1] >= new[n + 1 - failed'] + Lockout
          /\ new[n + 1 - failed' + 1] <= new[n + 1]
      BY <1>1, <1>9, <1>10, <3>1
    <3>3. \A j \in 1 .. n + 1 : new[j] \in Nat
      BY <1>1, <1>2
    <3>4. QED
      BY <1>2, <2>2, <3>1, <3>2, <3>3
  <2>3. QED
    BY <1>1, <1>2, <1>12, <2>1, <2>2
<1>13. GuessesBounded'
  BY <1>1, <1>12 DEF GuessesBounded, n, old, new
<1>14. QED
  BY <1>11, <1>13 DEF GuessInv

LEMMA StepGuesses == ASSUME TInv, GuessInv, [Next]_vars PROVE GuessInv'
<1>1. CASE UNCHANGED <<now, failed, lockedTill, lastFailed, guesses>>
  BY <1>1, SameGuesses, GuessTypes
<1>2. CASE Tick
  BY <1>2, SameGuesses, GuessTypes DEF Tick, memory, history
<1>3. ASSUME NEW stages, Restarts(stages)
      PROVE  GuessInv'
  BY <1>3, NoGuesses DEF Restarts
<1>4. ASSUME NEW stages, NEW kept, Serve(stages, kept)
      PROVE  GuessInv'
  BY <1>1, <1>3, <1>4 DEF Serve
<1>5. ASSUME NEW x \in Txns,
             LoginSucceeds(x) \/ LoginRejected(x) \/ ReplayRejected(x) \/ LoginChangesNothing(x)
      PROVE  GuessInv'
  <2>1. ~Locked /\ now' = now
    BY <1>5 DEF LoginSucceeds, LoginRejected, ReplayRejected, LoginChangesNothing, Login
  <2>2. CASE LoginSucceeds(x)
    BY <2>2, NoGuesses DEF LoginSucceeds
  <2>3. CASE LoginRejected(x) \/ ReplayRejected(x)
    BY <2>1, <2>3, RecordFailureGuesses DEF LoginRejected, ReplayRejected
  <2>4. CASE LoginChangesNothing(x)
    BY <2>1, <2>4, NoFailureGuesses DEF LoginChangesNothing
  <2>5. QED
    BY <1>5, <2>2, <2>3, <2>4
<1>6. CASE UNCHANGED vars
  BY <1>1, <1>6 DEF vars, memory, history
<1>7. CASE Next
  <2>1. ASSUME NEW c \in Clients, Register(c) \/ \E x \in Txns : Authorize(x, c)
        PROVE  GuessInv'
    BY <1>1, <2>1 DEF Register, Authorize, history
  <2>2. ASSUME NEW k \in codes, ExchangeCode(k)
        PROVE  GuessInv'
    BY <1>4, <2>2 DEF ExchangeCode
  <2>3. ASSUME NEW r \in store.refresh, ExchangeRefresh(r)
        PROVE  GuessInv'
    BY <1>4, <2>3 DEF ExchangeRefresh
  <2>4. ASSUME NEW a \in store.access, PresentExpired(a)
        PROVE  GuessInv'
    BY <1>4, <2>4 DEF PresentExpired
  <2>5. ASSUME NEW pair \in Pairs, Revoke(pair)
        PROVE  GuessInv'
    BY <1>4, <2>5 DEF Revoke
  <2>6. CASE Restart
    BY <1>3, <2>6 DEF Restart
  <2>7. QED
    BY <1>2, <1>5, <1>7, <2>1, <2>2, <2>3, <2>4, <2>5, <2>6 DEF Next, Step
<1>8. QED
  BY <1>6, <1>7

\* However the forms are sent and replayed, in no period of Lockout are more
\* than MaxFailures wrong passwords evaluated.
THEOREM GuessesAlwaysBounded == Spec => []GuessesBounded
<1>1. GuessInv => GuessesBounded
  BY DEF GuessInv
<1>2. QED
  BY <1>1, InitTypes, StepTypes, InitGuesses, StepGuesses, PTL DEF Spec

-----------------------------------------------------------------------------
\* Evictions.

SameClients == Ids(store'.clients) = Ids(store.clients)

\* Only a registration, or a start, takes a client away.
LEMMA ServeClients ==
    ASSUME TInv, NEW stages, NEW kept, Serve(stages, kept),
           Last(stages).clients = store.clients
    PROVE  restarts' # restarts \/ SameClients
  BY DEF Serve, Restarts, Saves, SameClients, TInv, TypeOK

LEMMA StepClients ==
    ASSUME TInv, [Next]_vars
    PROVE  \/ restarts' # restarts
           \/ SameClients
           \/ \E c \in Clients : Register(c)
<1> DEFINE Kept == restarts' # restarts \/ SameClients
<1>1. ASSUME UNCHANGED store PROVE Kept
  BY <1>1 DEF SameClients
<1>2. CASE UNCHANGED vars \/ Tick
  BY <1>1, <1>2 DEF vars, Tick
<1>3. ASSUME NEW x \in Txns, \/ \E c \in Clients : Authorize(x, c)
                             \/ LoginSucceeds(x) \/ LoginRejected(x)
                             \/ ReplayRejected(x) \/ LoginChangesNothing(x)
      PROVE  Kept
  <2>1. UNCHANGED store
    BY <1>3 DEF Authorize, LoginSucceeds, LoginRejected, ReplayRejected, LoginChangesNothing, Login
  <2>2. QED
    BY <1>1, <2>1
<1>4. ASSUME NEW k \in codes, ExchangeCode(k)
      PROVE  Kept
  <2> DEFINE first == IssuedFirst(store, k.client, k.txn)
             second == IssuedSecond(store, k.client, k.txn, now + RefreshTtl)
  <2>1. store \in Store
    BY DEF TInv, TypeOK
  <2>2. second.clients = store.clients
    BY <2>1 DEF IssuedFirst, IssuedSecond, Store
  <2>3. Serve(<<first, second>>, WithoutCode(k))
    BY <1>4, IssuedIs DEF ExchangeCode
  <2> HIDE DEF first, second
  <2>4. QED
    BY <2>2, <2>3, Stages2, ServeClients
<1>5. ASSUME NEW r \in store.refresh, ExchangeRefresh(r)
      PROVE  Kept
  <2>1. store \in Store
    BY DEF TInv, TypeOK
  <2>2. Revoked(r) \in Store /\ Revoked(r).clients = store.clients
    BY <2>1 DEF Revoked, Consumed, WithoutRefresh, WithoutAccess, Store
  <2>3. RotatedSecond(r).clients = Revoked(r).clients
    BY <2>2 DEF RotatedSecond, IssuedFirst, IssuedSecond, Store
  <2>4. QED
    BY <1>5, <2>2, <2>3, RotationIs, ServeClients DEF ExchangeRefresh
<1>6. ASSUME NEW a \in store.access, PresentExpired(a)
      PROVE  Kept
  <2> DEFINE rest == [store EXCEPT !.access = @ \ {a}]
  <2>1. rest.clients = store.clients
    BY DEF TInv, TypeOK, Store
  <2>2. Serve(<<rest>>, codes)
    BY <1>6 DEF PresentExpired
  <2> HIDE DEF rest
  <2>3. QED
    BY <2>1, <2>2, Stages1, ServeClients
<1>7. ASSUME NEW pair \in Pairs, Revoke(pair)
      PROVE  Kept
  <2> DEFINE a == WithoutRefresh(store, pair)
             b == WithoutAccess(a, pair)
             c == WithoutAccess(store, pair)
             d == WithoutRefresh(c, pair)
  <2>1. b.clients = store.clients /\ d.clients = store.clients
    BY DEF WithoutRefresh, WithoutAccess, TInv, TypeOK, Store
  <2>2. Serve(<<a, b>>, codes) \/ Serve(<<c, d>>, codes)
    BY <1>7 DEF Revoke
  <2> HIDE DEF a, b, c, d
  <2>3. QED
    BY <2>1, <2>2, Stages2, ServeClients
<1>8. CASE Restart
  BY <1>8 DEF Restart, Restarts, TInv, TypeOK
<1>9. CASE Next
  BY <1>2, <1>3, <1>4, <1>5, <1>6, <1>7, <1>8, <1>9 DEF Next, Step
<1>10. QED
  BY <1>2, <1>9

\* A full table gives up a client with a parked authorization only when every
\* client without tokens has one.
THEOREM ParkedOnesSurvive == Spec => ParkedSurvives
<1> DEFINE A == \A c \in Ids(store.clients) :
                   /\ restarts' = restarts
                   /\ c \notin Ids(store'.clients)
                   /\ \E p \in pending' : p.client = c
                   => \A d \in Ids(store.clients) :
                         d \in Tokened(store) \/ \E p \in pending' : p.client = d
<1>1. ASSUME TInv, NEW i \in Clients, Register(i)
      PROVE  A
  <2> DEFINE parked == {p.client : p \in pending'}
  <2>1. PICK others \in IF Cardinality(store.clients) < MaxClients THEN {store.clients}
                        ELSE {store.clients \ {c} : c \in Oldest(Victims(parked))} :
          Saves(<<[store EXCEPT !.clients = others \cup {[id |-> i, at |-> now]}]>>)
    BY <1>1 DEF Register, PutClient
  <2> DEFINE next == [store EXCEPT !.clients = others \cup {[id |-> i, at |-> now]}]
  <2>2. store' = next
    BY <2>1, Stages1 DEF Saves
  <2>3. SUFFICES ASSUME NEW c \in Ids(store.clients), c \notin Ids(store'.clients), c \in parked,
                        NEW d \in Ids(store.clients), d \notin Tokened(store)
                 PROVE  d \in parked
    OBVIOUS
  <2>4. others \subseteq store'.clients
    BY <1>1, <2>2 DEF TInv, TypeOK, Store
  <2>5. PICK e \in store.clients : e.id = c /\ e \notin others
    BY <2>3, <2>4 DEF Ids
  <2>6. e \in Victims(parked)
    BY <2>1, <2>5 DEF Oldest
  <2>7. \A f \in store.clients : f.id \notin Tokened(store) => f.id \in parked
    BY <2>3, <2>5, <2>6 DEF Victims
  <2>8. QED
    BY <2>3, <2>7 DEF Ids
<1>2. TInv /\ [Next]_vars => [A]_vars
  <2>1. SUFFICES ASSUME TInv, [Next]_vars PROVE A
    OBVIOUS
  <2>2. CASE restarts' # restarts \/ SameClients
    BY <2>2 DEF SameClients
  <2>3. QED
    BY <1>1, <2>1, <2>2, StepClients
<1>3. QED
  BY <1>2, InitTypes, StepTypes, PTL DEF Spec, ParkedSurvives
=============================================================================
