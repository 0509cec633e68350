------------------------ MODULE MatrixAdapterProofs ------------------------
(***************************************************************************)
(* Proofs about MatrixAdapter for every set of rooms, aliases and people,  *)
(* and every scenario: any config, any script of posts, any number of      *)
(* deaths, losses, failed requests, heartbeats and answers.                *)
(***************************************************************************)
EXTENDS MatrixAdapter, TLAPS, FiniteSetTheorems

-----------------------------------------------------------------------------
(* The inductive invariant.                                                *)

Task == [room : Rooms, parts : Seq(Nat)]
Message == [room : Rooms, parts : Seq(Nat), trust : {"verified", "unverified"}]
Spent == [deaths : Nat, faults : Nat, beats : Nat, answers : Nat, posts : Nat]

\* Types of the rooms, and of the messages.
RoomTypes ==
    /\ scenario \in Scenarios
    /\ joined \in SUBSET Rooms /\ admin \in SUBSET joined /\ used \in SUBSET Rooms
    /\ known \in SUBSET Rooms
    /\ DOMAIN file \subseteq Refs /\ DOMAIN rooms \subseteq Rooms
    /\ phase \in {"down", "resolving", "first", "leaving", "listening", "crashed"}
    /\ heard \in BOOLEAN
    /\ spent \in Spent
    /\ LinkTypeOK(Frame)

WordTypes ==
    /\ history \in Seq(Event)
    /\ token \in 0 .. Len(history) /\ busy \in 0 .. Len(history) /\ sending \in 0 .. Len(history)
    /\ batch \in SUBSET (1 .. token)
    /\ ownIds \cup due \cup lost \subseteq Position
    /\ buffer \in [Rooms -> Seq(Nat)]
    /\ timer = {r \in Rooms : buffer[r] # <<>>}
    /\ flushing \in Seq(Task)
    /\ \A k \in DOMAIN flushing : flushing[k].parts # <<>>
    /\ delivered \in Seq(Message)

\* Rooms of the config that the bot was never in.
Unmet == DOMAIN scenario.file \ scenario.joined

\* The bot is in the rooms of its config but for those it was never in, and
\* while it leaves the rest it has looked at every room it is in.
RoomInv ==
    /\ phase \in {"down", "resolving"} => known = {}
    /\ phase = "down" => Range(created) = {}
    /\ Range(created) \subseteq DOMAIN rooms
    /\ phase # "down" => DOMAIN file \cap Rooms \subseteq DOMAIN rooms
    /\ (DOMAIN file \cap Rooms) \cup DOMAIN rooms \subseteq joined \cup Unmet
    /\ phase = "leaving" => \A r \in joined : r \in known \/ (r \in DOMAIN rooms /\ r \notin admin)
    /\ phase = "listening" /\ heard => joined \subseteq DOMAIN rooms \cup scenario.side /\ admin = {}
    /\ heard => phase \in {"listening", "crashed"}

\* Message i waits in a buffer or a flush; it was sent to the gateway.
InBuffer(i) == \E r \in Rooms : \E m \in DOMAIN buffer[r] : buffer[r][m] = i
InFlush(i) == \E k \in DOMAIN flushing : \E m \in DOMAIN flushing[k].parts : flushing[k].parts[m] = i
Sent(i) == \E k \in DOMAIN delivered : \E m \in DOMAIN delivered[k].parts : delivered[k].parts[m] = i
Waits(i) == InBuffer(i) \/ InFlush(i)

\* An adapter that has not heard the first sync has taken nothing, and nothing
\* posted earlier is still to come.
Deaf ==
    /\ \A r \in Rooms : buffer[r] = <<>>
    /\ flushing = <<>>
    /\ busy = 0
    /\ \A i \in due : i \in lost \/ Sent(i)

\* What was taken comes before what is being downloaded, and that before what
\* was not taken; what was given up is behind all of them.
Progress ==
    /\ \A i : Waits(i) \/ Sent(i) =>
          i \in 1 .. token /\ (busy # 0 => i < busy) /\ \A j \in batch : i < j
    /\ busy # 0 => busy <= token /\ \A j \in batch : busy < j
    /\ phase = "listening" => \A i \in lost : i <= token /\ i # busy /\ i \notin batch
    /\ phase = "crashed" => batch = {} /\ busy = 0

Reading ==
    /\ ~heard => Deaf
    /\ heard => Progress
    /\ \A i : Sent(i) => i \in Position
    /\ phase = "leaving" => \A i : i \in lost \/ Sent(i) => i <= token

\* A message waits, was sent or was given up.
Apart ==
    /\ \A i : Waits(i) => ~Sent(i) /\ i \notin lost
    /\ \A i \in lost : ~Sent(i)

\* The words in a buffer or a flush are those of people in its room; what was
\* sent is one person's; the bot's own are known by their sender.
Said(i, r) == i \in Position /\ history[i].room = r /\ history[i].sender \in People
WaitingWords ==
    /\ \A r \in Rooms : \A m \in DOMAIN buffer[r] : Said(buffer[r][m], r)
    /\ \A k \in DOMAIN flushing : \A m \in DOMAIN flushing[k].parts :
         Said(flushing[k].parts[m], flushing[k].room)
    /\ busy # 0 => Said(busy, history[busy].room)
SentWords ==
    \A k \in DOMAIN delivered :
      /\ delivered[k].parts # <<>>
      /\ \A m \in DOMAIN delivered[k].parts :
           /\ Said(delivered[k].parts[m], delivered[k].room)
           /\ history[delivered[k].parts[m]].sender = history[delivered[k].parts[1]].sender
      /\ delivered[k].trust = Trust(history[delivered[k].parts[1]].sender)
Echoes == \A i \in ownIds \cup {sending} : i # 0 => history[i].sender = Bot

Rising(s) == \A m, n \in DOMAIN s : m < n => s[m] < s[n]
Before(s, t) == \A m \in DOMAIN s, n \in DOMAIN t : s[m] < t[n]

\* The words of a room wait in the order they were said, the flushes of one
\* room behind each other.
Queued ==
    /\ \A r \in Rooms : Rising(buffer[r])
    /\ \A k \in DOMAIN flushing :
         /\ Rising(flushing[k].parts)
         /\ Before(flushing[k].parts, buffer[flushing[k].room])
         /\ \A j \in DOMAIN flushing :
              j < k /\ flushing[j].room = flushing[k].room => Before(flushing[j].parts, flushing[k].parts)

\* No message was sent twice.
Single ==
    /\ \A k \in DOMAIN delivered : Rising(delivered[k].parts)
    /\ \A j, k \in DOMAIN delivered : \A m \in DOMAIN delivered[j].parts, n \in DOMAIN delivered[k].parts :
         delivered[j].parts[m] = delivered[k].parts[n] => j = k

\* In a room of which no two flushes overlapped, what was sent comes before
\* what flushes, and that before the buffer.
InTurn ==
    \A r \in Rooms \ overlapped :
       /\ \A j, k \in DOMAIN flushing : flushing[j].room = r /\ flushing[k].room = r => j = k
       /\ \A k \in DOMAIN delivered : delivered[k].room = r =>
            /\ \A j \in DOMAIN delivered :
                 j < k /\ delivered[j].room = r => Before(delivered[j].parts, delivered[k].parts)
            /\ \A j \in DOMAIN flushing : flushing[j].room = r => Before(delivered[k].parts, flushing[j].parts)
            /\ Before(delivered[k].parts, buffer[r])

\* A message that is owed is taken or ahead, and will not be ignored.
Owed(i) ==
    /\ Waits(i) \/ (busy # 0 /\ i = busy) \/ i \in Ahead
    /\ history[i].room \in joined \cap DOMAIN rooms
    /\ history[i].kind \in {Text, Media} /\ history[i].sender \in People
Expected == \A i \in due : i \in lost \/ Sent(i) \/ Owed(i)

MInv ==
    /\ RoomTypes /\ WordTypes /\ RoomInv /\ Reading /\ Apart
    /\ WaitingWords /\ SentWords /\ Echoes /\ Queued /\ Single /\ InTurn /\ Expected

-----------------------------------------------------------------------------
(* Scenarios, sequences, and the initial states.                           *)

LEMMA ScenarioIs ==
    ASSUME NEW s \in Scenarios
    PROVE  /\ s.script \in Seq([sender : People, kind : {Text, Aside, Media}]) /\ s.posts = Len(s.script)
           /\ s.posts \in Nat /\ s.deaths \in Nat /\ s.faults \in Nat /\ s.beats \in Nat
           /\ s.answers \in Nat /\ s.losses \in Nat
           /\ DOMAIN s.file \subseteq Refs /\ s.joined \subseteq Rooms
           /\ IsFiniteSet(s.invited) /\ s.invited \subseteq Rooms
<1>1. Configured(s) /\ Bounded(s)
  BY ScenarioAssumption
<1>2. QED
  BY <1>1 DEF Configured, Bounded

LEMMA SpendIs ==
    ASSUME RoomTypes
    PROVE  /\ Spend("posts") => spent' \in Spent /\ spent'.posts \in 1 .. scenario.posts
           /\ Spend("deaths") => spent' \in Spent
           /\ Spend("faults") => spent' \in Spent
           /\ Spend("beats") => spent' \in Spent
           /\ Spend("answers") => spent' \in Spent
<1>1. /\ scenario.posts \in Nat /\ scenario.deaths \in Nat /\ scenario.faults \in Nat
      /\ scenario.beats \in Nat /\ scenario.answers \in Nat
  BY ScenarioIs DEF RoomTypes
<1>2. spent \in Spent
  BY DEF RoomTypes
<1>3. QED
  BY <1>1, <1>2 DEF Spend, Spent

LEMMA ElementIs ==
    ASSUME NEW S, NEW s \in Seq(S), NEW i \in 1 .. Len(s)
    PROVE  s[i] \in S
OBVIOUS

LEMMA AppendIs ==
    ASSUME NEW S, NEW s \in Seq(S), NEW e \in S
    PROVE  /\ Append(s, e) \in Seq(S) /\ Append(s, e) # <<>>
           /\ DOMAIN s = 1 .. Len(s) /\ DOMAIN Append(s, e) = 1 .. Len(s) + 1
           /\ Len(s) \in Nat /\ Len(Append(s, e)) = Len(s) + 1
           /\ \A i \in 1 .. Len(s) : Append(s, e)[i] = s[i] /\ s[i] \in S
           /\ Append(s, e)[Len(s) + 1] = e
OBVIOUS

LEMMA ReplaceIs ==
    ASSUME NEW S, NEW s \in Seq(S), NEW k \in DOMAIN s, NEW e \in S
    PROVE  /\ [s EXCEPT ![k] = e] \in Seq(S)
           /\ DOMAIN [s EXCEPT ![k] = e] = DOMAIN s
           /\ [s EXCEPT ![k] = e][k] = e
           /\ \A j \in DOMAIN s : j # k => [s EXCEPT ![k] = e][j] = s[j]
OBVIOUS

LEMMA PrefixIs ==
    ASSUME NEW S, NEW s \in Seq(S), NEW n \in 0 .. Len(s)
    PROVE  /\ SubSeq(s, 1, n) \in Seq(S)
           /\ Len(s) \in Nat /\ Len(SubSeq(s, 1, n)) = n /\ DOMAIN SubSeq(s, 1, n) = 1 .. n
           /\ \A i \in 1 .. n : SubSeq(s, 1, n)[i] = s[i] /\ s[i] \in S
OBVIOUS

LEMMA SuffixIs ==
    ASSUME NEW S, NEW s \in Seq(S), NEW n \in 0 .. Len(s)
    PROVE  /\ SubSeq(s, n + 1, Len(s)) \in Seq(S)
           /\ Len(SubSeq(s, n + 1, Len(s))) = Len(s) - n
           /\ DOMAIN SubSeq(s, n + 1, Len(s)) = 1 .. Len(s) - n
           /\ \A i \in 1 .. Len(s) - n : SubSeq(s, n + 1, Len(s))[i] = s[n + i]
OBVIOUS

LEMMA RemoveIs ==
    ASSUME NEW S, NEW s \in Seq(S), NEW k \in 1 .. Len(s)
    PROVE  /\ RemoveAt(s, k) \in Seq(S)
           /\ DOMAIN RemoveAt(s, k) = 1 .. Len(s) - 1
           /\ \A i \in 1 .. Len(s) - 1 : RemoveAt(s, k)[i] = IF i < k THEN s[i] ELSE s[i + 1]
<1>1. Len(s) \in Nat
  OBVIOUS
<1> DEFINE p == SubSeq(s, 1, k - 1)
           q == SubSeq(s, k + 1, Len(s))
<1>2. p \in Seq(S) /\ Len(p) = k - 1 /\ \A i \in 1 .. k - 1 : p[i] = s[i]
  BY <1>1
<1>3. q \in Seq(S) /\ Len(q) = Len(s) - k /\ \A i \in 1 .. Len(s) - k : q[i] = s[k + i]
  BY <1>1, SuffixIs
<1>4. RemoveAt(s, k) = p \o q
  BY DEF RemoveAt
<1> HIDE DEF p, q
<1>5. /\ p \o q \in Seq(S) /\ DOMAIN (p \o q) = 1 .. Len(s) - 1
      /\ \A i \in 1 .. Len(s) - 1 : (p \o q)[i] = IF i < k THEN p[i] ELSE q[i - (k - 1)]
  BY <1>1, <1>2, <1>3
<1>6. \A i \in 1 .. Len(s) - 1 : i < k => p[i] = s[i]
  BY <1>1, <1>2
<1>7. \A i \in 1 .. Len(s) - 1 : ~(i < k) => q[i - (k - 1)] = s[i + 1]
  BY <1>1, <1>3
<1>8. QED
  BY <1>1, <1>4, <1>5, <1>6, <1>7

\* The invitations that are there before the first start.
LEMMA FirstHistory ==
    ASSUME NEW s \in Scenarios, NEW p \in People
    PROVE  SetToSeq({[room |-> r, sender |-> p, kind |-> Invite] : r \in s.invited}) \in Seq(Event)
<1> DEFINE f == [r \in s.invited |-> [room |-> r, sender |-> p, kind |-> Invite]]
           E == {[room |-> r, sender |-> p, kind |-> Invite] : r \in s.invited}
           n == Cardinality(E)
<1>1. IsFiniteSet(s.invited) /\ s.invited \subseteq Rooms
  BY ScenarioIs
<1>2. f \in Surjection(s.invited, E)
  BY DEF Surjection
<1>3. IsFiniteSet(E)
  BY <1>1, <1>2, FS_Surjection
<1>4. E \subseteq Event
  BY <1>1 DEF Event, Kinds
<1>5. n \in Nat /\ ExistsBijection(1 .. n, E)
  BY <1>3, FS_CardinalityType
<1> HIDE DEF f, E
<1>6. \E g \in [1 .. n -> E] : IsInjective(g)
  BY <1>5 DEF ExistsBijection, Bijection, Injection
<1>7. SetToSeq(E) \in [1 .. n -> E]
  BY <1>6 DEF SetToSeq
<1> HIDE DEF n
<1>8. SetToSeq(E) \in Seq(E)
  BY <1>5, <1>7
<1>9. SetToSeq(E) \in Seq(Event)
  BY <1>4, <1>8
<1>10. QED
  BY <1>9 DEF E

LEMMA InitMInv == Init => MInv
<1> SUFFICES ASSUME Init PROVE MInv
  OBVIOUS
<1>1. PICK p \in People : p = CHOOSE q \in People : TRUE
  BY ScenarioAssumption
<1>2. history \in Seq(Event)
  BY <1>1, FirstHistory DEF Init
<1>3. Len(history) \in Nat
  BY <1>2
<1>4. /\ buffer = [r \in Rooms |-> <<>>] /\ timer = {} /\ flushing = <<>> /\ delivered = <<>>
      /\ batch = {} /\ busy = 0 /\ token = 0 /\ sending = 0 /\ ownIds = {} /\ due = {} /\ lost = {}
      /\ phase = "down" /\ known = {} /\ rooms = <<>> /\ created = <<>> /\ heard = FALSE
  BY DEF Init, None
<1>5. \A S : <<>> \in Seq(S) /\ DOMAIN <<>> = {}
  OBVIOUS
<1>6. RoomTypes
  <2>1. spent \in Spent
    BY DEF Init, Spent
  <2>2. LinkTypeOK(Frame)
    <3>1. LinkInit
      BY DEF Init
    <3>2. inbound \in Seq(Frame)
      BY <1>5, <3>1 DEF LinkInit
    <3>3. 0 \in 0 .. MaxLosses
      BY LossAssumption
    <3>4. QED
      BY <3>1, <3>2, <3>3 DEF LinkInit, LinkTypeOK
  <2>3. scenario \in Scenarios /\ joined = scenario.joined /\ admin \in SUBSET scenario.joined /\ file = scenario.file
        /\ used = scenario.joined \cup scenario.invited
    BY DEF Init
  <2>4. QED
    BY <1>4, <1>5, <2>1, <2>2, <2>3, ScenarioIs DEF RoomTypes
<1>7. WordTypes
  <2>1. buffer \in [Rooms -> Seq(Nat)] /\ timer = {r \in Rooms : buffer[r] # <<>>}
    BY <1>4, <1>5
  <2>2. flushing \in Seq(Task) /\ delivered \in Seq(Message) /\ DOMAIN flushing = {}
    BY <1>4, <1>5
  <2>3. QED
    BY <1>2, <1>3, <1>4, <2>1, <2>2 DEF WordTypes
<1>8. RoomInv
  <2>1. Range(created) = {} /\ DOMAIN rooms = {}
    BY <1>4, <1>5 DEF Range
  <2>2. DOMAIN file \subseteq joined \cup Unmet
    BY DEF Init, Unmet
  <2>3. QED
    BY <1>4, <2>1, <2>2 DEF RoomInv
<1>9. \A i : ~Waits(i) /\ ~Sent(i)
  BY <1>4, <1>5 DEF Waits, InBuffer, InFlush, Sent
<1>10. Reading
  BY <1>4, <1>9 DEF Reading, Deaf
<1>11. Apart /\ Expected
  BY <1>4, <1>9 DEF Apart, Expected
<1>12. WaitingWords /\ SentWords /\ Echoes
  BY <1>4, <1>5 DEF WaitingWords, SentWords, Echoes
<1>13. Queued /\ Single
  BY <1>4, <1>5 DEF Queued, Single, Rising
<1>14. InTurn
  BY <1>4, <1>5 DEF InTurn
<1>15. QED
  BY <1>6, <1>7, <1>8, <1>10, <1>11, <1>12, <1>13, <1>14 DEF MInv

-----------------------------------------------------------------------------
(* Starting: rooms. No word moves, and the adapter has not heard the first  *)
(* sync.                                                                    *)

wordVars ==
    <<history, buffer, timer, flushing, delivered, busy, ownIds, sending, due, lost, overlapped>>

WordInv ==
    /\ WordTypes /\ Reading /\ Apart /\ WaitingWords /\ SentWords /\ Echoes
    /\ Queued /\ Single /\ InTurn /\ Expected

LEMMA StillWords ==
    ASSUME WordInv, UNCHANGED wordVars
    PROVE  /\ Apart' /\ WaitingWords' /\ SentWords' /\ Echoes' /\ Queued' /\ Single' /\ InTurn'
           /\ \A i : (Waits(i)' <=> Waits(i)) /\ (Sent(i)' <=> Sent(i))
<1>1. \A i : (Waits(i)' <=> Waits(i)) /\ (Sent(i)' <=> Sent(i))
  BY DEF wordVars, Waits, InBuffer, InFlush, Sent
<1>2. Apart'
  BY <1>1 DEF WordInv, Apart, wordVars
<1>3. WaitingWords' /\ SentWords' /\ Echoes'
  BY DEF WordInv, WaitingWords, SentWords, Echoes, Said, Position, Trust, wordVars
<1>4. Queued' /\ Single' /\ InTurn'
  BY DEF WordInv, Queued, Single, InTurn, Rising, Before, wordVars
<1>5. QED
  BY <1>1, <1>2, <1>3, <1>4

LEMMA DeafWords ==
    ASSUME WordInv, ~heard, UNCHANGED wordVars,
           token' \in 0 .. Len(history), batch' \in SUBSET (1 .. token'),
           phase' = "leaving" => (phase = "leaving" /\ token' = token) \/ token' = Len(history),
           heard' => phase = "leaving" /\ phase' = "listening" /\ token' = token /\ batch' = {}
    PROVE  WordInv'
<1>1. /\ Apart' /\ WaitingWords' /\ SentWords' /\ Echoes' /\ Queued' /\ Single' /\ InTurn'
      /\ \A i : (Waits(i)' <=> Waits(i)) /\ (Sent(i)' <=> Sent(i))
  BY StillWords
<1>2. WordTypes'
  BY DEF WordInv, WordTypes, wordVars, Position
<1>3. Deaf /\ Deaf'
  BY <1>1 DEF WordInv, Reading, Deaf, wordVars
<1>4. Expected'
  BY <1>1, <1>3 DEF Expected, Deaf, wordVars
<1>5. /\ \A i : Sent(i) => i \in Position
      /\ phase = "leaving" => \A i : i \in lost \/ Sent(i) => i <= token
      /\ Len(history) \in Nat /\ token \in Nat /\ lost \subseteq Position
  BY DEF WordInv, Reading, WordTypes
<1>6. Position' = Position /\ Position = 1 .. Len(history) /\ lost' = lost /\ busy' = 0
  BY <1>3 DEF Position, wordVars, Deaf
<1>7. \A i : ~Waits(i)
  BY <1>3 DEF Deaf, Waits, InBuffer, InFlush
<1>8. heard' => Progress'
  <2> SUFFICES ASSUME heard' PROVE Progress'
    OBVIOUS
  <2>1. \A i : i \in lost \/ Sent(i) => i <= token
    BY <1>5
  <2>2. token' = token /\ batch' = {} /\ phase' = "listening"
    OBVIOUS
  <2>3. \A i \in lost : i \in Nat /\ i # 0
    BY <1>5, <1>6
  <2>4. \A i : Sent(i) => i \in 1 .. token
    BY <1>5, <1>6, <2>1
  <2>5. QED
    BY <1>1, <1>6, <1>7, <2>1, <2>2, <2>3, <2>4 DEF Progress
<1>9. \A i : Sent(i)' => i \in Position'
  BY <1>1, <1>5, <1>6
<1>10. phase' = "leaving" => \A i : i \in lost' \/ Sent(i)' => i <= token'
  <2>1. \A i : i \in lost \/ Sent(i) => i \in 1 .. Len(history)
    BY <1>5, <1>6
  <2>2. \A i : i \in lost' \/ Sent(i)' => i \in lost \/ Sent(i)
    BY <1>1, <1>6
  <2>3. QED
    BY <1>5, <2>1, <2>2
<1>11. Reading'
  BY <1>3, <1>8, <1>9, <1>10 DEF Reading
<1>12. QED
  BY <1>1, <1>2, <1>4, <1>11 DEF WordInv

LEMMA Unheard ==
    ASSUME RoomTypes, RoomInv, phase \notin {"listening", "crashed"}
    PROVE  heard = FALSE
BY DEF RoomTypes, RoomInv

\* The steps that leave what the adapter reads alone.
LEMMA DeafRest ==
    ASSUME WordInv, RoomTypes, RoomInv, phase \notin {"listening", "crashed"},
           UNCHANGED <<wordVars, token, batch, heard>>,
           phase' = "leaving" => phase = "leaving"
    PROVE  WordInv'
<1>1. ~heard /\ ~heard'
  BY Unheard
<1>2. token \in 0 .. Len(history) /\ batch \in SUBSET (1 .. token)
  BY DEF WordInv, WordTypes
<1>3. QED
  BY <1>1, <1>2, DeafWords

StartInv == RoomTypes /\ RoomInv

LEMMA StartStarts ==
    ASSUME StartInv, Start PROVE StartInv'
<1>1. rooms' = [r \in DOMAIN file \cap Rooms |-> file[r]] /\ DOMAIN rooms' = DOMAIN file \cap Rooms
  BY DEF Start
<1>2. phase = "down" /\ phase' \in {"first", "resolving"}
  BY DEF Start
<1>3. UNCHANGED <<scenario, homeVars, created, known, heard, spent, linkVars>>
  BY DEF Start, ghosts
<1>4. RoomTypes'
  BY <1>1, <1>2, <1>3 DEF StartInv, RoomTypes, homeVars, linkVars, LinkTypeOK
<1>5. heard' = FALSE
  BY <1>2, <1>3, Unheard DEF StartInv
<1>6. QED
  BY <1>1, <1>2, <1>3, <1>4, <1>5 DEF StartInv, RoomInv, homeVars, Unmet, Range

LEMMA ResolveStarts ==
    ASSUME StartInv, ResolveRoom PROVE StartInv'
<1>1. phase = "resolving" /\ known = {}
  BY DEF ResolveRoom, StartInv, RoomInv
<1>2. \A alias : ~Found(alias)
  BY <1>1 DEF Found
<1>3. PICK alias \in todo, room \in Rooms : CreateRoom(alias, room) /\ Resolved(alias, room)
  BY <1>2 DEF ResolveRoom
<1>4. UNCHANGED <<scenario, file, phase, known, heard, spent, linkVars>>
  BY DEF ResolveRoom, ghosts
<1>5. joined' = joined \cup {room} /\ admin' = admin \cup {room} /\ used' = used \cup {room}
  BY <1>3 DEF CreateRoom
<1>6. DOMAIN rooms' = DOMAIN rooms \cup {room}
  BY <1>3 DEF Resolved, Put
<1>7. Range(created') \subseteq Range(created) \cup {room}
  BY <1>3 DEF Resolved, Put, Range
<1>8. heard' = FALSE
  BY <1>1, <1>4, Unheard DEF StartInv
<1>9. RoomTypes'
  BY <1>1, <1>4, <1>5, <1>6 DEF StartInv, RoomTypes, linkVars, LinkTypeOK
<1>10. QED
  BY <1>1, <1>4, <1>5, <1>6, <1>7, <1>8, <1>9 DEF StartInv, RoomInv, Unmet

LEMMA QuietRooms ==
    ASSUME RoomInv, UNCHANGED <<scenario, joined, admin, file, phase, rooms, created, known, heard>>
    PROVE  RoomInv'
BY DEF RoomInv, Unmet, Range

LEMMA CreateFailsStarts ==
    ASSUME StartInv, CreateFails PROVE StartInv'
<1>1. spent' \in Spent
  BY SpendIs DEF CreateFails, StartInv
<1>2. UNCHANGED <<scenario, homeVars, phase, rooms, created, known, heard, linkVars>>
  BY DEF CreateFails
<1>3. QED
  BY <1>1, <1>2, QuietRooms DEF StartInv, RoomTypes, homeVars, linkVars, LinkTypeOK

LEMMA DemoteNewStarts ==
    ASSUME StartInv, DemoteNew PROVE StartInv'
<1>1. PICK room : admin' = admin \ {room}
  BY DEF DemoteNew
<1>2. UNCHANGED <<scenario, joined, used, file, phase, rooms, created, known, heard, spent, linkVars>>
  BY DEF DemoteNew, roomVars, ghosts
<1>3. RoomTypes'
  BY <1>1, <1>2 DEF StartInv, RoomTypes, linkVars, LinkTypeOK
<1>4. phase = "resolving" /\ heard = FALSE
  BY Unheard DEF DemoteNew, StartInv
<1>5. QED
  BY <1>2, <1>3, <1>4 DEF StartInv, RoomInv, Unmet, Range

LEMMA SaveStarts ==
    ASSUME StartInv, SaveRooms PROVE StartInv'
<1>1. phase = "resolving" /\ phase' = "first" /\ heard = FALSE
  BY Unheard DEF SaveRooms, StartInv
<1>2. UNCHANGED <<scenario, joined, admin, used, rooms, created, known, heard, spent, linkVars>>
  BY DEF SaveRooms, ghosts
<1>3. DOMAIN file' \subseteq DOMAIN file \cup Range(created)
  BY DEF SaveRooms, SavedFile
<1>4. Range(created) \subseteq DOMAIN rooms /\ DOMAIN rooms \subseteq Rooms
  BY DEF StartInv, RoomInv, RoomTypes
<1>5. RoomTypes'
  BY <1>1, <1>2, <1>3, <1>4 DEF StartInv, RoomTypes, linkVars, LinkTypeOK, Refs
<1>6. QED
  BY <1>1, <1>2, <1>3, <1>4, <1>5 DEF StartInv, RoomInv, Unmet, Range

LEMMA FirstSyncStarts ==
    ASSUME StartInv, FirstSync PROVE StartInv'
<1>1. phase = "first" /\ phase' = "leaving" /\ heard = FALSE /\ known' = joined
  BY Unheard DEF FirstSync, Synced, StartInv
<1>2. UNCHANGED <<scenario, homeVars, rooms, created, heard, spent, linkVars>>
  BY DEF FirstSync, ghosts
<1>3. RoomTypes'
  BY <1>1, <1>2 DEF StartInv, RoomTypes, homeVars, linkVars, LinkTypeOK
<1>4. QED
  BY <1>1, <1>2, <1>3 DEF StartInv, RoomInv, homeVars, Unmet, Range

LEMMA FirstSyncFailsStarts ==
    ASSUME StartInv, FirstSyncFails PROVE StartInv'
<1>1. phase = "first" /\ phase' = "listening" /\ heard = FALSE
  BY Unheard DEF FirstSyncFails, StartInv
<1>2. UNCHANGED <<scenario, homeVars, rooms, created, known, heard, linkVars>>
  BY DEF FirstSyncFails
<1>3. spent' \in Spent
  BY SpendIs DEF FirstSyncFails, StartInv
<1>4. RoomTypes'
  BY <1>1, <1>2, <1>3 DEF StartInv, RoomTypes, homeVars, linkVars, LinkTypeOK
<1>5. QED
  BY <1>1, <1>2, <1>4 DEF StartInv, RoomInv, homeVars, Unmet, Range

LEMMA DemoteSelfStarts ==
    ASSUME StartInv, DemoteSelf PROVE StartInv'
<1>1. phase = "leaving" /\ heard = FALSE
  BY Unheard DEF DemoteSelf, StartInv
<1>2. UNCHANGED <<scenario, used, file, phase, rooms, created, known, heard, spent, linkVars>>
  BY DEF DemoteSelf, roomVars, ghosts
<1>3. PICK room \in known \cap joined : Leave(room)
  BY DEF DemoteSelf
<1>4. admin' = admin \ {room} /\ joined' \subseteq joined /\ joined \ {room} \subseteq joined'
      /\ (room \in joined' \/ room \notin DOMAIN rooms)
  BY <1>3 DEF Leave, Serves
<1>5. RoomTypes'
  BY <1>2, <1>4 DEF StartInv, RoomTypes, linkVars, LinkTypeOK
<1>6. DOMAIN file \cap Rooms \subseteq DOMAIN rooms
  BY <1>1 DEF StartInv, RoomInv
<1>7. QED
  BY <1>1, <1>2, <1>4, <1>5, <1>6 DEF StartInv, RoomInv, Unmet, Range

LEMMA ListenStarts ==
    ASSUME StartInv, Listen PROVE StartInv'
<1>1. phase = "leaving" /\ phase' = "listening" /\ heard' = TRUE
  BY DEF Listen
<1>2. UNCHANGED <<scenario, homeVars, rooms, created, known, spent, linkVars>>
  BY DEF Listen, ghosts
<1>3. \A r \in joined : r \in DOMAIN rooms \cup scenario.side /\ r \notin admin
  BY <1>1 DEF Listen, Serves, StartInv, RoomInv
<1>4. admin = {}
  BY <1>3 DEF StartInv, RoomTypes
<1>5. RoomTypes'
  BY <1>1, <1>2 DEF StartInv, RoomTypes, homeVars, linkVars, LinkTypeOK
<1>6. QED
  BY <1>1, <1>2, <1>3, <1>4, <1>5 DEF StartInv, RoomInv, homeVars, Unmet, Range

\* The start of the process, up to the line that has it listen.
Starting ==
    \/ Start \/ ResolveRoom \/ CreateFails \/ DemoteNew \/ SaveRooms
    \/ FirstSync \/ FirstSyncFails \/ DemoteSelf \/ Listen

LEMMA StartingMInv ==
    ASSUME MInv, Starting PROVE MInv'
<1>1. StartInv /\ WordInv
  BY DEF MInv, StartInv, WordInv
<1>2. StartInv'
  BY <1>1, StartStarts, ResolveStarts, CreateFailsStarts, DemoteNewStarts, SaveStarts,
     FirstSyncStarts, FirstSyncFailsStarts, DemoteSelfStarts, ListenStarts DEF Starting
<1>3. phase \notin {"listening", "crashed"} /\ ~heard
  <2>1. phase \notin {"listening", "crashed"}
    BY DEF Starting, Start, ResolveRoom, CreateFails, DemoteNew, SaveRooms, FirstSync, FirstSyncFails,
           DemoteSelf, Listen
  <2>2. QED
    BY <1>1, <2>1, Unheard DEF StartInv
<1>4. CASE FirstSync
  <2>1. UNCHANGED wordVars /\ ~heard'
    BY <1>3, <1>4 DEF FirstSync, Synced, wordVars, homeVars, mergeVars, sendVars, ghosts
  <2>2. token' = Len(history) /\ batch' = Positions(token)
    BY <1>4 DEF FirstSync, Synced
  <2>3. token \in Nat /\ Len(history) \in Nat
    BY <1>1 DEF WordInv, WordTypes
  <2>4. batch' \in SUBSET (1 .. token') /\ token' \in 0 .. Len(history)
    BY <2>2, <2>3 DEF Positions
  <2>5. WordInv'
    BY <1>1, <1>3, <2>1, <2>2, <2>4, DeafWords
  <2>6. QED
    BY <1>2, <2>5 DEF MInv, StartInv, WordInv
<1>5. CASE Listen
  <2>1. UNCHANGED <<wordVars, token, batch>> /\ batch = {} /\ phase = "leaving" /\ phase' = "listening"
    BY <1>5 DEF Listen, wordVars, homeVars, readVars, mergeVars, sendVars, ghosts
  <2>2. token \in 0 .. Len(history)
    BY <1>1 DEF WordInv, WordTypes
  <2>3. WordInv'
    BY <1>1, <1>3, <2>1, <2>2, DeafWords
  <2>4. QED
    BY <1>2, <2>3 DEF MInv, StartInv, WordInv
<1>6. CASE ~FirstSync /\ ~Listen
  <2>1. UNCHANGED <<wordVars, token, batch, heard>> /\ (phase' = "leaving" => phase = "leaving")
    BY <1>6 DEF Starting, Start, ResolveRoom, CreateFails, DemoteNew, SaveRooms, FirstSyncFails,
                DemoteSelf, wordVars, homeVars, roomVars, readVars, mergeVars, sendVars, ghosts
  <2>2. WordInv'
    BY <1>1, <1>3, <2>1, DeafRest DEF StartInv
  <2>3. QED
    BY <1>2, <2>2 DEF MInv, StartInv, WordInv
<1>7. QED
  BY <1>4, <1>5, <1>6

-----------------------------------------------------------------------------
(* The rooms in every other step.                                          *)

LEMMA LinkIs ==
    ASSUME LinkTypeOK(Frame), NEW f \in Frame
    PROVE  /\ Connect => LinkTypeOK(Frame)'
           /\ Acknowledged => LinkTypeOK(Frame)'
           /\ LinkDies => LinkTypeOK(Frame)'
           /\ ReadEnds => LinkTypeOK(Frame)'
           /\ CloseLink => LinkTypeOK(Frame)'
           /\ TakeFrame => LinkTypeOK(Frame)'
           /\ Push(<<f>>) => LinkTypeOK(Frame)'
<1>1. /\ socket \in {"none", "up", "dead"} /\ registered \in BOOLEAN /\ closing \in BOOLEAN
      /\ inbound \in Seq(Frame) /\ losses \in 0 .. MaxLosses /\ MaxLosses \in Nat
  BY LossAssumption DEF LinkTypeOK
<1>2. Connect \/ Acknowledged \/ ReadEnds \/ CloseLink => LinkTypeOK(Frame)'
  BY <1>1 DEF LinkTypeOK, Connect, Acknowledged, ReadEnds, CloseLink
<1>3. ASSUME LinkDies PROVE LinkTypeOK(Frame)'
  <2>1. PICK n \in 0 .. Len(inbound) : inbound' = SubSeq(inbound, 1, n)
    BY <1>3 DEF LinkDies
  <2>2. inbound' \in Seq(Frame)
    BY <1>1, <2>1, PrefixIs
  <2>3. losses' \in 0 .. MaxLosses
    BY <1>1, <1>3 DEF LinkDies
  <2>4. QED
    BY <1>1, <1>3, <2>2, <2>3 DEF LinkDies, LinkTypeOK
<1>4. ASSUME TakeFrame PROVE LinkTypeOK(Frame)'
  <2>1. inbound' \in Seq(Frame)
    BY <1>1, <1>4 DEF TakeFrame
  <2>2. QED
    BY <1>1, <1>4, <2>1 DEF TakeFrame, LinkTypeOK
<1>5. ASSUME Push(<<f>>) PROVE LinkTypeOK(Frame)'
  <2>1. inbound \o <<f>> \in Seq(Frame)
    BY <1>1
  <2>2. inbound' \in Seq(Frame)
    BY <1>1, <1>5, <2>1 DEF Push
  <2>3. QED
    BY <1>1, <1>5, <2>2 DEF Push, LinkTypeOK
<1>6. QED
  BY <1>2, <1>3, <1>4, <1>5

LEMMA AFrame == \E f : f \in Frame
<1>1. [room |-> Nobody, agent |-> "main"] \in Frame
  BY DEF Frame, Agents
<1>2. QED
  BY <1>1

roomsUntouched == <<scenario, joined, admin, used, file, phase, rooms, created, known, heard>>

LEMMA QuietStarts ==
    ASSUME StartInv, UNCHANGED roomsUntouched, spent' \in Spent, LinkTypeOK(Frame)'
    PROVE  StartInv'
BY QuietRooms DEF StartInv, RoomTypes, roomsUntouched

LEMMA StillStarts ==
    ASSUME StartInv,
           \/ IgnoreEvent \/ TakeText \/ TakeMedia \/ Downloaded \/ Flush \/ Dispatch \/ SendReturns
    PROVE  StartInv'
<1>1. UNCHANGED <<roomsUntouched, spent, linkVars>>
  BY DEF IgnoreEvent, TakeText, TakeMedia, Downloaded, Flush, Dispatch, SendReturns, roomsUntouched,
         homeVars, roomVars, ghosts
<1>2. spent' \in Spent /\ LinkTypeOK(Frame)'
  BY <1>1 DEF StartInv, RoomTypes, linkVars, LinkTypeOK
<1>3. QED
  BY <1>1, <1>2, QuietStarts

LEMMA LinkedStarts ==
    ASSUME StartInv, delivered \in Seq(Message),
           Post \/ AgentAnswers \/ AgentBeats \/ SendText \/ Shutdown \/ LinkStep
    PROVE  StartInv'
<1>1. LinkTypeOK(Frame) /\ spent \in Spent
  BY DEF StartInv, RoomTypes
<1>2. UNCHANGED roomsUntouched
  BY DEF Post, AgentAnswers, AgentBeats, SendText, Shutdown, LinkStep, roomsUntouched,
         homeVars, roomVars, ghosts
<1>3. spent' \in Spent
  BY <1>1, SpendIs DEF StartInv, Post, AgentAnswers, AgentBeats, SendText, Shutdown, LinkStep, ghosts
<1>4. LinkTypeOK(Frame)'
  <2>1. CASE Post
    BY <1>1, <2>1 DEF Post, linkVars, LinkTypeOK
  <2>2. CASE SendText \/ Shutdown \/ LinkStep
    BY <1>1, <2>2, AFrame, LinkIs DEF SendText, Shutdown, LinkStep
  <2>3. CASE AgentBeats
    <3>1. PICK agent \in Agents : Push(<<[room |-> Nobody, agent |-> agent]>>)
      BY <2>3 DEF AgentBeats
    <3>2. [room |-> Nobody, agent |-> agent] \in Frame
      BY DEF Frame
    <3>3. QED
      BY <1>1, <3>1, <3>2, LinkIs
  <2>4. CASE AgentAnswers
    <3>1. PICK k \in DOMAIN delivered : Push(<<[room |-> delivered[k].room, agent |-> "main"]>>)
      BY <2>4 DEF AgentAnswers
    <3>2. delivered[k] \in Message
      BY <2>4
    <3>3. [room |-> delivered[k].room, agent |-> "main"] \in Frame
      BY <3>2 DEF Frame, Message, Agents
    <3>4. QED
      BY <1>1, <3>1, <3>3, LinkIs
  <2>5. QED
    BY <2>1, <2>2, <2>3, <2>4
<1>5. QED
  BY <1>2, <1>3, <1>4, QuietStarts

LEMMA NextSyncStarts ==
    ASSUME StartInv, NextSync PROVE StartInv'
<1>1. phase = "listening" /\ phase' = "listening" /\ known' = joined
  BY DEF NextSync, Synced
<1>2. UNCHANGED <<scenario, homeVars, rooms, created, heard, spent, linkVars>>
  BY DEF NextSync, ghosts
<1>3. RoomTypes'
  BY <1>1, <1>2 DEF StartInv, RoomTypes, homeVars, linkVars, LinkTypeOK
<1>4. QED
  BY <1>1, <1>2, <1>3 DEF StartInv, RoomInv, homeVars, Unmet, Range

LEMMA TakeInviteStarts ==
    ASSUME StartInv, TakeInvite PROVE StartInv'
<1>1. PICK i \in batch : joined' = joined \cup ({history[i].room} \cap DOMAIN rooms)
  BY DEF TakeInvite
<1>2. UNCHANGED <<scenario, admin, used, file, phase, rooms, created, known, heard, spent, linkVars>>
  BY DEF TakeInvite, roomVars, ghosts
<1>3. joined \subseteq joined' /\ joined' \subseteq joined \cup DOMAIN rooms
  BY <1>1
<1>4. RoomTypes'
  BY <1>2, <1>3 DEF StartInv, RoomTypes, linkVars, LinkTypeOK
<1>5. \A r \in joined' \ joined : r \in DOMAIN rooms /\ r \notin admin
  BY <1>3 DEF StartInv, RoomTypes
<1>6. QED
  BY <1>2, <1>3, <1>4, <1>5 DEF StartInv, RoomInv, Unmet, Range

LEMMA SyncCrashesStarts ==
    ASSUME StartInv, SyncCrashes PROVE StartInv'
<1>1. phase = "listening" /\ phase' = "crashed"
  BY DEF SyncCrashes
<1>2. UNCHANGED <<scenario, homeVars, rooms, created, known, heard, linkVars>>
  BY DEF SyncCrashes
<1>3. spent' \in Spent
  BY SpendIs DEF SyncCrashes, StartInv
<1>4. RoomTypes'
  BY <1>1, <1>2, <1>3 DEF StartInv, RoomTypes, homeVars, linkVars, LinkTypeOK
<1>5. QED
  BY <1>1, <1>2, <1>4 DEF StartInv, RoomInv, homeVars, Unmet, Range

LEMMA DieStarts ==
    ASSUME StartInv, Die PROVE StartInv'
<1>1. phase' = "down" /\ known' = {} /\ heard' = FALSE /\ rooms' = <<>> /\ created' = <<>>
  BY DEF Die, Fresh, None
<1>2. UNCHANGED <<scenario, homeVars, losses>>
  BY DEF Die
<1>3. spent' \in Spent
  BY SpendIs DEF Die, StartInv
<1>4. LinkTypeOK(Frame)'
  <2>1. inbound' \in Seq(Frame)
    BY DEF Die
  <2>2. QED
    BY <1>2, <2>1 DEF Die, StartInv, RoomTypes, LinkTypeOK
<1>5. DOMAIN rooms' = {} /\ Range(created') = {}
  BY <1>1 DEF Range
<1>6. RoomTypes'
  BY <1>1, <1>2, <1>3, <1>4, <1>5 DEF StartInv, RoomTypes, homeVars
<1>7. QED
  BY <1>1, <1>2, <1>5, <1>6 DEF StartInv, RoomInv, homeVars, Unmet

-----------------------------------------------------------------------------
(* The words in every other step: what is unchanged carries its part of the *)
(* invariant along.                                                         *)

LEMMA HeapStill ==
    ASSUME UNCHANGED <<buffer, flushing, delivered>>
    PROVE  /\ Queued => Queued'
           /\ Single => Single'
           /\ UNCHANGED overlapped /\ InTurn => InTurn'
           /\ \A i : (Waits(i)' <=> Waits(i)) /\ (Sent(i)' <=> Sent(i))
<1>1. /\ Queued => Queued'
      /\ UNCHANGED overlapped /\ InTurn => InTurn'
      /\ Single => Single'
  BY DEF Queued, Single, InTurn, Rising, Before
<1>2. \A i : (Waits(i)' <=> Waits(i)) /\ (Sent(i)' <=> Sent(i))
  BY DEF Waits, InBuffer, InFlush, Sent
<1>3. QED
  BY <1>1, <1>2

LEMMA QuietWords ==
    ASSUME WordInv, UNCHANGED <<wordVars, token, batch, heard, phase, joined, rooms>>
    PROVE  WordInv'
<1>1. /\ Apart' /\ WaitingWords' /\ SentWords' /\ Echoes' /\ Queued' /\ Single' /\ InTurn'
      /\ \A i : (Waits(i)' <=> Waits(i)) /\ (Sent(i)' <=> Sent(i))
  BY StillWords
<1>2. WordTypes'
  BY DEF WordInv, WordTypes, wordVars, Position
<1>3. Reading'
  BY <1>1 DEF WordInv, Reading, Deaf, Progress, Position, wordVars
<1>4. Expected'
  BY <1>1 DEF WordInv, Expected, Owed, Ahead, wordVars
<1>5. QED
  BY <1>1, <1>2, <1>3, <1>4 DEF WordInv

LEMMA LinkedWords ==
    ASSUME WordInv, AgentAnswers \/ AgentBeats \/ Shutdown \/ LinkStep PROVE WordInv'
<1>1. UNCHANGED <<wordVars, token, batch, heard, phase, joined, rooms>>
  BY DEF AgentAnswers, AgentBeats, Shutdown, LinkStep, wordVars, homeVars, roomVars, readVars,
         mergeVars, sendVars, ghosts
<1>2. QED
  BY <1>1, QuietWords

\* The types that every step needs.
LEMMA WordsAre ==
    ASSUME WordTypes
    PROVE  /\ Len(history) \in Nat /\ token \in Nat /\ busy \in Nat /\ sending \in Nat
           /\ token <= Len(history) /\ busy <= Len(history) /\ sending <= Len(history)
           /\ \A i \in batch : i \in Nat /\ 1 <= i /\ i <= token
           /\ Position = 1 .. Len(history)
           /\ \A i \in Position : i \in Nat /\ history[i] \in Event
           /\ \A i \in ownIds \cup due \cup lost : i \in Position
           /\ \A r \in Rooms : buffer[r] \in Seq(Nat)
           /\ \A k \in DOMAIN flushing :
                flushing[k] \in Task /\ flushing[k].room \in Rooms /\ flushing[k].parts \in Seq(Nat)
           /\ \A k \in DOMAIN delivered :
                delivered[k] \in Message /\ delivered[k].room \in Rooms /\ delivered[k].parts \in Seq(Nat)
<1>1. Len(history) \in Nat /\ Position = 1 .. Len(history) /\ \A i \in 1 .. Len(history) : history[i] \in Event
  BY DEF WordTypes, Position
<1>2. \A k \in DOMAIN flushing : flushing[k] \in Task
  BY DEF WordTypes
<1>3. \A k \in DOMAIN delivered : delivered[k] \in Message
  BY DEF WordTypes
<1>4. /\ token \in Nat /\ busy \in Nat /\ sending \in Nat
      /\ token <= Len(history) /\ busy <= Len(history) /\ sending <= Len(history)
  BY <1>1 DEF WordTypes
<1>5. \A i \in batch : i \in Nat /\ 1 <= i /\ i <= token
  BY <1>4 DEF WordTypes
<1>6. (\A i \in ownIds \cup due \cup lost : i \in Position) /\ (\A r \in Rooms : buffer[r] \in Seq(Nat))
  BY DEF WordTypes
<1>7. \A i \in Position : i \in Nat
  BY <1>1
<1>8. QED
  BY <1>1, <1>2, <1>3, <1>4, <1>5, <1>6, <1>7 DEF Task, Message

LEMMA SendReturnsWords ==
    ASSUME WordInv, SendReturns PROVE WordInv'
<1>1. /\ UNCHANGED <<history, buffer, timer, flushing, delivered, overlapped, busy, due, lost>>
      /\ UNCHANGED <<token, batch, heard, phase, joined, rooms>>
  BY DEF SendReturns, homeVars, roomVars, readVars, mergeVars, ghosts
<1>2. sending # 0 /\ sending' = 0 /\ ownIds' = ownIds \cup {sending}
  BY DEF SendReturns
<1>3. WordTypes'
  BY <1>1, <1>2, WordsAre DEF WordInv, WordTypes, Position
<1>4. /\ Queued' /\ Single' /\ InTurn'
      /\ \A i : (Waits(i)' <=> Waits(i)) /\ (Sent(i)' <=> Sent(i))
  BY <1>1, HeapStill DEF WordInv
<1>5. Apart' /\ Reading' /\ Expected'
  BY <1>1, <1>4 DEF WordInv, Apart, Reading, Deaf, Progress, Position, Expected, Owed, Ahead
<1>6. WaitingWords' /\ SentWords'
  BY <1>1 DEF WordInv, WaitingWords, SentWords, Said, Trust, Position
<1>7. Echoes'
  BY <1>1, <1>2 DEF WordInv, Echoes
<1>8. QED
  BY <1>3, <1>4, <1>5, <1>6, <1>7 DEF WordInv

LEMMA NextSyncWords ==
    ASSUME WordInv, RoomInv, NextSync PROVE WordInv'
<1>1. /\ UNCHANGED wordVars /\ UNCHANGED <<heard, phase, joined, rooms>>
      /\ batch = {} /\ busy = 0 /\ batch' = Positions(token) /\ token' = Len(history)
      /\ phase = "listening"
  BY DEF NextSync, Synced, wordVars, homeVars, roomVars, mergeVars, sendVars, ghosts
<1>2. /\ Apart' /\ WaitingWords' /\ SentWords' /\ Echoes' /\ Queued' /\ Single' /\ InTurn'
      /\ \A i : (Waits(i)' <=> Waits(i)) /\ (Sent(i)' <=> Sent(i))
  BY <1>1, StillWords
<1>3. /\ Len(history) \in Nat /\ token \in Nat /\ token <= Len(history)
      /\ lost \subseteq Position /\ Position = 1 .. Len(history)
  BY WordsAre DEF WordInv
<1>4. UNCHANGED <<history, buffer, timer, flushing, delivered, busy, ownIds, sending, due, lost, overlapped>>
  BY <1>1 DEF wordVars
<1>5. \A i \in batch' : i \in token + 1 .. Len(history)
  BY <1>1 DEF Positions
<1>6. WordTypes'
  <2>1. batch' \in SUBSET (1 .. token')
    BY <1>1, <1>3, <1>5
  <2>2. QED
    BY <1>1, <1>3, <1>4, <2>1 DEF WordInv, WordTypes, Position
<1>7. heard => Progress'
  <2> SUFFICES ASSUME heard PROVE Progress'
    OBVIOUS
  <2>1. \A i : Waits(i) \/ Sent(i) => i \in 1 .. token
    BY DEF WordInv, Reading, Progress
  <2>2. \A i \in lost : i <= token
    BY <1>1 DEF WordInv, Reading, Progress
  <2>3. \A i : Waits(i)' \/ Sent(i)' => i \in 1 .. token' /\ \A j \in batch' : i < j
    BY <1>1, <1>2, <1>3, <1>5, <2>1
  <2>4. \A i \in lost' : i <= token' /\ i # busy' /\ i \notin batch'
    BY <1>1, <1>3, <1>4, <1>5, <2>2
  <2>5. QED
    BY <1>1, <1>4, <2>3, <2>4 DEF Progress
<1>8. Reading'
  BY <1>1, <1>2, <1>4, <1>7 DEF WordInv, Reading, Deaf, Position
<1>9. Expected'
  <2> SUFFICES ASSUME NEW i \in due, ~(i \in lost \/ Sent(i)) PROVE Owed(i)'
    BY <1>2, <1>4 DEF Expected
  <2>1. Owed(i)
    BY DEF WordInv, Expected
  <2>2. Waits(i) \/ i \in token + 1 .. Len(history)
    BY <1>1, <2>1 DEF Owed, Ahead
  <2>3. i \in token + 1 .. Len(history) => i \in batch'
    BY <1>1, <2>1 DEF Owed, Positions
  <2>4. QED
    BY <1>1, <1>2, <1>4, <2>1, <2>2, <2>3 DEF Owed, Ahead
<1>10. QED
  BY <1>2, <1>6, <1>8, <1>9 DEF WordInv

-----------------------------------------------------------------------------
(* What people post, and the bot.                                          *)

\* The history grows by one event; nothing else that the adapter reads moves.
LEMMA Longer ==
    ASSUME WordInv, NEW e \in Event, history' = Append(history, e),
           UNCHANGED <<buffer, timer, flushing, delivered, overlapped, busy, ownIds, lost>>,
           UNCHANGED <<token, batch, heard, phase, joined, rooms>>,
           due \subseteq due', due' \subseteq due \cup {Len(history')}, due' = due \/ heard,
           sending' = sending \/ sending' = Len(history')
    PROVE  /\ Len(history') = Len(history) + 1 /\ Len(history) \in Nat /\ history'[Len(history')] = e
           /\ \A i \in Position : history'[i] = history[i]
           /\ WordTypes' /\ Reading' /\ Apart' /\ WaitingWords' /\ SentWords' /\ Queued' /\ Single' /\ InTurn'
           /\ \A i : (Waits(i)' <=> Waits(i)) /\ (Sent(i)' <=> Sent(i))
           /\ \A i \in due : i \in lost \/ Sent(i) \/ Owed(i)'
<1>1. /\ Len(history') = Len(history) + 1 /\ Len(history) \in Nat /\ history'[Len(history')] = e
      /\ history' \in Seq(Event)
      /\ \A i \in 1 .. Len(history) : history'[i] = history[i]
  BY AppendIs DEF WordInv, WordTypes
<1>2. /\ Position = 1 .. Len(history) /\ Position' = 1 .. Len(history')
      /\ Position \subseteq Position' /\ Len(history') \in Position'
      /\ \A i \in Position : history'[i] = history[i]
  BY <1>1 DEF Position
<1>3. /\ Queued' /\ Single' /\ InTurn'
      /\ \A i : (Waits(i)' <=> Waits(i)) /\ (Sent(i)' <=> Sent(i))
  BY HeapStill DEF WordInv
<1>4. WordTypes'
  <2>1. /\ token \in 0 .. Len(history) /\ busy \in 0 .. Len(history) /\ sending \in 0 .. Len(history)
        /\ ownIds \cup due \cup lost \subseteq Position
    BY DEF WordInv, WordTypes
  <2>2. token' \in 0 .. Len(history') /\ busy' \in 0 .. Len(history') /\ sending' \in 0 .. Len(history')
    BY <1>1, <2>1
  <2>3. ownIds' \cup due' \cup lost' \subseteq Position'
    BY <1>2, <2>1
  <2>4. QED
    BY <1>1, <2>2, <2>3 DEF WordInv, WordTypes
<1>5. Reading'
  BY <1>2, <1>3 DEF WordInv, Reading, Deaf, Progress
<1>6. Apart'
  BY <1>3 DEF WordInv, Apart
<1>7. \A i, r : Said(i, r) => Said(i, r)'
  BY <1>2 DEF Said
<1>8. WaitingWords'
  <2>1. busy # 0 => busy \in Position
    BY DEF WordInv, WaitingWords, Said
  <2>2. busy # 0 => Said(busy, history[busy].room)'
    BY <1>2, <2>1 DEF WordInv, WaitingWords, Said
  <2>3. (\A r \in Rooms : \A m \in DOMAIN buffer[r] : Said(buffer[r][m], r))'
    BY <1>7 DEF WordInv, WaitingWords
  <2>4. (\A k \in DOMAIN flushing : \A m \in DOMAIN flushing[k].parts : Said(flushing[k].parts[m], flushing[k].room))'
    BY <1>7 DEF WordInv, WaitingWords
  <2>5. QED
    BY <2>2, <2>3, <2>4 DEF WaitingWords
<1>9. SentWords'
  <2> SUFFICES ASSUME NEW k \in DOMAIN delivered
               PROVE  /\ delivered[k].parts # <<>>
                      /\ \A m \in DOMAIN delivered[k].parts :
                           /\ Said(delivered[k].parts[m], delivered[k].room)'
                           /\ history'[delivered[k].parts[m]].sender = history'[delivered[k].parts[1]].sender
                      /\ delivered[k].trust = Trust(history'[delivered[k].parts[1]].sender)
    BY DEF SentWords, Trust
  <2>1. delivered[k].parts # <<>> /\ delivered[k].parts \in Seq(Nat)
    BY WordsAre DEF WordInv, SentWords
  <2>2. 1 \in DOMAIN delivered[k].parts
    BY <2>1
  <2>3. \A m \in DOMAIN delivered[k].parts :
          /\ Said(delivered[k].parts[m], delivered[k].room) /\ delivered[k].parts[m] \in Position
          /\ history[delivered[k].parts[m]].sender = history[delivered[k].parts[1]].sender
    BY DEF WordInv, SentWords, Said
  <2>4. \A m \in DOMAIN delivered[k].parts : history'[delivered[k].parts[m]] = history[delivered[k].parts[m]]
    BY <1>2, <2>3
  <2>5. delivered[k].trust = Trust(history[delivered[k].parts[1]].sender)
    BY DEF WordInv, SentWords
  <2>6. QED
    BY <1>7, <2>1, <2>2, <2>3, <2>4, <2>5
<1>10. ASSUME NEW i \in due PROVE i \in lost \/ Sent(i) \/ Owed(i)'
  <2>1. CASE i \in lost \/ Sent(i)
    BY <2>1
  <2>2. CASE Owed(i)
    <3>1. i \in Position
      BY WordsAre DEF WordInv
    <3>2. i \in Ahead => i \in Ahead'
      BY <1>1, WordsAre DEF WordInv, Ahead
    <3>3. QED
      BY <1>2, <1>3, <2>2, <3>1, <3>2 DEF Owed
  <2>3. QED
    BY <2>1, <2>2 DEF WordInv, Expected
<1>11. QED
  BY <1>1, <1>2, <1>3, <1>4, <1>5, <1>6, <1>8, <1>9, <1>10

LEMMA PostWords ==
    ASSUME WordInv, RoomTypes, Post PROVE WordInv'
<1>1. spent'.posts \in 1 .. scenario.posts /\ scenario.posts = Len(scenario.script)
      /\ scenario.script \in Seq([sender : People, kind : {Text, Aside, Media}])
  BY SpendIs, ScenarioIs DEF Post, RoomTypes
<1>2. PICK said \in [sender : People, kind : {Text, Aside, Media}] : said = scenario.script[spent'.posts]
  <2>1. PICK script : script = scenario.script
    OBVIOUS
  <2>2. script \in Seq([sender : People, kind : {Text, Aside, Media}]) /\ spent'.posts \in 1 .. Len(script)
    BY <1>1, <2>1
  <2>3. script[spent'.posts] \in [sender : People, kind : {Text, Aside, Media}]
    BY <2>2, ElementIs
  <2>4. QED
    BY <2>1, <2>3
<1>3. PICK room \in joined :
        /\ history' = Append(history, [room |-> room, sender |-> said.sender, kind |-> said.kind])
        /\ due' = IF phase = "listening" /\ heard /\ room \in DOMAIN rooms /\ said.kind # Aside
                  THEN due \cup {Len(history')} ELSE due
  BY <1>2 DEF Post
<1>4. PICK e : e = [room |-> room, sender |-> said.sender, kind |-> said.kind]
  OBVIOUS
<1>5. room \in Rooms /\ said.sender \in People /\ said.kind \in {Text, Aside, Media}
  BY DEF RoomTypes
<1>6. e \in Event /\ e.room = room /\ e.sender \in People /\ e.kind = said.kind
  BY <1>4, <1>5 DEF Event, Kinds
<1>7. /\ UNCHANGED <<buffer, timer, flushing, delivered, overlapped, busy, ownIds, lost, sending>>
      /\ UNCHANGED <<token, batch, heard, phase, joined, rooms>>
  BY DEF Post, roomVars, readVars, mergeVars, sendVars
<1>8. due \subseteq due' /\ due' \subseteq due \cup {Len(history')} /\ (due' = due \/ heard)
  BY <1>3
<1>9. /\ Len(history') = Len(history) + 1 /\ Len(history) \in Nat /\ history'[Len(history')] = e
      /\ \A i \in Position : history'[i] = history[i]
      /\ WordTypes' /\ Reading' /\ Apart' /\ WaitingWords' /\ SentWords' /\ Queued' /\ Single' /\ InTurn'
      /\ \A i : (Waits(i)' <=> Waits(i)) /\ (Sent(i)' <=> Sent(i))
      /\ \A i \in due : i \in lost \/ Sent(i) \/ Owed(i)'
  BY <1>3, <1>4, <1>6, <1>7, <1>8, Longer
<1>10. Echoes'
  <2>1. \A i \in ownIds \cup {sending} : i # 0 => i \in Position
    BY WordsAre DEF WordInv
  <2>2. QED
    BY <1>7, <1>9, <2>1 DEF WordInv, Echoes
<1>11. PICK n : n = Len(history')
  OBVIOUS
<1>12. due' # due => Owed(n)'
  <2> SUFFICES ASSUME due' # due PROVE Owed(n)'
    OBVIOUS
  <2>1. room \in DOMAIN rooms /\ said.kind # Aside
    BY <1>3
  <2>2. n \in token' + 1 .. Len(history')
    BY <1>7, <1>9, <1>11, WordsAre DEF WordInv
  <2>3. history'[n] = e
    BY <1>9, <1>11
  <2>4. e.kind \in {Text, Media} /\ e.room \in joined' \cap DOMAIN rooms'
    BY <1>5, <1>6, <1>7, <2>1
  <2>5. QED
    BY <1>6, <2>2, <2>3, <2>4 DEF Owed, Ahead
<1>13. Expected'
  <2> SUFFICES ASSUME NEW i \in due' PROVE i \in lost' \/ Sent(i)' \/ Owed(i)'
    BY DEF Expected
  <2>1. CASE i \in due
    BY <1>7, <1>9, <2>1
  <2>2. CASE i \notin due
    BY <1>8, <1>11, <1>12, <2>2
  <2>3. QED
    BY <2>1, <2>2
<1>14. QED
  BY <1>9, <1>10, <1>13 DEF WordInv

LEMMA SendTextWords ==
    ASSUME WordInv, RoomTypes, SendText PROVE WordInv'
<1>1. /\ UNCHANGED <<buffer, timer, flushing, delivered, overlapped, busy, ownIds, lost, due>>
      /\ UNCHANGED <<token, batch, heard, phase, joined, rooms>>
      /\ sending = 0
  BY DEF SendText, roomVars, readVars, mergeVars, ghosts
<1>2. CASE UNCHANGED <<history, sending>>
  BY <1>1, <1>2, QuietWords DEF wordVars
<1>3. ASSUME NEW room \in joined,
             history' = Append(history, [room |-> room, sender |-> Bot, kind |-> Text]),
             sending' = Len(history')
      PROVE  WordInv'
  <2>1. PICK e : e = [room |-> room, sender |-> Bot, kind |-> Text]
    OBVIOUS
  <2>2. room \in Rooms
    BY DEF RoomTypes
  <2>3. e \in Event /\ e.sender = Bot
    BY <2>1, <2>2 DEF Event, Kinds
  <2>4. /\ history'[Len(history')] = e
        /\ \A i \in Position : history'[i] = history[i]
        /\ WordTypes' /\ Reading' /\ Apart' /\ WaitingWords' /\ SentWords' /\ Queued' /\ Single' /\ InTurn'
        /\ \A i : (Waits(i)' <=> Waits(i)) /\ (Sent(i)' <=> Sent(i))
        /\ \A i \in due : i \in lost \/ Sent(i) \/ Owed(i)'
    BY <1>1, <1>3, <2>1, <2>3, Longer
  <2>5. Echoes'
    <3>1. \A i \in ownIds : i \in Position
      BY WordsAre DEF WordInv
    <3>2. QED
      BY <1>1, <1>3, <2>3, <2>4, <3>1 DEF WordInv, Echoes
  <2>6. Expected'
    BY <1>1, <2>4 DEF Expected
  <2>7. QED
    BY <2>4, <2>5, <2>6 DEF WordInv
<1>4. QED
  BY <1>2, <1>3 DEF SendText

-----------------------------------------------------------------------------
(* What the adapter takes.                                                 *)

LEMMA ForwardedIs == \A i : i \in Forwarded <=> Sent(i)
BY DEF Forwarded, ToSet, Sent

\* The event it comes to is ahead of all it has taken.
LEMMA TakenIs ==
    ASSUME WordInv, NEW i \in batch, TakeEvent(i)
    PROVE  /\ busy = 0 /\ batch' = batch \ {i} /\ i \in Position /\ i \in Nat /\ i # 0 /\ i <= token
           /\ \A j \in batch' : i < j
           /\ heard => \A x : Waits(x) \/ Sent(x) => x < i
<1>1. busy = 0 /\ batch' = batch \ {i} /\ \A j \in batch : i <= j
  BY DEF TakeEvent
<1>2. \A j \in batch : j \in Nat /\ 1 <= j /\ j <= token
  BY WordsAre DEF WordInv
<1>3. i \in Position /\ i \in Nat /\ i # 0 /\ i <= token
  BY <1>2, WordsAre DEF WordInv
<1>4. \A j \in batch' : i < j
  BY <1>1, <1>2
<1>5. heard => \A x : Waits(x) \/ Sent(x) => x < i
  BY DEF WordInv, Reading, Progress
<1>6. QED
  BY <1>1, <1>3, <1>4, <1>5

\* An event is passed over that nobody is owed.
LEMMA SkipWords ==
    ASSUME WordInv, NEW i \in batch, batch' = batch \ {i}, ownIds' \subseteq ownIds,
           UNCHANGED <<history, buffer, timer, flushing, delivered, overlapped, busy, due, lost, sending>>,
           UNCHANGED <<token, heard, phase, rooms>>, joined \subseteq joined',
           i \in due => i \in lost \/ Sent(i)
    PROVE  WordInv'
<1>1. /\ Queued' /\ Single' /\ InTurn'
      /\ \A x : (Waits(x)' <=> Waits(x)) /\ (Sent(x)' <=> Sent(x))
  BY HeapStill DEF WordInv
<1>2. WordTypes'
  BY DEF WordInv, WordTypes, Position
<1>3. Apart'
  BY <1>1 DEF WordInv, Apart
<1>4. WaitingWords' /\ SentWords' /\ Echoes'
  BY DEF WordInv, WaitingWords, SentWords, Echoes, Said, Trust, Position
<1>5. Reading'
  <2>1. heard => Progress'
    BY <1>1 DEF WordInv, Reading, Progress
  <2>2. QED
    BY <1>1, <2>1 DEF WordInv, Reading, Deaf, Position
<1>6. Expected'
  <2> SUFFICES ASSUME NEW x \in due, ~(x \in lost \/ Sent(x)) PROVE Owed(x)'
    BY <1>1 DEF Expected
  <2>1. Owed(x) /\ x # i
    BY DEF WordInv, Expected
  <2>2. x \in Ahead => x \in Ahead'
    BY <2>1 DEF Ahead
  <2>3. QED
    BY <1>1, <2>1, <2>2 DEF Owed
<1>7. QED
  BY <1>1, <1>2, <1>3, <1>4, <1>5, <1>6 DEF WordInv

LEMMA OwedIs ==
    ASSUME WordInv, NEW i \in due, ~(i \in lost \/ Sent(i))
    PROVE  heard /\ ~Own(i) /\ history[i].room \in DOMAIN rooms /\ history[i].kind \in {Text, Media}
<1>1. Owed(i)
  BY DEF WordInv, Expected
<1>2. heard
  BY DEF WordInv, Reading, Deaf
<1>3. history[i].sender # Bot
  BY <1>1, ScenarioAssumption DEF Owed
<1>4. i \notin ownIds
  <2>1. i \in Position
    BY WordsAre DEF WordInv
  <2>2. i # 0
    BY <2>1, WordsAre DEF WordInv
  <2>3. QED
    BY <1>3, <2>2 DEF WordInv, Echoes
<1>5. QED
  BY <1>1, <1>2, <1>3, <1>4 DEF Own, Owed

LEMMA IgnoreEventWords ==
    ASSUME WordInv, IgnoreEvent PROVE WordInv'
<1>1. PICK i \in batch : /\ TakeEvent(i) /\ Ignored(i)
                         /\ ownIds' = IF heard /\ Own(i) THEN ownIds \ {i} ELSE ownIds
  BY DEF IgnoreEvent
<1>2. i \in due => i \in lost \/ Sent(i)
  BY <1>1, OwedIs DEF Ignored, Text, Media, Aside
<1>3. /\ UNCHANGED <<history, buffer, timer, flushing, delivered, overlapped, busy, due, lost, sending>>
      /\ UNCHANGED <<token, heard, phase, rooms, joined>>
  BY DEF IgnoreEvent, homeVars, roomVars, mergeVars, ghosts
<1>4. batch' = batch \ {i} /\ ownIds' \subseteq ownIds
  BY <1>1 DEF TakeEvent
<1>5. QED
  BY <1>2, <1>3, <1>4, SkipWords

LEMMA TakeInviteWords ==
    ASSUME WordInv, TakeInvite PROVE WordInv'
<1>1. PICK i \in batch : /\ TakeEvent(i) /\ history[i].kind = Invite
                         /\ joined' = joined \cup ({history[i].room} \cap DOMAIN rooms)
  BY DEF TakeInvite
<1>2. i \in due => i \in lost \/ Sent(i)
  BY <1>1, OwedIs DEF Text, Media, Invite
<1>3. /\ UNCHANGED <<history, buffer, timer, flushing, delivered, overlapped, busy, due, lost, sending, ownIds>>
      /\ UNCHANGED <<token, heard, phase, rooms>>
  BY DEF TakeInvite, roomVars, mergeVars, sendVars, ghosts
<1>4. batch' = batch \ {i} /\ joined \subseteq joined'
  BY <1>1 DEF TakeEvent
<1>5. QED
  BY <1>2, <1>3, <1>4, SkipWords

\* What the handlers of messages know of one that they do not return on.
LEMMA HeardIs ==
    ASSUME WordInv, StartInv, NEW i \in batch, ~Ignored(i)
    PROVE  heard /\ phase = "listening" /\ i \notin lost /\ Said(i, history[i].room)
<1>1. heard /\ history[i].sender # Bot
  BY DEF Ignored, Own
<1>2. phase = "listening"
  BY <1>1 DEF WordInv, Reading, Progress, StartInv, RoomInv
<1>3. i \notin lost
  BY <1>1, <1>2 DEF WordInv, Reading, Progress
<1>4. i \in Position /\ history[i] \in Event
  BY WordsAre DEF WordInv
<1>5. QED
  BY <1>1, <1>2, <1>3, <1>4 DEF Said, Event

LEMMA TakeMediaWords ==
    ASSUME WordInv, StartInv, TakeMedia PROVE WordInv'
<1>1. PICK i \in batch : TakeEvent(i) /\ ~Ignored(i) /\ busy' = i
  BY DEF TakeMedia
<1>2. heard /\ phase = "listening" /\ i \notin lost /\ Said(i, history[i].room)
  BY <1>1, HeardIs
<1>3. /\ busy = 0 /\ batch' = batch \ {i} /\ i \in Position /\ i \in Nat /\ i # 0 /\ i <= token
      /\ \A j \in batch' : i < j
      /\ \A x : Waits(x) \/ Sent(x) => x < i
  BY <1>1, <1>2, TakenIs
<1>4. /\ UNCHANGED <<history, buffer, timer, flushing, delivered, overlapped, due, lost, sending, ownIds>>
      /\ UNCHANGED <<token, heard, phase, rooms, joined>>
  BY DEF TakeMedia, homeVars, roomVars, mergeVars, sendVars, ghosts
<1>5. /\ Queued' /\ Single' /\ InTurn'
      /\ \A x : (Waits(x)' <=> Waits(x)) /\ (Sent(x)' <=> Sent(x))
  BY <1>4, HeapStill DEF WordInv
<1>6. WordTypes'
  <2>1. busy' \in 0 .. Len(history) /\ batch' \in SUBSET (1 .. token)
    BY <1>1, <1>3, WordsAre DEF WordInv
  <2>2. QED
    BY <1>4, <2>1 DEF WordInv, WordTypes, Position
<1>7. Apart' /\ SentWords' /\ Echoes'
  BY <1>4, <1>5 DEF WordInv, Apart, SentWords, Echoes, Said, Trust, Position
<1>8. WaitingWords'
  BY <1>1, <1>2, <1>4 DEF WordInv, WaitingWords, Said, Position
<1>9. Reading'
  <2>1. Progress
    BY <1>2 DEF WordInv, Reading
  <2>2. \A x : Waits(x)' \/ Sent(x)' =>
             x \in 1 .. token' /\ (busy' # 0 => x < busy') /\ \A j \in batch' : x < j
    BY <1>1, <1>3, <1>4, <1>5, <2>1 DEF Progress
  <2>3. \A x \in lost' : x <= token' /\ x # busy' /\ x \notin batch'
    BY <1>1, <1>2, <1>3, <1>4, <2>1 DEF Progress
  <2>4. Progress'
    BY <1>1, <1>2, <1>3, <1>4, <2>2, <2>3 DEF Progress
  <2>5. QED
    BY <1>2, <1>4, <1>5, <2>4 DEF WordInv, Reading, Position
<1>10. Expected'
  <2> SUFFICES ASSUME NEW x \in due, ~(x \in lost \/ Sent(x)) PROVE Owed(x)'
    BY <1>4, <1>5 DEF Expected
  <2>1. Owed(x)
    BY DEF WordInv, Expected
  <2>2. x \in Ahead => x \in Ahead' \/ x = busy'
    BY <1>1, <1>3, <1>4 DEF Ahead
  <2>3. QED
    BY <1>1, <1>3, <1>4, <1>5, <2>1, <2>2 DEF Owed
<1>11. QED
  BY <1>5, <1>6, <1>7, <1>8, <1>9, <1>10 DEF WordInv

\* A download fails.
LEMMA LoseWords ==
    ASSUME WordInv, busy # 0, busy' = 0, lost' = lost \cup {busy},
           UNCHANGED <<history, buffer, timer, flushing, delivered, overlapped, due, sending, ownIds>>,
           UNCHANGED <<token, batch, heard, phase, rooms, joined>>
    PROVE  WordInv'
<1>1. heard /\ Progress
  BY DEF WordInv, Reading, Deaf
<1>2. /\ Queued' /\ Single' /\ InTurn'
      /\ \A x : (Waits(x)' <=> Waits(x)) /\ (Sent(x)' <=> Sent(x))
  BY HeapStill DEF WordInv
<1>3. busy \in Position /\ busy \in Nat
  BY DEF WordInv, WaitingWords, Said, WordTypes
<1>4. WordTypes'
  <2>1. busy' \in 0 .. Len(history) /\ ownIds' \cup due' \cup lost' \subseteq Position
    BY <1>3, WordsAre DEF WordInv
  <2>2. QED
    BY <2>1 DEF WordInv, WordTypes, Position
<1>5. ~Waits(busy) /\ ~Sent(busy)
  BY <1>1, <1>3 DEF Progress
<1>6. Apart'
  BY <1>2, <1>5 DEF WordInv, Apart
<1>7. WaitingWords' /\ SentWords' /\ Echoes'
  BY DEF WordInv, WaitingWords, SentWords, Echoes, Said, Trust, Position
<1>8. busy \notin batch /\ busy <= token
  BY <1>1, <1>3 DEF Progress
<1>9. Reading'
  <2>1. phase = "listening" => \A x \in lost' : x <= token' /\ x # busy' /\ x \notin batch'
    <3> SUFFICES ASSUME phase = "listening", NEW x \in lost' PROVE x <= token' /\ x # busy' /\ x \notin batch'
      OBVIOUS
    <3>1. x # 0
      BY <1>3, WordsAre DEF WordInv
    <3>2. QED
      BY <1>1, <1>8, <3>1 DEF Progress
  <2>2. Progress'
    BY <1>1, <1>2, <2>1 DEF Progress
  <2>3. phase = "leaving" => \A i : i \in lost' \/ Sent(i)' => i <= token'
    BY <1>2, <1>8 DEF WordInv, Reading
  <2>4. QED
    BY <1>1, <1>2, <2>2, <2>3 DEF WordInv, Reading, Position
<1>10. Expected'
  BY <1>2 DEF WordInv, Expected, Owed, Ahead
<1>11. QED
  BY <1>2, <1>4, <1>6, <1>7, <1>9, <1>10 DEF WordInv

LEMMA SyncCrashesWords ==
    ASSUME WordInv, SyncCrashes PROVE WordInv'
<1>1. /\ UNCHANGED <<history, buffer, timer, flushing, delivered, overlapped, due, sending, ownIds>>
      /\ UNCHANGED <<token, heard, rooms, joined>>
      /\ phase = "listening" /\ phase' = "crashed" /\ batch' = {} /\ busy' = 0
      /\ lost' = lost \cup {i \in due \ Forwarded : i > token \/ i = busy \/ i \in batch}
  BY DEF SyncCrashes, homeVars, mergeVars, sendVars
<1>2. /\ Queued' /\ Single' /\ InTurn'
      /\ \A x : (Waits(x)' <=> Waits(x)) /\ (Sent(x)' <=> Sent(x))
  BY <1>1, HeapStill DEF WordInv
<1>3. WordTypes'
  <2>1. lost' \subseteq lost \cup due
    BY <1>1
  <2>2. busy' \in 0 .. Len(history) /\ ownIds' \cup due' \cup lost' \subseteq Position
    BY <1>1, <2>1, WordsAre DEF WordInv
  <2>3. QED
    BY <1>1, <2>2 DEF WordInv, WordTypes, Position
<1>4. \A x \in lost' \ lost : x \in due /\ ~Sent(x) /\ x \in Nat /\ x # 0 /\ (x > token \/ x = busy \/ x \in batch)
  BY <1>1, ForwardedIs, WordsAre DEF WordInv
<1>5. Apart'
  <2>1. \A x \in lost' \ lost : heard
    BY <1>4 DEF WordInv, Reading, Deaf
  <2>2. \A x \in lost' \ lost : ~Waits(x)
    <3> SUFFICES ASSUME NEW x \in lost' \ lost PROVE ~Waits(x)
      OBVIOUS
    <3>1. Progress
      BY <2>1 DEF WordInv, Reading
    <3>2. token \in Nat /\ x \in Nat
      BY <1>4, WordsAre DEF WordInv
    <3>3. QED
      BY <1>4, <3>1, <3>2 DEF Progress
  <2>3. lost \subseteq lost'
    BY <1>1
  <2>4. QED
    BY <1>2, <1>4, <2>2, <2>3 DEF WordInv, Apart
<1>6. WaitingWords' /\ SentWords' /\ Echoes'
  BY <1>1 DEF WordInv, WaitingWords, SentWords, Echoes, Said, Trust, Position
<1>7. Reading'
  <2>1. ~heard => Deaf'
    BY <1>1, <1>2 DEF WordInv, Reading, Deaf
  <2>2. heard => Progress'
    BY <1>1, <1>2 DEF WordInv, Reading, Progress
  <2>3. QED
    BY <1>1, <1>2, <2>1, <2>2 DEF WordInv, Reading, Position
<1>8. Expected'
  <2> SUFFICES ASSUME NEW x \in due, x \notin lost', ~Sent(x) PROVE Owed(x)'
    BY <1>1, <1>2 DEF Expected
  <2>1. Owed(x)
    BY <1>1 DEF WordInv, Expected
  <2>2. ~(x > token) /\ x # busy /\ x \notin batch
    BY <1>1, ForwardedIs
  <2>3. x \notin Ahead
    BY <2>2, WordsAre DEF Ahead, WordInv
  <2>4. Waits(x)
    BY <2>1, <2>2, <2>3 DEF Owed
  <2>5. QED
    BY <1>1, <1>2, <2>1, <2>4 DEF Owed
<1>9. QED
  BY <1>2, <1>3, <1>5, <1>6, <1>7, <1>8 DEF WordInv

LEMMA DieWords ==
    ASSUME WordInv, Die PROVE WordInv'
<1>1. /\ buffer' = [r \in Rooms |-> <<>>] /\ timer' = {} /\ flushing' = <<>> /\ batch' = {} /\ busy' = 0
      /\ sending' = 0 /\ ownIds' = {} /\ token' = 0 /\ heard' = FALSE /\ phase' = "down"
      /\ lost' = lost \cup (due \ Forwarded)
      /\ UNCHANGED <<history, joined, delivered, due, overlapped>>
  BY DEF Die, Fresh, homeVars
<1>2. \A S : <<>> \in Seq(S) /\ DOMAIN <<>> = {}
  OBVIOUS
<1>3. \A x : (Sent(x)' <=> Sent(x)) /\ ~Waits(x)'
  BY <1>1, <1>2 DEF Sent, Waits, InBuffer, InFlush
<1>4. WordTypes'
  <2>1. lost' \subseteq Position /\ due' \subseteq Position /\ Position' = Position
    BY <1>1, WordsAre DEF WordInv, Position
  <2>2. buffer' \in [Rooms -> Seq(Nat)] /\ timer' = {r \in Rooms : buffer'[r] # <<>>}
    BY <1>1, <1>2
  <2>3. flushing' \in Seq(Task) /\ DOMAIN flushing' = {}
    BY <1>1, <1>2
  <2>4. Len(history) \in Nat
    BY WordsAre DEF WordInv
  <2>5. QED
    BY <1>1, <2>1, <2>2, <2>3, <2>4 DEF WordInv, WordTypes
<1>5. \A i \in due' : i \in lost' \/ Sent(i)'
  BY <1>1, <1>3, ForwardedIs
<1>6. Reading'
  BY <1>1, <1>3, <1>5 DEF WordInv, Reading, Deaf, Position
<1>7. Apart'
  <2>1. \A i \in lost' : ~Sent(i)
    BY <1>1, ForwardedIs DEF WordInv, Apart
  <2>2. QED
    BY <1>3, <2>1 DEF Apart
<1>8. WaitingWords' /\ SentWords' /\ Echoes'
  BY <1>1, <1>2 DEF WordInv, WaitingWords, SentWords, Echoes, Said, Trust, Position
<1>9. Queued' /\ Single'
  BY <1>1, <1>2 DEF WordInv, Queued, Single, Rising
<1>10. InTurn'
  BY <1>1, <1>2 DEF WordInv, InTurn, Before
<1>11. Expected'
  BY <1>5 DEF Expected
<1>12. QED
  BY <1>4, <1>6, <1>7, <1>8, <1>9, <1>10, <1>11 DEF WordInv

-----------------------------------------------------------------------------
(* Merging and flushing.                                                   *)

LEMMA MergeWords ==
    ASSUME WordInv, heard, phase = "listening", NEW i, Merge(i), i \in Nat, i <= token, i \notin lost,
           Said(i, history[i].room), busy' = 0, busy \in {0, i}, batch' = batch \ {i},
           \A x : Waits(x) \/ Sent(x) => x < i, \A j \in batch' : i < j,
           UNCHANGED <<history, delivered, overlapped, due, lost, ownIds, sending>>,
           UNCHANGED <<token, heard, phase, joined, rooms>>
    PROVE  WordInv'
<1>1. PICK r : r = history[i].room
  OBVIOUS
<1>2. i \in Position /\ r \in Rooms
  BY <1>1, WordsAre DEF WordInv, Said, Event
<1>3. buffer \in [Rooms -> Seq(Nat)] /\ buffer[r] \in Seq(Nat)
  BY <1>2 DEF WordInv, WordTypes
<1>4. PICK b \in Seq(Nat), c \in Seq(Nat), L \in Nat : b = buffer[r] /\ c = Append(b, i) /\ L = Len(b)
  BY <1>3, AppendIs
<1>5. /\ c \in Seq(Nat) /\ c # <<>>
      /\ DOMAIN b = 1 .. L /\ DOMAIN c = 1 .. L + 1
      /\ \A m \in 1 .. L : c[m] = b[m]
      /\ c[L + 1] = i
  BY <1>4, AppendIs
<1>6. /\ buffer' = [buffer EXCEPT ![r] = Append(@, i)] /\ timer' = timer \cup {r} /\ UNCHANGED flushing
  BY <1>1 DEF Merge
<1>7. buffer[r] = b /\ buffer'[r] = c /\ \A q \in Rooms : q # r => buffer'[q] = buffer[q]
  BY <1>2, <1>3, <1>4, <1>6
<1>8. buffer' \in [Rooms -> Seq(Nat)]
  BY <1>2, <1>3, <1>4, <1>5, <1>6
<1>9. \A q \in Rooms : \A m \in DOMAIN buffer[q] : m \in DOMAIN buffer'[q] /\ buffer'[q][m] = buffer[q][m]
  <2>1. \A m \in DOMAIN b : m \in DOMAIN c /\ c[m] = b[m]
    BY <1>4, <1>5
  <2>2. QED
    BY <1>7, <2>1
<1>10. \A q \in Rooms : \A m \in DOMAIN buffer'[q] :
          \/ m \in DOMAIN buffer[q] /\ buffer'[q][m] = buffer[q][m]
          \/ q = r /\ m = L + 1 /\ buffer'[q][m] = i
  <2>1. \A m \in DOMAIN c : (m \in DOMAIN b /\ c[m] = b[m]) \/ (m = L + 1 /\ c[m] = i)
    BY <1>4, <1>5
  <2>2. QED
    BY <1>7, <2>1
<1>11. L + 1 \in DOMAIN buffer'[r] /\ buffer'[r][L + 1] = i
  BY <1>4, <1>5, <1>7
<1>12. \A x : Sent(x)' <=> Sent(x)
  BY DEF Sent
<1>13. \A x : Waits(x)' <=> Waits(x) \/ x = i
  <2>1. \A x : InFlush(x)' <=> InFlush(x)
    BY <1>6 DEF InFlush
  <2>2. \A x : InBuffer(x)' => InBuffer(x) \/ x = i
    BY <1>10 DEF InBuffer
  <2>3. \A x : InBuffer(x) => InBuffer(x)'
    BY <1>9 DEF InBuffer
  <2>4. InBuffer(i)'
    BY <1>2, <1>11 DEF InBuffer
  <2>5. QED
    BY <2>1, <2>2, <2>3, <2>4 DEF Waits
<1>14. WordTypes'
  <2>1. timer' = {q \in Rooms : buffer'[q] # <<>>}
    <3>1. timer = {q \in Rooms : buffer[q] # <<>>}
      BY DEF WordInv, WordTypes
    <3>2. \A q \in Rooms : buffer'[q] # <<>> <=> buffer[q] # <<>> \/ q = r
      BY <1>5, <1>7
    <3>3. QED
      BY <1>2, <1>6, <3>1, <3>2
  <2>2. batch' \in SUBSET (1 .. token') /\ busy' \in 0 .. Len(history)
    BY WordsAre DEF WordInv
  <2>3. QED
    BY <1>6, <1>8, <2>1, <2>2 DEF WordInv, WordTypes, Position
<1>15. Progress
  BY DEF WordInv, Reading
<1>16. ~Sent(i)
  BY <1>2
<1>17. Reading'
  <2>1. \A x : Waits(x)' \/ Sent(x)' => x \in 1 .. token' /\ \A j \in batch' : x < j
    <3> SUFFICES ASSUME NEW x, Waits(x) \/ Sent(x) \/ x = i
                 PROVE  x \in 1 .. token /\ \A j \in batch' : x < j
      BY <1>12, <1>13
    <3>1. CASE Waits(x) \/ Sent(x)
      BY <1>15, <3>1 DEF Progress
    <3>2. CASE x = i
      BY <1>2, <3>2, WordsAre DEF WordInv
    <3>3. QED
      BY <3>1, <3>2
  <2>2. \A x \in lost : x <= token /\ x # 0 /\ x \notin batch
    BY <1>15, WordsAre DEF Progress, WordInv
  <2>3. Progress'
    BY <2>1, <2>2 DEF Progress
  <2>4. QED
    BY <1>12, <2>3 DEF WordInv, Reading, Position
<1>18. Apart'
  BY <1>12, <1>13, <1>16 DEF WordInv, Apart
<1>19. WaitingWords'
  <2>1. \A q \in Rooms : \A m \in DOMAIN buffer'[q] : Said(buffer'[q][m], q)
    BY <1>1, <1>10 DEF WordInv, WaitingWords
  <2>2. \A x, q : Said(x, q)' <=> Said(x, q)
    BY DEF Said, Position
  <2>3. \A k \in DOMAIN flushing : \A m \in DOMAIN flushing[k].parts : Said(flushing[k].parts[m], flushing[k].room)
    BY DEF WordInv, WaitingWords
  <2>4. QED
    BY <1>6, <2>1, <2>2, <2>3 DEF WaitingWords
<1>20. SentWords' /\ Echoes' /\ Single'
  BY DEF WordInv, SentWords, Echoes, Single, Rising, Said, Trust, Position
<1>21. \A q \in Rooms : \A m \in DOMAIN buffer[q] : buffer[q][m] < i
  BY DEF Waits, InBuffer
<1>22. \A k \in DOMAIN flushing : \A m \in DOMAIN flushing[k].parts : flushing[k].parts[m] < i
  BY DEF Waits, InFlush
<1>23. \A k \in DOMAIN delivered : \A m \in DOMAIN delivered[k].parts : delivered[k].parts[m] < i
  BY DEF Sent
<1>24. Queued'
  <2>1. \A q \in Rooms : Rising(buffer'[q])
    <3> SUFFICES ASSUME NEW q \in Rooms, NEW m \in DOMAIN buffer'[q], NEW n \in DOMAIN buffer'[q], m < n
                 PROVE  buffer'[q][m] < buffer'[q][n]
      BY DEF Rising
    <3>1. CASE m \in DOMAIN buffer[q] /\ n \in DOMAIN buffer[q]
      BY <1>9, <3>1 DEF WordInv, Queued, Rising
    <3>2. CASE m \in DOMAIN buffer[q] /\ n \notin DOMAIN buffer[q]
      BY <1>9, <1>10, <1>21, <3>2
    <3>3. m \in DOMAIN buffer[q]
      BY <1>4, <1>5, <1>7, <1>10
    <3>4. QED
      BY <3>1, <3>2, <3>3
  <2>2. \A k \in DOMAIN flushing : Before(flushing[k].parts, buffer'[flushing[k].room])
    <3> SUFFICES ASSUME NEW k \in DOMAIN flushing, NEW m \in DOMAIN flushing[k].parts,
                        NEW n \in DOMAIN buffer'[flushing[k].room]
                 PROVE  flushing[k].parts[m] < buffer'[flushing[k].room][n]
      BY DEF Before
    <3>1. flushing[k].room \in Rooms
      BY WordsAre DEF WordInv
    <3>2. CASE n \in DOMAIN buffer[flushing[k].room]
      BY <1>9, <3>1, <3>2 DEF WordInv, Queued, Before
    <3>3. CASE n \notin DOMAIN buffer[flushing[k].room]
      BY <1>10, <1>22, <3>1, <3>3
    <3>4. QED
      BY <3>2, <3>3
  <2>3. \A k \in DOMAIN flushing :
          /\ Rising(flushing[k].parts)
          /\ \A j \in DOMAIN flushing :
               j < k /\ flushing[j].room = flushing[k].room => Before(flushing[j].parts, flushing[k].parts)
    BY DEF WordInv, Queued
  <2>4. QED
    BY <1>6, <2>1, <2>2, <2>3 DEF Queued
<1>25. InTurn'
  <2>1. \A q \in Rooms \ overlapped : \A k \in DOMAIN delivered :
           delivered[k].room = q => Before(delivered[k].parts, buffer'[q])
    <3> SUFFICES ASSUME NEW q \in Rooms \ overlapped, NEW k \in DOMAIN delivered, delivered[k].room = q,
                        NEW m \in DOMAIN delivered[k].parts, NEW n \in DOMAIN buffer'[q]
                 PROVE  delivered[k].parts[m] < buffer'[q][n]
      BY DEF Before
    <3>1. CASE n \in DOMAIN buffer[q]
      BY <1>9, <3>1 DEF WordInv, InTurn, Before
    <3>2. CASE n \notin DOMAIN buffer[q]
      BY <1>10, <1>23, <3>2
    <3>3. QED
      BY <3>1, <3>2
  <2>2. \A q \in Rooms \ overlapped :
          /\ \A j, k \in DOMAIN flushing : flushing[j].room = q /\ flushing[k].room = q => j = k
          /\ \A k \in DOMAIN delivered : delivered[k].room = q =>
               /\ \A j \in DOMAIN delivered :
                    j < k /\ delivered[j].room = q => Before(delivered[j].parts, delivered[k].parts)
               /\ \A j \in DOMAIN flushing : flushing[j].room = q => Before(delivered[k].parts, flushing[j].parts)
    BY DEF WordInv, InTurn
  <2>3. QED
    BY <1>6, <2>1, <2>2 DEF InTurn
<1>26. Expected'
  <2> SUFFICES ASSUME NEW x \in due, ~(x \in lost \/ Sent(x)) PROVE Owed(x)'
    BY <1>12 DEF Expected
  <2>1. Owed(x)
    BY DEF WordInv, Expected
  <2>2. x \in Ahead => x \in Ahead' \/ x = i
    BY DEF Ahead
  <2>3. QED
    BY <1>13, <2>1, <2>2 DEF Owed
<1>27. QED
  BY <1>14, <1>17, <1>18, <1>19, <1>20, <1>24, <1>25, <1>26 DEF WordInv

LEMMA TakeTextWords ==
    ASSUME WordInv, StartInv, TakeText PROVE WordInv'
<1>1. PICK i \in batch : TakeEvent(i) /\ ~Ignored(i) /\ Merge(i)
  BY DEF TakeText
<1>2. heard /\ phase = "listening" /\ i \notin lost /\ Said(i, history[i].room)
  BY <1>1, HeardIs
<1>3. /\ busy = 0 /\ batch' = batch \ {i} /\ i \in Nat /\ i <= token
      /\ \A j \in batch' : i < j
      /\ \A x : Waits(x) \/ Sent(x) => x < i
  BY <1>1, <1>2, TakenIs
<1>4. /\ UNCHANGED <<history, delivered, overlapped, due, lost, ownIds, sending>>
      /\ UNCHANGED <<token, heard, phase, joined, rooms, busy>>
  BY DEF TakeText, homeVars, roomVars, sendVars, ghosts
<1>5. QED
  BY <1>1, <1>2, <1>3, <1>4, MergeWords

LEMMA DownloadedWords ==
    ASSUME WordInv, StartInv, Downloaded PROVE WordInv'
<1>1. busy # 0 /\ busy' = 0
  BY DEF Downloaded
<1>2. /\ UNCHANGED <<history, delivered, overlapped, due, ownIds, sending>>
      /\ UNCHANGED <<token, batch, heard, phase, joined, rooms>>
  BY DEF Downloaded, homeVars, roomVars, sendVars
<1>3. CASE Merge(busy) /\ UNCHANGED lost
  <2>1. heard /\ Progress
    BY <1>1 DEF WordInv, Reading, Deaf
  <2>2. phase = "listening"
    BY <1>1, <2>1 DEF StartInv, RoomInv, Progress
  <2>3. PICK i : i = busy
    OBVIOUS
  <2>4. i \in Nat /\ Said(i, history[i].room)
    BY <1>1, <2>3, WordsAre DEF WordInv, WaitingWords
  <2>5. /\ i <= token /\ i \notin lost /\ i \notin batch
        /\ \A j \in batch : i < j
        /\ \A x : Waits(x) \/ Sent(x) => x < i
    BY <1>1, <2>1, <2>2, <2>3, <2>4 DEF Progress
  <2>6. batch' = batch \ {i}
    BY <1>2, <2>5
  <2>7. QED
    BY <1>1, <1>2, <1>3, <2>1, <2>2, <2>3, <2>4, <2>5, <2>6, MergeWords
<1>4. CASE lost' = lost \cup {busy} /\ UNCHANGED mergeVars
  BY <1>1, <1>2, <1>4, LoseWords DEF mergeVars
<1>5. QED
  BY <1>3, <1>4 DEF Downloaded

LEMMA FlushWords ==
    ASSUME WordInv, Flush PROVE WordInv'
<1>1. PICK room \in timer :
        /\ timer' = timer \ {room}
        /\ buffer' = [buffer EXCEPT ![room] = <<>>]
        /\ flushing' = Append(flushing, [room |-> room, parts |-> buffer[room]])
        /\ overlapped' = IF \E k \in DOMAIN flushing : flushing[k].room = room
                         THEN overlapped \cup {room} ELSE overlapped
  BY DEF Flush
<1>2. /\ UNCHANGED <<history, delivered, due, lost, ownIds, sending, busy>>
      /\ UNCHANGED <<token, batch, heard, phase, joined, rooms>>
  BY DEF Flush, homeVars, roomVars, readVars, sendVars
<1>3. /\ buffer \in [Rooms -> Seq(Nat)] /\ timer = {q \in Rooms : buffer[q] # <<>>}
      /\ flushing \in Seq(Task) /\ \A k \in DOMAIN flushing : flushing[k].parts # <<>>
  BY DEF WordInv, WordTypes
<1>4. room \in Rooms /\ buffer[room] # <<>> /\ buffer[room] \in Seq(Nat)
  BY <1>3
<1>5. PICK t : t = [room |-> room, parts |-> buffer[room]]
  OBVIOUS
<1>6. t \in Task /\ t.room = room /\ t.parts = buffer[room]
  BY <1>4, <1>5 DEF Task
<1>7. PICK L \in Nat : L = Len(flushing)
  BY <1>3
<1>8. flushing' = Append(flushing, t)
  BY <1>1, <1>5
<1>9. /\ flushing' \in Seq(Task)
      /\ DOMAIN flushing = 1 .. L /\ DOMAIN flushing' = 1 .. L + 1
      /\ \A k \in 1 .. L : flushing'[k] = flushing[k]
      /\ flushing'[L + 1] = t
  BY <1>3, <1>6, <1>7, <1>8, AppendIs
<1>10. \A k \in DOMAIN flushing' : k \in DOMAIN flushing \/ k = L + 1
  BY <1>9
<1>11. L + 1 \in DOMAIN flushing' /\ L + 1 \notin DOMAIN flushing
  BY <1>9
<1>12. \A k \in DOMAIN flushing : k \in DOMAIN flushing' /\ flushing'[k] = flushing[k] /\ k < L + 1
  BY <1>9
<1>13. /\ buffer'[room] = <<>> /\ DOMAIN buffer'[room] = {}
       /\ \A q \in Rooms : q # room => buffer'[q] = buffer[q]
       /\ buffer' \in [Rooms -> Seq(Nat)]
  BY <1>1, <1>3, <1>4
<1>14. WordTypes'
  <2>1. timer' = {q \in Rooms : buffer'[q] # <<>>}
    BY <1>1, <1>3, <1>4, <1>13
  <2>2. \A k \in DOMAIN flushing' : flushing'[k].parts # <<>>
    BY <1>3, <1>4, <1>6, <1>9, <1>10
  <2>3. QED
    BY <1>2, <1>9, <1>13, <2>1, <2>2 DEF WordInv, WordTypes, Position
<1>15. \A x : Sent(x)' <=> Sent(x)
  BY <1>2 DEF Sent
<1>16. \A x : Waits(x)' <=> Waits(x)
  <2>1. \A x : InFlush(x)' => InFlush(x) \/ InBuffer(x)
    <3> SUFFICES ASSUME NEW x, NEW k \in DOMAIN flushing', NEW m \in DOMAIN flushing'[k].parts,
                        flushing'[k].parts[m] = x
                 PROVE  InFlush(x) \/ InBuffer(x)
      BY DEF InFlush
    <3>1. CASE k \in DOMAIN flushing
      BY <1>12, <3>1 DEF InFlush
    <3>2. CASE k = L + 1
      BY <1>4, <1>6, <1>9, <3>2 DEF InBuffer
    <3>3. QED
      BY <1>10, <3>1, <3>2
  <2>2. \A x : InFlush(x) => InFlush(x)'
    BY <1>12 DEF InFlush
  <2>3. \A x : InBuffer(x)' => InBuffer(x)
    BY <1>13 DEF InBuffer
  <2>4. \A x : InBuffer(x) => InBuffer(x)' \/ InFlush(x)'
    <3> SUFFICES ASSUME NEW x, NEW q \in Rooms, NEW m \in DOMAIN buffer[q], buffer[q][m] = x
                 PROVE  InBuffer(x)' \/ InFlush(x)'
      BY DEF InBuffer
    <3>1. CASE q = room
      BY <1>6, <1>9, <1>11, <3>1 DEF InFlush
    <3>2. CASE q # room
      BY <1>13, <3>2 DEF InBuffer
    <3>3. QED
      BY <3>1, <3>2
  <2>5. QED
    BY <2>1, <2>2, <2>3, <2>4 DEF Waits
<1>17. Apart'
  BY <1>2, <1>15, <1>16 DEF WordInv, Apart
<1>18. heard
  BY <1>4 DEF WordInv, Reading, Deaf
<1>19. Reading'
  BY <1>2, <1>15, <1>16, <1>18 DEF WordInv, Reading, Progress, Position
<1>20. WaitingWords'
  <2>1. \A q \in Rooms : \A m \in DOMAIN buffer'[q] : Said(buffer'[q][m], q)
    BY <1>13 DEF WordInv, WaitingWords
  <2>2. \A k \in DOMAIN flushing' : \A m \in DOMAIN flushing'[k].parts :
           Said(flushing'[k].parts[m], flushing'[k].room)
    <3> SUFFICES ASSUME NEW k \in DOMAIN flushing'
                 PROVE  \A m \in DOMAIN flushing'[k].parts : Said(flushing'[k].parts[m], flushing'[k].room)
      OBVIOUS
    <3>1. CASE k \in DOMAIN flushing
      BY <1>12, <3>1 DEF WordInv, WaitingWords
    <3>2. CASE k = L + 1
      BY <1>4, <1>6, <1>9, <3>2 DEF WordInv, WaitingWords
    <3>3. QED
      BY <1>10, <3>1, <3>2
  <2>3. QED
    BY <1>2, <2>1, <2>2 DEF WordInv, WaitingWords, Said, Position
<1>21. SentWords' /\ Echoes' /\ Single'
  BY <1>2 DEF WordInv, SentWords, Echoes, Single, Rising, Said, Trust, Position
<1>22. Queued'
  <2>1. \A q \in Rooms : Rising(buffer'[q])
    BY <1>13 DEF WordInv, Queued, Rising
  <2>2. ASSUME NEW k \in DOMAIN flushing'
        PROVE  /\ Rising(flushing'[k].parts)
               /\ Before(flushing'[k].parts, buffer'[flushing'[k].room])
               /\ \A j \in DOMAIN flushing' :
                    j < k /\ flushing'[j].room = flushing'[k].room => Before(flushing'[j].parts, flushing'[k].parts)
    <3>1. CASE k \in DOMAIN flushing
      <4>1. flushing'[k] = flushing[k] /\ flushing[k].room \in Rooms
        BY <1>12, <3>1, WordsAre DEF WordInv
      <4>2. Rising(flushing[k].parts) /\ Before(flushing[k].parts, buffer[flushing[k].room])
        BY <3>1 DEF WordInv, Queued
      <4>3. Before(flushing[k].parts, buffer'[flushing[k].room])
        BY <1>13, <4>1, <4>2 DEF Before
      <4>4. \A j \in DOMAIN flushing' : j < k => j \in DOMAIN flushing /\ flushing'[j] = flushing[j]
        BY <1>9, <3>1
      <4>5. QED
        BY <3>1, <4>1, <4>2, <4>3, <4>4 DEF WordInv, Queued
    <3>2. CASE k = L + 1
      <4>1. flushing'[k].parts = buffer[room] /\ flushing'[k].room = room
        BY <1>6, <1>9, <3>2
      <4>2. Rising(buffer[room])
        BY <1>4 DEF WordInv, Queued
      <4>3. Before(buffer[room], buffer'[room])
        BY <1>13 DEF Before
      <4>4. \A j \in DOMAIN flushing' : j < k => j \in DOMAIN flushing /\ flushing'[j] = flushing[j]
        BY <1>9, <3>2
      <4>5. \A j \in DOMAIN flushing : flushing[j].room = room => Before(flushing[j].parts, buffer[room])
        BY DEF WordInv, Queued
      <4>6. QED
        BY <4>1, <4>2, <4>3, <4>4, <4>5
    <3>3. QED
      BY <1>10, <3>1, <3>2
  <2>3. QED
    BY <2>1, <2>2 DEF Queued
<1>23. InTurn'
  <2> SUFFICES ASSUME NEW r \in Rooms \ overlapped'
               PROVE  /\ \A j, k \in DOMAIN flushing' :
                           flushing'[j].room = r /\ flushing'[k].room = r => j = k
                      /\ \A k \in DOMAIN delivered : delivered[k].room = r =>
                           /\ \A j \in DOMAIN delivered :
                                j < k /\ delivered[j].room = r => Before(delivered[j].parts, delivered[k].parts)
                           /\ \A j \in DOMAIN flushing' :
                                flushing'[j].room = r => Before(delivered[k].parts, flushing'[j].parts)
                           /\ Before(delivered[k].parts, buffer'[r])
    BY <1>2 DEF InTurn
  <2>1. r \in Rooms \ overlapped /\ (r = room => \A k \in DOMAIN flushing : flushing[k].room # room)
    BY <1>1
  <2>2. /\ \A j, k \in DOMAIN flushing : flushing[j].room = r /\ flushing[k].room = r => j = k
        /\ \A k \in DOMAIN delivered : delivered[k].room = r =>
             /\ \A j \in DOMAIN delivered :
                  j < k /\ delivered[j].room = r => Before(delivered[j].parts, delivered[k].parts)
             /\ \A j \in DOMAIN flushing : flushing[j].room = r => Before(delivered[k].parts, flushing[j].parts)
             /\ Before(delivered[k].parts, buffer[r])
    BY <2>1 DEF WordInv, InTurn
  <2>3. \A k \in DOMAIN flushing' : flushing'[k].room = r =>
           \/ k \in DOMAIN flushing /\ flushing'[k] = flushing[k] /\ r # room
           \/ k = L + 1 /\ r = room /\ flushing'[k].parts = buffer[r]
    <3> SUFFICES ASSUME NEW k \in DOMAIN flushing', flushing'[k].room = r
                 PROVE  \/ k \in DOMAIN flushing /\ flushing'[k] = flushing[k] /\ r # room
                        \/ k = L + 1 /\ r = room /\ flushing'[k].parts = buffer[r]
      OBVIOUS
    <3>1. CASE k \in DOMAIN flushing
      BY <1>12, <2>1, <3>1
    <3>2. CASE k = L + 1
      BY <1>6, <1>9, <3>2
    <3>3. QED
      BY <1>10, <3>1, <3>2
  <2>4. \A j, k \in DOMAIN flushing' : flushing'[j].room = r /\ flushing'[k].room = r => j = k
    BY <2>2, <2>3
  <2>5. \A k \in DOMAIN delivered, j \in DOMAIN flushing' :
          delivered[k].room = r /\ flushing'[j].room = r => Before(delivered[k].parts, flushing'[j].parts)
    BY <2>2, <2>3
  <2>6. \A k \in DOMAIN delivered : delivered[k].room = r => Before(delivered[k].parts, buffer'[r])
    BY <1>13, <2>2 DEF Before
  <2>7. QED
    BY <2>2, <2>4, <2>5, <2>6
<1>24. Expected'
  BY <1>2, <1>15, <1>16 DEF WordInv, Expected, Owed, Ahead
<1>25. QED
  BY <1>14, <1>17, <1>19, <1>20, <1>21, <1>22, <1>23, <1>24 DEF WordInv

-----------------------------------------------------------------------------
(* Forwarding.                                                             *)

\* gs is fs without the first n messages of task k: task j of gs is what is
\* left of task src[j] of fs, without the first off[j].
Cut(fs, gs, k, n, src, off) ==
    /\ src \in [DOMAIN gs -> DOMAIN fs] /\ off \in [DOMAIN gs -> Nat]
    /\ \A i, j \in DOMAIN gs : i < j => src[i] < src[j]
    /\ \A j \in DOMAIN gs :
         /\ gs[j].room = fs[src[j]].room /\ gs[j].parts # <<>>
         /\ \A m \in DOMAIN gs[j].parts :
              m + off[j] \in DOMAIN fs[src[j]].parts /\ gs[j].parts[m] = fs[src[j]].parts[m + off[j]]
         /\ src[j] = k => off[j] = n
    /\ \A j \in DOMAIN fs : \A m \in DOMAIN fs[j].parts :
         \/ j = k /\ m <= n
         \/ \E i \in DOMAIN gs : \E l \in DOMAIN gs[i].parts : gs[i].parts[l] = fs[j].parts[m]

LEMMA TaskRemoved ==
    ASSUME NEW fs \in Seq(Task), \A j \in DOMAIN fs : fs[j].parts # <<>>,
           NEW k \in DOMAIN fs, NEW n, n = Len(fs[k].parts)
    PROVE  /\ RemoveAt(fs, k) \in Seq(Task)
           /\ \E src, off : Cut(fs, RemoveAt(fs, k), k, n, src, off)
<1>1. PICK gs, L : gs = RemoveAt(fs, k) /\ L = Len(fs) /\ L \in Nat
  OBVIOUS
<1>2. /\ gs \in Seq(Task) /\ DOMAIN gs = 1 .. L - 1 /\ DOMAIN fs = 1 .. L
      /\ \A i \in 1 .. L - 1 : gs[i] = IF i < k THEN fs[i] ELSE fs[i + 1]
  BY <1>1, RemoveIs
<1> DEFINE src == [j \in DOMAIN gs |-> IF j < k THEN j ELSE j + 1]
           off == [j \in DOMAIN gs |-> 0]
<1>3. src \in [DOMAIN gs -> DOMAIN fs] /\ off \in [DOMAIN gs -> Nat]
  BY <1>1, <1>2
<1>4. \A j \in DOMAIN gs : gs[j] = fs[src[j]] /\ src[j] # k /\ off[j] = 0
  BY <1>1, <1>2
<1>5. \A i, j \in DOMAIN gs : i < j => src[i] < src[j]
  BY <1>1, <1>2
<1>6. \A j \in DOMAIN fs : j # k => \E i \in DOMAIN gs : gs[i] = fs[j]
  <2> SUFFICES ASSUME NEW j \in DOMAIN fs, j # k PROVE \E i \in DOMAIN gs : gs[i] = fs[j]
    OBVIOUS
  <2>1. CASE j < k
    <3>1. j \in DOMAIN gs /\ gs[j] = fs[j]
      BY <1>1, <1>2, <2>1
    <3>2. QED
      BY <3>1
  <2>2. CASE ~(j < k)
    <3>1. j - 1 \in DOMAIN gs /\ ~(j - 1 < k) /\ (j - 1) + 1 = j
      BY <1>1, <1>2, <2>2
    <3>2. gs[j - 1] = fs[j]
      BY <1>2, <3>1
    <3>3. QED
      BY <3>1, <3>2
  <2>3. QED
    BY <2>1, <2>2
<1> HIDE DEF src, off
<1>7. \A j \in DOMAIN fs : fs[j] \in Task /\ fs[j].parts \in Seq(Nat)
  <2>1. \A j \in DOMAIN fs : fs[j] \in Task
    OBVIOUS
  <2>2. QED
    BY <2>1 DEF Task
<1>8. \A j \in DOMAIN fs : \A m \in DOMAIN fs[j].parts : m \in Nat
  BY <1>7
<1>9. \A j \in DOMAIN fs : \A m \in DOMAIN fs[j].parts :
        \/ j = k /\ m <= n
        \/ \E i \in DOMAIN gs : \E l \in DOMAIN gs[i].parts : gs[i].parts[l] = fs[j].parts[m]
  <2>1. DOMAIN fs[k].parts = 1 .. n /\ n \in Nat
    BY <1>7
  <2>2. QED
    BY <1>6, <2>1
<1>10. \A j \in DOMAIN gs : \A m \in DOMAIN gs[j].parts :
         m + off[j] \in DOMAIN fs[src[j]].parts /\ gs[j].parts[m] = fs[src[j]].parts[m + off[j]]
  BY <1>3, <1>4, <1>8
<1>11. Cut(fs, gs, k, n, src, off)
  BY <1>3, <1>4, <1>5, <1>9, <1>10 DEF Cut
<1>12. QED
  BY <1>1, <1>2, <1>11

LEMMA ShiftIs ==
    ASSUME NEW L \in Nat, NEW n \in 1 .. L, NEW m \in 1 .. L - n
    PROVE  m + n \in 1 .. L /\ n + m = m + n
OBVIOUS

LEMMA PartPlaces == \A t \in Task : t.parts \in Seq(Nat) /\ \A m \in DOMAIN t.parts : m \in Nat
<1> SUFFICES ASSUME NEW t \in Task PROVE t.parts \in Seq(Nat) /\ \A m \in DOMAIN t.parts : m \in Nat
  OBVIOUS
<1>1. t.parts \in Seq(Nat)
  BY DEF Task
<1>2. PICK ps \in Seq(Nat) : ps = t.parts
  BY <1>1
<1>3. \A m \in DOMAIN ps : m \in Nat
  OBVIOUS
<1>4. QED
  BY <1>1, <1>2, <1>3

LEMMA TaskShortened ==
    ASSUME NEW fs \in Seq(Task), \A j \in DOMAIN fs : fs[j].parts # <<>>,
           NEW k \in DOMAIN fs, NEW n \in DOMAIN fs[k].parts, n # Len(fs[k].parts),
           NEW gs, gs = [fs EXCEPT ![k].parts = SubSeq(@, n + 1, Len(@))]
    PROVE  /\ gs \in Seq(Task)
           /\ \E src, off : Cut(fs, gs, k, n, src, off)
<1>1. fs[k] \in Task
  OBVIOUS
<1>2. PICK ps \in Seq(Nat) : ps = fs[k].parts
  BY <1>1 DEF Task
<1>3. PICK qs : qs = SubSeq(ps, n + 1, Len(ps))
  OBVIOUS
<1>4. PICK L \in Nat : L = Len(ps) /\ DOMAIN ps = 1 .. L
  OBVIOUS
<1>5. n \in 1 .. L /\ n # L
  BY <1>2, <1>4
<1>6. /\ qs \in Seq(Nat) /\ Len(qs) = L - n /\ DOMAIN qs = 1 .. L - n
      /\ \A i \in 1 .. L - n : qs[i] = ps[n + i]
  <2>1. n \in 0 .. Len(ps)
    BY <1>4, <1>5
  <2>2. QED
    BY <1>3, <1>4, <2>1, SuffixIs
<1>7. gs = [fs EXCEPT ![k] = [fs[k] EXCEPT !.parts = qs]]
  BY <1>2, <1>3
<1>8. PICK t : t = [fs[k] EXCEPT !.parts = qs]
  OBVIOUS
<1>9. t \in Task /\ t.room = fs[k].room /\ t.parts = qs
  BY <1>1, <1>6, <1>8 DEF Task
<1>10. gs = [fs EXCEPT ![k] = t]
  BY <1>7, <1>8
<1>11. gs \in Seq(Task) /\ DOMAIN gs = DOMAIN fs /\ gs[k] = t /\ \A j \in DOMAIN fs : j # k => gs[j] = fs[j]
  <2>1. [fs EXCEPT ![k] = t] \in Seq(Task) /\ DOMAIN [fs EXCEPT ![k] = t] = DOMAIN fs
        /\ [fs EXCEPT ![k] = t][k] = t /\ \A j \in DOMAIN fs : j # k => [fs EXCEPT ![k] = t][j] = fs[j]
    BY <1>9, ReplaceIs
  <2>2. QED
    BY <1>10, <2>1
<1> DEFINE src == [j \in DOMAIN gs |-> j]
           off == [j \in DOMAIN gs |-> IF j = k THEN n ELSE 0]
<1>12. src \in [DOMAIN gs -> DOMAIN fs] /\ off \in [DOMAIN gs -> Nat]
  BY <1>5, <1>11
<1>13. \A j \in DOMAIN gs : src[j] = j /\ off[j] = IF j = k THEN n ELSE 0
  OBVIOUS
<1> HIDE DEF src, off
<1>14. \A j \in DOMAIN fs : fs[j] \in Task
  OBVIOUS
<1>15. \A j \in DOMAIN fs : fs[j].parts \in Seq(Nat) /\ \A m \in DOMAIN fs[j].parts : m \in Nat
  BY <1>14, PartPlaces
<1>16. qs # <<>>
  BY <1>5, <1>6
<1>17. \A j \in DOMAIN gs : gs[j].room = fs[src[j]].room /\ gs[j].parts # <<>>
  BY <1>9, <1>11, <1>13, <1>16
<1>18. \A j \in DOMAIN gs : \A m \in DOMAIN gs[j].parts :
         m + off[j] \in DOMAIN fs[src[j]].parts /\ gs[j].parts[m] = fs[src[j]].parts[m + off[j]]
  <2> SUFFICES ASSUME NEW j \in DOMAIN gs, NEW m \in DOMAIN gs[j].parts
               PROVE  m + off[j] \in DOMAIN fs[src[j]].parts /\ gs[j].parts[m] = fs[src[j]].parts[m + off[j]]
    OBVIOUS
  <2>1. CASE j = k
    <3>1. m \in 1 .. L - n /\ off[j] = n /\ src[j] = k
      BY <1>6, <1>9, <1>11, <1>13, <2>1
    <3>2. m + n \in 1 .. L /\ n + m = m + n
      <4>1. n \in 1 .. L /\ m \in 1 .. L - n
        BY <1>5, <3>1
      <4>2. QED
        BY <4>1, ShiftIs
    <3>3. QED
      <4>1. fs[src[j]].parts = ps /\ gs[j].parts = qs
        BY <1>2, <1>9, <1>11, <2>1, <3>1
      <4>2. m + off[j] \in DOMAIN ps /\ off[j] = n
        BY <1>4, <3>1, <3>2
      <4>3. qs[m] = ps[m + n]
        BY <1>6, <3>1, <3>2
      <4>4. QED
        BY <4>1, <4>2, <4>3
  <2>2. CASE j # k
    <3>1. j \in DOMAIN fs /\ gs[j] = fs[j] /\ src[j] = j /\ off[j] = 0
      BY <1>11, <1>13, <2>2
    <3>2. m \in DOMAIN fs[j].parts
      BY <3>1
    <3>3. m \in Nat
      BY <1>15, <3>1, <3>2
    <3>4. m + off[j] = m
      BY <3>1, <3>3
    <3>5. QED
      BY <3>1, <3>2, <3>4
  <2>3. QED
    BY <2>1, <2>2
<1>19. \A j \in DOMAIN fs : \A m \in DOMAIN fs[j].parts :
         \/ j = k /\ m <= n
         \/ \E i \in DOMAIN gs : \E l \in DOMAIN gs[i].parts : gs[i].parts[l] = fs[j].parts[m]
  <2> SUFFICES ASSUME NEW j \in DOMAIN fs, NEW m \in DOMAIN fs[j].parts
               PROVE  \/ j = k /\ m <= n
                      \/ \E i \in DOMAIN gs : \E l \in DOMAIN gs[i].parts : gs[i].parts[l] = fs[j].parts[m]
    OBVIOUS
  <2>1. CASE j = k /\ ~(m <= n)
    <3>1. m \in 1 .. L /\ ~(m <= n)
      BY <1>2, <1>4, <2>1
    <3>2. m - n \in 1 .. L - n /\ n + (m - n) = m
      BY <1>5, <3>1
    <3>3. m - n \in DOMAIN gs[k].parts /\ gs[k].parts[m - n] = ps[m]
      BY <1>6, <1>9, <1>11, <3>2
    <3>4. k \in DOMAIN gs /\ gs[k].parts[m - n] = fs[j].parts[m]
      BY <1>2, <1>11, <2>1, <3>3
    <3>5. QED
      BY <3>3, <3>4
  <2>2. CASE j # k
    BY <1>11, <2>2
  <2>3. QED
    BY <2>1, <2>2
<1>20. \A i, j \in DOMAIN gs : i < j => src[i] < src[j]
  BY <1>13
<1>21. \A j \in DOMAIN gs : src[j] = k => off[j] = n
  BY <1>13
<1>22. Cut(fs, gs, k, n, src, off)
  BY <1>12, <1>17, <1>18, <1>19, <1>20, <1>21 DEF Cut
<1>23. QED
  BY <1>11, <1>22

\* A message waits in one place.
LEMMA OnePlace ==
    ASSUME WordInv
    PROVE  /\ \A q, r \in Rooms : \A m \in DOMAIN buffer[q], n \in DOMAIN buffer[r] :
                buffer[q][m] = buffer[r][n] => q = r /\ m = n
           /\ \A k \in DOMAIN flushing, r \in Rooms : \A m \in DOMAIN flushing[k].parts, n \in DOMAIN buffer[r] :
                flushing[k].parts[m] # buffer[r][n]
           /\ \A j, k \in DOMAIN flushing : \A m \in DOMAIN flushing[j].parts, n \in DOMAIN flushing[k].parts :
                flushing[j].parts[m] = flushing[k].parts[n] => j = k /\ m = n
<1>1. /\ \A r \in Rooms : buffer[r] \in Seq(Nat)
      /\ \A k \in DOMAIN flushing : flushing[k].room \in Rooms /\ flushing[k].parts \in Seq(Nat)
      /\ \A k \in DOMAIN flushing : k \in Nat
  BY WordsAre DEF WordInv, WordTypes
<1>2. /\ \A r \in Rooms : \A m \in DOMAIN buffer[r] : m \in Nat /\ buffer[r][m] \in Nat
      /\ \A k \in DOMAIN flushing : \A m \in DOMAIN flushing[k].parts : m \in Nat /\ flushing[k].parts[m] \in Nat
  BY <1>1
<1>3. /\ \A r \in Rooms : \A m \in DOMAIN buffer[r] : history[buffer[r][m]].room = r
      /\ \A k \in DOMAIN flushing : \A m \in DOMAIN flushing[k].parts :
           history[flushing[k].parts[m]].room = flushing[k].room
  BY DEF WordInv, WaitingWords, Said
<1>4. \A q, r \in Rooms : \A m \in DOMAIN buffer[q], n \in DOMAIN buffer[r] :
        buffer[q][m] = buffer[r][n] => q = r /\ m = n
  <2> SUFFICES ASSUME NEW q \in Rooms, NEW r \in Rooms, NEW m \in DOMAIN buffer[q], NEW n \in DOMAIN buffer[r],
                      buffer[q][m] = buffer[r][n]
               PROVE  q = r /\ m = n
    OBVIOUS
  <2>1. q = r
    BY <1>3
  <2>2. ~(m < n) /\ ~(n < m)
    BY <1>2, <2>1 DEF WordInv, Queued, Rising
  <2>3. QED
    BY <1>2, <2>1, <2>2
<1>5. \A k \in DOMAIN flushing, r \in Rooms : \A m \in DOMAIN flushing[k].parts, n \in DOMAIN buffer[r] :
        flushing[k].parts[m] # buffer[r][n]
  <2> SUFFICES ASSUME NEW k \in DOMAIN flushing, NEW r \in Rooms, NEW m \in DOMAIN flushing[k].parts,
                      NEW n \in DOMAIN buffer[r], flushing[k].parts[m] = buffer[r][n]
               PROVE  FALSE
    OBVIOUS
  <2>1. flushing[k].room = r
    BY <1>3
  <2>2. flushing[k].parts[m] < buffer[r][n]
    BY <2>1 DEF WordInv, Queued, Before
  <2>3. QED
    BY <1>2, <2>2
<1>6. \A j, k \in DOMAIN flushing : \A m \in DOMAIN flushing[j].parts, n \in DOMAIN flushing[k].parts :
        flushing[j].parts[m] = flushing[k].parts[n] => j = k /\ m = n
  <2> SUFFICES ASSUME NEW j \in DOMAIN flushing, NEW k \in DOMAIN flushing, NEW m \in DOMAIN flushing[j].parts,
                      NEW n \in DOMAIN flushing[k].parts, flushing[j].parts[m] = flushing[k].parts[n]
               PROVE  j = k /\ m = n
    OBVIOUS
  <2>1. flushing[j].room = flushing[k].room
    BY <1>3
  <2>2. j < k => flushing[j].parts[m] < flushing[k].parts[n]
    BY <2>1 DEF WordInv, Queued, Before
  <2>3. k < j => flushing[k].parts[n] < flushing[j].parts[m]
    BY <2>1 DEF WordInv, Queued, Before
  <2>4. j = k
    BY <1>1, <1>2, <2>2, <2>3
  <2>5. ~(m < n) /\ ~(n < m)
    BY <1>2, <2>4 DEF WordInv, Queued, Rising
  <2>6. QED
    BY <1>2, <2>4, <2>5
<1>7. QED
  BY <1>4, <1>5, <1>6

\* What Dispatch does to the flushes: of task k, the first n messages go.
LEMMA DispatchIs ==
    ASSUME WordInv, Dispatch
    PROVE  \E k \in DOMAIN flushing : \E n \in DOMAIN flushing[k].parts : \E src, off, run :
             /\ FirstRun(flushing[k].parts, n)
             /\ run = SubSeq(flushing[k].parts, 1, n)
             /\ flushing' \in Seq(Task)
             /\ Cut(flushing, flushing', k, n, src, off)
             /\ IF socket = "up"
                THEN /\ delivered' = Append(delivered, [room |-> flushing[k].room, parts |-> run,
                                                        trust |-> Trust(history[run[1]].sender)])
                     /\ UNCHANGED lost
                ELSE lost' = lost \cup ToSet(run) /\ UNCHANGED delivered
<1>1. PICK k \in DOMAIN flushing : \E n \in DOMAIN flushing[k].parts :
        /\ FirstRun(flushing[k].parts, n)
        /\ flushing' = IF n = Len(flushing[k].parts) THEN RemoveAt(flushing, k)
                       ELSE [flushing EXCEPT ![k].parts = SubSeq(@, n + 1, Len(@))]
        /\ IF socket = "up"
           THEN /\ delivered' = Append(delivered, [room |-> flushing[k].room, parts |-> SubSeq(flushing[k].parts, 1, n),
                                                   trust |-> Trust(history[SubSeq(flushing[k].parts, 1, n)[1]].sender)])
                /\ UNCHANGED lost
           ELSE lost' = lost \cup ToSet(SubSeq(flushing[k].parts, 1, n)) /\ UNCHANGED delivered
  BY DEF Dispatch
<1>2. PICK n \in DOMAIN flushing[k].parts :
        /\ FirstRun(flushing[k].parts, n)
        /\ flushing' = IF n = Len(flushing[k].parts) THEN RemoveAt(flushing, k)
                       ELSE [flushing EXCEPT ![k].parts = SubSeq(@, n + 1, Len(@))]
        /\ IF socket = "up"
           THEN /\ delivered' = Append(delivered, [room |-> flushing[k].room, parts |-> SubSeq(flushing[k].parts, 1, n),
                                                   trust |-> Trust(history[SubSeq(flushing[k].parts, 1, n)[1]].sender)])
                /\ UNCHANGED lost
           ELSE lost' = lost \cup ToSet(SubSeq(flushing[k].parts, 1, n)) /\ UNCHANGED delivered
  BY <1>1
<1>3. flushing \in Seq(Task) /\ \A j \in DOMAIN flushing : flushing[j].parts # <<>>
  BY DEF WordInv, WordTypes
<1>4. PICK gs : gs = flushing'
  OBVIOUS
<1>5. gs \in Seq(Task) /\ \E src, off : Cut(flushing, gs, k, n, src, off)
  <2>1. CASE n = Len(flushing[k].parts)
    <3>1. gs = RemoveAt(flushing, k)
      BY <1>2, <1>4, <2>1
    <3>2. QED
      BY <1>3, <2>1, <3>1, TaskRemoved
  <2>2. CASE n # Len(flushing[k].parts)
    <3>1. gs = [flushing EXCEPT ![k].parts = SubSeq(@, n + 1, Len(@))]
      BY <1>2, <1>4, <2>2
    <3>2. QED
      BY <1>3, <2>2, <3>1, TaskShortened
  <2>3. QED
    BY <2>1, <2>2
<1>6. PICK src, off : Cut(flushing, gs, k, n, src, off)
  BY <1>5
<1>7. QED
  BY <1>2, <1>4, <1>5, <1>6

LEMMA DispatchWords ==
    ASSUME WordInv, StartInv, Dispatch PROVE WordInv'
<1>1. PICK k \in DOMAIN flushing : \E n \in DOMAIN flushing[k].parts :
        \E src, off, run :
             /\ FirstRun(flushing[k].parts, n)
             /\ run = SubSeq(flushing[k].parts, 1, n)
             /\ flushing' \in Seq(Task)
             /\ Cut(flushing, flushing', k, n, src, off)
             /\ IF socket = "up"
                THEN /\ delivered' = Append(delivered, [room |-> flushing[k].room, parts |-> run,
                                                        trust |-> Trust(history[run[1]].sender)])
                     /\ UNCHANGED lost
                ELSE lost' = lost \cup ToSet(run) /\ UNCHANGED delivered
  BY DispatchIs
<1>2. PICK n \in DOMAIN flushing[k].parts :
        \E src, off, run :
             /\ FirstRun(flushing[k].parts, n)
             /\ run = SubSeq(flushing[k].parts, 1, n)
             /\ flushing' \in Seq(Task)
             /\ Cut(flushing, flushing', k, n, src, off)
             /\ IF socket = "up"
                THEN /\ delivered' = Append(delivered, [room |-> flushing[k].room, parts |-> run,
                                                        trust |-> Trust(history[run[1]].sender)])
                     /\ UNCHANGED lost
                ELSE lost' = lost \cup ToSet(run) /\ UNCHANGED delivered
  BY <1>1
<1>3. PICK src, off, run :
        /\ FirstRun(flushing[k].parts, n)
        /\ run = SubSeq(flushing[k].parts, 1, n)
        /\ flushing' \in Seq(Task)
        /\ Cut(flushing, flushing', k, n, src, off)
        /\ IF socket = "up"
           THEN /\ delivered' = Append(delivered, [room |-> flushing[k].room, parts |-> run,
                                                   trust |-> Trust(history[run[1]].sender)])
                /\ UNCHANGED lost
           ELSE lost' = lost \cup ToSet(run) /\ UNCHANGED delivered
  BY <1>2
<1>4. /\ UNCHANGED <<history, buffer, timer, due, overlapped, ownIds, sending, busy>>
      /\ UNCHANGED <<token, batch, heard, phase, joined, rooms>>
  BY DEF Dispatch, homeVars, roomVars, readVars, sendVars
<1>5. PICK room \in Rooms, ps \in Seq(Nat) : room = flushing[k].room /\ ps = flushing[k].parts
  BY WordsAre DEF WordInv
<1>6. n \in 1 .. Len(ps) /\ Len(ps) \in Nat
  BY <1>5
<1>7. /\ run \in Seq(Nat) /\ DOMAIN run = 1 .. n /\ run # <<>>
      /\ \A m \in 1 .. n : run[m] = ps[m] /\ m \in DOMAIN ps
  <2>1. n \in 0 .. Len(ps)
    BY <1>6
  <2>2. run = SubSeq(ps, 1, n)
    BY <1>3, <1>5
  <2>3. run \in Seq(Nat) /\ DOMAIN run = 1 .. n /\ Len(run) = n /\ \A m \in 1 .. n : run[m] = ps[m]
    BY <2>1, <2>2, PrefixIs
  <2>4. QED
    BY <1>6, <2>3
<1>8. 1 \in DOMAIN run /\ \A m \in DOMAIN run : m \in Nat
  BY <1>6, <1>7
<1>9. \A m \in DOMAIN run : m \in DOMAIN flushing[k].parts /\ run[m] = flushing[k].parts[m] /\ m <= n
  BY <1>5, <1>6, <1>7
\* What goes, what is left.
<1>10. \A x : x \in ToSet(run) => InFlush(x)
  BY <1>9 DEF ToSet, InFlush
<1>11. \A j \in DOMAIN flushing' : src[j] \in DOMAIN flushing /\ off[j] \in Nat
  BY <1>3 DEF Cut
<1>12. \A j \in DOMAIN flushing' : \A m \in DOMAIN flushing'[j].parts :
         /\ m + off[j] \in DOMAIN flushing[src[j]].parts
         /\ flushing'[j].parts[m] = flushing[src[j]].parts[m + off[j]]
  BY <1>3 DEF Cut
<1>13. \A j \in DOMAIN flushing' :
         flushing'[j].room = flushing[src[j]].room /\ flushing'[j].parts # <<>> /\ (src[j] = k => off[j] = n)
  BY <1>3 DEF Cut
<1>14. \A j \in DOMAIN flushing' : \A m \in DOMAIN flushing'[j].parts : m \in Nat /\ m >= 1
  <2>1. \A j \in DOMAIN flushing' : flushing'[j] \in Task
    BY <1>3
  <2>2. \A j \in DOMAIN flushing' : flushing'[j].parts \in Seq(Nat)
    BY <2>1 DEF Task
  <2>3. QED
    BY <2>2
<1>15. \A x : InFlush(x)' => InFlush(x) /\ x \notin ToSet(run)
  <2> SUFFICES ASSUME NEW x, NEW j \in DOMAIN flushing', NEW m \in DOMAIN flushing'[j].parts,
                      flushing'[j].parts[m] = x
               PROVE  InFlush(x) /\ x \notin ToSet(run)
    BY DEF InFlush
  <2>1. /\ src[j] \in DOMAIN flushing /\ m + off[j] \in DOMAIN flushing[src[j]].parts
        /\ x = flushing[src[j]].parts[m + off[j]]
    BY <1>11, <1>12
  <2>2. ASSUME NEW l \in DOMAIN run, run[l] = x PROVE FALSE
    <3>1. src[j] = k /\ m + off[j] = l
      BY <1>9, <2>1, <2>2, OnePlace
    <3>2. off[j] = n /\ m >= 1 /\ m \in Nat /\ n \in Nat
      BY <1>6, <1>13, <1>14, <3>1
    <3>3. l <= n
      BY <1>9
    <3>4. QED
      BY <3>1, <3>2, <3>3
  <2>3. QED
    BY <2>1, <2>2 DEF InFlush, ToSet
<1>16. \A x : InBuffer(x)' <=> InBuffer(x)
  BY <1>4 DEF InBuffer
<1>17. \A x : InBuffer(x) => x \notin ToSet(run)
  <2> SUFFICES ASSUME NEW r \in Rooms, NEW l \in DOMAIN buffer[r], NEW m \in DOMAIN run, buffer[r][l] = run[m]
               PROVE  FALSE
    BY DEF InBuffer, ToSet
  <2>1. QED
    BY <1>9, OnePlace
<1>18. \A x : Waits(x)' => Waits(x) /\ x \notin ToSet(run)
  BY <1>15, <1>16, <1>17 DEF Waits
<1>19. \A x : Waits(x) => Waits(x)' \/ x \in ToSet(run)
  <2> SUFFICES ASSUME NEW x, InFlush(x) PROVE InFlush(x)' \/ x \in ToSet(run)
    BY <1>16 DEF Waits
  <2>1. PICK j \in DOMAIN flushing : \E m \in DOMAIN flushing[j].parts : flushing[j].parts[m] = x
    BY DEF InFlush
  <2>2. PICK m \in DOMAIN flushing[j].parts : flushing[j].parts[m] = x
    BY <2>1
  <2>3. CASE j = k /\ m <= n
    <3>1. ps[m] = x /\ m \in DOMAIN ps
      BY <1>5, <2>2, <2>3
    <3>2. m \in 1 .. n
      BY <1>6, <2>3, <3>1
    <3>3. run[m] = x
      BY <1>7, <3>1, <3>2
    <3>4. QED
      BY <1>7, <3>2, <3>3 DEF ToSet
  <2>4. CASE \E i \in DOMAIN flushing' : \E l \in DOMAIN flushing'[i].parts :
                flushing'[i].parts[l] = flushing[j].parts[m]
    BY <2>2, <2>4 DEF InFlush
  <2>5. QED
    BY <1>3, <2>3, <2>4 DEF Cut
\* What the gateway has: as before, or with the run behind it.
<1>20. PICK D \in Nat : D = Len(delivered)
  <2>1. delivered \in Seq(Message)
    BY DEF WordInv, WordTypes
  <2>2. QED
    BY <2>1
<1>21. PICK msg : msg = [room |-> room, parts |-> run, trust |-> Trust(history[run[1]].sender)]
  OBVIOUS
<1>22. /\ msg \in Message /\ msg.room = room /\ msg.parts = run
       /\ msg.trust = Trust(history[run[1]].sender)
  BY <1>7, <1>21, <1>20 DEF Message, Trust
<1>23. /\ delivered' \in Seq(Message)
       /\ \A j \in DOMAIN delivered : j \in DOMAIN delivered' /\ delivered'[j] = delivered[j] /\ j < D + 1
       /\ \A j \in DOMAIN delivered' :
            \/ j \in DOMAIN delivered /\ delivered'[j] = delivered[j]
            \/ socket = "up" /\ j = D + 1 /\ delivered'[j] = msg
       /\ socket = "up" => D + 1 \in DOMAIN delivered' /\ delivered'[D + 1] = msg
  <2>1. delivered \in Seq(Message)
    BY DEF WordInv, WordTypes
  <2>2. DOMAIN delivered = 1 .. D
    BY <1>21, <1>20, <2>1
  <2>3. CASE socket = "up"
    <3>1. delivered' = Append(delivered, msg)
      BY <1>3, <1>5, <1>21, <1>20, <2>3
    <3>2. /\ delivered' \in Seq(Message) /\ DOMAIN delivered' = 1 .. D + 1
          /\ \A j \in 1 .. D : delivered'[j] = delivered[j]
          /\ delivered'[D + 1] = msg
      BY <1>21, <1>20, <1>22, <2>1, <3>1, AppendIs
    <3>3. QED
      BY <1>21, <1>20, <2>2, <2>3, <3>2
  <2>4. CASE socket # "up"
    BY <1>3, <1>21, <1>20, <2>1, <2>2, <2>4
  <2>5. QED
    BY <2>3, <2>4
<1>24. \A x : Sent(x) => Sent(x)'
  BY <1>23 DEF Sent
<1>25. \A x : Sent(x)' => Sent(x) \/ (socket = "up" /\ x \in ToSet(run))
  BY <1>22, <1>23 DEF Sent, ToSet
<1>26. socket = "up" => \A x \in ToSet(run) : Sent(x)'
  BY <1>22, <1>23 DEF Sent, ToSet
<1>27. lost' = IF socket = "up" THEN lost ELSE lost \cup ToSet(run)
  BY <1>3
<1>28. \A x \in ToSet(run) : Waits(x) /\ ~Sent(x) /\ x \notin lost
  BY <1>10 DEF WordInv, Apart, Waits
<1>29. heard /\ phase # "leaving"
  BY DEF WordInv, Reading, Deaf, StartInv, RoomInv
<1>30. \A x \in ToSet(run) : x \in 1 .. token /\ (busy # 0 => x < busy) /\ \A j \in batch : x < j
  BY <1>28, <1>29 DEF WordInv, Reading, Progress
<1>31. ToSet(run) \subseteq Position
  BY <1>30, WordsAre DEF WordInv
<1>32. WordTypes'
  <2>1. ownIds \cup due \cup lost' \subseteq Position
    BY <1>27, <1>31, WordsAre DEF WordInv
  <2>2. QED
    BY <1>3, <1>4, <1>13, <1>23, <2>1 DEF WordInv, WordTypes, Position
<1>33. Apart'
  BY <1>18, <1>24, <1>25, <1>27, <1>28 DEF WordInv, Apart
<1>34. Reading'
  <2>1. Progress
    BY <1>29 DEF WordInv, Reading
  <2>2. \A x : Waits(x)' \/ Sent(x)' => Waits(x) \/ Sent(x)
    BY <1>18, <1>25, <1>28
  <2>3. \A x \in lost' : phase = "listening" => x <= token /\ x # busy /\ x \notin batch
    <3> SUFFICES ASSUME NEW x \in ToSet(run) PROVE x <= token /\ x # busy /\ x \notin batch
      BY <1>27, <2>1 DEF Progress
    <3>1. x \in Nat /\ x # 0 /\ x <= token
      BY <1>30, WordsAre DEF WordInv
    <3>2. QED
      BY <1>30, <3>1
  <2>4. Progress'
    BY <1>4, <2>1, <2>2, <2>3 DEF Progress
  <2>5. \A x : Sent(x)' => x \in Position
    BY <1>25, <1>31 DEF WordInv, Reading
  <2>6. QED
    BY <1>4, <1>29, <2>4, <2>5 DEF Reading, Position
<1>35. \A x, r : Said(x, r)' <=> Said(x, r)
  BY <1>4 DEF Said, Position
<1>36. WaitingWords'
  <2>1. \A j \in DOMAIN flushing' : \A m \in DOMAIN flushing'[j].parts :
           Said(flushing'[j].parts[m], flushing'[j].room)
    BY <1>11, <1>12, <1>13 DEF WordInv, WaitingWords
  <2>2. /\ \A r \in Rooms : \A m \in DOMAIN buffer[r] : Said(buffer[r][m], r)
        /\ busy # 0 => Said(busy, history[busy].room)
    BY DEF WordInv, WaitingWords
  <2>3. QED
    BY <1>4, <1>35, <2>1, <2>2 DEF WaitingWords
<1>37. \A m \in DOMAIN run : Said(run[m], room) /\ history[run[m]].sender = history[run[1]].sender
  <2>1. \A m \in DOMAIN run : Said(run[m], room)
    BY <1>5, <1>9 DEF WordInv, WaitingWords
  <2>2. \A m \in 1 .. n : history[ps[m]].sender = history[ps[1]].sender
    BY <1>3, <1>5 DEF FirstRun
  <2>3. QED
    BY <1>6, <1>7, <2>1, <2>2
<1>38. SentWords'
  <2> SUFFICES ASSUME NEW j \in DOMAIN delivered'
               PROVE  /\ delivered'[j].parts # <<>>
                      /\ \A m \in DOMAIN delivered'[j].parts :
                           /\ Said(delivered'[j].parts[m], delivered'[j].room)
                           /\ history[delivered'[j].parts[m]].sender = history[delivered'[j].parts[1]].sender
                      /\ delivered'[j].trust = Trust(history[delivered'[j].parts[1]].sender)
    BY <1>4, <1>35 DEF SentWords, Trust
  <2>1. CASE j \in DOMAIN delivered /\ delivered'[j] = delivered[j]
    BY <2>1 DEF WordInv, SentWords
  <2>2. CASE delivered'[j] = msg
    BY <1>7, <1>22, <1>37, <2>2
  <2>3. QED
    BY <1>23, <2>1, <2>2
<1>39. Echoes'
  BY <1>4 DEF WordInv, Echoes
<1>40. Rising(ps)
  BY <1>5 DEF WordInv, Queued
<1>41. Rising(run)
  BY <1>7, <1>40 DEF Rising
<1>42. Queued'
  <2>1. \A r \in Rooms : Rising(buffer'[r])
    BY <1>4 DEF WordInv, Queued
  <2>2. ASSUME NEW j \in DOMAIN flushing'
        PROVE  /\ Rising(flushing'[j].parts)
               /\ Before(flushing'[j].parts, buffer'[flushing'[j].room])
               /\ \A i \in DOMAIN flushing' :
                    i < j /\ flushing'[i].room = flushing'[j].room => Before(flushing'[i].parts, flushing'[j].parts)
    <3>1. /\ src[j] \in DOMAIN flushing /\ off[j] \in Nat /\ flushing'[j].room = flushing[src[j]].room
          /\ Rising(flushing[src[j]].parts)
          /\ Before(flushing[src[j]].parts, buffer[flushing[src[j]].room])
      BY <1>11, <1>13 DEF WordInv, Queued
    <3>2. Rising(flushing'[j].parts)
      <4> SUFFICES ASSUME NEW m \in DOMAIN flushing'[j].parts, NEW l \in DOMAIN flushing'[j].parts, m < l
                   PROVE  flushing'[j].parts[m] < flushing'[j].parts[l]
        BY DEF Rising
      <4>1. m \in Nat /\ l \in Nat
        BY <1>14
      <4>2. m + off[j] < l + off[j]
        BY <3>1, <4>1
      <4>3. QED
        BY <1>12, <3>1, <4>2 DEF Rising
    <3>3. Before(flushing'[j].parts, buffer'[flushing'[j].room])
      BY <1>4, <1>12, <3>1 DEF Before
    <3>4. ASSUME NEW i \in DOMAIN flushing', i < j, flushing'[i].room = flushing'[j].room
          PROVE  Before(flushing'[i].parts, flushing'[j].parts)
      <4>1. src[i] \in DOMAIN flushing /\ src[i] < src[j] /\ flushing'[i].room = flushing[src[i]].room
        BY <1>3, <1>11, <1>13, <3>4 DEF Cut
      <4>2. Before(flushing[src[i]].parts, flushing[src[j]].parts)
        BY <3>1, <3>4, <4>1 DEF WordInv, Queued
      <4>3. QED
        BY <1>12, <4>2 DEF Before
    <3>5. QED
      BY <3>2, <3>3, <3>4
  <2>3. QED
    BY <2>1, <2>2 DEF Queued
<1>43. Single'
  <2>1. \A j \in DOMAIN delivered' : Rising(delivered'[j].parts)
    BY <1>22, <1>23, <1>41 DEF WordInv, Single
  <2>2. ASSUME NEW i \in DOMAIN delivered', NEW j \in DOMAIN delivered',
               NEW m \in DOMAIN delivered'[i].parts, NEW l \in DOMAIN delivered'[j].parts,
               delivered'[i].parts[m] = delivered'[j].parts[l]
        PROVE  i = j
    <3>1. \A p \in DOMAIN delivered : \A q \in DOMAIN delivered[p].parts : Sent(delivered[p].parts[q])
      BY DEF Sent
    <3>2. \A q \in DOMAIN run : ~Sent(run[q])
      BY <1>28 DEF ToSet
    <3>3. CASE i \in DOMAIN delivered /\ delivered'[i] = delivered[i] /\ j \in DOMAIN delivered /\ delivered'[j] = delivered[j]
      BY <2>2, <3>3 DEF WordInv, Single
    <3>4. CASE i \in DOMAIN delivered /\ delivered'[i] = delivered[i] /\ delivered'[j] = msg
      BY <1>22, <2>2, <3>1, <3>2, <3>4
    <3>5. CASE delivered'[i] = msg /\ j \in DOMAIN delivered /\ delivered'[j] = delivered[j]
      BY <1>22, <2>2, <3>1, <3>2, <3>5
    <3>6. QED
      BY <1>23, <3>3, <3>4, <3>5
  <2>3. QED
    BY <2>1, <2>2 DEF Single
<1>44. InTurn'
  <2> SUFFICES ASSUME NEW r \in Rooms \ overlapped
               PROVE  /\ \A i, j \in DOMAIN flushing' :
                           flushing'[i].room = r /\ flushing'[j].room = r => i = j
                      /\ \A j \in DOMAIN delivered' : delivered'[j].room = r =>
                           /\ \A i \in DOMAIN delivered' :
                                i < j /\ delivered'[i].room = r => Before(delivered'[i].parts, delivered'[j].parts)
                           /\ \A i \in DOMAIN flushing' :
                                flushing'[i].room = r => Before(delivered'[j].parts, flushing'[i].parts)
                           /\ Before(delivered'[j].parts, buffer[r])
    BY <1>4 DEF InTurn
  <2>1. /\ \A i, j \in DOMAIN flushing : flushing[i].room = r /\ flushing[j].room = r => i = j
        /\ \A j \in DOMAIN delivered : delivered[j].room = r =>
             /\ \A i \in DOMAIN delivered :
                  i < j /\ delivered[i].room = r => Before(delivered[i].parts, delivered[j].parts)
             /\ \A i \in DOMAIN flushing : flushing[i].room = r => Before(delivered[j].parts, flushing[i].parts)
             /\ Before(delivered[j].parts, buffer[r])
    BY DEF WordInv, InTurn
  <2>2. \A i, j \in DOMAIN flushing' : flushing'[i].room = r /\ flushing'[j].room = r => i = j
    <3> SUFFICES ASSUME NEW i \in DOMAIN flushing', NEW j \in DOMAIN flushing', flushing'[i].room = r, flushing'[j].room = r
                 PROVE  i = j
      OBVIOUS
    <3>1. src[i] = src[j] /\ src[i] \in DOMAIN flushing
      BY <1>11, <1>13, <2>1
    <3>2. i \in Nat /\ j \in Nat /\ src[i] \in Nat
      <4>1. flushing \in Seq(Task) /\ flushing' \in Seq(Task)
        BY <1>3 DEF WordInv, WordTypes
      <4>2. \A l \in DOMAIN flushing : l \in Nat
        BY <4>1
      <4>3. \A l \in DOMAIN flushing' : l \in Nat
        BY <4>1
      <4>4. QED
        BY <3>1, <4>2, <4>3
    <3>3. ~(i < j) /\ ~(j < i)
      BY <1>3, <3>1, <3>2 DEF Cut
    <3>4. QED
      BY <3>2, <3>3
  \* In this room only task k runs, and the run is ahead of what is left of it.
  <2>3. ASSUME r = room, NEW i \in DOMAIN flushing', flushing'[i].room = r
        PROVE  Before(run, flushing'[i].parts)
    <3>1. src[i] = k /\ off[i] = n
      BY <1>5, <1>11, <1>13, <2>1, <2>3
    <3> SUFFICES ASSUME NEW m \in DOMAIN run, NEW l \in DOMAIN flushing'[i].parts
                 PROVE  run[m] < flushing'[i].parts[l]
      BY DEF Before
    <3>2. m < l + n
      BY <1>6, <1>8, <1>9, <1>14
    <3>3. l + n \in DOMAIN ps /\ flushing'[i].parts[l] = ps[l + n] /\ m \in DOMAIN ps /\ run[m] = ps[m]
      BY <1>5, <1>7, <1>12, <3>1
    <3>4. QED
      BY <1>40, <3>2, <3>3 DEF Rising
  <2>4. r = room => \A i \in DOMAIN delivered : delivered[i].room = r => Before(delivered[i].parts, run)
    <3>1. r = room => \A i \in DOMAIN delivered : delivered[i].room = r => Before(delivered[i].parts, flushing[k].parts)
      BY <1>5, <2>1
    <3>2. QED
      BY <1>9, <3>1 DEF Before
  <2>5. Before(run, buffer[room])
    <3>1. Before(flushing[k].parts, buffer[room])
      BY <1>5 DEF WordInv, Queued
    <3>2. QED
      BY <1>9, <3>1 DEF Before
  <2>6. \A j \in DOMAIN delivered : delivered[j].room = r =>
          \A i \in DOMAIN flushing' : flushing'[i].room = r => Before(delivered[j].parts, flushing'[i].parts)
    <3> SUFFICES ASSUME NEW j \in DOMAIN delivered, delivered[j].room = r, NEW i \in DOMAIN flushing', flushing'[i].room = r
                 PROVE  Before(delivered[j].parts, flushing'[i].parts)
      OBVIOUS
    <3>1. Before(delivered[j].parts, flushing[src[i]].parts)
      BY <1>11, <1>13, <2>1
    <3>2. QED
      BY <1>12, <3>1 DEF Before
  <2>7. ASSUME NEW j \in DOMAIN delivered', delivered'[j].room = r
        PROVE  /\ \A i \in DOMAIN delivered' :
                    i < j /\ delivered'[i].room = r => Before(delivered'[i].parts, delivered'[j].parts)
               /\ \A i \in DOMAIN flushing' :
                    flushing'[i].room = r => Before(delivered'[j].parts, flushing'[i].parts)
               /\ Before(delivered'[j].parts, buffer[r])
    <3>1. CASE j \in DOMAIN delivered /\ delivered'[j] = delivered[j]
      <4>1. \A i \in DOMAIN delivered' : i < j => i \in DOMAIN delivered /\ delivered'[i] = delivered[i]
        <5> SUFFICES ASSUME NEW i \in DOMAIN delivered', i < j PROVE i # D + 1
          BY <1>23
        <5>1. j < D + 1
          BY <1>23, <3>1
        <5>2. i \in Nat /\ j \in Nat /\ D \in Nat
          BY <1>21, <1>20, <1>23
        <5>3. QED
          BY <5>1, <5>2
      <4>2. QED
        BY <2>1, <2>6, <2>7, <3>1, <4>1
    <3>2. CASE j = D + 1 /\ delivered'[j] = msg
      <4>1. r = room /\ delivered'[j].parts = run
        BY <1>22, <2>7, <3>2
      <4>2. \A i \in DOMAIN delivered' : i < j => i \in DOMAIN delivered /\ delivered'[i] = delivered[i]
        <5> SUFFICES ASSUME NEW i \in DOMAIN delivered', i < j PROVE i # D + 1
          BY <1>23
        <5>1. D \in Nat
          BY <1>21, <1>20
        <5>2. QED
          BY <3>2, <5>1
      <4>3. QED
        BY <2>3, <2>4, <2>5, <4>1, <4>2
    <3>3. QED
      BY <1>23, <3>1, <3>2
  <2>8. QED
    BY <2>2, <2>7
<1>45. Expected'
  <2> SUFFICES ASSUME NEW x \in due, x \notin lost', ~Sent(x)' PROVE Owed(x)'
    BY <1>4 DEF Expected
  <2>1. x \notin lost /\ ~Sent(x) /\ x \notin ToSet(run)
    BY <1>24, <1>26, <1>27
  <2>2. Owed(x)
    BY <2>1 DEF WordInv, Expected
  <2>3. QED
    BY <1>4, <1>19, <2>1, <2>2 DEF Owed, Ahead
<1>46. QED
  BY <1>32, <1>33, <1>34, <1>36, <1>38, <1>39, <1>42, <1>43, <1>44, <1>45 DEF WordInv

-----------------------------------------------------------------------------
(* The theorems.                                                           *)

LEMMA NextMInv ==
    ASSUME MInv, [Next]_vars PROVE MInv'
<1>1. StartInv /\ WordInv /\ delivered \in Seq(Message)
  BY DEF MInv, StartInv, WordInv, WordTypes
<1>2. StartInv' /\ WordInv' => MInv'
  BY DEF MInv, StartInv, WordInv
<1>3. CASE Starting
  BY <1>3, StartingMInv
<1>4. CASE Post
  BY <1>1, <1>2, <1>4, LinkedStarts, PostWords DEF StartInv
<1>5. CASE IgnoreEvent
  BY <1>1, <1>2, <1>5, StillStarts, IgnoreEventWords
<1>6. CASE TakeText
  BY <1>1, <1>2, <1>6, StillStarts, TakeTextWords
<1>7. CASE TakeMedia
  BY <1>1, <1>2, <1>7, StillStarts, TakeMediaWords
<1>8. CASE Downloaded
  BY <1>1, <1>2, <1>8, StillStarts, DownloadedWords
<1>9. CASE TakeInvite
  BY <1>1, <1>2, <1>9, TakeInviteStarts, TakeInviteWords
<1>10. CASE Flush
  BY <1>1, <1>2, <1>10, StillStarts, FlushWords
<1>11. CASE Dispatch
  BY <1>1, <1>2, <1>11, StillStarts, DispatchWords
<1>12. CASE AgentAnswers \/ AgentBeats \/ Shutdown \/ LinkStep
  BY <1>1, <1>2, <1>12, LinkedStarts, LinkedWords
<1>13. CASE SendText
  BY <1>1, <1>2, <1>13, LinkedStarts, SendTextWords DEF StartInv
<1>14. CASE SendReturns
  BY <1>1, <1>2, <1>14, StillStarts, SendReturnsWords
<1>15. CASE NextSync
  BY <1>1, <1>2, <1>15, NextSyncStarts, NextSyncWords DEF StartInv
<1>16. CASE SyncCrashes
  BY <1>1, <1>2, <1>16, SyncCrashesStarts, SyncCrashesWords
<1>17. CASE Die
  BY <1>1, <1>2, <1>17, DieStarts, DieWords
<1>18. CASE UNCHANGED vars
  <2>1. UNCHANGED <<roomsUntouched, wordVars, token, batch, heard, phase, joined, rooms, spent, linkVars>>
    BY <1>18 DEF vars, homeVars, roomVars, readVars, mergeVars, sendVars, ghosts, roomsUntouched, wordVars
  <2>2. WordInv'
    BY <1>1, <2>1, QuietWords
  <2>3. spent' \in Spent /\ LinkTypeOK(Frame)'
    BY <1>1, <2>1 DEF StartInv, RoomTypes, linkVars, LinkTypeOK
  <2>4. QED
    BY <1>1, <1>2, <2>1, <2>2, <2>3, QuietStarts
<1>19. QED
  BY <1>3, <1>4, <1>5, <1>6, <1>7, <1>8, <1>9, <1>10, <1>11, <1>12, <1>13, <1>14, <1>15, <1>16, <1>17,
     <1>18 DEF Next, Starting

LEMMA AlwaysMInv == Spec => []MInv
<1>1. Init => MInv
  BY InitMInv
<1>2. MInv /\ [Next]_vars => MInv'
  BY NextMInv
<1>3. QED
  BY <1>1, <1>2, PTL DEF Spec

\* The variables hold values of their kinds, and a room's timer runs exactly
\* while its buffer holds something.
THEOREM MatrixTypes == Spec => []TypeOK
<1>1. MInv => TypeOK
  <2> SUFFICES ASSUME MInv PROVE TypeOK
    OBVIOUS
  <2>1. RoomTypes /\ WordTypes
    BY DEF MInv
  <2>2. batch \cup ownIds \cup due \cup lost \subseteq Position
    <3>1. \A i \in batch : i \in Position
      BY <2>1, WordsAre
    <3>2. QED
      BY <2>1, <3>1 DEF WordTypes
  <2>3. joined \cup admin \cup used \cup known \subseteq Rooms
    BY <2>1 DEF RoomTypes
  <2>4. QED
    BY <2>1, <2>2, <2>3 DEF TypeOK, RoomTypes, WordTypes
<1>2. QED
  BY <1>1, AlwaysMInv, PTL

\* What is on the shelves of the model, by the invariant's names.
LEMMA ShelvesAre ==
    ASSUME NEW s \in Shelves
    PROVE  \/ s = <<"file", 0>> /\ On(s) = IF busy = 0 THEN <<>> ELSE <<busy>>
           \/ \E r \in Rooms : s = <<"buffer", r>> /\ On(s) = buffer[r]
           \/ \E k \in DOMAIN flushing : s = <<"flush", k>> /\ On(s) = flushing[k].parts
           \/ \E k \in DOMAIN delivered : s = <<"gateway", k>> /\ On(s) = delivered[k].parts
<1>1. CASE s = <<"file", 0>>
  BY <1>1 DEF On
<1>2. CASE \E r \in Rooms : s = <<"buffer", r>>
  BY <1>2 DEF On
<1>3. CASE \E k \in DOMAIN flushing : s = <<"flush", k>>
  BY <1>3 DEF On
<1>4. CASE \E k \in DOMAIN delivered : s = <<"gateway", k>>
  BY <1>4 DEF On
<1>5. QED
  BY <1>1, <1>2, <1>3, <1>4 DEF Shelves

LEMMA TakenAre == \A i : i \in Taken <=> Waits(i) \/ (busy # 0 /\ i = busy)
<1>1. ASSUME NEW i \in Taken PROVE Waits(i) \/ (busy # 0 /\ i = busy)
  <2>1. PICK s \in Shelves : s[1] # "gateway" /\ i \in ToSet(On(s))
    BY <1>1 DEF Taken
  <2>2. PICK m \in DOMAIN On(s) : On(s)[m] = i
    BY <2>1 DEF ToSet
  <2>3. CASE On(s) = IF busy = 0 THEN <<>> ELSE <<busy>>
    <3>1. busy # 0
      BY <2>2, <2>3
    <3>2. On(s) = <<busy>>
      BY <2>3, <3>1
    <3>3. QED
      BY <2>2, <3>1, <3>2
  <2>4. CASE \E r \in Rooms : On(s) = buffer[r]
    BY <2>2, <2>4 DEF Waits, InBuffer
  <2>5. CASE \E k \in DOMAIN flushing : On(s) = flushing[k].parts
    BY <2>2, <2>5 DEF Waits, InFlush
  <2>6. \A k : s # <<"gateway", k>>
    BY <2>1
  <2>7. QED
    BY <2>3, <2>4, <2>5, <2>6, ShelvesAre
<1>2. ASSUME NEW i, busy # 0 /\ i = busy PROVE i \in Taken
  <2>1. <<"file", 0>> \in Shelves /\ On(<<"file", 0>>) = <<busy>>
    BY <1>2 DEF Shelves, On
  <2>2. i \in ToSet(<<busy>>)
    BY <1>2 DEF ToSet
  <2>3. QED
    BY <2>1, <2>2 DEF Taken
<1>3. ASSUME NEW i, InBuffer(i) PROVE i \in Taken
  <2>1. PICK r \in Rooms : i \in ToSet(buffer[r])
    BY <1>3 DEF InBuffer, ToSet
  <2>2. <<"buffer", r>> \in Shelves /\ On(<<"buffer", r>>) = buffer[r]
    BY DEF Shelves, On
  <2>3. QED
    BY <2>1, <2>2 DEF Taken
<1>4. ASSUME NEW i, InFlush(i) PROVE i \in Taken
  <2>1. PICK k \in DOMAIN flushing : i \in ToSet(flushing[k].parts)
    BY <1>4 DEF InFlush, ToSet
  <2>2. <<"flush", k>> \in Shelves /\ On(<<"flush", k>>) = flushing[k].parts
    BY DEF Shelves, On
  <2>3. QED
    BY <2>1, <2>2 DEF Taken
<1>5. QED
  BY <1>1, <1>2, <1>3, <1>4 DEF Waits

LEMMA SentOnce ==
    ASSUME WordInv, NEW j \in DOMAIN delivered, NEW k \in DOMAIN delivered,
           NEW m \in DOMAIN delivered[j].parts, NEW n \in DOMAIN delivered[k].parts,
           delivered[j].parts[m] = delivered[k].parts[n]
    PROVE  j = k /\ m = n
<1>1. j = k
  BY DEF WordInv, Single
<1>2. m \in Nat /\ n \in Nat /\ delivered[k].parts[m] \in Nat
  <2>1. delivered[k].parts \in Seq(Nat)
    BY WordsAre DEF WordInv
  <2>2. QED
    BY <1>1, <2>1
<1>3. ~(m < n) /\ ~(n < m)
  BY <1>1, <1>2 DEF WordInv, Single, Rising
<1>4. QED
  BY <1>1, <1>2, <1>3

LEMMA OneShelf ==
    ASSUME WordInv, NEW s \in Shelves, NEW t \in Shelves, NEW m \in DOMAIN On(s), NEW n \in DOMAIN On(t),
           On(s)[m] = On(t)[n]
    PROVE  s = t /\ m = n
<1> DEFINE File(u, l) == u = <<"file", 0>> /\ l = 1 /\ busy # 0 /\ On(u)[l] = busy
           Buffer(u, l) == \E r \in Rooms : u = <<"buffer", r>> /\ On(u) = buffer[r] /\ l \in DOMAIN buffer[r]
           Task_(u, l) == \E k \in DOMAIN flushing :
                            u = <<"flush", k>> /\ On(u) = flushing[k].parts /\ l \in DOMAIN flushing[k].parts
           Gone(u, l) == \E k \in DOMAIN delivered :
                           u = <<"gateway", k>> /\ On(u) = delivered[k].parts /\ l \in DOMAIN delivered[k].parts
<1>1. ASSUME NEW u \in Shelves, NEW l \in DOMAIN On(u)
      PROVE  File(u, l) \/ Buffer(u, l) \/ Task_(u, l) \/ Gone(u, l)
  <2>1. CASE u = <<"file", 0>> /\ On(u) = IF busy = 0 THEN <<>> ELSE <<busy>>
    <3>1. busy # 0
      BY <1>1, <2>1
    <3>2. On(u) = <<busy>>
      BY <2>1, <3>1
    <3>3. l = 1 /\ On(u)[l] = busy
      BY <1>1, <3>2
    <3>4. QED
      BY <2>1, <3>1, <3>3
  <2>2. QED
    BY <1>1, <2>1, ShelvesAre
<1>2. ASSUME NEW u, NEW l, Buffer(u, l) \/ Task_(u, l) PROVE Waits(On(u)[l])
  BY <1>2 DEF Waits, InBuffer, InFlush
<1>3. ASSUME NEW u, NEW l, Gone(u, l) PROVE Sent(On(u)[l])
  BY <1>3 DEF Sent
<1>4. ASSUME busy # 0, NEW x, Waits(x) \/ Sent(x) PROVE x # busy
  <2>1. Progress
    BY <1>4 DEF WordInv, Reading, Deaf
  <2>2. x \in 1 .. token /\ x < busy
    BY <1>4, <2>1 DEF Progress
  <2>3. busy \in Nat
    BY WordsAre DEF WordInv
  <2>4. QED
    BY <2>2, <2>3
<1>5. ASSUME NEW x, Waits(x) PROVE ~Sent(x)
  BY <1>5 DEF WordInv, Apart
<1>6. CASE File(s, m) /\ File(t, n)
  BY <1>6
<1>7. CASE (File(s, m) /\ ~File(t, n)) \/ (File(t, n) /\ ~File(s, m))
  BY <1>1, <1>2, <1>3, <1>4, <1>7
<1>8. CASE (Gone(s, m) /\ (Buffer(t, n) \/ Task_(t, n))) \/ (Gone(t, n) /\ (Buffer(s, m) \/ Task_(s, m)))
  BY <1>2, <1>3, <1>5, <1>8
<1>9. CASE Gone(s, m) /\ Gone(t, n)
  <2>1. PICK j \in DOMAIN delivered : s = <<"gateway", j>> /\ On(s) = delivered[j].parts
    BY <1>9
  <2>2. PICK k \in DOMAIN delivered : t = <<"gateway", k>> /\ On(t) = delivered[k].parts
    BY <1>9
  <2>3. j = k /\ m = n
    BY <2>1, <2>2, SentOnce
  <2>4. QED
    BY <2>1, <2>2, <2>3
<1>10. CASE Buffer(s, m) /\ Buffer(t, n)
  <2>1. PICK q \in Rooms : s = <<"buffer", q>> /\ On(s) = buffer[q]
    BY <1>10
  <2>2. PICK r \in Rooms : t = <<"buffer", r>> /\ On(t) = buffer[r]
    BY <1>10
  <2>3. q = r /\ m = n
    BY <2>1, <2>2, OnePlace
  <2>4. QED
    BY <2>1, <2>2, <2>3
<1>11. CASE Task_(s, m) /\ Task_(t, n)
  <2>1. PICK j \in DOMAIN flushing : s = <<"flush", j>> /\ On(s) = flushing[j].parts
    BY <1>11
  <2>2. PICK k \in DOMAIN flushing : t = <<"flush", k>> /\ On(t) = flushing[k].parts
    BY <1>11
  <2>3. j = k /\ m = n
    BY <2>1, <2>2, OnePlace
  <2>4. QED
    BY <2>1, <2>2, <2>3
<1>12. CASE (Buffer(s, m) /\ Task_(t, n)) \/ (Task_(s, m) /\ Buffer(t, n))
  <2>1. CASE Buffer(s, m) /\ Task_(t, n)
    BY <2>1, OnePlace
  <2>2. CASE Task_(s, m) /\ Buffer(t, n)
    BY <2>2, OnePlace
  <2>3. QED
    BY <1>12, <2>1, <2>2
<1>13. QED
  <2>1. /\ File(s, m) \/ Buffer(s, m) \/ Task_(s, m) \/ Gone(s, m)
        /\ File(t, n) \/ Buffer(t, n) \/ Task_(t, n) \/ Gone(t, n)
    BY <1>1
  <2> HIDE DEF File, Buffer, Task_, Gone
  <2>2. QED
    BY <1>6, <1>7, <1>8, <1>9, <1>10, <1>11, <1>12, <2>1

\* A message posted while the adapter listened is in one place until it is
\* forwarded or given up, and is forwarded once: no timer, overlapping flush,
\* crash or restart loses or doubles one.
THEOREM OnceOrLostAlways == Spec => []OnceOrLost
<1>1. MInv => OnceOrLost
  <2> SUFFICES ASSUME MInv PROVE OnceOrLost
    OBVIOUS
  <2>1. WordInv
    BY DEF MInv, WordInv
  <2>2. ASSUME NEW i \in due \ (lost \cup Forwarded) PROVE i \in Taken <=> i \notin Ahead
    <3>1. i \notin lost /\ ~Sent(i)
      BY ForwardedIs
    <3>2. Owed(i)
      BY <2>1, <3>1 DEF WordInv, Expected
    <3>3. i \in Taken \/ i \in Ahead
      BY <3>2, TakenAre DEF Owed
    <3>4. heard
      BY <2>1, <3>1 DEF WordInv, Reading, Deaf
    <3>5. Progress /\ token \in Nat /\ busy \in Nat
      BY <2>1, <3>4, WordsAre DEF WordInv, Reading
    <3>6. ASSUME i \in Taken PROVE i \notin Ahead
      <4>1. i \in 1 .. token /\ \A j \in batch : i < j
        <5>1. CASE Waits(i)
          BY <3>5, <5>1 DEF Progress
        <5>2. CASE busy # 0 /\ i = busy
          BY <3>5, <5>2 DEF Progress
        <5>3. QED
          BY <3>6, <5>1, <5>2, TakenAre
      <4>2. i \notin batch /\ ~(i > token)
        BY <3>5, <4>1
      <4>3. QED
        BY <3>5, <4>1, <4>2 DEF Ahead
    <3>7. QED
      BY <3>3, <3>6
  <2>3. \A s, t \in Shelves : \A m \in DOMAIN On(s), n \in DOMAIN On(t) :
          On(s)[m] = On(t)[n] => s = t /\ m = n
    BY <2>1, OneShelf
  <2>4. Forwarded \cap lost = {}
    BY <2>1, ForwardedIs DEF WordInv, Apart
  <2>5. QED
    BY <2>2, <2>3, <2>4 DEF OnceOrLost
<1>2. QED
  BY <1>1, AlwaysMInv, PTL

\* Whatever people type at once, and however flushes and echoes interleave, a
\* forwarded message is one person's words in one room, under that person's
\* trust; and a room's messages arrive in the order they were posted as long
\* as no two of its flushes ran at once.
THEOREM WordsAlwaysAsPosted == Spec => []WordsAsPosted
<1>1. MInv => OwnWords
  <2> SUFFICES ASSUME MInv, NEW k \in DOMAIN delivered
               PROVE  \E sender \in People :
                        /\ delivered[k].trust = Trust(sender)
                        /\ \A i \in ToSet(delivered[k].parts) :
                             history[i].sender = sender /\ history[i].room = delivered[k].room
    BY DEF OwnWords
  <2>1. /\ delivered[k].parts # <<>> /\ delivered[k].parts \in Seq(Nat)
        /\ \A m \in DOMAIN delivered[k].parts :
             /\ Said(delivered[k].parts[m], delivered[k].room)
             /\ history[delivered[k].parts[m]].sender = history[delivered[k].parts[1]].sender
        /\ delivered[k].trust = Trust(history[delivered[k].parts[1]].sender)
    BY WordsAre DEF MInv, SentWords
  <2>2. 1 \in DOMAIN delivered[k].parts
    BY <2>1
  <2>3. history[delivered[k].parts[1]].sender \in People
    BY <2>1, <2>2 DEF Said
  <2>4. \A i \in ToSet(delivered[k].parts) :
          history[i].sender = history[delivered[k].parts[1]].sender /\ history[i].room = delivered[k].room
    BY <2>1 DEF ToSet, Said
  <2>5. QED
    BY <2>1, <2>3, <2>4
<1>2. MInv => InOrder
  <2> SUFFICES ASSUME MInv, NEW j \in DOMAIN delivered, NEW k \in DOMAIN delivered,
                      delivered[j].room = delivered[k].room, delivered[j].room \notin overlapped,
                      NEW m \in DOMAIN delivered[j].parts, NEW n \in DOMAIN delivered[k].parts,
                      j < k \/ (j = k /\ m < n)
               PROVE  delivered[j].parts[m] < delivered[k].parts[n]
    BY DEF InOrder
  <2>1. delivered[k].room \in Rooms \ overlapped
    BY WordsAre DEF MInv
  <2>2. CASE j < k
    BY <2>1, <2>2 DEF MInv, InTurn, Before
  <2>3. CASE j = k /\ m < n
    BY <2>3 DEF MInv, Single, Rising
  <2>4. QED
    BY <2>2, <2>3
<1>3. QED
  BY <1>1, <1>2, AlwaysMInv, PTL DEF WordsAsPosted

\* Once the adapter listens, the bot is in the rooms of its config and in no
\* other and has power in none, whatever died or failed on the way.
THEOREM RoomsAlwaysKept == Spec => []KeepsRooms
<1>1. MInv => KeepsRooms
  BY DEF MInv, RoomInv, KeepsRooms, Unmet
<1>2. QED
  BY <1>1, AlwaysMInv, PTL
=============================================================================
