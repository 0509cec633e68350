--------------------------- MODULE MatrixAdapter ---------------------------
(***************************************************************************)
(* connector/adapters/matrix.py with the part of connector/main.py that    *)
(* drives it: one connector process with the Matrix adapter alone.         *)
(*                                                                         *)
(* At start the adapter resolves the aliases of its config, creates rooms  *)
(* for them and writes their ids back to the file; its first sync is only  *)
(* for the state of the rooms, and it leaves those it does not serve. From *)
(* then on it handles what a sync brings one event after the other, merges *)
(* the messages of a room while people type, and forwards them to the      *)
(* gateway; what the agents answer is posted in the room, and comes back   *)
(* with the next sync. The process may die at any time, and the homeserver *)
(* and the config file outlive it.                                         *)
(*                                                                         *)
(* An event's identity is its position in the homeserver's history.        *)
(* Encryption, device trust, reactions to approval cards (Approvals.tla),  *)
(* step messages and the texts of messages are left out.                   *)
(***************************************************************************)
EXTENDS GatewayClient, FiniteSets, SequencesExt, TLC

CONSTANTS
    Rooms,       \* room ids the homeserver may hand out
    Aliases,     \* "#name:server" references in the config
    People,      \* users other than the bot
    Trusted,     \* trusted_users
    Nobody,      \* no room, no event
    Scenarios    \* the instances to check: records, see ScenarioAssumption

Bot == "bot"
Agents == {"main", "other"}
Text == "text"          \* passes _should_dispatch
Aside == "aside"        \* filtered by _should_dispatch
Media == "media"        \* image, or audio when there is a transcriber
Invite == "invite"
Kinds == {Text, Aside, Media, Invite}

Event == [room : Rooms, sender : People \cup {Bot}, kind : Kinds]
Refs == Rooms \cup Aliases

\* file: the config's rooms section. joined, invited: the bot's rooms before
\* the first start. side: heartbeat_rooms and approval_rooms. script: what
\* people post, one after the other, in any of the bot's rooms. The rest are
\* bounds: deaths of the process, requests to the homeserver that fail,
\* heartbeats and answers of agents, posts.
Configured(s) ==
    /\ DOMAIN s.file \subseteq Refs /\ Range(s.file) \subseteq Agents
    /\ s.joined \subseteq Rooms
    /\ IsFiniteSet(s.invited) /\ s.invited \subseteq DOMAIN s.file \cap Rooms
    /\ s.side \subseteq s.joined /\ s.joined \cap s.invited = {}
Bounded(s) ==
    /\ s.script \in Seq([sender : People, kind : {Text, Aside, Media}]) /\ s.posts = Len(s.script)
    /\ {s.deaths, s.losses, s.faults, s.beats, s.answers, s.posts} \subseteq Nat
    /\ s.losses <= MaxLosses

\* References begin with "#" or "!".
ASSUME ScenarioAssumption ==
    /\ Trusted \subseteq People /\ People # {} /\ Bot \notin People
    /\ Rooms \cap Aliases = {} /\ Nobody \notin Rooms
    /\ \A s \in Scenarios : Configured(s) /\ Bounded(s)

VARIABLES
    scenario,
    \* the homeserver and the disk
    history,     \* every event of every room, in order
    joined,      \* rooms the bot is a member of
    admin,       \* rooms in which it has a power level above 0
    aliasOf,     \* the directory of aliases
    used,        \* room ids handed out
    file,        \* the rooms section of the YAML config
    \* the process: rooms
    phase,       \* "down", "resolving", "first", "leaving", "listening", "crashed"
    config,      \* self._config.rooms
    rooms,       \* self._rooms
    todo,        \* aliases _resolve_rooms has not come to
    created,     \* created_rooms: alias -> room id
    known,       \* client.rooms: the rooms of the last sync response
    heard,       \* _initial_sync_done
    \* the process: messages
    token,       \* next_batch of the last sync
    batch,       \* events of the last response not handled yet, in order of position
    busy,        \* the event whose file is being downloaded
    buffer,      \* _merge_buffers
    timer,       \* rooms in _merge_tasks
    flushing,    \* flushes past their window: the room, what each has left to forward
    sending,     \* the event of a room_send whose response is not here yet
    ownIds,      \* _own_event_ids
    \* the gateway
    delivered,   \* what it received: [room, trust, parts]
    \* history variables
    due,         \* messages posted for the bot while it was listening
    lost,        \* messages given up: no link, a failed download, a death
    overlapped,  \* rooms of which two flushes ran at once
    spent        \* [deaths, faults, beats, answers, posts] so far

homeVars == <<history, joined, admin, aliasOf, used, file>>
roomVars == <<phase, config, rooms, todo, created, known, heard>>
readVars == <<token, batch, busy>>
mergeVars == <<buffer, timer, flushing>>
sendVars == <<sending, ownIds>>
ghosts == <<due, lost, overlapped, spent>>
vars == <<scenario, homeVars, roomVars, readVars, mergeVars, sendVars, delivered, ghosts, linkVars>>

\* Frames from the gateway: an answer for a room, or a heartbeat of an agent.
Frame == [room : Rooms \cup {Nobody}, agent : Agents]
None == <<>>
----------------------------------------------------------------------------
(* Starting: rooms.                                                        *)

\* What a new process has in memory.
Fresh ==
    /\ config' = None /\ rooms' = None /\ todo' = {} /\ created' = None
    /\ known' = {} /\ heard' = FALSE /\ token' = 0 /\ batch' = {} /\ busy' = 0
    /\ buffer' = [r \in Rooms |-> <<>>] /\ timer' = {} /\ flushing' = <<>>
    /\ sending' = 0 /\ ownIds' = {}

Init ==
    /\ scenario \in Scenarios
    /\ history = SetToSeq({[room |-> r, sender |-> CHOOSE p \in People : TRUE, kind |-> Invite] :
                             r \in scenario.invited})
    /\ joined = scenario.joined
    /\ admin \in SUBSET scenario.joined
    /\ aliasOf = [a \in Aliases |-> Nobody]
    /\ used = scenario.joined \cup scenario.invited
    /\ file = scenario.file
    /\ phase = "down"
    /\ config = None /\ rooms = None /\ todo = {} /\ created = None
    /\ known = {} /\ heard = FALSE /\ token = 0 /\ batch = {} /\ busy = 0
    /\ buffer = [r \in Rooms |-> <<>>] /\ timer = {} /\ flushing = <<>>
    /\ sending = 0 /\ ownIds = {}
    /\ delivered = <<>>
    /\ due = {} /\ lost = {} /\ overlapped = {}
    /\ spent = [deaths |-> 0, faults |-> 0, beats |-> 0, answers |-> 0, posts |-> 0]
    /\ LinkInit

Spend(what) ==
    /\ spent[what] < scenario[what]
    /\ spent' = [spent EXCEPT ![what] = @ + 1]

\* main: load_config, the adapter's constructor, and start up to the first
\* alias. A config without aliases goes straight to the sync loop.
Start ==
    /\ phase = "down"
    /\ config' = file
    /\ rooms' = [r \in DOMAIN file \cap Rooms |-> file[r]]
    /\ todo' = DOMAIN file \cap Aliases
    /\ phase' = IF todo' = {} THEN "first" ELSE "resolving"
    /\ UNCHANGED <<scenario, homeVars, created, known, heard, readVars, mergeVars, sendVars,
                   delivered, ghosts, linkVars>>

\* dict[key] = value
Put(dict, key, value) ==
    [k \in DOMAIN dict \cup {key} |-> IF k = key THEN value ELSE dict[k]]

Resolved(alias, room) ==
    /\ rooms' = Put(rooms, room, config[alias])
    /\ created' = Put(created, alias, room)
    /\ todo' = todo \ {alias}

\* The alias names a room that the client knows the bot to be in.
Found(alias) == aliasOf[alias] # Nobody /\ aliasOf[alias] \in known

\* _create_room: the bot has power 100 in it until _demote_in_new_room. The
\* alias goes to the new room unless another has it.
CreateRoom(alias, room) ==
    /\ room \in Rooms \ used
    /\ used' = used \cup {room}
    /\ joined' = joined \cup {room}
    /\ aliasOf' = IF aliasOf[alias] = Nobody THEN [aliasOf EXCEPT ![alias] = room] ELSE aliasOf
    /\ admin' = admin \cup {room}

ResolveRoom ==
    /\ phase = "resolving"
    /\ \E alias \in todo :
         IF Found(alias) THEN Resolved(alias, aliasOf[alias]) /\ UNCHANGED <<joined, admin, aliasOf, used>>
         ELSE \E room \in Rooms : CreateRoom(alias, room) /\ Resolved(alias, room)
    /\ UNCHANGED <<scenario, history, file, phase, config, known, heard, readVars, mergeVars,
                   sendVars, delivered, ghosts, linkVars>>

\* room_create fails: the agent goes without a room until the next start.
CreateFails ==
    /\ phase = "resolving"
    /\ \E alias \in todo : ~Found(alias) /\ todo' = todo \ {alias}
    /\ Spend("faults")
    /\ UNCHANGED <<scenario, homeVars, phase, config, rooms, created, known, heard, readVars,
                   mergeVars, sendVars, delivered, due, lost, overlapped, linkVars>>

\* _demote_in_new_room, of the room just created; a failure is only logged.
DemoteNew ==
    /\ phase = "resolving"
    /\ \E room \in Range(created) \cap admin : admin' = admin \ {room}
    /\ UNCHANGED <<scenario, history, joined, aliasOf, used, file, roomVars, readVars, mergeVars,
                   sendVars, delivered, ghosts, linkVars>>

\* _save_created_rooms_to_config, by re-reading and rewriting the file: each
\* alias is replaced by the id of its room. self._config is not changed.
SavedFile ==
    [ref \in (DOMAIN file \ DOMAIN created) \cup Range(created) |->
       IF ref \in DOMAIN file THEN file[ref]
       ELSE file[CHOOSE a \in DOMAIN created : created[a] = ref]]

SaveRooms ==
    /\ phase = "resolving"
    /\ todo = {}
    /\ file' = SavedFile
    /\ phase' = "first"
    /\ UNCHANGED <<scenario, history, joined, admin, aliasOf, used, config, rooms, todo, created,
                   known, heard, readVars, mergeVars, sendVars, delivered, ghosts, linkVars>>

\* A response of /sync: the events after the token, in the rooms the bot is
\* in, and invitations; and the rooms as they are now.
Positions(from) ==
    {i \in from + 1 .. Len(history) : history[i].room \in joined \/ history[i].kind = Invite}

Synced ==
    /\ batch = {} /\ busy = 0
    /\ batch' = Positions(token)
    /\ token' = Len(history)
    /\ known' = joined

\* The first sync has no token, and brings what the rooms last held.
FirstSync ==
    /\ phase = "first"
    /\ Synced
    /\ phase' = "leaving"
    /\ UNCHANGED <<scenario, homeVars, config, rooms, todo, created, heard, busy, mergeVars, sendVars,
                   delivered, ghosts, linkVars>>

\* The first sync is answered with an error: the loop goes on, and what it
\* brings from now on is taken for history.
FirstSyncFails ==
    /\ phase = "first"
    /\ Spend("faults")
    /\ phase' = "listening"
    /\ UNCHANGED <<scenario, homeVars, config, rooms, todo, created, known, heard, readVars, mergeVars,
                   sendVars, delivered, due, lost, overlapped, linkVars>>

\* _demote_self_in_rooms, of one room of the first sync's response.
\* Defect: compared with the config as it was loaded.
ServesConfig(room) == room \in DOMAIN config \cup scenario.side
Serves(room) == room \in DOMAIN rooms \cup scenario.side

Leave(room) ==
    /\ admin' = admin \ {room}
    /\ joined' = IF Serves(room) THEN joined ELSE joined \ {room}

DemoteSelf ==
    /\ phase = "leaving"
    /\ batch = {}
    /\ \E room \in known \cap joined :
         /\ room \in admin \/ ~Serves(room)
         /\ Leave(room)
    /\ UNCHANGED <<scenario, history, aliasOf, used, file, roomVars, readVars, mergeVars, sendVars,
                   delivered, ghosts, linkVars>>

\* ... and the last line of the first sync: _initial_sync_done.
Listen ==
    /\ phase = "leaving"
    /\ batch = {}
    /\ \A room \in known \cap joined : Serves(room) /\ room \notin admin
    /\ heard' = TRUE
    /\ phase' = "listening"
    /\ UNCHANGED <<scenario, homeVars, config, rooms, todo, created, known, readVars, mergeVars,
                   sendVars, delivered, ghosts, linkVars>>

NextSync ==
    /\ phase = "listening"
    /\ token < Len(history)
    /\ Synced
    /\ UNCHANGED <<scenario, homeVars, phase, config, rooms, todo, created, heard, busy, mergeVars,
                   sendVars, delivered, ghosts, linkVars>>
----------------------------------------------------------------------------
(* Reading: what people post, and how the adapter takes it.                *)

Post ==
    /\ Spend("posts")
    /\ \E room \in joined :
         LET said == scenario.script[spent'.posts]
         IN /\ history' = Append(history, [room |-> room, sender |-> said.sender, kind |-> said.kind])
            /\ due' = IF phase = "listening" /\ heard /\ room \in DOMAIN rooms /\ said.kind # Aside
                      THEN due \cup {Len(history')} ELSE due
    /\ UNCHANGED <<scenario, joined, admin, aliasOf, used, file, roomVars, readVars, mergeVars,
                   sendVars, delivered, lost, overlapped, linkVars>>

\* The self-loop guard: by sender, and by what room_send returned.
Own(i) == history[i].sender = Bot \/ i \in ownIds

\* An event that _on_room_message, _on_room_image or _on_room_audio returns on.
\* Defect: what the first sync brings is handled.
IgnoredUnless(i) ==
    \/ Own(i)
    \/ history[i].room \notin DOMAIN rooms
    \/ history[i].kind = Aside
Ignored(i) ==
    \/ ~heard
    \/ Own(i)
    \/ history[i].room \notin DOMAIN rooms
    \/ history[i].kind = Aside

\* Defect: a download does not hold up the events behind it.
TakeEventAnyway(i) ==
    /\ i \in batch /\ \A j \in batch : i <= j
    /\ batch' = batch \ {i}
TakeEvent(i) ==
    /\ busy = 0
    /\ i \in batch /\ \A j \in batch : i <= j
    /\ batch' = batch \ {i}

IgnoreEvent ==
    /\ \E i \in batch :
         /\ TakeEvent(i)
         /\ history[i].kind # Invite
         /\ Ignored(i)
         /\ ownIds' = IF heard /\ Own(i) THEN ownIds \ {i} ELSE ownIds
    /\ UNCHANGED <<scenario, homeVars, roomVars, token, busy, mergeVars, sending, delivered, ghosts,
                   linkVars>>

\* The message joins its room's buffer, and the window starts again.
\* Defect: the running timer is cancelled and none is started.
MergeCancels(i) ==
    /\ buffer' = [buffer EXCEPT ![history[i].room] = Append(@, i)]
    /\ timer' = IF history[i].room \in timer THEN timer \ {history[i].room}
                ELSE timer \cup {history[i].room}
    /\ UNCHANGED flushing
Merge(i) ==
    /\ buffer' = [buffer EXCEPT ![history[i].room] = Append(@, i)]
    /\ timer' = timer \cup {history[i].room}
    /\ UNCHANGED flushing

\* _on_room_message
TakeText ==
    /\ \E i \in batch :
         /\ TakeEvent(i)
         /\ history[i].kind = Text /\ ~Ignored(i)
         /\ Merge(i)
    /\ UNCHANGED <<scenario, homeVars, roomVars, token, busy, sendVars, delivered, ghosts, linkVars>>

\* _on_room_image, _on_room_audio: the rest of the batch waits for the file.
TakeMedia ==
    /\ \E i \in batch :
         /\ TakeEvent(i)
         /\ history[i].kind = Media /\ ~Ignored(i)
         /\ busy' = i
    /\ UNCHANGED <<scenario, homeVars, roomVars, token, mergeVars, sendVars, delivered, ghosts, linkVars>>

\* Downloaded, decrypted and, for audio, transcribed; or one of them failed.
Downloaded ==
    /\ busy # 0
    /\ busy' = 0
    /\ \/ Merge(busy) /\ UNCHANGED lost
       \/ lost' = lost \cup {busy} /\ UNCHANGED mergeVars
    /\ UNCHANGED <<scenario, homeVars, roomVars, token, batch, sendVars, delivered, due, overlapped,
                   spent, linkVars>>

\* _on_invite: joins a room of the config, before the first sync is over too.
TakeInvite ==
    /\ \E i \in batch :
         /\ TakeEvent(i)
         /\ history[i].kind = Invite
         /\ joined' = joined \cup ({history[i].room} \cap DOMAIN rooms)
    /\ UNCHANGED <<scenario, history, admin, aliasOf, used, file, roomVars, token, busy, mergeVars,
                   sendVars, delivered, ghosts, linkVars>>
----------------------------------------------------------------------------
(* Forwarding.                                                             *)

\* The first n messages are a run: consecutive messages of one sender become
\* one.
FirstRun(parts, n) ==
    /\ \A m \in 1 .. n : history[parts[m]].sender = history[parts[1]].sender
    /\ n < Len(parts) => history[parts[n + 1]].sender # history[parts[1]].sender

\* _flush_merge_buffer after its sleep: takes the buffer, and is no longer the
\* task that the next message cancels.
\* Defect: the flush stays the room's merge task.
FlushKept ==
    /\ \E room \in timer :
         /\ buffer[room] # <<>>
         /\ buffer' = [buffer EXCEPT ![room] = <<>>]
         /\ flushing' = Append(flushing, [room |-> room, parts |-> buffer[room]])
    /\ UNCHANGED <<scenario, homeVars, roomVars, readVars, timer, sendVars, delivered, ghosts, linkVars>>
Flush ==
    /\ \E room \in timer :
         /\ timer' = timer \ {room}
         /\ buffer' = [buffer EXCEPT ![room] = <<>>]
         /\ flushing' = Append(flushing, [room |-> room, parts |-> buffer[room]])
         /\ overlapped' = IF \E k \in DOMAIN flushing : flushing[k].room = room
                          THEN overlapped \cup {room} ELSE overlapped
    /\ UNCHANGED <<scenario, homeVars, roomVars, readVars, sendVars, delivered, due, lost, spent,
                   linkVars>>

\* _compute_trust
Trust(sender) == IF sender \in Trusted THEN "verified" ELSE "unverified"

\* One turn of the loop over the runs: gateway.send_message, which only logs
\* when there is no connection. It waits while the socket is congested, and a
\* later flush may pass it.
Dispatch ==
    /\ \E k \in DOMAIN flushing :
         LET task == flushing[k]
         IN \E n \in DOMAIN task.parts :
              LET run == SubSeq(task.parts, 1, n)
              IN /\ FirstRun(task.parts, n)
                 /\ flushing' = IF n = Len(task.parts) THEN RemoveAt(flushing, k)
                                ELSE [flushing EXCEPT ![k].parts = SubSeq(@, n + 1, Len(@))]
                 /\ IF socket = "up"
                    THEN /\ delivered' = Append(delivered, [room |-> task.room, parts |-> run,
                                                            trust |-> Trust(history[run[1]].sender)])
                         /\ UNCHANGED lost
                    ELSE lost' = lost \cup ToSet(run) /\ UNCHANGED delivered
    /\ UNCHANGED <<scenario, homeVars, roomVars, readVars, buffer, timer, sendVars, due, overlapped,
                   spent, linkVars>>
----------------------------------------------------------------------------
(* Posting.                                                                *)

\* The gateway: an agent answers a message in its room, or has a heartbeat.
AgentAnswers ==
    /\ Spend("answers")
    /\ \E k \in DOMAIN delivered : Push(<<[room |-> delivered[k].room, agent |-> "main"]>>)
    /\ UNCHANGED <<scenario, homeVars, roomVars, readVars, mergeVars, sendVars, delivered, due, lost,
                   overlapped>>

AgentBeats ==
    /\ Spend("beats")
    /\ \E agent \in Agents : Push(<<[room |-> Nobody, agent |-> agent]>>)
    /\ UNCHANGED <<scenario, homeVars, roomVars, readVars, mergeVars, sendVars, delivered, due, lost,
                   overlapped>>

\* _route_outbound, or _route_heartbeat by the config as it was loaded; then
\* send_text and _room_send. The homeserver refuses an alias, and a room the
\* bot is not in; that is logged.
TargetsOf(frame) ==
    IF frame.room # Nobody THEN {frame.room} ELSE {ref \in DOMAIN config : config[ref] = frame.agent}

SendText ==
    /\ sending = 0
    /\ TakeFrame
    /\ \/ \E room \in TargetsOf(Head(inbound)) \cap joined :
            /\ history' = Append(history, [room |-> room, sender |-> Bot, kind |-> Text])
            /\ sending' = Len(history')
       \/ TargetsOf(Head(inbound)) \cap joined = {} /\ UNCHANGED <<history, sending>>
    /\ UNCHANGED <<scenario, joined, admin, aliasOf, used, file, roomVars, readVars, mergeVars, ownIds,
                   delivered, ghosts>>

\* The response of room_send, with the id of the event.
SendReturns ==
    /\ sending # 0
    /\ sending' = 0
    /\ ownIds' = ownIds \cup {sending}
    /\ UNCHANGED <<scenario, homeVars, roomVars, readVars, mergeVars, delivered, ghosts, linkVars>>
----------------------------------------------------------------------------
(* The process.                                                            *)

Forwarded == UNION {ToSet(delivered[k].parts) : k \in DOMAIN delivered}

\* An exception in the sync loop is logged, and nothing starts it again.
SyncCrashes ==
    /\ phase = "listening"
    /\ Spend("faults")
    /\ phase' = "crashed"
    /\ batch' = {} /\ busy' = 0
    /\ lost' = lost \cup {i \in due \ Forwarded : i > token \/ i = busy \/ i \in batch}
    /\ UNCHANGED <<scenario, homeVars, config, rooms, todo, created, known, heard, token, mergeVars,
                   sendVars, delivered, due, overlapped, linkVars>>

\* The shutdown watcher stops the gateway client before the adapters.
Shutdown ==
    /\ phase # "down"
    /\ spent.deaths < scenario.deaths
    /\ ~closing
    /\ CloseLink
    /\ UNCHANGED <<scenario, homeVars, roomVars, readVars, mergeVars, sendVars, delivered, ghosts>>

\* The process ends, at the end of a shutdown (MatrixAdapter.stop) or by itself.
Die ==
    /\ phase # "down"
    /\ Spend("deaths")
    /\ phase' = "down"
    /\ Fresh
    /\ lost' = lost \cup (due \ Forwarded)
    /\ socket' = "none" /\ registered' = FALSE /\ closing' = FALSE /\ inbound' = <<>>
    /\ UNCHANGED <<scenario, homeVars, delivered, due, overlapped, losses>>

LinkStep ==
    /\ phase # "down"
    /\ \/ Connect
       \/ Acknowledged
       \/ losses < scenario.losses /\ LinkDies
       \/ sending = 0 /\ ReadEnds
    /\ UNCHANGED <<scenario, homeVars, roomVars, readVars, mergeVars, sendVars, delivered, ghosts>>

Next ==
    \/ Start \/ ResolveRoom \/ CreateFails \/ DemoteNew \/ SaveRooms
    \/ FirstSync \/ FirstSyncFails \/ DemoteSelf \/ Listen \/ NextSync
    \/ Post \/ IgnoreEvent \/ TakeText \/ TakeMedia \/ Downloaded \/ TakeInvite
    \/ Flush \/ Dispatch
    \/ AgentAnswers \/ AgentBeats \/ SendText \/ SendReturns
    \/ SyncCrashes \/ Shutdown \/ Die \/ LinkStep

\* The loop syncs again at once, timers fire, and a request or a send on the
\* socket comes back; people, agents, faults and the network owe nothing.
Fairness ==
    /\ WF_vars(NextSync)
    /\ WF_vars(IgnoreEvent \/ TakeText \/ TakeMedia \/ TakeInvite)
    /\ WF_vars(Downloaded)
    /\ WF_vars(Flush)
    /\ WF_vars(Dispatch)

Spec == Init /\ [][Next]_vars /\ Fairness
----------------------------------------------------------------------------
(* Properties.                                                             *)

Position == 1 .. Len(history)

\* The variables hold values of their kinds; the merge timer of a room runs
\* exactly while its buffer holds something, and what the adapter remembers
\* of the history lies within it.
TypeOK ==
    /\ history \in Seq(Event)
    /\ joined \cup admin \cup used \cup known \subseteq Rooms
    /\ DOMAIN file \subseteq Refs /\ DOMAIN rooms \subseteq Rooms
    /\ phase \in {"down", "resolving", "first", "leaving", "listening", "crashed"}
    /\ token \in 0 .. Len(history) /\ busy \in 0 .. Len(history) /\ sending \in 0 .. Len(history)
    /\ batch \cup ownIds \cup due \cup lost \subseteq Position
    /\ timer = {r \in Rooms : buffer[r] # <<>>}
    /\ \A k \in DOMAIN flushing : flushing[k].parts # <<>>
    /\ LinkTypeOK(Frame)

\* Where a message waits once the adapter has taken it, and the gateway; and
\* what the adapter has not come to.
Shelves ==
    {<<"file", 0>>} \cup {<<"buffer", r>> : r \in Rooms}
    \cup {<<"flush", k>> : k \in DOMAIN flushing} \cup {<<"gateway", k>> : k \in DOMAIN delivered}
On(shelf) ==
    CASE shelf[1] = "file" -> IF busy = 0 THEN <<>> ELSE <<busy>>
      [] shelf[1] = "buffer" -> buffer[shelf[2]]
      [] shelf[1] = "flush" -> flushing[shelf[2]].parts
      [] shelf[1] = "gateway" -> delivered[shelf[2]].parts
Taken == UNION {ToSet(On(shelf)) : shelf \in {s \in Shelves : s[1] # "gateway"}}
Ahead == batch \cup (token + 1 .. Len(history))

\* A message posted while the adapter listened is in exactly one place until
\* it is forwarded or given up for a reason the code has (no connection, a
\* download that failed, the end of the process), and it is forwarded once:
\* timers that are cancelled and started again, flushes that overlap and
\* restarts lose and double none.
OnceOrLost ==
    /\ \A i \in due \ (lost \cup Forwarded) : i \in Taken <=> i \notin Ahead
    /\ \A s, t \in Shelves : \A m \in DOMAIN On(s), n \in DOMAIN On(t) :
         On(s)[m] = On(t)[n] => s = t /\ m = n
    /\ Forwarded \cap lost = {}

\* A forwarded message holds the words of one person in one room, in the
\* order they were posted, under that person's trust, never the bot's own:
\* merging and the echo of the agents' answers put nobody's words in another's
\* mouth.
OwnWords ==
    \A k \in DOMAIN delivered :
      \E sender \in People :
        /\ delivered[k].trust = Trust(sender)
        /\ \A i \in ToSet(delivered[k].parts) :
             history[i].sender = sender /\ history[i].room = delivered[k].room

\* The gateway receives a room's messages in the order they were posted, as
\* long as no two flushes of the room ran at once: a file that takes long to
\* download holds up what was said after it.
InOrder ==
    \A j, k \in DOMAIN delivered :
      delivered[j].room = delivered[k].room /\ delivered[j].room \notin overlapped =>
        \A m \in DOMAIN delivered[j].parts, n \in DOMAIN delivered[k].parts :
          j < k \/ (j = k /\ m < n) => delivered[j].parts[m] < delivered[k].parts[n]
WordsAsPosted == OwnWords /\ InOrder

\* Once it listens, the bot is in the rooms of its config and in no other, and
\* has power in none: neither a room created just before a death, nor a failed
\* demotion, nor an invitation leaves it elsewhere. Nor does it leave a room of
\* its config; it may have been put there without ever having been in it.
KeepsRooms ==
    phase = "listening" /\ heard =>
      /\ joined \subseteq DOMAIN rooms \cup scenario.side
      /\ DOMAIN rooms \subseteq joined \cup (DOMAIN scenario.file \ scenario.joined)
      /\ joined \cap admin = {}

\* What is posted while the adapter listens is eventually forwarded or given
\* up; nothing waits for ever in a buffer or behind a download.
WordsLeave == \A i \in 1 .. 6 : (i \in due) ~> (i \in Forwarded \cup lost)
=============================================================================
