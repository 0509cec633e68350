---------------------------- MODULE SlackAdapter ----------------------------
(***************************************************************************)
(* connector/adapters/slack.py and connector/channel_bindings.py: a        *)
(* connector process with the Slack adapter alone.                         *)
(*                                                                         *)
(* Anyone in the workspace may write to the bot, and is heard only after   *)
(* having agreed to the terms; what the users said is kept in a YAML file. *)
(* Slack's events are acknowledged at once and handled by a task each, and *)
(* a task stops where it asks Slack for the display name of a user it has  *)
(* not seen. Beside that, the loader of channel bindings fetches the       *)
(* gateway's agents once and gives each of them a channel, found in a      *)
(* cache, created, or looked up. The process may die at any time; Slack,   *)
(* the two files and the gateway's definitions outlive it.                 *)
(*                                                                         *)
(* A forwarded message is one handed to gateway.send_message (whose link   *)
(* is in MatrixAdapter.tla and GatewayBridge.tla). Approval cards are in   *)
(* Approvals.tla; posts to Slack and the texts of messages are left out.   *)
(***************************************************************************)
EXTENDS Naturals, Sequences, FiniteSets, SequencesExt, TLC

CONSTANTS
    Users,       \* workspace members who write to the bot
    Owner,       \* owner_user_id
    Channels,    \* channel ids Slack may hand out
    Nothing,     \* no channel
    Scenarios    \* the instances to check: records, see ScenarioAssumption

Agree == "agree"
Revoke == "revoke"
Words == "words"
Command == "/command"     \* blocked before it reaches the gateway
Said == {Agree, Revoke, Words, Command}

\* The direct-message channel of a user, or a channel of the workspace.
Dm == "dm"
Post == [user : Users, what : Said, place : Channels \cup {Dm}]

\* bindings: what GET /agents/schema serves, in order; each has an explicit
\* channel or a repository. taken: names of channels that exist before the
\* first start, with their id, or Nothing for one the bot cannot see. script:
\* what the users write, in order. The rest are bounds: deaths of the process,
\* failures of Slack, the gateway or the disk, revisions of the terms.
Repo == [owner : STRING, name : STRING]

BindingsServed(s) ==
    /\ \A i \in DOMAIN s.bindings :
         /\ s.bindings[i].repo.owner \in STRING /\ s.bindings[i].repo.name \in STRING
         /\ s.bindings[i].channel \in Channels \cup {Nothing}
    /\ \A i, j \in DOMAIN s.bindings : s.bindings[i].agent = s.bindings[j].agent => i = j
    /\ Range(s.taken) \subseteq Channels \cup {Nothing}
Bounded(s) ==
    /\ s.script \in Seq(Post) /\ s.posts = Len(s.script)
    /\ {s.posts, s.deaths, s.faults, s.revisions} \subseteq Nat

ASSUME ScenarioAssumption ==
    /\ Owner \in Users
    /\ \A s \in Scenarios : BindingsServed(s) /\ Bounded(s)

VARIABLES
    scenario,
    \* Slack and the disk
    named,       \* channel names in use -> id, Nothing where the bot cannot see it
    consentFile, \* consent.yaml: user -> [status, version]
    terms,       \* consent_version in it
    cacheFile,   \* channels.yaml: channel name -> id
    \* the process
    phase,       \* "down", "starting", "up": authenticated, socket connected
    consent,     \* ConsentStore._data["users"]
    cache,       \* ChannelCache._data
    loading,     \* load_channel_bindings: "fetching", "binding", "done"
    todo,        \* bindings it has not come to
    made,        \* the channel just created and not yet in the cache, or Nothing
    rooms,       \* self._config.rooms: channel -> agent
    names,       \* _display_names
    events,      \* acknowledged, their tasks not yet run: [id, user, what, place]
    naming,      \* their tasks: the event, the agent of its channel, whether users.info is asked
    \* history variables
    forwarded,   \* [user, agent, verified, willing], for each message forwarded
    agreed,      \* user -> the terms last agreed to and not revoked, with a confirmation, since, 0 for none
    barred,      \* users told that their consent is revoked who have not agreed since
    unbound,     \* agents given up for a reason the code has
    bound,       \* <<agent, channel>> of every binding ever made
    spent        \* [posts, deaths, faults, revisions] so far

diskVars == <<named, consentFile, terms, cacheFile>>
bindVars == <<loading, todo, made, rooms>>
taskVars == <<names, events, naming>>
dmGhosts == <<forwarded, agreed, barred>>
bindGhosts == <<unbound, bound>>
vars == <<scenario, diskVars, phase, consent, cache, bindVars, taskVars, dmGhosts, bindGhosts, spent>>

NoConsent == [status |-> "none", version |-> 0]
None == <<>>

Spend(what) ==
    /\ spent[what] < scenario[what]
    /\ spent' = [spent EXCEPT ![what] = @ + 1]
----------------------------------------------------------------------------
(* Names of channels.                                                      *)

\* channel_name_for_repo and the candidates of _unique_name: bare, then with
\* the owner, then numbered. Sanitizing and the limit on the length are left
\* out: two names are equal if they are made of the same parts.
Candidate(repo, n) ==
    CASE n = 0 -> <<repo.name>>
      [] n = 1 -> <<repo.owner, repo.name>>
      [] OTHER -> <<repo.owner, repo.name, n>>
MaxCandidate == 51

\* Defect: the bare name, taken or not.
UniqueNameBare(repo, taken) == Candidate(repo, 0)
UniqueName(repo, taken) ==
    Candidate(repo, CHOOSE n \in 0 .. MaxCandidate :
                      /\ Candidate(repo, n) \notin taken
                      /\ \A k \in 0 .. n - 1 : Candidate(repo, k) \in taken)

\* _resolve_names, over the bindings without an explicit channel.
\* Defect: the names of channels that the cache knows count as taken.
ResolveNamesAfresh(bindings) ==
    FoldLeft(LAMBDA desired, b :
               IF b.channel # Nothing THEN desired
               ELSE (b.agent :> UniqueName(b.repo, Range(desired) \cup DOMAIN cache)) @@ desired,
             None, bindings)
ResolveNames(bindings) ==
    FoldLeft(LAMBDA desired, b : IF b.channel # Nothing THEN desired
                                 ELSE (b.agent :> UniqueName(b.repo, Range(desired))) @@ desired,
             None, bindings)
----------------------------------------------------------------------------
(* The process.                                                            *)

Fresh ==
    /\ loading' = "fetching" /\ todo' = <<>> /\ made' = Nothing /\ rooms' = None
    /\ names' = {} /\ events' = <<>> /\ naming' = {}

Init ==
    /\ scenario \in Scenarios
    /\ named = scenario.taken
    /\ consentFile = [u \in Users |-> NoConsent]
    /\ terms = 1
    /\ cacheFile = None
    /\ phase = "down"
    /\ consent = consentFile /\ cache = None
    /\ loading = "fetching" /\ todo = <<>> /\ made = Nothing /\ rooms = None
    /\ names = {} /\ events = <<>> /\ naming = {}
    /\ forwarded = <<>> /\ agreed = [u \in Users |-> 0] /\ barred = {}
    /\ unbound = {} /\ bound = {}
    /\ spent = [posts |-> 0, deaths |-> 0, faults |-> 0, revisions |-> 0]

\* The constructor reads both files.
Start ==
    /\ phase = "down"
    /\ phase' = "starting"
    /\ consent' = consentFile
    /\ cache' = cacheFile
    /\ UNCHANGED <<scenario, diskVars, bindVars, taskVars, dmGhosts, bindGhosts, spent>>

\* start: auth_test, then the socket.
Connect ==
    /\ phase = "starting"
    /\ phase' = "up"
    /\ UNCHANGED <<scenario, diskVars, consent, cache, bindVars, taskVars, dmGhosts, bindGhosts, spent>>

Die ==
    /\ phase # "down"
    /\ Spend("deaths")
    /\ phase' = "down"
    /\ Fresh
    /\ unbound' = {}
    /\ UNCHANGED <<scenario, diskVars, consent, cache, dmGhosts, bound>>

\* The operator revises the terms in consent.yaml, with the connector stopped.
ReviseTerms ==
    /\ phase = "down"
    /\ Spend("revisions")
    /\ terms' = terms + 1
    /\ UNCHANGED <<scenario, named, consentFile, cacheFile, phase, consent, cache, bindVars, taskVars,
                   dmGhosts, bindGhosts>>
----------------------------------------------------------------------------
(* load_channel_bindings.                                                  *)

loaderRest == <<scenario, consentFile, terms, phase, consent, taskVars, dmGhosts>>

Fetched ==
    /\ phase # "down" /\ loading = "fetching"
    /\ loading' = IF scenario.bindings = <<>> THEN "done" ELSE "binding"
    /\ todo' = scenario.bindings
    /\ UNCHANGED <<named, cacheFile, cache, made, rooms, bindGhosts, spent, loaderRest>>

\* Six attempts failed: no agent gets a channel until the next start.
FetchFails ==
    /\ phase # "down" /\ loading = "fetching"
    /\ Spend("faults")
    /\ loading' = "done"
    /\ unbound' = {scenario.bindings[i].agent : i \in DOMAIN scenario.bindings}
    /\ UNCHANGED <<named, cacheFile, cache, todo, made, rooms, bound, loaderRest>>

Binding == loading = "binding" /\ todo # <<>> /\ phase # "down"
Current == Head(todo)
Desired == ResolveNames(scenario.bindings)[Current.agent]

\* ensure_channel waits for Slack; an explicit channel does not.
Ensuring == Binding /\ Current.channel = Nothing /\ phase = "up"

Explicit == {scenario.bindings[i].channel : i \in DOMAIN scenario.bindings}

NextBinding ==
    /\ todo' = Tail(todo)
    /\ loading' = IF todo' = <<>> THEN "done" ELSE "binding"
    /\ made' = Nothing

\* The end of an iteration: a channel that is configured already keeps its
\* agent, and the binding is skipped.
Bind(channel) ==
    /\ NextBinding
    /\ IF channel \in DOMAIN rooms
       THEN /\ unbound' = IF channel \in Explicit THEN unbound \cup {Current.agent} ELSE unbound
            /\ UNCHANGED <<rooms, bound>>
       ELSE /\ rooms' = (channel :> Current.agent) @@ rooms
            /\ bound' = bound \cup {<<Current.agent, channel>>}
            /\ UNCHANGED unbound

BindExplicit ==
    /\ Binding /\ Current.channel # Nothing
    /\ Bind(Current.channel)
    /\ UNCHANGED <<named, cacheFile, cache, spent, loaderRest>>

BindCached ==
    /\ Ensuring /\ made = Nothing /\ Desired \in DOMAIN cache
    /\ Bind(cache[Desired])
    /\ UNCHANGED <<named, cacheFile, cache, spent, loaderRest>>

\* _create_channel. The owner is invited before the id is remembered.
CreateChannel ==
    /\ Ensuring /\ made = Nothing /\ Desired \notin DOMAIN cache \cup DOMAIN named
    /\ \E channel \in Channels \ (Range(named) \cup Explicit) :
         /\ named' = (Desired :> channel) @@ named
         /\ made' = channel
    /\ UNCHANGED <<cacheFile, cache, loading, todo, rooms, bindGhosts, spent, loaderRest>>

Remember(channel) ==
    /\ cache' = (Desired :> channel) @@ cache
    /\ cacheFile' = cache'
    /\ Bind(channel)
    /\ UNCHANGED <<named, spent, loaderRest>>

RememberMade == Ensuring /\ made # Nothing /\ Remember(made)

\* name_taken: the channel is looked for, and joined if need be.
Listed == IF Desired \in DOMAIN named THEN named[Desired] ELSE Nothing
BindTaken ==
    /\ Ensuring /\ made = Nothing /\ Desired \notin DOMAIN cache /\ Desired \in DOMAIN named
    /\ Listed # Nothing
    /\ Remember(Listed)

\* A request to Slack fails, its wait or its rate limit runs out, the file
\* cannot be written; or the name belongs to a channel the bot cannot see. The
\* agent goes without a channel until the next start.
EnsureFails ==
    /\ Binding /\ Current.channel = Nothing
    /\ \/ Spend("faults")
       \/ phase = "up" /\ made = Nothing /\ Desired \notin DOMAIN cache
          /\ Desired \in DOMAIN named /\ Listed = Nothing /\ UNCHANGED spent
    /\ unbound' = unbound \cup {Current.agent}
    /\ NextBinding
    /\ UNCHANGED <<named, cacheFile, cache, rooms, bound, loaderRest>>
----------------------------------------------------------------------------
(* Slack's events.                                                         *)

bindRest == <<scenario, named, terms, cacheFile, phase, cache, bindVars, bindGhosts>>

InFlight(user, what) ==
    \/ \E i \in DOMAIN events : events[i].user = user /\ events[i].what = what
    \/ \E t \in naming : t.user = user /\ t.what = what

\* A user writes, and the event is acknowledged. One who agrees may expect to
\* be heard again.
Write ==
    /\ phase = "up"
    /\ Spend("posts")
    /\ LET post == scenario.script[spent'.posts]
       IN /\ events' = Append(events, [id |-> spent'.posts, user |-> post.user,
                                       what |-> post.what, place |-> post.place])
          /\ barred' = IF post.what = Agree THEN barred \ {post.user} ELSE barred
    /\ UNCHANGED <<consentFile, consent, names, naming, forwarded, agreed, bindRest>>

\* _handle_message up to the display name: the agent of a channel is looked up
\* before it, and a channel that is not bound (yet) is ignored.
Ignored(e) == e.place # Dm /\ e.place \notin DOMAIN rooms
AgentOf(e) == IF e.place = Dm THEN "concierge" ELSE rooms[e.place]

Handle ==
    /\ events # <<>>
    /\ events' = Tail(events)
    /\ LET e == Head(events)
       IN naming' = IF Ignored(e) THEN naming
                    ELSE naming \cup {[id |-> e.id, user |-> e.user, what |-> e.what, place |-> e.place,
                                       agent |-> AgentOf(e), asks |-> e.user \notin names]}
    /\ UNCHANGED <<consentFile, consent, names, dmGhosts, spent, bindRest>>

\* ConsentStore._save, which may fail: memory has changed all the same.
\* Saved(TRUE) is followed by the confirmation to the user.
Saved(ok) ==
    \/ ok /\ consentFile' = consent' /\ UNCHANGED spent
    \/ ~ok /\ Spend("faults") /\ UNCHANGED consentFile

\* record_consent
Agrees(e) ==
    /\ e.user # Owner /\ e.place = Dm /\ e.what = Agree
    /\ consent' = [consent EXCEPT ![e.user] = [status |-> "active", version |-> terms]]
    /\ agreed' = [agreed EXCEPT ![e.user] = terms]
    /\ \E ok \in BOOLEAN : Saved(ok)
    /\ UNCHANGED <<forwarded, barred>>

\* revoke_consent. An agreement sent in the meantime is not overruled.
\* Defect: what is revoked is not saved.
RevokesUnsaved(e) ==
    /\ e.place = Dm /\ e.what = Revoke /\ consent[e.user].status = "active"
    /\ consent' = [consent EXCEPT ![e.user].status = "revoked"]
    /\ agreed' = [agreed EXCEPT ![e.user] = 0]
    /\ barred' = IF InFlight(e.user, Agree) THEN barred ELSE barred \cup {e.user}
    /\ UNCHANGED <<consentFile, spent, forwarded>>
Revokes(e) ==
    /\ e.place = Dm /\ e.what = Revoke /\ consent[e.user].status = "active"
    /\ consent' = [consent EXCEPT ![e.user].status = "revoked"]
    /\ \E ok \in BOOLEAN :
         /\ Saved(ok)
         /\ agreed' = IF ok THEN [agreed EXCEPT ![e.user] = 0] ELSE agreed
         /\ barred' = IF ok /\ ~InFlight(e.user, Agree) THEN barred \cup {e.user} ELSE barred
    /\ UNCHANGED forwarded

\* has_valid_consent (needs_reconsent only picks the text of the refusal).
Consented(u) == consent[u].status = "active" /\ consent[u].version = terms

\* A message to an agent: of the owner, of a user who has consented, or in a
\* bound channel, where everyone is trusted and the commands are words.
Admitted(e) == e.place # Dm \/ (e.what = Words /\ (e.user = Owner \/ Consented(e.user)))
Willing(u) == agreed[u] = terms /\ u \notin barred

Forward(e) ==
    /\ Admitted(e)
    /\ forwarded' = Append(forwarded,
         [agent |-> e.agent, verified |-> e.place # Dm \/ e.user = Owner,
          willing |-> e.place # Dm \/ e.user = Owner \/ Willing(e.user)])
    /\ UNCHANGED <<consentFile, consent, agreed, barred, spent>>

\* Everything else is answered in the conversation, or with nothing.
Dismiss(e) ==
    /\ ~Admitted(e)
    /\ ~(e.what = Agree /\ e.user # Owner)
    /\ ~(e.what = Revoke /\ consent[e.user].status = "active")
    /\ UNCHANGED <<consentFile, consent, dmGhosts, spent>>

\* The display name is known, or users.info has answered, with or without one:
\* the task runs to its end. Tasks that need not ask keep the order of events.
InTurn(t) == t.asks \/ \A o \in naming : o.asks \/ o.id >= t.id

Finish ==
    /\ \E t \in naming :
         /\ InTurn(t)
         /\ naming' = naming \ {t}
         /\ \E seen \in {names, names \cup {t.user}} : names' = seen
         /\ Agrees(t) \/ Revokes(t) \/ Forward(t) \/ Dismiss(t)
    /\ UNCHANGED <<events, bindRest>>

Next ==
    \/ Start \/ Connect \/ Die \/ ReviseTerms
    \/ Fetched \/ FetchFails \/ BindExplicit \/ BindCached \/ CreateChannel \/ RememberMade
    \/ BindTaken \/ EnsureFails
    \/ Write \/ Handle \/ Finish

\* The loader's requests and the lookups of names are answered.
Fairness ==
    /\ WF_vars(Start) /\ WF_vars(Connect) /\ WF_vars(Fetched)
    /\ WF_vars(BindExplicit \/ BindCached \/ CreateChannel \/ RememberMade \/ BindTaken \/ EnsureFails)
    /\ WF_vars(Handle) /\ WF_vars(Finish)

Spec == Init /\ [][Next]_vars /\ Fairness
----------------------------------------------------------------------------
(* Properties.                                                             *)

\* No direct message of a user reaches an agent unless the user has agreed to
\* the terms as they are and, if told that the consent is revoked, has agreed
\* again since: not by tasks that overtake each other at the lookup of a name,
\* nor by a restart that reads the file back. (A revocation whose save failed
\* is not confirmed to the user, and a restart undoes it.)
OnlyTheWilling == \A i \in DOMAIN forwarded : forwarded[i].willing

\* An agent keeps its channel and shares it with no other, through deaths of
\* the connector at any point of its start and with repositories of one name:
\* "Two agents must never share a channel" (channel_bindings.py).
AgentKeepsChannel ==
    \A a, b \in bound : (a[1] = b[1]) <=> (a[2] = b[2])

\* Every agent that the gateway binds gets a channel, unless Slack, the
\* gateway or the disk failed, or its channel is configured for another.
EveryAgentBound ==
    \A i \in 1 .. 3 :
      (phase = "starting" /\ i \in DOMAIN scenario.bindings) ~>
        \/ phase = "down" \/ i > Len(scenario.bindings)
        \/ scenario.bindings[i].agent \in unbound \cup Range(rooms)
=============================================================================
