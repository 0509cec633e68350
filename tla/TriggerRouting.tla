--------------------------- MODULE TriggerRouting ---------------------------
(***************************************************************************)
(* How the requests of the outside reach the sessions of one agent:        *)
(* TriggerRouter (a GenServer that serves one request at a time), the      *)
(* lookup of AgentSupervisor, the connector's retry, SystemCommand's       *)
(* restart and the operator's HTTP requests, over sessions that live as    *)
(* SessionLife says. Requests interleave with each other and with the life *)
(* of the sessions; a GenServer.call may time out with the request still   *)
(* in the callee's mailbox. find_session matches the agent's name first,   *)
(* so other agents' sessions are left out.                                 *)
(*                                                                         *)
(* A request starts at most one session, which is named after it.          *)
(***************************************************************************)
EXTENDS Naturals, Sequences, RiskLevels, SessionLife

CONSTANTS
    Request,   \* the requests made of the gateway, each once
    None,      \* no request, no session
    NoKey,     \* session_key is nil
    WorkLoads  \* what the requests may be about: functions from Request

\* What a request is: a connector's message, any other trigger (taint is that
\* of its type), a message of another agent (taint is its sender's), or one of
\* the requests that do not prompt through the router. Chat, and nothing else,
\* has a key.
Prompted == {"chat", "trigger", "peer"}
Asking == {"restart", "force_restart", "start"}
Direct == {"prompt", "stop"}
Kind == Prompted \cup Asking \cup Direct \cup {"reflection"}

ASSUME RoutingAssumption ==
    /\ None \notin Request
    /\ \A load \in WorkLoads : \A c \in Request :
          /\ load[c].kind \in Kind
          /\ load[c].taint \in Level
          /\ load[c].kind = "chat" <=> load[c].key # NoKey

VARIABLES
    work,        \* what each request is about; fixed
    registered,  \* TriggerRouter has a definition of the agent
    calls,       \* requests in TriggerRouter's mailbox
    serving,     \* the request whose prompt TriggerRouter is sending, or None
    life,        \* of each session, "unused" before its start
    taint,       \* state.taint_level of each session
    late,        \* prompts in the mailbox of a session whose sender timed out
    step,        \* where each request is
    target,      \* the session each request is dealing with
    result,      \* what each request was answered
    given,       \* history: the sessions that accepted each request's prompt
    skipped      \* history: a lookup passed over a session too slow to answer

vars == <<work, registered, calls, serving, life, taint, late, step, target,
          result, given, skipped>>

Step == {"new", "calling", "stuck", "again", "calling_again", "found",
         "asking", "waiting", "starting", "sending", "done"}
Result == {"none", "ok", "not_ready", "unknown_agent", "agent", "refused",
           "no_session", "failed"}
Session == Request

TypeOK ==
    /\ work \in WorkLoads
    /\ registered \in BOOLEAN
    /\ calls \in SUBSET Request
    /\ serving \in Request \cup {None}
    /\ serving # None => target[serving] \in Session
    /\ life \in [Session -> Life \cup {"unused"}]
    /\ taint \in [Session -> Level]
    /\ late \in SUBSET (Session \X Request)
    /\ step \in [Request -> Step]
    /\ target \in [Request -> Session \cup {None}]
    /\ result \in [Request -> Result]
    /\ given \in [Request -> Seq(Session)]
    /\ skipped \in BOOLEAN

\* The application has started and loaded the definitions.
Init ==
    /\ work \in WorkLoads
    /\ registered = TRUE
    /\ calls = {}
    /\ serving = None
    /\ life = [s \in Session |-> "unused"]
    /\ taint = [s \in Session |-> Low]
    /\ late = {}
    /\ step = [c \in Request |-> "new"]
    /\ target = [c \in Request |-> None]
    /\ result = [c \in Request |-> "none"]
    /\ given = [c \in Request |-> <<>>]
    /\ skipped = FALSE

-----------------------------------------------------------------------------
\* Sessions.

\* A session started by anything but a connector's message has no key.
Key(s) == work[s].key
Mode(s) == IF work[s].kind = "reflection" THEN "reflection" ELSE "normal"
IsRegistered(s) == life[s] \in Registered
IsOpen(s) == life[s] \in Accepting

\* Defect: any session of the agent will do.
CandidatesAny(key, answering) == answering

\* find_session/3 among the sessions that answered: the exact key first, then
\* one without a key; without a key in the request, any. The status is not
\* looked at, nor is the mode.
Candidates(key, answering) ==
    LET exact == {s \in answering : Key(s) = key}
    IN IF key # NoKey /\ exact # {} THEN exact
       ELSE {s \in answering : Key(s) = NoKey \/ key = NoKey}

\* A session that does not answer get_status in time is passed over; which of
\* several candidates is found is the supervisor's order.
Finds(key, found) ==
    \E answering \in SUBSET {s \in Session : IsRegistered(s)} :
        /\ skipped' = (skipped \/ \E s \in Session : IsRegistered(s) /\ s \notin answering)
        /\ \/ found \in Candidates(key, answering)
           \/ found = None /\ Candidates(key, answering) = {}

\* Defect: the type of the trigger is not handed to the session.
StartUntainted(c) ==
    /\ life' = [life EXCEPT ![c] = "starting"]
    /\ taint' = [taint EXCEPT ![c] = Low]

\* trigger_taint/1; the sender's own level is in the message's metadata.
TriggerTaint(c) == IF work[c].kind = "peer" THEN Medium ELSE work[c].taint

\* start_session/2: init/1 applies the taint of the trigger's type.
Start(c) ==
    /\ life' = [life EXCEPT ![c] = "starting"]
    /\ taint' = [taint EXCEPT ![c] = TriggerTaint(c)]

\* stop_session/3: terminate_child; nothing if the session has ended.
Terminate(s) == life' = [life EXCEPT ![s] = "gone"]

\* handle_call({:prompt, ...}) of an accepting session: only a message of
\* another agent carries a taint in its metadata.
Take(s, c) ==
    /\ given' = [given EXCEPT ![c] = Append(@, s)]
    /\ taint' = IF work[c].kind = "peer"
                THEN [taint EXCEPT ![s] = HigherLevel(@, work[c].taint)]
                ELSE taint

\* A session moves on by itself (AgentSession).
SessionMoves(s) ==
    /\ \E next \in Successors(Mode(s), life[s]) : life' = [life EXCEPT ![s] = next]
    /\ UNCHANGED <<work, registered, calls, serving, taint, late, step, target,
                   result, given, skipped>>

\* It gets to a prompt whose sender no longer waits.
TakesLate(s, c) ==
    /\ <<s, c>> \in late
    /\ IsRegistered(s)
    /\ late' = late \ {<<s, c>>}
    /\ \/ IsOpen(s) /\ Take(s, c)
       \/ ~IsOpen(s) /\ UNCHANGED <<given, taint>>
    /\ UNCHANGED <<work, registered, calls, serving, life, step, target, result,
                   skipped>>

-----------------------------------------------------------------------------
\* TriggerRouter.

Waiting(c) == step[c] \in {"calling", "calling_again"}

Becomes(c, next, answer) ==
    /\ step' = [step EXCEPT ![c] = next]
    /\ result' = [result EXCEPT ![c] = answer]

\* The reply, lost on a caller that gave up. dispatch_with_retry of the
\* connector goes on after a first not_ready, SystemCommand and POST start with
\* the definition.
Answer(c, answer) ==
    \/ /\ ~Waiting(c)
       /\ UNCHANGED <<step, result>>
    \/ /\ Waiting(c)
       /\ LET retries == step[c] = "calling" /\ work[c].kind = "chat"
          IN Becomes(c, IF answer = "not_ready" /\ retries THEN "stuck"
                        ELSE IF answer = "agent" THEN "found"
                        ELSE "done", answer)

RouterTakes(c) ==
    /\ serving = None
    /\ c \in calls
    /\ calls' = calls \ {c}
    /\ UNCHANGED <<work, registered, late, given>>

UnknownAgent(c) ==
    /\ RouterTakes(c)
    /\ ~registered
    /\ Answer(c, "unknown_agent")
    /\ UNCHANGED <<serving, life, taint, target, skipped>>

Serve(c, s) ==
    /\ serving' = c
    /\ target' = [target EXCEPT ![c] = s]
    /\ UNCHANGED <<step, result>>

\* Defect: the result of the start is not looked at.
DispatchUnchecked(c) ==
    /\ RouterTakes(c)
    /\ registered
    /\ work[c].kind \in Prompted
    /\ \E s \in Session \cup {None} :
          /\ Finds(work[c].key, s)
          /\ Serve(c, s)
          /\ UNCHANGED <<life, taint>>

\* ensure_session_and_prompt/5 up to the session: found, started, or refused
\* by its init (over the ceiling).
Dispatch(c) ==
    /\ RouterTakes(c)
    /\ registered
    /\ work[c].kind \in Prompted
    /\ \E s \in Session \cup {None} :
          /\ Finds(work[c].key, s)
          /\ \/ /\ s # None
                /\ Serve(c, s)
                /\ UNCHANGED <<life, taint>>
             \/ /\ s = None
                /\ Start(c)
                /\ Serve(c, c)
             \/ /\ s = None
                /\ Answer(c, "refused")
                /\ UNCHANGED <<serving, target, life, taint>>

\* dispatch_reflection: always a session of its own, and no prompt.
DispatchReflection(c) ==
    /\ RouterTakes(c)
    /\ registered
    /\ work[c].kind = "reflection"
    /\ \/ Start(c) /\ Answer(c, "ok")
       \/ Answer(c, "refused") /\ UNCHANGED <<life, taint>>
    /\ UNCHANGED <<serving, target, skipped>>

GetAgent(c) ==
    /\ RouterTakes(c)
    /\ registered
    /\ work[c].kind \in Asking
    /\ Answer(c, "agent")
    /\ UNCHANGED <<serving, life, taint, target, skipped>>

\* Defect: an existing session's refusal is reported as success.
RouterPromptsBlindly ==
    /\ serving # None
    /\ LET s == target[serving]
       IN \/ IsOpen(s) /\ Take(s, serving)
          \/ life[s] \in {"saving", "stopped"} /\ UNCHANGED <<given, taint>>
    /\ Answer(serving, "ok")
    /\ serving' = None
    /\ UNCHANGED <<work, registered, calls, life, late, target, skipped>>

\* send_prompt to the session found or started. The refusal of a session that
\* was just started is only logged.
RouterPrompts ==
    /\ serving # None
    /\ LET s == target[serving]
       IN \/ IsOpen(s) /\ Take(s, serving) /\ Answer(serving, "ok")
          \/ /\ life[s] \in {"saving", "stopped"}
             /\ Answer(serving, IF s = serving THEN "ok" ELSE "not_ready")
             /\ UNCHANGED <<given, taint>>
    /\ serving' = None
    /\ UNCHANGED <<work, registered, calls, life, late, target, skipped>>

\* send_prompt's call exits: the session has ended, or it does not answer in
\* time and keeps the prompt in its mailbox.
PromptExits(s, c) ==
    \/ life[s] = "gone" /\ UNCHANGED late
    \/ IsRegistered(s) /\ late' = late \cup {<<s, c>>}

\* Defect: the exit is caught and taken for a session that is not ready.
RouterExitsCaught ==
    /\ serving # None
    /\ PromptExits(target[serving], serving)
    /\ Answer(serving, "not_ready")
    /\ serving' = None
    /\ UNCHANGED <<work, registered, calls, life, taint, target, given, skipped>>

\* Nobody catches the exit. TriggerRouter ends with it and is restarted without
\* definitions; everyone who waits for it exits.
RouterExits ==
    /\ serving # None
    /\ PromptExits(target[serving], serving)
    /\ serving' = None
    /\ registered' = FALSE
    /\ calls' = {}
    /\ step' = [c \in Request |-> IF Waiting(c) THEN "done" ELSE step[c]]
    /\ result' = [c \in Request |-> IF Waiting(c) THEN "failed" ELSE result[c]]
    /\ UNCHANGED <<work, life, taint, target, given, skipped>>

\* load_agents, when a definition file changes or an operator saves one.
Reload ==
    /\ serving = None
    /\ ~registered
    /\ registered' = TRUE
    /\ UNCHANGED <<work, calls, serving, life, taint, late, step, target, result,
                   given, skipped>>

RouterStep ==
    \/ \E c \in Request :
          UnknownAgent(c) \/ Dispatch(c) \/ DispatchReflection(c) \/ GetAgent(c)
    \/ RouterPrompts
    \/ RouterExits

-----------------------------------------------------------------------------
\* The processes that make the requests.

\* GenServer.call to TriggerRouter, the first or the retried one.
Call(c) ==
    /\ \/ step[c] = "new" /\ work[c].kind \notin Direct /\ step' = [step EXCEPT ![c] = "calling"]
       \/ step[c] = "again" /\ step' = [step EXCEPT ![c] = "calling_again"]
    /\ calls' = calls \cup {c}
    /\ UNCHANGED <<work, registered, serving, life, taint, late, target, result,
                   given, skipped>>

\* The call times out; TriggerRouter serves it all the same.
GivesUp(c) ==
    /\ Waiting(c)
    /\ Becomes(c, "done", "failed")
    /\ UNCHANGED <<work, registered, calls, serving, life, taint, late, target,
                   given, skipped>>

\* A lookup without a key, then stop_session of what it found.
FindsAndStops(c, next, answer) ==
    /\ \E s \in Session \cup {None} :
          /\ Finds(NoKey, s)
          /\ IF s = None THEN UNCHANGED life ELSE Terminate(s)
    /\ Becomes(c, next, answer)
    /\ UNCHANGED <<work, registered, calls, serving, taint, late, target, given>>

\* dispatch_with_retry: "Stop it and try once more".
RetryStops(c) ==
    /\ step[c] = "stuck"
    /\ FindsAndStops(c, "again", result[c])

\* POST /agents/:name/stop.
OperatorStops(c) ==
    /\ step[c] = "new"
    /\ work[c].kind = "stop"
    /\ FindsAndStops(c, "done", "ok")

\* A forced restart looks for a session and terminates it.
ForceRestart(c) ==
    /\ step[c] = "found"
    /\ work[c].kind = "force_restart"
    /\ FindsAndStops(c, "starting", result[c])

\* A graceful restart looks for a session; without one it starts directly.
RestartLooks(c) ==
    /\ step[c] = "found"
    /\ work[c].kind = "restart"
    /\ \E s \in Session \cup {None} :
          /\ Finds(NoKey, s)
          /\ target' = [target EXCEPT ![c] = s]
          /\ step' = [step EXCEPT ![c] = IF s = None THEN "starting" ELSE "asking"]
    /\ UNCHANGED <<work, registered, calls, serving, life, taint, late, result,
                   given>>

\* AgentSession.stop: an open session saves, any other ends at once. The call
\* exits if the session has ended or is too slow, and takes the task with it.
RestartAsks(c) ==
    /\ step[c] = "asking"
    /\ LET s == target[c]
       IN \/ /\ life[s] = "open"
             /\ life' = [life EXCEPT ![s] = "saving"]
             /\ Becomes(c, "waiting", result[c])
          \/ /\ life[s] \in {"starting", "saving", "stopped"}
             /\ Terminate(s)
             /\ Becomes(c, "waiting", result[c])
          \/ /\ UNCHANGED life
             /\ Becomes(c, "done", "failed")
    /\ UNCHANGED <<work, registered, calls, serving, taint, late, target, given,
                   skipped>>

\* Defect: only the end of the session is waited for.
RestartWaitsForever(c) ==
    /\ step[c] = "waiting"
    /\ life[target[c]] = "gone"
    /\ Becomes(c, "starting", result[c])
    /\ UNCHANGED <<work, registered, calls, serving, life, taint, late, target,
                   given, skipped>>

\* The session is down, or 35 s have passed.
RestartWaits(c) ==
    /\ step[c] = "waiting"
    /\ Becomes(c, "starting", result[c])
    /\ UNCHANGED <<work, registered, calls, serving, life, taint, late, target,
                   given, skipped>>

\* start_session outside of TriggerRouter: nothing is looked up.
StartsSession(c) ==
    /\ \/ step[c] = "starting"
       \/ step[c] = "found" /\ work[c].kind = "start"
    /\ \/ Start(c) /\ Becomes(c, "done", "ok")
       \/ Becomes(c, "done", "refused") /\ UNCHANGED <<life, taint>>
    /\ UNCHANGED <<work, registered, calls, serving, late, target, given, skipped>>

\* POST /agents/:name/prompt looks for a session.
PromptLooks(c) ==
    /\ step[c] = "new"
    /\ work[c].kind = "prompt"
    /\ \E s \in Session \cup {None} :
          /\ Finds(NoKey, s)
          /\ target' = [target EXCEPT ![c] = s]
          /\ IF s = None
             THEN Becomes(c, "done", "no_session")
             ELSE Becomes(c, "sending", result[c])
    /\ UNCHANGED <<work, registered, calls, serving, life, taint, late, given>>

PromptSends(c) ==
    /\ step[c] = "sending"
    /\ LET s == target[c]
       IN \/ IsOpen(s) /\ Take(s, c) /\ Becomes(c, "done", "ok") /\ UNCHANGED late
          \/ /\ life[s] \in {"saving", "stopped"}
             /\ Becomes(c, "done", "not_ready")
             /\ UNCHANGED <<given, taint, late>>
          \/ PromptExits(s, c) /\ Becomes(c, "done", "failed") /\ UNCHANGED <<given, taint>>
    /\ UNCHANGED <<work, registered, calls, serving, life, target, skipped>>

RequestStep(c) ==
    \/ Call(c)
    \/ RetryStops(c)
    \/ OperatorStops(c)
    \/ ForceRestart(c)
    \/ RestartLooks(c)
    \/ RestartAsks(c)
    \/ RestartWaits(c)
    \/ StartsSession(c)
    \/ PromptLooks(c)
    \/ PromptSends(c)

Next ==
    \/ \E s \in Session : SessionMoves(s)
    \/ \E s \in Session, c \in Request : TakesLate(s, c)
    \/ RouterStep
    \/ Reload
    \/ \E c \in Request : RequestStep(c) \/ GivesUp(c)

\* The BEAM schedules TriggerRouter and the requesting processes, and every
\* call they make is answered or times out. Nothing is assumed of sessions.
Fairness ==
    /\ WF_vars(RouterStep)
    /\ \A c \in Request : WF_vars(step[c] # "new" /\ RequestStep(c))

Spec == Init /\ [][Next]_vars /\ Fairness
-----------------------------------------------------------------------------
\* A prompt is accepted once at most, although calls time out with the prompt
\* still in a mailbox, callers give up, and the connector tries again.
AtMostOnce == \A c \in Request : Len(given[c]) <= 1

\* Two sessions never answer for the same channel, unless a lookup passed over
\* one that was too slow: "rather than spawning a duplicate" (find_session/3).
OneSessionPerKey ==
    skipped \/ \A s, t \in Session :
        IsRegistered(s) /\ IsRegistered(t) /\ Key(s) = Key(t) /\ Key(s) # NoKey => s = t

\* A channel's messages never reach another channel's conversation, and the
\* channel has one: what keeps conversations apart.
KeysApart ==
    \A c \in Request : \A i \in DOMAIN given[c] :
        work[c].kind = "chat" => Key(given[c][i]) \in {NoKey, work[c].key}
ChannelsApart == OneSessionPerKey /\ KeysApart

\* The answer is true: a prompting request answered {:ok, pid} was accepted, or
\* a session was started for it; one answered with an error that the router or
\* the session returned is accepted by nobody, then or later.
AnswersHold ==
    \A c \in Request : work[c].kind \in Prompted \cup {"prompt"} =>
        /\ result[c] = "ok" => given[c] # <<>> \/ life[c] # "unused"
        /\ result[c] \notin {"none", "ok", "failed"} => given[c] = <<>>

\* A session started for a trigger has the taint of the trigger before it
\* accepts the payload, and keeps it.
StartedTainted ==
    \A c \in Request : \A i \in DOMAIN given[c] :
        given[c][i] = c => work[c].taint <= taint[c]

\* Every request is answered or fails, whatever becomes of sessions and router.
AllReturn == \A c \in Request : step[c] # "new" ~> step[c] = "done"
=============================================================================
