------------------------ MODULE TriggerRoutingProofs ------------------------
(***************************************************************************)
(* Theorems about TriggerRouting, for every set of requests and whatever   *)
(* they are about: however they, the sessions, lost callers and crashes of *)
(* the router interleave.                                                  *)
(***************************************************************************)
EXTENDS TriggerRouting, TLAPS

-----------------------------------------------------------------------------
\* Where the prompt of a request can be: still with who makes the request, at
\* the router, in the mailbox of a session nobody waits for, or accepted; in
\* one of them only.

Prompting == Prompted \cup {"prompt"}

\* No session has it.
Untaken(c) == given[c] = <<>> /\ \A s \in Session : <<s, c>> \notin late

AtRouter(c) == c \in calls \/ serving = c

\* The session was found for the request, or started for it.
MayTake(s, c) ==
    /\ s \in Session
    /\ life[s] # "unused"
    /\ work[c].kind = "chat" => Key(s) \in {NoKey, work[c].key}

\* Where the request itself is.
Asks(c) ==
    /\ step[c] # "done" => Untaken(c)
    /\ step[c] \notin {"done", "calling", "calling_again"} => ~AtRouter(c) /\ life[c] = "unused"
    /\ step[c] = "calling" => work[c].kind \notin Direct
    /\ step[c] \in {"stuck", "again", "calling_again"} => work[c].kind = "chat"
    /\ step[c] \in {"found", "asking", "waiting", "starting"} => work[c].kind \in Asking
    /\ step[c] = "sending" => work[c].kind = "prompt" /\ MayTake(target[c], c)
    /\ step[c] = "done" /\ AtRouter(c) => result[c] = "failed"

IsCalled(c) ==
    c \in calls => /\ serving # c /\ Untaken(c) /\ life[c] = "unused"
                   /\ work[c].kind \notin Direct
                   /\ step[c] \in {"calling", "calling_again", "done"}

IsServed(c) ==
    serving = c => /\ Untaken(c)
                   /\ work[c].kind \in Prompted
                   /\ step[c] \in {"calling", "calling_again", "done"}
                   /\ life[c] = "unused" \/ target[c] = c
                   /\ MayTake(target[c], c)

IsLate(c) ==
    \A s \in Session : <<s, c>> \in late =>
        /\ given[c] = <<>> /\ ~AtRouter(c)
        /\ step[c] = "done" /\ result[c] = "failed"
        /\ work[c].kind \in Prompting
        /\ MayTake(s, c)
        /\ \A t \in Session : <<t, c>> \in late => t = s

IsGiven(c) ==
    given[c] # <<>> =>
        /\ \A s \in Session : <<s, c>> \notin late
        /\ ~AtRouter(c)
        /\ step[c] = "done" /\ result[c] \in {"ok", "failed"}
        /\ work[c].kind \in Prompting
        /\ \E s \in Session : given[c] = <<s>> /\ MayTake(s, c)

IsAnswered(c) ==
    result[c] = "ok" /\ work[c].kind \in Prompting => given[c] # <<>> \/ life[c] # "unused"

\* The session of a request has the taint of its trigger; a message of another
\* agent brings its own when it is taken.
IsTainted(c) ==
    /\ life[c] # "unused" => work[c].kind \notin Direct
    /\ life[c] # "unused" /\ work[c].kind \in {"chat", "trigger"} => work[c].taint <= taint[c]
    /\ given[c] = <<c>> => work[c].taint <= taint[c]

Sound(c) ==
    /\ Asks(c) /\ IsCalled(c) /\ IsServed(c) /\ IsLate(c) /\ IsGiven(c) /\ IsAnswered(c)
    /\ IsTainted(c)

RInv ==
    /\ TypeOK
    /\ \A c \in Request : Sound(c)
    /\ OneSessionPerKey

-----------------------------------------------------------------------------
\* What the actions are built from.

LEMMA WorkIs ==
    ASSUME TypeOK, NEW c \in Request
    PROVE  /\ work[c].kind \in Kind /\ work[c].taint \in Level
           /\ work[c].kind = "chat" <=> work[c].key # NoKey
  BY RoutingAssumption DEF TypeOK

LEMMA Kinds ==
    /\ Asking \cap Direct = {} /\ Asking \cap Prompting = {} /\ Prompted \cap Direct = {}
    /\ "prompt" \in Direct /\ "chat" \in Prompted /\ "reflection" \notin Prompting \cup Asking \cup Direct
    /\ "stop" \notin Prompting /\ "stop" \in Direct
  BY DEF Asking, Direct, Prompted, Prompting

\* A life that goes on neither begins nor begins again.
LEMMA SuccessorIs ==
    ASSUME NEW mode, NEW l, NEW next \in Successors(mode, l)
    PROVE  l \in Registered /\ next \in Life
  BY DEF Successors, Orphaned, Registered, Life

LEMMA RegisteredIs ==
    ASSUME NEW s, IsRegistered(s)
    PROVE  life[s] # "unused" /\ life[s] \in Life
  BY DEF IsRegistered, Registered, Life

LEMMA FindsFits ==
    ASSUME TypeOK, NEW key, NEW s \in Session \cup {None}, Finds(key, s)
    PROVE  /\ skipped' \in BOOLEAN /\ (skipped => skipped')
           /\ s # None => /\ s \in Session /\ IsRegistered(s)
                          /\ key # NoKey => Key(s) \in {NoKey, key}
           /\ s = None /\ ~skipped' /\ key # NoKey =>
                 \A t \in Session : IsRegistered(t) => Key(t) # key
<1>1. PICK answering \in SUBSET {t \in Session : IsRegistered(t)} :
         /\ skipped' = (skipped \/ \E t \in Session : IsRegistered(t) /\ t \notin answering)
         /\ \/ s \in Candidates(key, answering)
            \/ s = None /\ Candidates(key, answering) = {}
  BY DEF Finds
<1>2. None \notin Session
  BY RoutingAssumption DEF Session
<1>3. Candidates(key, answering) \subseteq answering
  BY DEF Candidates
<1>4. ASSUME s # None
      PROVE  s \in Candidates(key, answering)
  BY <1>1, <1>4
<1>5. s # None /\ key # NoKey => Key(s) \in {NoKey, key}
  BY <1>4 DEF Candidates
<1>6. ASSUME s = None, ~skipped', key # NoKey, NEW t \in Session, IsRegistered(t)
      PROVE  Key(t) # key
  <2>1. t \in answering /\ Candidates(key, answering) = {}
    BY <1>1, <1>2, <1>3, <1>6
  <2>2. QED
    BY <1>6, <2>1 DEF Candidates
<1>7. QED
  BY <1>1, <1>2, <1>3, <1>4, <1>5, <1>6 DEF TypeOK

\* A request that a step does not deal with stays sound.
SameFor(d) ==
    /\ step'[d] = step[d] /\ result'[d] = result[d]
    /\ target'[d] = target[d] /\ given'[d] = given[d]
    /\ \A s \in Session : <<s, d>> \in late' <=> <<s, d>> \in late
    /\ d \in calls' <=> d \in calls
    /\ serving' = d <=> serving = d

\* Lives that were not unused are not.
Lived == \A s \in Session : life[s] # "unused" => life'[s] # "unused"

LEMMA StaysSound ==
    ASSUME NEW d \in Request, Sound(d), work' = work, SameFor(d), Lived,
           life'[d] = "unused" <=> life[d] = "unused",
           work[d].taint <= taint[d] => work[d].taint <= taint'[d]
    PROVE  Sound(d)'
<1>1. \A s : MayTake(s, d) => MayTake(s, d)'
  BY DEF MayTake, Lived, Key
<1>2. AtRouter(d)' <=> AtRouter(d)
  BY DEF AtRouter, SameFor
<1>3. Untaken(d)' <=> Untaken(d)
  BY DEF Untaken, SameFor
<1>4. Asks(d)'
  BY <1>1, <1>2, <1>3 DEF Sound, Asks, SameFor
<1>5. IsCalled(d)' /\ IsServed(d)'
  BY <1>1, <1>3 DEF Sound, IsCalled, IsServed, SameFor
<1>6. IsLate(d)'
  BY <1>1, <1>2 DEF Sound, IsLate, SameFor
<1>7. IsGiven(d)'
  BY <1>1, <1>2 DEF Sound, IsGiven, SameFor
<1>8. IsAnswered(d)' /\ IsTainted(d)'
  BY DEF Sound, IsAnswered, IsTainted, SameFor
<1>9. QED
  BY <1>4, <1>5, <1>6, <1>7, <1>8 DEF Sound

LEMMA KeysStay ==
    ASSUME OneSessionPerKey, work' = work, skipped => skipped',
           \A s \in Session : IsRegistered(s)' => IsRegistered(s)
    PROVE  OneSessionPerKey'
  BY DEF OneSessionPerKey, Key

\* What the step of one request has to show.
LEMMA OneSteps ==
    ASSUME RInv, NEW c \in Request, TypeOK', work' = work, skipped => skipped',
           \A d \in Request \ {c} : SameFor(d),
           \A s \in Session : life'[s] = life[s] \/ (life[s] # "unused" /\ life'[s] \in Life),
           \A s \in Session : IsRegistered(s)' => IsRegistered(s),
           taint' = taint, Sound(c)'
    PROVE  RInv'
<1>1. Lived /\ \A d \in Session : life'[d] = "unused" <=> life[d] = "unused"
  BY DEF Lived, Life
<1>2. \A d \in Request \ {c} : Sound(d)'
  BY <1>1, StaysSound DEF RInv, Session
<1>3. OneSessionPerKey'
  BY KeysStay DEF RInv
<1>4. QED
  BY <1>2, <1>3 DEF RInv

LEMMA InitSound == Init => RInv
<1> SUFFICES ASSUME Init PROVE RInv
  OBVIOUS
<1>1. TypeOK
  <2>1. given \in [Request -> Seq(Session)]
    BY DEF Init
  <2>2. life \in [Session -> Life \cup {"unused"}] /\ taint \in [Session -> Level]
    BY DEF Init, Level
  <2>3. step \in [Request -> Step] /\ result \in [Request -> Result]
    BY DEF Init, Step, Result
  <2>4. QED
    BY <2>1, <2>2, <2>3 DEF Init, TypeOK
<1>2. OneSessionPerKey
  BY DEF Init, OneSessionPerKey, IsRegistered, Registered, Life
<1>3. ASSUME NEW c \in Request
      PROVE  Sound(c)
  BY <1>3, RoutingAssumption DEF Init, Sound, Asks, IsCalled, IsServed, IsLate, IsGiven, IsAnswered, IsTainted,
     AtRouter, Untaken, Session, Step
<1>4. QED
  BY <1>1, <1>2, <1>3 DEF RInv

-----------------------------------------------------------------------------
\* Sessions.

LEMMA SessionMovesSound ==
    ASSUME RInv, NEW s \in Session, SessionMoves(s)
    PROVE  RInv'
<1>1. PICK next \in Successors(Mode(s), life[s]) : life' = [life EXCEPT ![s] = next]
  BY DEF SessionMoves
<1>2. life[s] \in Registered /\ next \in Life
  BY <1>1, SuccessorIs
<1>3. TypeOK'
  BY <1>1, <1>2 DEF SessionMoves, RInv, TypeOK
<1>4. /\ work' = work /\ taint' = taint /\ skipped' = skipped
      /\ \A d \in Request : SameFor(d)
  BY DEF SessionMoves, SameFor
<1>5. \A t \in Session : life'[t] = life[t] \/ (life[t] # "unused" /\ life'[t] \in Life)
  BY <1>1, <1>2 DEF RInv, TypeOK, Registered, Life
<1>6. \A t \in Session : IsRegistered(t)' => IsRegistered(t)
  BY <1>1, <1>2 DEF RInv, TypeOK, IsRegistered
<1>7. Lived /\ (life'[s] = "unused" <=> life[s] = "unused")
  BY <1>5 DEF Lived, Life
<1>8. Sound(s)'
  BY <1>4, <1>7, StaysSound DEF RInv, Session
<1>9. QED
  BY <1>3, <1>4, <1>5, <1>6, <1>8, OneSteps DEF Session

\* A session takes a prompt that nobody else has.
LEMMA TakeSound ==
    ASSUME RInv, NEW s \in Session, NEW c \in Request, Take(s, c), MayTake(s, c),
           work[c].kind \in Prompting, given[c] = <<>>,
           UNCHANGED <<work, life>>, skipped' = skipped,
           \A d \in Request \ {c} : SameFor(d),
           \A t \in Session : <<t, c>> \notin late',
           ~AtRouter(c)', step'[c] = "done", result'[c] \in {"ok", "failed"},
           TypeOK'
    PROVE  RInv'
<1>1. given'[c] = <<s>>
  BY DEF Take, RInv, TypeOK
<1>2. work[c].taint \in Level /\ \A t \in Session : taint[t] \in Level
  BY WorkIs DEF RInv, TypeOK
<1>3. \A t \in Session : taint'[t] = taint[t] \/ (t = s /\ taint'[t] = HigherLevel(taint[t], work[c].taint))
  BY DEF Take, RInv, TypeOK
<1>4. ASSUME NEW t \in Session, NEW l \in Level, l <= taint[t]
      PROVE  l <= taint'[t]
  BY <1>2, <1>3, <1>4 DEF HigherLevel, Level, Low, Medium, High
<1>5. \A d \in Request \ {c} : Sound(d)'
  <2>1. TAKE d \in Request \ {c}
  <2>2. work[d].taint \in Level
    BY WorkIs DEF RInv
  <2>3. work[d].taint <= taint[d] => work[d].taint <= taint'[d]
    BY <1>4, <2>2 DEF Session
  <2>4. QED
    BY <2>3, StaysSound DEF RInv, Lived
<1>6. Sound(c)'
  <2>1. MayTake(s, c)'
    BY DEF MayTake, Key
  <2>2. Asks(c)' /\ IsCalled(c)' /\ IsServed(c)' /\ IsLate(c)' /\ IsAnswered(c)'
    BY <1>1, <2>1 DEF Asks, IsCalled, IsServed, IsLate, IsAnswered, AtRouter
  <2>3. IsGiven(c)'
    BY <1>1, <2>1 DEF IsGiven
  <2>4. IsTainted(c)'
    <3>1. life'[c] # "unused" => work[c].kind \notin Direct
      BY DEF RInv, Sound, IsTainted
    <3>2. work[c].kind \in {"chat", "trigger"} /\ life'[c] # "unused" => work[c].taint <= taint'[c]
      BY <1>2, <1>4 DEF RInv, Sound, IsTainted, Session
    <3>3. ASSUME s = c
          PROVE  work[c].taint <= taint'[c]
      <4>1. work[c].kind \in {"chat", "trigger", "peer"}
        BY <3>1, <3>3 DEF MayTake, Prompting, Prompted, Direct
      <4>2. CASE work[c].kind = "peer"
        <5>1. taint'[c] = HigherLevel(taint[c], work[c].taint)
          BY <3>3, <4>2 DEF Take, RInv, TypeOK, Session
        <5>2. QED
          BY <1>2, <5>1 DEF HigherLevel, Level, Low, Medium, High, Session
      <4>3. QED
        BY <3>2, <3>3, <4>1, <4>2 DEF MayTake
    <3>4. QED
      BY <1>1, <3>1, <3>2, <3>3 DEF IsTainted
  <2>5. QED
    BY <2>2, <2>3, <2>4 DEF Sound
<1>7. OneSessionPerKey'
  BY KeysStay DEF RInv, IsRegistered
<1>8. QED
  BY <1>5, <1>6, <1>7 DEF RInv

LEMMA TakeTypes ==
    ASSUME TypeOK, NEW s \in Session, NEW c \in Request, Take(s, c)
    PROVE  given' \in [Request -> Seq(Session)] /\ taint' \in [Session -> Level]
<1>1. given' \in [Request -> Seq(Session)]
  BY DEF Take, TypeOK
<1>2. HigherLevel(taint[s], work[c].taint) \in Level
  BY WorkIs DEF TypeOK, HigherLevel
<1>3. taint' \in [Session -> Level]
  BY <1>2 DEF Take, TypeOK
<1>4. QED
  BY <1>1, <1>3

LEMMA TakesLateSound ==
    ASSUME RInv, NEW s \in Session, NEW c \in Request, TakesLate(s, c)
    PROVE  RInv'
<1>1. /\ <<s, c>> \in late /\ late' = late \ {<<s, c>>}
      /\ UNCHANGED <<work, registered, calls, serving, life, step, target, result, skipped>>
  BY DEF TakesLate
<1>2. /\ given[c] = <<>> /\ ~AtRouter(c) /\ step[c] = "done" /\ result[c] = "failed"
      /\ work[c].kind \in Prompting /\ MayTake(s, c)
      /\ \A t \in Session : <<t, c>> \in late => t = s
  BY <1>1 DEF RInv, Sound, IsLate
<1>3. \A d \in Request \ {c} : \A t \in Session : <<t, d>> \in late' <=> <<t, d>> \in late
  BY <1>1
<1>4. \A t \in Session : <<t, c>> \notin late'
  BY <1>1, <1>2
<1>5. CASE Take(s, c)
  <2>1. TypeOK'
    BY <1>1, <1>5, TakeTypes DEF RInv, TypeOK
  <2>2. \A d \in Request \ {c} : SameFor(d)
    BY <1>1, <1>3, <1>5 DEF SameFor, Take, RInv, TypeOK
  <2>3. ~AtRouter(c)'
    BY <1>1, <1>2 DEF AtRouter
  <2>4. QED
    BY <1>1, <1>2, <1>4, <1>5, <2>1, <2>2, <2>3, TakeSound
<1>6. CASE UNCHANGED <<given, taint>>
  <2>1. TypeOK'
    BY <1>1, <1>6 DEF RInv, TypeOK
  <2>2. \A d \in Request \ {c} : SameFor(d)
    BY <1>1, <1>3, <1>6 DEF SameFor
  <2>3. Sound(c)'
    <3>1. ~AtRouter(c)' /\ Untaken(c)' /\ step'[c] = "done" /\ result'[c] = "failed"
      BY <1>1, <1>2, <1>4, <1>6 DEF AtRouter, Untaken
    <3>2. IsTainted(c)'
      BY <1>1, <1>6 DEF RInv, Sound, IsTainted
    <3>3. QED
      BY <3>1, <3>2 DEF Sound, Asks, IsCalled, IsServed, IsLate, IsGiven, IsAnswered, AtRouter, Untaken
  <2>4. QED
    BY <1>1, <1>6, <2>1, <2>2, <2>3, OneSteps DEF IsRegistered
<1>7. QED
  BY <1>5, <1>6 DEF TakesLate

-----------------------------------------------------------------------------
\* TriggerRouter.

\* All that is asked of a request but the taint of its session.
Placed(c) == Asks(c) /\ IsCalled(c) /\ IsServed(c) /\ IsLate(c) /\ IsGiven(c) /\ IsAnswered(c)

LEMMA StartTypes ==
    ASSUME TypeOK, NEW c \in Request, Start(c)
    PROVE  /\ life' \in [Session -> Life \cup {"unused"}] /\ taint' \in [Session -> Level]
           /\ life'[c] = "starting" /\ taint'[c] = TriggerTaint(c)
           /\ \A s \in Session \ {c} : life'[s] = life[s] /\ taint'[s] = taint[s]
<1>1. TriggerTaint(c) \in Level
  BY WorkIs DEF TriggerTaint, Level
<1>2. QED
  BY <1>1 DEF Start, TypeOK, Session, Life

LEMMA StartSound ==
    ASSUME RInv, NEW c \in Request, Start(c), TypeOK', work' = work, skipped => skipped',
           life[c] = "unused", work[c].kind \notin Direct, given'[c] = <<>>,
           \A d \in Request \ {c} : SameFor(d),
           ~skipped' /\ Key(c) # NoKey => \A t \in Session : IsRegistered(t) => Key(t) # Key(c),
           Placed(c)'
    PROVE  RInv'
<1>1. /\ life'[c] = "starting" /\ taint'[c] = TriggerTaint(c)
      /\ \A s \in Session \ {c} : life'[s] = life[s] /\ taint'[s] = taint[s]
  BY StartTypes DEF RInv
<1>2. Lived
  BY <1>1 DEF Lived
<1>3. \A d \in Request \ {c} : Sound(d)'
  BY <1>1, <1>2, StaysSound DEF RInv, Session
<1>4. IsTainted(c)'
  <2>1. work[c].kind # "peer" => work[c].taint <= taint'[c]
    BY <1>1, WorkIs DEF TriggerTaint, RInv, Level, Low, Medium, High
  <2>2. QED
    BY <2>1 DEF IsTainted
<1>5. Sound(c)'
  BY <1>4 DEF Placed, Sound
<1>6. OneSessionPerKey'
  <2>1. SUFFICES ASSUME ~skipped', NEW s \in Session, NEW t \in Session,
                        IsRegistered(s)', IsRegistered(t)', Key(s) = Key(t), Key(s) # NoKey
                 PROVE  s = t
    BY DEF OneSessionPerKey, Key
  <2>2. \A r \in Session \ {c} : IsRegistered(r)' => IsRegistered(r)
    BY <1>1 DEF IsRegistered
  <2>3. QED
    BY <2>1, <2>2 DEF RInv, OneSessionPerKey
<1>7. QED
  BY <1>3, <1>5, <1>6 DEF RInv

\* The request whose turn it is at the router.
LEMMA CallIs ==
    ASSUME RInv, NEW c \in Request, RouterTakes(c)
    PROVE  /\ serving = None /\ c \in calls /\ calls' = calls \ {c}
           /\ UNCHANGED <<work, registered, late, given>>
           /\ Untaken(c) /\ life[c] = "unused" /\ work[c].kind \notin Direct
           /\ step[c] \in {"calling", "calling_again", "done"}
           /\ step[c] = "done" => result[c] = "failed"
           /\ step[c] = "calling_again" => work[c].kind = "chat"
           /\ None \notin Request
  BY RoutingAssumption DEF RouterTakes, RInv, Sound, IsCalled, Asks, AtRouter

LEMMA AnswerTypes ==
    ASSUME TypeOK, NEW c \in Request, NEW answer \in Result, Answer(c, answer)
    PROVE  /\ step' \in [Request -> Step] /\ result' \in [Request -> Result]
           /\ \A d \in Request \ {c} : step'[d] = step[d] /\ result'[d] = result[d]
           /\ Waiting(c) => /\ result'[c] = answer
                            /\ step'[c] = IF answer = "not_ready" /\ step[c] = "calling" /\ work[c].kind = "chat"
                                          THEN "stuck"
                                          ELSE IF answer = "agent" THEN "found" ELSE "done"
           /\ ~Waiting(c) => step'[c] = step[c] /\ result'[c] = result[c]
<1>1. step \in [Request -> Step] /\ result \in [Request -> Result]
  BY DEF TypeOK
<1>2. CASE ~Waiting(c)
  BY <1>1, <1>2 DEF Answer
<1>3. CASE Waiting(c)
  <2>1. PICK next \in {"stuck", "found", "done"} :
           /\ next = IF answer = "not_ready" /\ step[c] = "calling" /\ work[c].kind = "chat"
                     THEN "stuck"
                     ELSE IF answer = "agent" THEN "found" ELSE "done"
           /\ Becomes(c, next, answer)
    BY <1>3 DEF Answer
  <2>2. next \in Step
    BY DEF Step
  <2>3. QED
    BY <1>1, <1>3, <2>1, <2>2 DEF Becomes
<1>4. QED
  BY <1>2, <1>3

\* An answered request is placed.
LEMMA AnswerPlaced ==
    ASSUME RInv, NEW c \in Request, NEW answer \in Result, Answer(c, answer),
           AtRouter(c), ~AtRouter(c)', work' = work, Untaken(c)',
           answer = "agent" => work[c].kind \in Asking /\ life'[c] = "unused",
           answer = "not_ready" => life'[c] = "unused",
           answer = "ok" /\ work[c].kind \in Prompting => life'[c] # "unused"
    PROVE  Placed(c)'
<1>1. step[c] \in {"calling", "calling_again", "done"} /\ (step[c] = "done" => result[c] = "failed")
  BY DEF RInv, Sound, Asks, IsCalled, IsServed, AtRouter
<1>2. \/ step'[c] = "done" /\ result'[c] = "failed"
      \/ /\ result'[c] = answer
         /\ \/ step'[c] = "done"
            \/ step'[c] = "stuck" /\ answer = "not_ready" /\ work[c].kind = "chat"
            \/ step'[c] = "found" /\ answer = "agent"
  BY <1>1, AnswerTypes DEF RInv, Waiting
<1>3. Asks(c)'
  BY <1>2 DEF Asks
<1>4. IsCalled(c)' /\ IsServed(c)'
  BY DEF IsCalled, IsServed, AtRouter
<1>5. IsLate(c)' /\ IsGiven(c)'
  BY DEF IsLate, IsGiven, Untaken
<1>6. IsAnswered(c)'
  BY <1>2 DEF IsAnswered
<1>7. QED
  BY <1>3, <1>4, <1>5, <1>6 DEF Placed

LEMMA TakenOthers ==
    ASSUME RInv, NEW c \in Request, RouterTakes(c), NEW answer \in Result, Answer(c, answer),
           UNCHANGED <<serving, target>>
    PROVE  /\ \A d \in Request \ {c} : SameFor(d)
           /\ ~AtRouter(c)' /\ AtRouter(c) /\ Untaken(c)' /\ given'[c] = <<>>
           /\ step' \in [Request -> Step] /\ result' \in [Request -> Result]
           /\ calls' \in SUBSET Request
<1>1. /\ serving = None /\ c \in calls /\ calls' = calls \ {c} /\ Untaken(c) /\ None \notin Request
      /\ UNCHANGED <<late, given>>
  BY CallIs
<1>2. QED
  BY <1>1, AnswerTypes DEF RInv, SameFor, AtRouter, Untaken, TypeOK

LEMMA UnchangedTaint ==
    ASSUME NEW c, IsTainted(c), UNCHANGED <<work, life, taint>>,
           given'[c] = given[c] \/ given'[c] = <<>>
    PROVE  IsTainted(c)'
  BY DEF IsTainted

\* Answers that change nothing but the request.
LEMMA OnlyAnswered ==
    ASSUME RInv, NEW c \in Request, RouterTakes(c), NEW answer \in {"unknown_agent", "refused", "agent"},
           Answer(c, answer), UNCHANGED <<serving, life, taint, target>>,
           answer = "agent" => work[c].kind \in Asking, skipped' \in BOOLEAN, skipped => skipped'
    PROVE  RInv'
<1>1. answer \in Result
  BY DEF Result
<1>2. /\ \A d \in Request \ {c} : SameFor(d)
      /\ ~AtRouter(c)' /\ AtRouter(c) /\ Untaken(c)' /\ given'[c] = <<>>
      /\ step' \in [Request -> Step] /\ result' \in [Request -> Result]
      /\ calls' \in SUBSET Request
  BY <1>1, TakenOthers
<1>3. UNCHANGED <<work, registered, late, given>> /\ life[c] = "unused"
  BY CallIs
<1>4. TypeOK'
  BY <1>2, <1>3 DEF RInv, TypeOK
<1>5. Placed(c)'
  BY <1>1, <1>2, <1>3, AnswerPlaced
<1>6. IsTainted(c)'
  BY <1>3, UnchangedTaint DEF RInv, Sound
<1>7. Sound(c)'
  BY <1>5, <1>6 DEF Placed, Sound
<1>8. QED
  BY <1>2, <1>3, <1>4, <1>7, OneSteps DEF IsRegistered

LEMMA UnknownAgentSound ==
    ASSUME RInv, NEW c \in Request, UnknownAgent(c) PROVE RInv'
<1>1. skipped' = skipped /\ skipped \in BOOLEAN
  BY DEF UnknownAgent, RInv, TypeOK
<1>2. QED
  BY <1>1, OnlyAnswered DEF UnknownAgent

LEMMA GetAgentSound ==
    ASSUME RInv, NEW c \in Request, GetAgent(c) PROVE RInv'
<1>1. skipped' = skipped /\ skipped \in BOOLEAN
  BY DEF GetAgent, RInv, TypeOK
<1>2. QED
  BY <1>1, OnlyAnswered DEF GetAgent

LEMMA DispatchReflectionSound ==
    ASSUME RInv, NEW c \in Request, DispatchReflection(c)
    PROVE  RInv'
<1>1. /\ RouterTakes(c) /\ UNCHANGED <<serving, target, skipped>> /\ work[c].kind = "reflection"
  BY DEF DispatchReflection
<1>2. CASE Answer(c, "refused") /\ UNCHANGED <<life, taint>>
  BY <1>1, <1>2, OnlyAnswered DEF RInv, TypeOK
<1>3. CASE Start(c) /\ Answer(c, "ok")
  <2>1. /\ \A d \in Request \ {c} : SameFor(d)
        /\ ~AtRouter(c)' /\ AtRouter(c) /\ Untaken(c)' /\ given'[c] = <<>>
        /\ step' \in [Request -> Step] /\ result' \in [Request -> Result]
        /\ calls' \in SUBSET Request
    BY <1>1, <1>3, TakenOthers DEF Result
  <2>2. UNCHANGED <<work, registered, late, given>> /\ life[c] = "unused" /\ work[c].kind \notin Direct
    BY <1>1, CallIs
  <2>3. /\ life' \in [Session -> Life \cup {"unused"}] /\ taint' \in [Session -> Level]
        /\ life'[c] = "starting"
    BY <1>3, StartTypes DEF RInv
  <2>4. TypeOK'
    BY <1>1, <2>1, <2>2, <2>3 DEF RInv, TypeOK
  <2>5. Placed(c)'
    BY <1>3, <2>1, <2>2, <2>3, AnswerPlaced DEF Result
  <2>6. Key(c) = NoKey
    BY <1>1, WorkIs DEF RInv, Key
  <2>7. QED
    BY <1>1, <1>3, <2>1, <2>2, <2>4, <2>5, <2>6, StartSound
<1>4. QED
  BY <1>2, <1>3 DEF DispatchReflection

LEMMA DispatchSound ==
    ASSUME RInv, NEW c \in Request, Dispatch(c)
    PROVE  RInv'
<1>1. PICK s \in Session \cup {None} :
         /\ Finds(work[c].key, s)
         /\ \/ /\ s # None
               /\ Serve(c, s)
               /\ UNCHANGED <<life, taint>>
            \/ /\ s = None
               /\ Start(c)
               /\ Serve(c, c)
            \/ /\ s = None
               /\ Answer(c, "refused")
               /\ UNCHANGED <<serving, target, life, taint>>
  BY DEF Dispatch
<1>2. RouterTakes(c) /\ work[c].kind \in Prompted
  BY DEF Dispatch
<1>3. /\ serving = None /\ c \in calls /\ calls' = calls \ {c}
      /\ UNCHANGED <<work, registered, late, given>>
      /\ Untaken(c) /\ life[c] = "unused" /\ work[c].kind \notin Direct
      /\ step[c] \in {"calling", "calling_again", "done"}
      /\ step[c] = "done" => result[c] = "failed"
      /\ step[c] = "calling_again" => work[c].kind = "chat"
      /\ None \notin Request
  BY <1>2, CallIs
<1>4. /\ skipped' \in BOOLEAN /\ (skipped => skipped')
      /\ s # None => /\ s \in Session /\ IsRegistered(s)
                     /\ work[c].key # NoKey => Key(s) \in {NoKey, work[c].key}
      /\ s = None /\ ~skipped' /\ work[c].key # NoKey =>
            \A t \in Session : IsRegistered(t) => Key(t) # work[c].key
  BY <1>1, FindsFits DEF RInv
<1>5. ASSUME NEW t \in Session, Serve(c, t), life'[t] # "unused",
             work[c].kind = "chat" => Key(t) \in {NoKey, work[c].key},
             life'[c] = "unused" \/ t = c
      PROVE  /\ \A d \in Request \ {c} : SameFor(d)
             /\ Placed(c)'
             /\ given'[c] = <<>>
             /\ calls' \in SUBSET Request /\ serving' \in Request /\ target' \in [Request -> Session \cup {None}]
             /\ target'[serving'] \in Session
             /\ step' = step /\ result' = result
  <2>1. serving' = c /\ target'[c] = t /\ step' = step /\ result' = result
        /\ target' \in [Request -> Session \cup {None}]
        /\ \A d \in Request \ {c} : target'[d] = target[d]
    BY <1>5 DEF Serve, RInv, TypeOK
  <2>2. \A d \in Request \ {c} : SameFor(d)
    BY <1>3, <2>1 DEF SameFor
  <2>3. Untaken(c)' /\ given'[c] = <<>> /\ c \notin calls'
    BY <1>3 DEF Untaken
  <2>4. MayTake(t, c)'
    BY <1>3, <1>5 DEF MayTake, Key
  <2>5. Asks(c)'
    BY <1>3, <2>1, <2>3 DEF Asks
  <2>6. IsCalled(c)' /\ IsServed(c)'
    BY <1>2, <1>3, <1>5, <2>1, <2>3, <2>4 DEF IsCalled, IsServed
  <2>7. IsLate(c)' /\ IsGiven(c)'
    BY <2>3 DEF IsLate, IsGiven, Untaken
  <2>8. IsAnswered(c)'
    BY <1>3, <1>5, <2>1, <2>3 DEF IsAnswered, RInv, Sound, Untaken
  <2>9. QED
    BY <1>3, <2>1, <2>2, <2>3, <2>5, <2>6, <2>7, <2>8 DEF Placed, RInv, TypeOK
<1>6. CASE s # None /\ Serve(c, s) /\ UNCHANGED <<life, taint>>
  <2>1. /\ life'[s] # "unused" /\ s \in Session
        /\ work[c].kind = "chat" => Key(s) \in {NoKey, work[c].key}
    BY <1>4, <1>6, RegisteredIs, WorkIs DEF RInv
  <2>2. /\ \A d \in Request \ {c} : SameFor(d)
        /\ Placed(c)'
        /\ given'[c] = <<>>
        /\ calls' \in SUBSET Request /\ serving' \in Request /\ target' \in [Request -> Session \cup {None}]
        /\ target'[serving'] \in Session
        /\ step' = step /\ result' = result
    BY <1>3, <1>5, <1>6, <2>1
  <2>3. TypeOK'
    BY <1>3, <1>4, <1>6, <2>2 DEF RInv, TypeOK
  <2>4. IsTainted(c)'
    BY <1>3, <1>6, UnchangedTaint DEF RInv, Sound
  <2>5. Sound(c)'
    BY <2>2, <2>4 DEF Placed, Sound
  <2>6. QED
    BY <1>3, <1>4, <1>6, <2>2, <2>3, <2>5, OneSteps DEF IsRegistered
<1>7. CASE s = None /\ Start(c) /\ Serve(c, c)
  <2>1. /\ life' \in [Session -> Life \cup {"unused"}] /\ taint' \in [Session -> Level]
        /\ life'[c] = "starting"
    BY <1>7, StartTypes DEF RInv
  <2>2. /\ \A d \in Request \ {c} : SameFor(d)
        /\ Placed(c)'
        /\ given'[c] = <<>>
        /\ calls' \in SUBSET Request /\ serving' \in Request /\ target' \in [Request -> Session \cup {None}]
        /\ target'[serving'] \in Session
        /\ step' = step /\ result' = result
    BY <1>5, <1>7, <2>1 DEF Session, Key
  <2>3. TypeOK'
    BY <1>3, <1>4, <2>1, <2>2 DEF RInv, TypeOK
  <2>4. ~skipped' /\ Key(c) # NoKey => \A t \in Session : IsRegistered(t) => Key(t) # Key(c)
    BY <1>4, <1>7 DEF Key
  <2>5. QED
    BY <1>3, <1>4, <1>7, <2>2, <2>3, <2>4, StartSound
<1>8. CASE s = None /\ Answer(c, "refused") /\ UNCHANGED <<serving, target, life, taint>>
  BY <1>2, <1>4, <1>8, OnlyAnswered
<1>9. QED
  BY <1>1, <1>6, <1>7, <1>8

\* The request that is being served.
LEMMA ServedIs ==
    ASSUME RInv, serving # None
    PROVE  /\ serving \in Request /\ serving \notin calls /\ AtRouter(serving)
           /\ Untaken(serving) /\ given[serving] = <<>>
           /\ work[serving].kind \in Prompted /\ work[serving].kind \in Prompting
           /\ life[serving] = "unused" \/ target[serving] = serving
           /\ MayTake(target[serving], serving)
           /\ target[serving] \in Session
           /\ step[serving] \in {"calling", "calling_again", "done"}
           /\ step[serving] = "done" => result[serving] = "failed"
           /\ None \notin Request
<1>1. serving \in Request
  BY DEF RInv, TypeOK
<1>2. Asks(serving) /\ IsCalled(serving) /\ IsServed(serving)
  BY <1>1 DEF RInv, Sound
<1>3. QED
  BY <1>1, <1>2, RoutingAssumption DEF Asks, IsCalled, IsServed, AtRouter, Untaken, MayTake, Prompting

LEMMA RouterPromptsSound ==
    ASSUME RInv, RouterPrompts
    PROVE  RInv'
<1>0. PICK c \in Request, t \in Session : c = serving /\ t = target[serving]
  BY ServedIs DEF RouterPrompts
<1>1. /\ c \in Request /\ c \notin calls /\ AtRouter(c) /\ Untaken(c) /\ given[c] = <<>>
      /\ work[c].kind \in Prompting
      /\ life[c] = "unused" \/ t = c
      /\ MayTake(t, c) /\ t \in Session
      /\ step[c] \in {"calling", "calling_again", "done"}
      /\ step[c] = "done" => result[c] = "failed"
      /\ None \notin Request /\ c # None
  BY <1>0, ServedIs DEF RouterPrompts
<1>2. serving' = None /\ UNCHANGED <<work, registered, calls, life, late, target, skipped>>
  BY DEF RouterPrompts
<1>3. PICK answer \in Result :
        /\ Answer(c, answer)
        /\ \/ Take(t, c) /\ answer = "ok"
           \/ /\ UNCHANGED <<given, taint>>
              /\ answer = (IF t = c THEN "ok" ELSE "not_ready")
  BY <1>0 DEF RouterPrompts, Result
<1>4. /\ step' \in [Request -> Step] /\ result' \in [Request -> Result]
      /\ \A d \in Request \ {c} : step'[d] = step[d] /\ result'[d] = result[d]
  BY <1>1, <1>3, AnswerTypes DEF RInv
<1>5. ~AtRouter(c)' /\ \A d \in Request \ {c} : (serving' = d <=> serving = d)
  BY <1>0, <1>1, <1>2 DEF AtRouter
<1>6. CASE Take(t, c) /\ answer = "ok"
  <2>1. TypeOK'
    BY <1>1, <1>2, <1>4, <1>6, TakeTypes DEF RInv, TypeOK
  <2>2. \A d \in Request \ {c} : SameFor(d)
    BY <1>1, <1>2, <1>4, <1>5, <1>6 DEF SameFor, Take, RInv, TypeOK
  <2>3. step'[c] = "done" /\ result'[c] \in {"ok", "failed"}
    BY <1>1, <1>3, <1>6, AnswerTypes DEF RInv, Waiting
  <2>4. \A r \in Session : <<r, c>> \notin late'
    BY <1>1, <1>2 DEF Untaken
  <2>5. QED
    BY <1>1, <1>2, <1>5, <1>6, <2>1, <2>2, <2>3, <2>4, TakeSound
<1>7. CASE UNCHANGED <<given, taint>> /\ answer = (IF t = c THEN "ok" ELSE "not_ready")
  <2>1. TypeOK'
    BY <1>1, <1>2, <1>4, <1>7 DEF RInv, TypeOK
  <2>2. \A d \in Request \ {c} : SameFor(d)
    BY <1>1, <1>2, <1>4, <1>5, <1>7 DEF SameFor
  <2>3. Placed(c)'
    <3>1. Untaken(c)'
      BY <1>1, <1>2, <1>7 DEF Untaken
    <3>2. answer = "ok" => life'[c] # "unused"
      BY <1>1, <1>2, <1>7 DEF MayTake
    <3>3. answer = "not_ready" => life'[c] = "unused"
      BY <1>1, <1>2, <1>7
    <3>4. QED
      BY <1>1, <1>2, <1>3, <1>5, <1>7, <3>1, <3>2, <3>3, AnswerPlaced
  <2>4. IsTainted(c)'
    BY <1>1, <1>2, <1>7, UnchangedTaint DEF RInv, Sound
  <2>5. Sound(c)'
    BY <2>3, <2>4 DEF Placed, Sound
  <2>6. QED
    BY <1>1, <1>2, <1>7, <2>1, <2>2, <2>5, OneSteps DEF IsRegistered
<1>8. QED
  BY <1>3, <1>6, <1>7

\* Who waits for the router fails with it.
LEMMA RouterExitsSound ==
    ASSUME RInv, RouterExits
    PROVE  RInv'
<1>0. PICK c \in Request, t \in Session : c = serving /\ t = target[serving]
  BY ServedIs DEF RouterExits
<1>1. /\ c \in Request /\ c \notin calls /\ AtRouter(c) /\ Untaken(c) /\ given[c] = <<>>
      /\ work[c].kind \in Prompting
      /\ MayTake(t, c) /\ t \in Session
      /\ step[c] \in {"calling", "calling_again", "done"}
      /\ step[c] = "done" => result[c] = "failed"
      /\ None \notin Request /\ c # None
  BY <1>0, ServedIs DEF RouterExits
<1>2. /\ serving' = None /\ registered' = FALSE /\ calls' = {}
      /\ step' = [d \in Request |-> IF Waiting(d) THEN "done" ELSE step[d]]
      /\ result' = [d \in Request |-> IF Waiting(d) THEN "failed" ELSE result[d]]
      /\ UNCHANGED <<work, life, taint, target, given, skipped>>
      /\ late' \in {late, late \cup {<<t, c>>}}
  BY <1>0 DEF RouterExits, PromptExits
<1>3. TypeOK'
  <2>1. step' \in [Request -> Step] /\ result' \in [Request -> Result]
    BY <1>2 DEF RInv, TypeOK, Step, Result
  <2>2. late' \in SUBSET (Session \X Request)
    BY <1>2 DEF RInv, TypeOK
  <2>3. QED
    BY <1>2, <2>1, <2>2 DEF RInv, TypeOK
<1>4. \A d \in Request : ~AtRouter(d)' /\ d \notin calls' /\ serving' # d
  BY <1>1, <1>2 DEF AtRouter
<1>5. ASSUME NEW d \in Request
      PROVE  Sound(d)'
  <2>1. /\ step'[d] = (IF Waiting(d) THEN "done" ELSE step[d])
        /\ result'[d] = (IF Waiting(d) THEN "failed" ELSE result[d])
    BY <1>2
  <2>2. /\ Asks(d) /\ IsLate(d) /\ IsGiven(d) /\ IsAnswered(d) /\ IsTainted(d)
    BY DEF RInv, Sound
  <2>3. \A r : MayTake(r, d) => MayTake(r, d)'
    BY <1>2 DEF MayTake, Key
  <2>4. IsTainted(d)'
    BY <1>2, <2>2, UnchangedTaint
  <2>5. IsCalled(d)' /\ IsServed(d)'
    BY <1>4 DEF IsCalled, IsServed
  <2>6. Waiting(d) => Untaken(d)
    BY <2>2 DEF Asks, Waiting
  <2>7. step'[d] = "done" => step[d] = "done" \/ Waiting(d)
    BY <2>1
  <2>8. CASE d = c
    <3>1. step'[d] = "done" /\ result'[d] = "failed"
      BY <1>1, <2>1, <2>8 DEF Waiting
    <3>2. given'[d] = <<>> /\ \A r \in Session : <<r, d>> \in late' => r = t
      BY <1>1, <1>2, <2>8 DEF Untaken
    <3>3. MayTake(t, d)' /\ work'[d].kind \in Prompting
      BY <1>1, <1>2, <2>3, <2>8
    <3>4. Asks(d)' /\ IsLate(d)' /\ IsGiven(d)' /\ IsAnswered(d)'
      BY <1>4, <3>1, <3>2, <3>3 DEF Asks, IsLate, IsGiven, IsAnswered
    <3>5. QED
      BY <2>4, <2>5, <3>4 DEF Sound
  <2>9. CASE d # c
    <3>1. given'[d] = given[d] /\ \A r \in Session : <<r, d>> \in late' <=> <<r, d>> \in late
      BY <1>2, <2>9
    <3>2. Untaken(d) <=> Untaken(d)'
      BY <3>1 DEF Untaken
    <3>3. Asks(d)'
      BY <1>2, <1>4, <2>1, <2>2, <2>3, <3>2 DEF Asks, Waiting
    <3>4. IsLate(d)'
      BY <1>2, <1>4, <2>1, <2>2, <2>3, <3>1 DEF IsLate, Waiting
    <3>5. IsGiven(d)'
      BY <1>2, <1>4, <2>1, <2>2, <2>3, <3>1 DEF IsGiven, Waiting
    <3>6. IsAnswered(d)'
      BY <1>2, <2>1, <2>2 DEF IsAnswered
    <3>7. QED
      BY <2>4, <2>5, <3>3, <3>4, <3>5, <3>6 DEF Sound
  <2>10. QED
    BY <2>8, <2>9
<1>6. OneSessionPerKey'
  BY <1>2, KeysStay DEF RInv, IsRegistered
<1>7. QED
  BY <1>3, <1>5, <1>6 DEF RInv

LEMMA ReloadSound == ASSUME RInv, Reload PROVE RInv'
<1>1. UNCHANGED <<work, calls, serving, life, taint, late, step, target, result, given, skipped>>
  BY DEF Reload
<1>2. TypeOK'
  BY <1>1 DEF Reload, RInv, TypeOK
<1>3. \A d \in Request : Sound(d)'
  BY <1>1, StaysSound DEF RInv, SameFor, Lived
<1>4. OneSessionPerKey'
  BY <1>1, KeysStay DEF RInv, IsRegistered
<1>5. QED
  BY <1>2, <1>3, <1>4 DEF RInv

-----------------------------------------------------------------------------
\* The processes that make the requests.

\* Who has not called, or was sent back, has no session and its prompt.
LEMMA FreshIs ==
    ASSUME RInv, NEW c \in Request, step[c] \notin {"done", "calling", "calling_again"}
    PROVE  /\ Untaken(c) /\ given[c] = <<>> /\ ~AtRouter(c) /\ life[c] = "unused"
           /\ c \notin calls /\ serving # c
           /\ result[c] # "ok" \/ work[c].kind \notin Prompting
  BY DEF RInv, Sound, Asks, IsAnswered, AtRouter, Untaken

\* Lives change by ending or going on.
LifeGoesOn ==
    /\ life' \in [Session -> Life \cup {"unused"}]
    /\ \A s \in Session : life'[s] = life[s] \/ (IsRegistered(s) /\ life'[s] \in Life)

LEMMA LifeIs ==
    ASSUME LifeGoesOn
    PROVE  /\ \A s \in Session : life'[s] = life[s] \/ (life[s] # "unused" /\ life'[s] \in Life)
           /\ \A s \in Session : IsRegistered(s)' => IsRegistered(s)
           /\ \A s \in Session : life'[s] = "unused" <=> life[s] = "unused"
  BY DEF LifeGoesOn, IsRegistered, Registered, Life

\* A request goes from one place to the next without its prompt being taken.
LEMMA OneAdvances ==
    ASSUME RInv, NEW c \in Request, step[c] \notin {"done", "calling", "calling_again"},
           UNCHANGED <<work, registered, calls, serving, taint, late, given>>,
           NEW next \in {"again", "asking", "waiting", "starting", "sending", "done"},
           NEW answer \in Result,
           step' = [step EXCEPT ![c] = next], result' = [result EXCEPT ![c] = answer],
           target' \in [Request -> Session \cup {None}],
           \A d \in Request \ {c} : target'[d] = target[d],
           LifeGoesOn, skipped' \in BOOLEAN, skipped => skipped',
           next = "again" => work[c].kind = "chat",
           next \in {"asking", "waiting", "starting"} => work[c].kind \in Asking,
           next = "sending" => work[c].kind = "prompt" /\ MayTake(target'[c], c),
           answer = "ok" => answer = result[c] \/ work[c].kind \notin Prompting
    PROVE  RInv'
<1>1. /\ Untaken(c) /\ given[c] = <<>> /\ ~AtRouter(c) /\ life[c] = "unused" /\ c \notin calls /\ serving # c
      /\ result[c] # "ok" \/ work[c].kind \notin Prompting
  BY FreshIs
<1>2. /\ \A s \in Session : life'[s] = life[s] \/ (life[s] # "unused" /\ life'[s] \in Life)
      /\ \A s \in Session : IsRegistered(s)' => IsRegistered(s)
      /\ \A s \in Session : life'[s] = "unused" <=> life[s] = "unused"
  BY LifeIs
<1>3. /\ step' \in [Request -> Step] /\ result' \in [Request -> Result]
      /\ step'[c] = next /\ result'[c] = answer
      /\ \A d \in Request \ {c} : step'[d] = step[d] /\ result'[d] = result[d]
  BY DEF RInv, TypeOK, Step
<1>4. TypeOK'
  <2>1. serving' # None => target'[serving'] \in Session
    BY <1>1 DEF RInv, TypeOK
  <2>2. life' \in [Session -> Life \cup {"unused"}]
    BY DEF LifeGoesOn
  <2>3. QED
    BY <1>3, <2>1, <2>2 DEF RInv, TypeOK
<1>5. \A d \in Request \ {c} : SameFor(d)
  BY <1>3 DEF SameFor
<1>6. Sound(c)'
  <2>1. Untaken(c)' /\ ~AtRouter(c)' /\ life'[c] = "unused"
    BY <1>1, <1>2 DEF Untaken, AtRouter, Session
  <2>2. next = "sending" => MayTake(target[c], c)'
    BY <1>2 DEF MayTake, Key
  <2>3. Asks(c)'
    BY <1>3, <2>1, <2>2 DEF Asks
  <2>4. IsCalled(c)' /\ IsServed(c)' /\ IsLate(c)' /\ IsGiven(c)'
    BY <2>1 DEF IsCalled, IsServed, IsLate, IsGiven, AtRouter, Untaken
  <2>5. IsAnswered(c)' /\ IsTainted(c)'
    BY <1>1, <1>3, <2>1 DEF IsAnswered, IsTainted
  <2>6. QED
    BY <2>3, <2>4, <2>5 DEF Sound
<1>7. QED
  BY <1>2, <1>4, <1>5, <1>6, OneSteps

LEMMA SameLife ==
    ASSUME RInv, UNCHANGED life
    PROVE  LifeGoesOn
  BY DEF LifeGoesOn, RInv, TypeOK

LEMMA TerminateLife ==
    ASSUME RInv, NEW s, IsRegistered(s), Terminate(s)
    PROVE  LifeGoesOn
<1>1. life' \in [Session -> Life \cup {"unused"}]
  BY DEF RInv, TypeOK, Terminate, Life
<1>2. QED
  BY <1>1 DEF LifeGoesOn, RInv, TypeOK, Terminate, Life

LEMMA CallSound == ASSUME RInv, NEW c \in Request, Call(c) PROVE RInv'
<1>1. /\ step[c] \in {"new", "again"} /\ calls' = calls \cup {c}
      /\ UNCHANGED <<work, registered, serving, life, taint, late, target, result, given, skipped>>
  BY DEF Call
<1>2. PICK next \in {"calling", "calling_again"} :
         /\ step' = [step EXCEPT ![c] = next]
         /\ next = "calling" => work[c].kind \notin Direct
         /\ next = "calling_again" => step[c] = "again"
  BY DEF Call
<1>3. /\ Untaken(c) /\ given[c] = <<>> /\ ~AtRouter(c) /\ life[c] = "unused" /\ c \notin calls /\ serving # c
      /\ result[c] # "ok" \/ work[c].kind \notin Prompting
  BY <1>1, FreshIs
<1>4. next = "calling_again" => work[c].kind = "chat"
  BY <1>2 DEF RInv, Sound, Asks
<1>5. work[c].kind \notin Direct
  BY <1>2, <1>4 DEF Direct
<1>6. /\ step' \in [Request -> Step] /\ step'[c] = next
      /\ \A d \in Request \ {c} : step'[d] = step[d]
  BY <1>2 DEF RInv, TypeOK, Step
<1>7. TypeOK'
  BY <1>1, <1>6 DEF RInv, TypeOK
<1>8. \A d \in Request \ {c} : SameFor(d)
  BY <1>1, <1>6 DEF SameFor
<1>9. Sound(c)'
  <2>1. Untaken(c)' /\ life'[c] = "unused" /\ serving' # c
    BY <1>1, <1>3 DEF Untaken
  <2>2. Asks(c)' /\ IsCalled(c)'
    BY <1>1, <1>4, <1>5, <1>6, <2>1 DEF Asks, IsCalled
  <2>3. IsServed(c)' /\ IsLate(c)' /\ IsGiven(c)'
    BY <2>1 DEF IsServed, IsLate, IsGiven, Untaken
  <2>4. IsAnswered(c)' /\ IsTainted(c)'
    BY <1>1, <1>3, <2>1 DEF IsAnswered, IsTainted
  <2>5. QED
    BY <2>2, <2>3, <2>4 DEF Sound
<1>10. QED
  BY <1>1, <1>7, <1>8, <1>9, OneSteps DEF IsRegistered

LEMMA GivesUpSound == ASSUME RInv, NEW c \in Request, GivesUp(c) PROVE RInv'
<1>1. /\ step[c] \in {"calling", "calling_again"}
      /\ UNCHANGED <<work, registered, calls, serving, life, taint, late, target, given, skipped>>
  BY DEF GivesUp, Waiting
<1>2. /\ step' \in [Request -> Step] /\ step'[c] = "done"
      /\ result' \in [Request -> Result] /\ result'[c] = "failed"
      /\ \A d \in Request \ {c} : step'[d] = step[d] /\ result'[d] = result[d]
  BY DEF GivesUp, Becomes, RInv, TypeOK, Step, Result
<1>3. TypeOK'
  BY <1>1, <1>2 DEF RInv, TypeOK
<1>4. \A d \in Request \ {c} : SameFor(d)
  BY <1>1, <1>2 DEF SameFor
<1>5. Sound(c)'
  <2>1. /\ Asks(c) /\ IsCalled(c) /\ IsServed(c) /\ IsTainted(c) /\ Untaken(c)
    BY <1>1 DEF RInv, Sound, Asks
  <2>2. Untaken(c)'
    BY <1>1, <2>1 DEF Untaken
  <2>3. \A s : MayTake(s, c) => MayTake(s, c)'
    BY <1>1 DEF MayTake, Key
  <2>4. Asks(c)'
    BY <1>2 DEF Asks
  <2>5. IsCalled(c)' /\ IsServed(c)'
    BY <1>1, <1>2, <2>1, <2>2, <2>3 DEF IsCalled, IsServed
  <2>6. IsLate(c)' /\ IsGiven(c)' /\ IsAnswered(c)'
    BY <1>2, <2>2 DEF IsLate, IsGiven, IsAnswered, Untaken
  <2>7. IsTainted(c)'
    BY <1>1, <2>1, UnchangedTaint
  <2>8. QED
    BY <2>4, <2>5, <2>6, <2>7 DEF Sound
<1>6. QED
  BY <1>1, <1>3, <1>4, <1>5, OneSteps DEF IsRegistered

LEMMA FindsAndStopsSound ==
    ASSUME RInv, NEW c \in Request, NEW next \in {"again", "done", "starting"}, NEW answer \in Result,
           FindsAndStops(c, next, answer), step[c] \notin {"done", "calling", "calling_again"},
           next = "again" => work[c].kind = "chat", next = "starting" => work[c].kind \in Asking,
           answer = result[c] \/ work[c].kind \notin Prompting
    PROVE  RInv'
<1>1. PICK s \in Session \cup {None} :
         Finds(NoKey, s) /\ IF s = None THEN UNCHANGED life ELSE Terminate(s)
  BY DEF FindsAndStops
<1>2. skipped' \in BOOLEAN /\ (skipped => skipped') /\ (s # None => IsRegistered(s))
  BY <1>1, FindsFits DEF RInv
<1>3. LifeGoesOn
  BY <1>1, <1>2, SameLife, TerminateLife
<1>4. UNCHANGED <<work, registered, calls, serving, taint, late, target, given>>
  BY DEF FindsAndStops
<1>5. step' = [step EXCEPT ![c] = next] /\ result' = [result EXCEPT ![c] = answer]
  BY DEF FindsAndStops, Becomes
<1>6. target' \in [Request -> Session \cup {None}]
  BY <1>4 DEF RInv, TypeOK
<1>7. QED
  BY <1>2, <1>3, <1>4, <1>5, <1>6, OneAdvances

LEMMA StopsSound ==
    ASSUME RInv, NEW c \in Request, RetryStops(c) \/ OperatorStops(c) \/ ForceRestart(c)
    PROVE  RInv'
<1>1. result[c] \in Result /\ "ok" \in Result
  BY DEF RInv, TypeOK, Result
<1>2. CASE RetryStops(c)
  <2>1. step[c] = "stuck" /\ work[c].kind = "chat"
    BY <1>2 DEF RetryStops, RInv, Sound, Asks
  <2>2. QED
    BY <1>1, <1>2, <2>1, FindsAndStopsSound DEF RetryStops
<1>3. CASE OperatorStops(c)
  BY <1>1, <1>3, Kinds, FindsAndStopsSound DEF OperatorStops
<1>4. CASE ForceRestart(c)
  <2>1. work[c].kind \in Asking
    BY <1>4 DEF ForceRestart, Asking
  <2>2. QED
    BY <1>1, <1>4, <2>1, FindsAndStopsSound DEF ForceRestart
<1>5. QED
  BY <1>2, <1>3, <1>4

LEMMA RestartLooksSound == ASSUME RInv, NEW c \in Request, RestartLooks(c) PROVE RInv'
<1>1. PICK s \in Session \cup {None} :
         /\ Finds(NoKey, s)
         /\ target' = [target EXCEPT ![c] = s]
         /\ step' = [step EXCEPT ![c] = IF s = None THEN "starting" ELSE "asking"]
  BY DEF RestartLooks
<1>2. skipped' \in BOOLEAN /\ (skipped => skipped')
  BY <1>1, FindsFits DEF RInv
<1>3. /\ step[c] = "found" /\ work[c].kind \in Asking
      /\ UNCHANGED <<work, registered, calls, serving, life, taint, late, result, given>>
  BY DEF RestartLooks, Asking
<1>4. /\ target' \in [Request -> Session \cup {None}]
      /\ \A d \in Request \ {c} : target'[d] = target[d]
  BY <1>1 DEF RInv, TypeOK
<1>5. result' = [result EXCEPT ![c] = result[c]] /\ result[c] \in Result
  BY <1>3 DEF RInv, TypeOK
<1>6. QED
  <2> DEFINE next == IF s = None THEN "starting" ELSE "asking"
  <2>1. next \in {"starting", "asking"} /\ step' = [step EXCEPT ![c] = next]
    BY <1>1
  <2> HIDE DEF next
  <2>2. QED
    BY <1>2, <1>3, <1>4, <1>5, <2>1, SameLife, OneAdvances

LEMMA RestartAsksSound == ASSUME RInv, NEW c \in Request, RestartAsks(c) PROVE RInv'
<1>1. /\ step[c] = "asking" /\ work[c].kind \in Asking
      /\ UNCHANGED <<work, registered, calls, serving, taint, late, target, given, skipped>>
  BY DEF RestartAsks, RInv, Sound, Asks
<1>2. /\ target' \in [Request -> Session \cup {None}] /\ result[c] \in Result
      /\ skipped' \in BOOLEAN
  BY <1>1 DEF RInv, TypeOK
<1>3. LifeGoesOn
  <2>1. CASE life[target[c]] = "open" /\ life' = [life EXCEPT ![target[c]] = "saving"]
    <3>1. life' \in [Session -> Life \cup {"unused"}]
      BY <2>1 DEF RInv, TypeOK, Life
    <3>2. QED
      BY <2>1, <3>1 DEF LifeGoesOn, IsRegistered, Registered, Life, RInv, TypeOK
  <2>2. CASE life[target[c]] \in {"starting", "saving", "stopped"} /\ Terminate(target[c])
    BY <2>2, TerminateLife DEF IsRegistered, Registered, Life
  <2>3. CASE UNCHANGED life
    BY <2>3, SameLife
  <2>4. QED
    BY <2>1, <2>2, <2>3 DEF RestartAsks
<1>4. \/ Becomes(c, "waiting", result[c])
      \/ Becomes(c, "done", "failed")
  BY DEF RestartAsks
<1>5. QED
  BY <1>1, <1>2, <1>3, <1>4, OneAdvances DEF Becomes, Result

LEMMA RestartWaitsSound == ASSUME RInv, NEW c \in Request, RestartWaits(c) PROVE RInv'
<1>1. /\ step[c] = "waiting" /\ work[c].kind \in Asking
      /\ UNCHANGED <<work, registered, calls, serving, life, taint, late, target, given, skipped>>
  BY DEF RestartWaits, RInv, Sound, Asks
<1>2. /\ target' \in [Request -> Session \cup {None}] /\ result[c] \in Result
      /\ skipped' \in BOOLEAN
  BY <1>1 DEF RInv, TypeOK
<1>3. LifeGoesOn
  BY <1>1, SameLife
<1>4. step' = [step EXCEPT ![c] = "starting"] /\ result' = [result EXCEPT ![c] = result[c]]
  BY DEF RestartWaits, Becomes
<1>5. QED
  BY <1>1, <1>2, <1>3, <1>4, OneAdvances

LEMMA StartsSessionSound == ASSUME RInv, NEW c \in Request, StartsSession(c) PROVE RInv'
<1>1. /\ step[c] \in {"starting", "found"} /\ work[c].kind \in Asking
      /\ UNCHANGED <<work, registered, calls, serving, late, target, given, skipped>>
  BY DEF StartsSession, RInv, Sound, Asks
<1>2. /\ target' \in [Request -> Session \cup {None}] /\ skipped' \in BOOLEAN
  BY <1>1 DEF RInv, TypeOK
<1>3. CASE Becomes(c, "done", "refused") /\ UNCHANGED <<life, taint>>
  BY <1>1, <1>2, <1>3, SameLife, OneAdvances DEF Becomes, Result
<1>4. CASE Start(c) /\ Becomes(c, "done", "ok")
  <2>1. Untaken(c) /\ given[c] = <<>> /\ ~AtRouter(c) /\ life[c] = "unused" /\ c \notin calls /\ serving # c
    BY <1>1, FreshIs
  <2>2. /\ step' \in [Request -> Step] /\ step'[c] = "done"
        /\ result' \in [Request -> Result] /\ result'[c] = "ok"
        /\ \A d \in Request \ {c} : step'[d] = step[d] /\ result'[d] = result[d]
    BY <1>4 DEF Becomes, RInv, TypeOK, Step, Result
  <2>3. /\ life' \in [Session -> Life \cup {"unused"}] /\ taint' \in [Session -> Level]
        /\ life'[c] = "starting"
    BY <1>4, StartTypes DEF RInv
  <2>4. TypeOK'
    BY <1>1, <2>2, <2>3 DEF RInv, TypeOK
  <2>5. \A d \in Request \ {c} : SameFor(d)
    BY <1>1, <2>2 DEF SameFor
  <2>6. Placed(c)'
    <3>1. Untaken(c)' /\ ~AtRouter(c)' /\ c \notin calls' /\ serving' # c
      BY <1>1, <2>1 DEF Untaken, AtRouter
    <3>2. QED
      BY <2>2, <2>3, <3>1 DEF Placed, Asks, IsCalled, IsServed, IsLate, IsGiven, IsAnswered, Untaken
  <2>7. Key(c) = NoKey /\ work[c].kind \notin Direct
    BY <1>1, WorkIs, Kinds DEF RInv, Key, Asking
  <2>8. QED
    BY <1>1, <1>4, <2>1, <2>4, <2>5, <2>6, <2>7, StartSound
<1>5. QED
  BY <1>3, <1>4 DEF StartsSession

LEMMA PromptLooksSound == ASSUME RInv, NEW c \in Request, PromptLooks(c) PROVE RInv'
<1>1. /\ step[c] = "new" /\ work[c].kind = "prompt"
      /\ UNCHANGED <<work, registered, calls, serving, life, taint, late, given>>
  BY DEF PromptLooks
<1>2. PICK s \in Session \cup {None} :
         /\ Finds(NoKey, s)
         /\ target' = [target EXCEPT ![c] = s]
         /\ IF s = None
            THEN Becomes(c, "done", "no_session")
            ELSE Becomes(c, "sending", result[c])
  BY DEF PromptLooks
<1>3. /\ skipped' \in BOOLEAN /\ (skipped => skipped')
      /\ s # None => s \in Session /\ IsRegistered(s)
  BY <1>2, FindsFits DEF RInv
<1>4. /\ target' \in [Request -> Session \cup {None}] /\ target'[c] = s /\ result[c] \in Result
      /\ \A d \in Request \ {c} : target'[d] = target[d]
  BY <1>2 DEF RInv, TypeOK
<1>5. s # None => MayTake(target'[c], c)
  BY <1>1, <1>3, <1>4, RegisteredIs DEF MayTake
<1>6. QED
  BY <1>1, <1>2, <1>3, <1>4, <1>5, SameLife, OneAdvances DEF Becomes, Result

LEMMA PromptSendsSound == ASSUME RInv, NEW c \in Request, PromptSends(c) PROVE RInv'
<1>1. /\ step[c] = "sending" /\ work[c].kind = "prompt" /\ MayTake(target[c], c)
      /\ UNCHANGED <<work, registered, calls, serving, life, target, skipped>>
  BY DEF PromptSends, RInv, Sound, Asks
<1>2. /\ Untaken(c) /\ given[c] = <<>> /\ ~AtRouter(c) /\ life[c] = "unused" /\ c \notin calls /\ serving # c
  BY <1>1, FreshIs
<1>3. target[c] \in Session /\ work[c].kind \in Prompting
  BY <1>1 DEF MayTake, Prompting
<1>4. ~AtRouter(c)'
  BY <1>1, <1>2 DEF AtRouter
<1>5. ASSUME NEW answer \in {"ok", "failed"}, Becomes(c, "done", answer)
      PROVE  /\ step' \in [Request -> Step] /\ result' \in [Request -> Result]
             /\ step'[c] = "done" /\ result'[c] = answer
             /\ \A d \in Request \ {c} : step'[d] = step[d] /\ result'[d] = result[d]
  BY <1>5 DEF Becomes, RInv, TypeOK, Step, Result
<1>6. CASE Take(target[c], c) /\ Becomes(c, "done", "ok") /\ UNCHANGED late
  <2>1. TypeOK'
    BY <1>1, <1>3, <1>5, <1>6, TakeTypes DEF RInv, TypeOK
  <2>2. \A d \in Request \ {c} : SameFor(d)
    BY <1>1, <1>5, <1>6 DEF SameFor, Take, RInv, TypeOK
  <2>3. \A t \in Session : <<t, c>> \notin late'
    BY <1>2, <1>6 DEF Untaken
  <2>4. QED
    BY <1>1, <1>2, <1>3, <1>4, <1>5, <1>6, <2>1, <2>2, <2>3, TakeSound
<1>7. CASE /\ Becomes(c, "done", "not_ready") \/ Becomes(c, "done", "failed")
           /\ UNCHANGED <<given, taint, late>>
  <2>1. target' \in [Request -> Session \cup {None}] /\ skipped' \in BOOLEAN
    BY <1>1 DEF RInv, TypeOK
  <2>2. QED
    BY <1>1, <1>7, <2>1, SameLife, OneAdvances DEF Becomes, Result
<1>8. CASE /\ late' = late \cup {<<target[c], c>>} /\ Becomes(c, "done", "failed")
           /\ UNCHANGED <<given, taint>>
  <2>1. TypeOK'
    BY <1>1, <1>3, <1>5, <1>8 DEF RInv, TypeOK
  <2>2. \A d \in Request \ {c} : SameFor(d)
    BY <1>1, <1>5, <1>8 DEF SameFor
  <2>3. Sound(c)'
    <3>1. step'[c] = "done" /\ result'[c] = "failed"
      BY <1>5, <1>8
    <3>2. given'[c] = <<>> /\ \A t \in Session : <<t, c>> \in late' => t = target[c]
      BY <1>2, <1>8 DEF Untaken
    <3>3. MayTake(target[c], c)' /\ work'[c].kind \in Prompting
      BY <1>1, <1>3 DEF MayTake, Key
    <3>4. target'[c] = target[c]
      BY <1>1
    <3>5. Asks(c)' /\ IsCalled(c)' /\ IsServed(c)' /\ IsGiven(c)' /\ IsAnswered(c)'
      BY <1>4, <3>1, <3>2 DEF Asks, IsCalled, IsServed, IsGiven, IsAnswered, AtRouter
    <3>6. IsLate(c)'
      BY <1>4, <3>1, <3>2, <3>3, <3>4 DEF IsLate
    <3>7. IsTainted(c)'
      BY <1>1, <1>8, UnchangedTaint DEF RInv, Sound
    <3>8. QED
      BY <3>5, <3>6, <3>7 DEF Sound
  <2>4. QED
    BY <1>1, <1>8, <2>1, <2>2, <2>3, OneSteps DEF IsRegistered
<1>9. QED
  BY <1>6, <1>7, <1>8 DEF PromptSends, PromptExits

-----------------------------------------------------------------------------
LEMMA StepSound == ASSUME RInv, [Next]_vars PROVE RInv'
<1>1. CASE UNCHANGED vars
  <2>1. UNCHANGED <<work, registered, calls, serving, life, taint, late, step, target,
                    result, given, skipped>>
    BY <1>1 DEF vars
  <2>2. TypeOK'
    BY <2>1 DEF RInv, TypeOK
  <2>3. \A d \in Request : Sound(d)'
    BY <2>1, StaysSound DEF RInv, SameFor, Lived
  <2>4. OneSessionPerKey'
    BY <2>1, KeysStay DEF RInv, IsRegistered
  <2>5. QED
    BY <2>2, <2>3, <2>4 DEF RInv
<1>2. CASE RouterStep
  BY <1>2, UnknownAgentSound, DispatchSound, DispatchReflectionSound, GetAgentSound,
     RouterPromptsSound, RouterExitsSound DEF RouterStep
<1>3. ASSUME NEW c \in Request, RequestStep(c) \/ GivesUp(c)
      PROVE  RInv'
  BY <1>3, CallSound, GivesUpSound, StopsSound, RestartLooksSound, RestartAsksSound, RestartWaitsSound,
     StartsSessionSound, PromptLooksSound, PromptSendsSound DEF RequestStep
<1>4. QED
  BY <1>1, <1>2, <1>3, SessionMovesSound, TakesLateSound, ReloadSound DEF Next

LEMMA AlwaysSound == Spec => []RInv
  BY InitSound, StepSound, PTL DEF Spec

\* Types.
THEOREM RoutingTypes == Spec => []TypeOK
<1>1. RInv => TypeOK
  BY DEF RInv
<1>2. QED
  BY <1>1, AlwaysSound, PTL

\* A prompt is accepted once at most, by whatever way it comes.
THEOREM AtMostOnceAlways == Spec => []AtMostOnce
<1>1. RInv => AtMostOnce
  <2>1. SUFFICES ASSUME RInv, NEW c \in Request PROVE Len(given[c]) <= 1
    BY DEF AtMostOnce
  <2>2. given[c] = <<>> \/ \E s \in Session : given[c] = <<s>>
    BY <2>1 DEF RInv, Sound, IsGiven
  <2>3. CASE given[c] = <<>>
    BY <2>3
  <2>4. ASSUME NEW s \in Session, given[c] = <<s>>
        PROVE  Len(given[c]) <= 1
    BY <2>4
  <2>5. QED
    BY <2>2, <2>3, <2>4
<1>2. QED
  BY <1>1, AlwaysSound, PTL

\* While every session answers the lookups a channel has one session, and no
\* message ever reaches the session of another channel.
THEOREM ChannelsAlwaysApart == Spec => []ChannelsApart
<1>1. RInv => ChannelsApart
  <2>1. SUFFICES ASSUME RInv PROVE KeysApart
    BY DEF RInv, ChannelsApart
  <2>2. SUFFICES ASSUME NEW c \in Request, NEW i \in DOMAIN given[c], work[c].kind = "chat"
                 PROVE  Key(given[c][i]) \in {NoKey, work[c].key}
    BY DEF KeysApart
  <2>3. given[c] = <<>> \/ \E s \in Session : given[c] = <<s>> /\ MayTake(s, c)
    BY <2>1 DEF RInv, Sound, IsGiven
  <2>4. QED
    BY <2>2, <2>3 DEF MayTake
<1>2. QED
  BY <1>1, AlwaysSound, PTL

\* An :ok was accepted or has a session of its own; what was refused is
\* accepted by nobody, then or later.
THEOREM AnswersAlwaysHold == Spec => []AnswersHold
<1>1. RInv => AnswersHold
  BY DEF RInv, Sound, IsGiven, IsAnswered, AnswersHold, Prompting
<1>2. QED
  BY <1>1, AlwaysSound, PTL

\* The session started for a trigger has its taint when it takes the payload.
THEOREM AlwaysStartedTainted == Spec => []StartedTainted
<1>1. RInv => StartedTainted
  <2>1. SUFFICES ASSUME RInv, NEW c \in Request, NEW i \in DOMAIN given[c], given[c][i] = c
                 PROVE  work[c].taint <= taint[c]
    BY DEF StartedTainted
  <2>2. given[c] = <<>> \/ \E s \in Session : given[c] = <<s>>
    BY <2>1 DEF RInv, Sound, IsGiven
  <2>3. given[c] = <<c>>
    BY <2>1, <2>2
  <2>4. QED
    BY <2>1, <2>3 DEF RInv, Sound, IsTainted
<1>2. QED
  BY <1>1, AlwaysSound, PTL
=============================================================================
