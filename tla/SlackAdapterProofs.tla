------------------------ MODULE SlackAdapterProofs ------------------------
(***************************************************************************)
(* Proofs about SlackAdapter for every set of users and channels and every *)
(* scenario: any script of posts, any number of deaths, failures and       *)
(* revisions of the terms, and any order of tasks.                         *)
(***************************************************************************)
EXTENDS SlackAdapter, TLAPS

-----------------------------------------------------------------------------
\* Types of what consent depends on.

Consent == [status : {"none", "active", "revoked"}, version : Nat]
Spent == [posts : Nat, deaths : Nat, faults : Nat, revisions : Nat]
Event == [id : Nat, user : Users, what : Said, place : Channels \cup {Dm}]

ConsentTypes ==
    /\ scenario \in Scenarios
    /\ consent \in [Users -> Consent] /\ consentFile \in [Users -> Consent]
    /\ terms \in Nat \ {0}
    /\ agreed \in [Users -> Nat]
    /\ spent \in Spent
    /\ events \in Seq(Event)
    /\ \A t \in naming : t.user \in Users /\ t.what \in Said /\ t.place \in Channels \cup {Dm}
    /\ \E Sent : forwarded \in Seq(Sent)

\* Nobody has consented to terms that are still to come; and who has, to the
\* terms as they are, has agreed to them and is not barred.
Granted(saved) ==
    \A u \in Users :
        /\ saved[u].version <= terms
        /\ saved[u].status = "active" /\ saved[u].version = terms
              => agreed[u] = terms /\ u \notin barred

\* Whoever has an agreement on its way is not barred.
HeardAgain ==
    /\ \A i \in DOMAIN events : events[i].what = Agree => events[i].user \notin barred
    /\ \A t \in naming : t.what = Agree => t.user \notin barred

\* What was forwarded is one thing; memory and file are two, as a save may fail
\* and a start reads the file.
WillInv ==
    /\ ConsentTypes
    /\ Granted(consent) /\ Granted(consentFile)
    /\ HeardAgain
    /\ OnlyTheWilling

-----------------------------------------------------------------------------
LEMMA ScenarioIs ==
    ASSUME NEW s \in Scenarios
    PROVE  /\ s.script \in Seq(Post) /\ s.posts = Len(s.script)
           /\ s.posts \in Nat /\ s.deaths \in Nat /\ s.faults \in Nat /\ s.revisions \in Nat
<1>1. Bounded(s)
  BY ScenarioAssumption
<1>2. QED
  BY <1>1 DEF Bounded

LEMMA SpendIs ==
    ASSUME ConsentTypes
    PROVE  /\ Spend("posts") => spent' \in Spent /\ spent'.posts \in 1 .. scenario.posts
           /\ Spend("deaths") => spent' \in Spent
           /\ Spend("faults") => spent' \in Spent
           /\ Spend("revisions") => spent' \in Spent
<1>1. /\ scenario.posts \in Nat /\ scenario.deaths \in Nat /\ scenario.faults \in Nat
      /\ scenario.revisions \in Nat
  BY ScenarioIs DEF ConsentTypes
<1>2. spent \in Spent
  BY DEF ConsentTypes
<1>3. QED
  BY <1>1, <1>2 DEF Spend, Spent

LEMMA TailIs ==
    ASSUME NEW S, NEW s \in Seq(S), s # <<>>
    PROVE  /\ Tail(s) \in Seq(S) /\ Head(s) \in S
           /\ DOMAIN s = 1 .. Len(s) /\ DOMAIN Tail(s) = 1 .. Len(s) - 1
           /\ Len(s) \in Nat /\ Len(s) >= 1
           /\ Head(s) = s[1]
           /\ \A i \in 1 .. Len(s) - 1 : Tail(s)[i] = s[i + 1]
OBVIOUS

LEMMA AppendIs ==
    ASSUME NEW S, NEW s \in Seq(S), NEW e \in S
    PROVE  /\ Append(s, e) \in Seq(S)
           /\ DOMAIN s = 1 .. Len(s) /\ DOMAIN Append(s, e) = 1 .. Len(s) + 1
           /\ Len(s) \in Nat
           /\ \A i \in 1 .. Len(s) : Append(s, e)[i] = s[i]
           /\ Append(s, e)[Len(s) + 1] = e
OBVIOUS

LEMMA InitWill == Init => WillInv
<1> SUFFICES ASSUME Init PROVE WillInv
  OBVIOUS
<1>1. NoConsent \in Consent /\ NoConsent.status = "none" /\ NoConsent.version = 0
  BY DEF NoConsent, Consent
<1>2. \A u \in Users : consent[u] = NoConsent /\ consentFile[u] = NoConsent
  BY DEF Init
<1>3. Granted(consent) /\ Granted(consentFile)
  BY <1>1, <1>2 DEF Granted, Init
<1>4. events = <<>> /\ naming = {} /\ forwarded = <<>>
  BY DEF Init
<1>5. HeardAgain /\ OnlyTheWilling
  BY <1>4 DEF HeardAgain, OnlyTheWilling
<1>6. ConsentTypes
  <2>1. forwarded \in Seq({}) /\ events \in Seq(Event)
    BY <1>4
  <2>2. QED
    BY <1>1, <2>1 DEF ConsentTypes, Spent, Init
<1>7. QED
  BY <1>3, <1>5, <1>6 DEF WillInv

-----------------------------------------------------------------------------
\* The process and the terms.

consentVars == <<consentFile, terms, consent, agreed, barred, forwarded>>

\* The loader of channel bindings has nothing to do with consent.
LEMMA LoaderIs ==
    ASSUME ConsentTypes,
           \/ Fetched \/ FetchFails \/ BindExplicit \/ BindCached \/ CreateChannel \/ RememberMade
           \/ BindTaken \/ EnsureFails
    PROVE  /\ UNCHANGED consentVars /\ UNCHANGED <<scenario, events, naming>>
           /\ spent' \in Spent
<1>1. UNCHANGED loaderRest
  BY DEF Fetched, FetchFails, BindExplicit, BindCached, CreateChannel, RememberMade, BindTaken,
         Remember, EnsureFails
<1>2. UNCHANGED spent \/ Spend("faults")
  BY DEF Fetched, FetchFails, BindExplicit, BindCached, CreateChannel, RememberMade, BindTaken,
         Remember, EnsureFails
<1>3. QED
  BY <1>1, <1>2, SpendIs DEF loaderRest, consentVars, taskVars, dmGhosts, ConsentTypes

LEMMA QuietWill ==
    ASSUME WillInv, UNCHANGED consentVars, UNCHANGED <<scenario, events, naming>>,
           spent' \in Spent
    PROVE  WillInv'
BY DEF WillInv, consentVars, ConsentTypes, Granted, HeardAgain, OnlyTheWilling

LEMMA StartWill ==
    ASSUME WillInv, Start PROVE WillInv'
BY DEF Start, diskVars, taskVars, dmGhosts, WillInv, ConsentTypes, Granted, HeardAgain, OnlyTheWilling

LEMMA DieWill ==
    ASSUME WillInv, Die PROVE WillInv'
<1>1. spent' \in Spent
  BY SpendIs DEF Die, WillInv
<1>2. events' = <<>> /\ naming' = {} /\ events' \in Seq(Event)
  BY DEF Die, Fresh
<1>3. UNCHANGED consentVars /\ UNCHANGED scenario
  BY DEF Die, diskVars, dmGhosts, consentVars
<1>4. ConsentTypes'
  BY <1>1, <1>2, <1>3 DEF WillInv, ConsentTypes, consentVars
<1>5. HeardAgain'
  BY <1>2 DEF HeardAgain
<1>6. QED
  BY <1>3, <1>4, <1>5 DEF WillInv, Granted, OnlyTheWilling, consentVars

LEMMA ReviseWill ==
    ASSUME WillInv, ReviseTerms PROVE WillInv'
<1>1. spent' \in Spent
  BY SpendIs DEF ReviseTerms, WillInv
<1>2. /\ terms' = terms + 1
      /\ UNCHANGED <<scenario, consentFile, consent, agreed, barred, forwarded, events, naming>>
  BY DEF ReviseTerms, taskVars, dmGhosts
<1>3. ConsentTypes'
  BY <1>1, <1>2 DEF WillInv, ConsentTypes
<1>4. ASSUME NEW saved \in [Users -> Consent], Granted(saved)
      PROVE  \A u \in Users : saved[u].version <= terms' /\ saved[u].version # terms'
  <2>1. \A u \in Users : saved[u].version \in Nat /\ saved[u].version <= terms
    BY <1>4 DEF Granted, Consent
  <2>2. QED
    BY <1>2, <2>1 DEF WillInv, ConsentTypes
<1>5. Granted(consent)' /\ Granted(consentFile)'
  BY <1>2, <1>4 DEF WillInv, ConsentTypes, Granted
<1>6. QED
  BY <1>2, <1>3, <1>5 DEF WillInv, HeardAgain, OnlyTheWilling

-----------------------------------------------------------------------------
\* Slack's events.

LEMMA WriteWill ==
    ASSUME WillInv, Write PROVE WillInv'
<1>1. /\ spent' \in Spent
      /\ spent'.posts \in 1 .. scenario.posts
  BY SpendIs DEF Write, WillInv
<1>2. PICK post \in Post : post = scenario.script[spent'.posts]
  <2>1. /\ scenario.script \in Seq(Post) /\ scenario.posts = Len(scenario.script)
        /\ spent'.posts \in Nat
    BY <1>1, ScenarioIs DEF WillInv, ConsentTypes
  <2>2. spent'.posts \in 1 .. Len(scenario.script)
    BY <1>1, <2>1
  <2>3. QED
    BY <2>1, <2>2
<1>3. PICK e : e = [id |-> spent'.posts, user |-> post.user, what |-> post.what, place |-> post.place]
  OBVIOUS
<1>4. e \in Event /\ e.user = post.user /\ e.what = post.what
  BY <1>1, <1>2, <1>3 DEF Event, Post
<1>5. /\ events' = Append(events, e)
      /\ barred' = IF e.what = Agree THEN barred \ {e.user} ELSE barred
      /\ UNCHANGED <<scenario, terms, consentFile, consent, naming, forwarded, agreed>>
  BY <1>2, <1>3, <1>4 DEF Write, bindRest
<1>6. events \in Seq(Event)
  BY DEF WillInv, ConsentTypes
<1>7. /\ events' \in Seq(Event)
      /\ \A i \in DOMAIN events' : (i \in DOMAIN events /\ events'[i] = events[i]) \/ events'[i] = e
  BY <1>4, <1>5, <1>6, AppendIs
<1>8. ConsentTypes'
  BY <1>1, <1>5, <1>7 DEF WillInv, ConsentTypes
<1>9. HeardAgain'
  BY <1>5, <1>7 DEF WillInv, HeardAgain
<1>10. Granted(consent)' /\ Granted(consentFile)'
  BY <1>5 DEF WillInv, Granted
<1>11. QED
  BY <1>5, <1>8, <1>9, <1>10 DEF WillInv, OnlyTheWilling

LEMMA HandleWill ==
    ASSUME WillInv, Handle PROVE WillInv'
<1>1. PICK e : e = Head(events)
  OBVIOUS
<1>2. events \in Seq(Event) /\ events # <<>>
  BY DEF WillInv, ConsentTypes, Handle
<1>3. /\ e \in Event /\ 1 \in DOMAIN events /\ e = events[1] /\ Tail(events) \in Seq(Event)
      /\ \A i \in DOMAIN Tail(events) : i + 1 \in DOMAIN events /\ Tail(events)[i] = events[i + 1]
  BY <1>1, <1>2, TailIs
<1>4. e.user \in Users /\ e.what \in Said /\ e.place \in Channels \cup {Dm}
  BY <1>3 DEF Event
<1>5. PICK agent : agent = AgentOf(e)
  OBVIOUS
<1>6. PICK t : t = [id |-> e.id, user |-> e.user, what |-> e.what, place |-> e.place,
                    agent |-> agent, asks |-> e.user \notin names]
  OBVIOUS
<1>7. t.user = e.user /\ t.what = e.what /\ t.place = e.place
  BY <1>6
<1>8. /\ naming' = naming \/ naming' = naming \cup {t}
      /\ events' = Tail(events)
      /\ UNCHANGED consentVars /\ UNCHANGED <<scenario, spent>>
  BY <1>1, <1>5, <1>6 DEF Handle, dmGhosts, bindRest, consentVars
<1>9. ConsentTypes'
  BY <1>3, <1>4, <1>7, <1>8 DEF WillInv, ConsentTypes, consentVars
<1>10. HeardAgain'
  BY <1>3, <1>7, <1>8 DEF WillInv, HeardAgain, consentVars
<1>11. QED
  BY <1>8, <1>9, <1>10 DEF WillInv, Granted, OnlyTheWilling, consentVars

\* Consent that was changed, and saved or not.
LEMMA SavedIs ==
    ASSUME ConsentTypes, NEW ok \in BOOLEAN, Saved(ok)
    PROVE  /\ consentFile' = IF ok THEN consent' ELSE consentFile
           /\ spent' \in Spent
<1>1. CASE ok
  BY <1>1 DEF Saved, ConsentTypes
<1>2. CASE ~ok
  BY <1>2, SpendIs DEF Saved
<1>3. QED
  BY <1>1, <1>2

\* What a task does to consent. One that agrees is not barred, since it was on
\* its way when others revoked.
Decided ==
    /\ consent' \in [Users -> Consent] /\ consentFile' \in [Users -> Consent]
    /\ agreed' \in [Users -> Nat]
    /\ Granted(consent)' /\ Granted(consentFile)'
    /\ \A u \in Users : u \in barred' \ barred => ~InFlight(u, Agree)
    /\ spent' \in Spent

LEMMA AgreesWill ==
    ASSUME WillInv, UNCHANGED terms, NEW t \in naming, Agrees(t)
    PROVE  Decided /\ UNCHANGED forwarded
<1>1. /\ t.user \in Users /\ t.user \notin barred
      /\ consent \in [Users -> Consent] /\ consentFile \in [Users -> Consent]
      /\ terms \in Nat /\ agreed \in [Users -> Nat]
  BY DEF WillInv, ConsentTypes, HeardAgain, Agrees
<1>2. PICK new : new = [status |-> "active", version |-> terms]
  OBVIOUS
<1>3. new \in Consent /\ new.version = terms
  BY <1>1, <1>2 DEF Consent
<1>4. /\ consent' = [consent EXCEPT ![t.user] = new]
      /\ agreed' = [agreed EXCEPT ![t.user] = terms]
      /\ UNCHANGED <<forwarded, barred>>
  BY <1>2 DEF Agrees
<1>5. PICK ok \in BOOLEAN : Saved(ok)
  BY DEF Agrees
<1>6. /\ consent' \in [Users -> Consent] /\ agreed' \in [Users -> Nat]
      /\ \A u \in Users : /\ consent'[u] = IF u = t.user THEN new ELSE consent[u]
                          /\ agreed'[u] = IF u = t.user THEN terms ELSE agreed[u]
  BY <1>1, <1>3, <1>4
<1>7. Granted(consent)'
  BY <1>1, <1>3, <1>4, <1>6 DEF WillInv, Granted
<1>8. consentFile' = consent' \/ consentFile' = consentFile
  BY <1>5, SavedIs DEF WillInv
<1>9. Granted(consentFile)'
  <2>1. CASE consentFile' = consent'
    BY <1>7, <2>1 DEF Granted
  <2>2. CASE consentFile' = consentFile
    BY <1>1, <1>4, <1>6, <2>2 DEF WillInv, Granted
  <2>3. QED
    BY <1>8, <2>1, <2>2
<1>10. spent' \in Spent
  BY <1>5, SavedIs DEF WillInv
<1>11. QED
  BY <1>1, <1>4, <1>6, <1>7, <1>8, <1>9, <1>10 DEF Decided

LEMMA RevokesWill ==
    ASSUME WillInv, UNCHANGED terms, NEW t \in naming, Revokes(t)
    PROVE  Decided /\ UNCHANGED forwarded
<1>1. /\ t.user \in Users
      /\ consent \in [Users -> Consent] /\ consentFile \in [Users -> Consent]
      /\ terms \in Nat /\ agreed \in [Users -> Nat]
  BY DEF WillInv, ConsentTypes
<1>2. consent' = [consent EXCEPT ![t.user].status = "revoked"] /\ UNCHANGED forwarded
  BY DEF Revokes
<1>3. PICK ok \in BOOLEAN :
         /\ Saved(ok)
         /\ agreed' = IF ok THEN [agreed EXCEPT ![t.user] = 0] ELSE agreed
         /\ barred' = IF ok /\ ~InFlight(t.user, Agree) THEN barred \cup {t.user} ELSE barred
  BY DEF Revokes
<1>4. /\ consent' \in [Users -> Consent]
      /\ \A u \in Users : /\ consent'[u].version = consent[u].version
                          /\ u # t.user => consent'[u].status = consent[u].status
                          /\ u = t.user => consent'[u].status = "revoked"
  BY <1>1, <1>2 DEF Consent
<1>5. /\ agreed' \in [Users -> Nat]
      /\ \A u \in Users : u # t.user => agreed'[u] = agreed[u] /\ (u \in barred' => u \in barred)
      /\ ~ok => agreed' = agreed /\ barred' = barred
      /\ \A u \in Users : u \in barred' \ barred => ~InFlight(u, Agree)
  BY <1>1, <1>3
<1>6. Granted(consent)'
  BY <1>4, <1>5 DEF WillInv, Granted
<1>7. consentFile' = (IF ok THEN consent' ELSE consentFile) /\ spent' \in Spent
  BY <1>3, SavedIs DEF WillInv
<1>8. Granted(consentFile)'
  <2>1. CASE ok
    BY <1>6, <1>7, <2>1 DEF Granted
  <2>2. CASE ~ok
    BY <1>5, <1>7, <2>2 DEF WillInv, Granted
  <2>3. QED
    BY <2>1, <2>2
<1>9. QED
  BY <1>1, <1>2, <1>4, <1>5, <1>6, <1>7, <1>8 DEF Decided

\* What is forwarded was admitted, and so its author is willing.
LEMMA ForwardWill ==
    ASSUME WillInv, UNCHANGED terms, NEW t \in naming, Forward(t)
    PROVE  Decided /\ OnlyTheWilling' /\ \E Sent : forwarded' \in Seq(Sent)
<1>1. Decided
  BY DEF Forward, Decided, WillInv, ConsentTypes, Granted
<1>2. PICK m : m = [agent |-> t.agent, verified |-> t.place # Dm \/ t.user = Owner,
                    willing |-> t.place # Dm \/ t.user = Owner \/ Willing(t.user)]
  OBVIOUS
<1>3. forwarded' = Append(forwarded, m)
  BY <1>2 DEF Forward
<1>4. t.place # Dm \/ t.user = Owner \/ Willing(t.user)
  <2>1. t.user \in Users
    BY DEF WillInv, ConsentTypes
  <2>2. t.place # Dm \/ t.user = Owner \/ Consented(t.user)
    BY DEF Forward, Admitted
  <2>3. Consented(t.user) => Willing(t.user)
    BY <2>1 DEF Consented, Willing, WillInv, Granted
  <2>4. QED
    BY <2>2, <2>3
<1>5. m.willing
  BY <1>2, <1>4
<1>6. PICK Sent : forwarded \in Seq(Sent)
  BY DEF WillInv, ConsentTypes
<1>7. PICK All : All = Sent \cup {m}
  OBVIOUS
<1>8. forwarded \in Seq(All) /\ m \in All
  BY <1>6, <1>7
<1>9. /\ forwarded' \in Seq(All)
      /\ \A i \in DOMAIN forwarded' :
            (i \in DOMAIN forwarded /\ forwarded'[i] = forwarded[i]) \/ forwarded'[i] = m
  BY <1>3, <1>8, AppendIs
<1>10. OnlyTheWilling'
  BY <1>5, <1>9 DEF WillInv, OnlyTheWilling
<1>11. QED
  BY <1>1, <1>9, <1>10

LEMMA FinishWill ==
    ASSUME WillInv, Finish PROVE WillInv'
<1>1. PICK t \in naming :
         /\ naming' = naming \ {t}
         /\ Agrees(t) \/ Revokes(t) \/ Forward(t) \/ Dismiss(t)
  BY DEF Finish
<1>2. UNCHANGED <<terms, scenario, events>>
  BY DEF Finish, bindRest
<1>3. /\ Decided /\ OnlyTheWilling'
      /\ \E Sent : forwarded' \in Seq(Sent)
  <2>1. CASE Agrees(t)
    BY <1>2, <2>1, AgreesWill DEF WillInv, ConsentTypes, OnlyTheWilling
  <2>2. CASE Revokes(t)
    BY <1>2, <2>2, RevokesWill DEF WillInv, ConsentTypes, OnlyTheWilling
  <2>3. CASE Forward(t)
    BY <1>2, <2>3, ForwardWill
  <2>4. CASE Dismiss(t)
    <3>1. UNCHANGED <<consentFile, consent, forwarded, agreed, barred, spent>>
      BY <2>4 DEF Dismiss, dmGhosts
    <3>2. Decided
      BY <1>2, <3>1 DEF Decided, WillInv, ConsentTypes, Granted
    <3>3. QED
      BY <3>1, <3>2 DEF WillInv, ConsentTypes, OnlyTheWilling
  <2>5. QED
    BY <1>1, <2>1, <2>2, <2>3, <2>4
<1>4. ConsentTypes'
  BY <1>1, <1>2, <1>3 DEF WillInv, ConsentTypes, Decided
<1>5. HeardAgain'
  <2>1. \A i \in DOMAIN events : events[i].what = Agree => events[i].user \in Users
    <3>1. events \in Seq(Event)
      BY DEF WillInv, ConsentTypes
    <3>2. \A i \in DOMAIN events : events[i] \in Event
      BY <3>1
    <3>3. QED
      BY <3>2 DEF Event
  <2>2. \A i \in DOMAIN events : events[i].what = Agree => events[i].user \notin barred'
    BY <1>3, <2>1 DEF Decided, InFlight, WillInv, HeardAgain
  <2>3. \A x \in naming : x.what = Agree => x.user \notin barred'
    BY <1>3 DEF Decided, InFlight, WillInv, HeardAgain, ConsentTypes
  <2>4. QED
    BY <1>1, <1>2, <2>2, <2>3 DEF HeardAgain
<1>6. QED
  BY <1>3, <1>4, <1>5 DEF WillInv, Decided

-----------------------------------------------------------------------------
LEMMA StepWill ==
    ASSUME WillInv, [Next]_vars PROVE WillInv'
<1>1. CASE Connect \/ UNCHANGED vars
  BY <1>1, QuietWill
  DEF Connect, vars, diskVars, taskVars, dmGhosts, consentVars, WillInv, ConsentTypes
<1>2. CASE \/ Fetched \/ FetchFails \/ BindExplicit \/ BindCached \/ CreateChannel \/ RememberMade
           \/ BindTaken \/ EnsureFails
  BY <1>2, LoaderIs, QuietWill DEF WillInv
<1>3. QED
  BY <1>1, <1>2, StartWill, DieWill, ReviseWill, WriteWill, HandleWill, FinishWill DEF Next

\* No direct message of a user reaches an agent unless the user has agreed to
\* the terms as they are and, if told that the consent is revoked, has agreed
\* again since: in whatever order the tasks of events end, whichever saves fail,
\* and wherever the process dies. (_handle_message, has_valid_consent,
\* record_consent, revoke_consent)
THEOREM AlwaysTheWilling == Spec => []OnlyTheWilling
<1>1. Init => WillInv
  BY InitWill
<1>2. WillInv /\ [Next]_vars => WillInv'
  BY StepWill
<1>3. WillInv => OnlyTheWilling
  BY DEF WillInv
<1>4. QED
  BY <1>1, <1>2, <1>3, PTL DEF Spec
=============================================================================
