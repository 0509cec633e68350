-------------------------- MODULE MCMatrixAdapter --------------------------
EXTENDS MatrixAdapter

CONSTANTS r1, r2, r3, r4, a1, ann, bob

Say(who, what) == [sender |-> who, kind |-> what]

\* One configured room, a quiet process.
Chat(script) ==
    [file |-> (r1 :> "main"), joined |-> {r1}, invited |-> {}, side |-> {}, script |-> script,
     posts |-> Len(script), deaths |-> 0, losses |-> 0, faults |-> 0, beats |-> 0, answers |-> 0]

MCScenarios ==
    \* people talk at once, with a file among the words, and the link is lost
    {[Chat(<<Say(ann, Text), Say(bob, Media), Say(ann, Text), Say(ann, Text)>>) EXCEPT !.losses = 1],
    \* two rooms
     [Chat(<<Say(ann, Text), Say(bob, Text), Say(ann, Media)>>) EXCEPT
        !.file = (r1 :> "main" @@ r2 :> "other"), !.joined = {r1, r2}],
    \* the agent answers into the conversation
     [Chat(<<Say(ann, Text), Say(ann, Aside), Say(bob, Text)>>) EXCEPT !.answers = 2],
    \* the process dies and starts again, or its sync fails
     [Chat(<<Say(ann, Text), Say(ann, Text)>>) EXCEPT !.deaths = 1, !.faults = 2],
    \* a room is created, beside one it was invited to and one it should not be in
     [Chat(<<Say(ann, Text)>>) EXCEPT !.file = (a1 :> "other" @@ r2 :> "main"), !.invited = {r2},
        !.deaths = 1, !.faults = 1, !.beats = 1]}
=============================================================================
