--------------------------- MODULE MCSlackAdapter ---------------------------
EXTENDS SlackAdapter

CONSTANTS owner, ann, bob, c1, c2, c3, c4

Repository(by, name) == [owner |-> by, name |-> name]
Served(agent, repo) == [agent |-> agent, repo |-> repo, channel |-> Nothing]
Pinned(agent, channel) ==
    [agent |-> agent, repo |-> Repository("none", "none"), channel |-> channel]
Says(user, what) == [user |-> user, what |-> what, place |-> Dm]
In(channel, user, what) == [user |-> user, what |-> what, place |-> channel]

Workspace(bindings, script) ==
    [bindings |-> bindings, taken |-> <<>>, script |-> script, posts |-> Len(script),
     deaths |-> 0, faults |-> 0, revisions |-> 0]

MCScenarios ==
    \* a user agrees, revokes and writes on; the process dies, the terms change
    {[Workspace(<<>>, <<Says(ann, Words), Says(ann, Agree), Says(ann, Words), Says(ann, Revoke),
                        Says(ann, Words), Says(ann, Agree)>>) EXCEPT !.deaths = 1, !.faults = 1],
     [Workspace(<<>>, <<Says(ann, Agree), Says(ann, Words), Says(ann, Revoke), Says(ann, Words)>>)
        EXCEPT !.deaths = 2, !.faults = 1, !.revisions = 1],
    \* two users and the owner
     Workspace(<<>>, <<Says(ann, Agree), Says(owner, Agree), Says(bob, Words), Says(ann, Words),
                       Says(owner, Words), Says(bob, Revoke), Says(ann, Command)>>),
    \* two repositories of one name, and an agent with a channel of its own
     [Workspace(<<Served("left", Repository("me", "site")), Served("right", Repository("you", "site")),
                  Pinned("desk", c1)>>, <<In(c1, bob, Words), In(c2, ann, Agree)>>)
        EXCEPT !.deaths = 2, !.faults = 1],
    \* one repository for two agents, and names that are taken
     [Workspace(<<Served("left", Repository("me", "site")), Served("right", Repository("me", "site")),
                  Served("other", Repository("me", "tool"))>>, <<>>)
        EXCEPT !.taken = (<<"site">> :> c1 @@ <<"tool">> :> Nothing), !.deaths = 2],
    \* two agents pinned to one channel, which a third finds by its name
     [Workspace(<<Pinned("desk", c1), Pinned("bench", c1), Served("left", Repository("me", "site"))>>, <<>>)
        EXCEPT !.taken = (<<"site">> :> c1), !.deaths = 1]}
=============================================================================
