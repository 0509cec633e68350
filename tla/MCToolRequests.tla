--------------------------- MODULE MCToolRequests ---------------------------
EXTENDS ToolRequests, TLC

CONSTANTS c1, c2, c3

Calling(first, second, third) == c1 :> first @@ c2 :> second @@ c3 :> third
Quiet == [adapters |-> <<>>, votes |-> 0, losses |-> 0, restarts |-> 0, queues |-> 0,
          interrupts |-> 0, kills |-> 0]
Of(tools, rest) == [tools |-> tools] @@ rest

\* Two calls of each tool that waits for nobody, with an interrupt and a death.
Plain == {Of(Calling(tool, tool, NoTool), [Quiet EXCEPT !.interrupts = 1, !.kills = 1]) :
            tool \in Tools \ {SendEmail, GitHub, Respond, Publish}}

\* One mail with all that can happen to its approval, and two mails.
Chats == {<<"matrix">>, <<"slack">>, <<"slack", "matrix">>}
Mails == {Of(Calling(SendEmail, NoTool, NoTool),
             [Quiet EXCEPT !.adapters = chats, !.votes = 2, !.losses = 1, !.restarts = 1,
                           !.queues = 1, !.kills = 1]) : chats \in Chats}
         \cup {Of(Calling(SendEmail, SendEmail, NoTool),
                  [Quiet EXCEPT !.adapters = <<"slack">>, !.votes = 2])}

\* The ledger past its end; tools that share a queue.
MCScenarios ==
    Plain \cup Mails
    \cup {Of(Calling(SubmitItem, SubmitItem, SubmitItem), Quiet),
          Of(Calling(GitHub, GitHub, NoTool), [Quiet EXCEPT !.adapters = <<"slack">>, !.votes = 1]),
          Of(Calling(Respond, Respond, NoTool), [Quiet EXCEPT !.adapters = <<"matrix">>, !.votes = 1]),
          Of(Calling(Respond, Publish, NoTool), [Quiet EXCEPT !.adapters = <<"matrix">>, !.votes = 1])}
=============================================================================
