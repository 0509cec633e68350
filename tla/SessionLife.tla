---------------------------- MODULE SessionLife ----------------------------
(***************************************************************************)
(* An agent session as the rest of the gateway sees it: where it is in its *)
(* life, which life may follow, and when it accepts a prompt. AgentSession *)
(* is shown to follow it; TriggerRouting is built on it.                   *)
(***************************************************************************)

\* "open" is :ready or :running. A "stopped" session has lost its container and
\* is still a registered process; a "gone" one has ended.
Life == {"starting", "open", "saving", "stopped", "gone"}

\* Those whose handle_call({:prompt, ...}) answers :ok.
Accepting == {"starting", "open"}

Registered == Life \ {"gone"}

\* What the loss of the container leaves.
Orphaned(mode) == IF mode = "reflection" THEN {} ELSE {"stopped"}

\* What may come next. A reflection session ends with its container; a session
\* that saves its memory goes back to work when an interrupted turn reports.
Successors(mode, life) ==
    CASE life = "starting" -> {"open", "gone"} \cup Orphaned(mode)
      [] life = "open"     -> {"saving", "gone"} \cup Orphaned(mode)
      [] life = "saving"   -> {"open", "gone"} \cup Orphaned(mode)
      [] life = "stopped"  -> {"gone"}
      [] OTHER             -> {}
=============================================================================
