------------------------------- MODULE Client -------------------------------
(***************************************************************************)
(* The attempt page with one part of what it shows: its buttons, or a pane *)
(* of the workspace.  The parts come and go with the status the page shows *)
(* and share nothing else, so each is taken beside the page on its own,    *)
(* the others being to it what another tab is: `pane` says which.          *)
(***************************************************************************)
EXTENDS WorkspaceTerminal, WorkspaceEditor, HintPanel

CONSTANT Beside     \* bounds: part -> the moves and the losses of the page beside it

VARIABLE pane       \* "buttons", "terminal", "editor" or "hints" (never changes)

vars == <<pageVars, chains, editorVars, hintVars, pane>>

Init ==
    /\ PageInit /\ TerminalInit /\ EditorInit /\ HintInit
    /\ pane \in {"buttons", "terminal", "editor", "hints"}

\* The part of the pane that is there follows the page.
Follows ==
    /\ IF pane = "terminal" THEN TerminalFollows ELSE UNCHANGED chains
    /\ IF pane = "editor" THEN EditorFollows ELSE UNCHANGED editorVars
    /\ IF pane = "hints" THEN HintFollows ELSE UNCHANGED hintVars
    /\ UNCHANGED pane

TerminalActs(c) == pane = "terminal" /\ TerminalStep(c) /\ UNCHANGED <<editorVars, hintVars, pane>>

Next ==
    \/ PageNext /\ Follows /\ moves' <= Beside[pane].moves /\ lost' <= Beside[pane].lost
    \/ pane = "buttons" /\ ButtonsNext /\ UNCHANGED <<chains, editorVars, hintVars, pane>>
    \/ \E c \in chains : TerminalActs(c)
    \/ pane = "editor" /\ EditorNext /\ UNCHANGED <<chains, hintVars, pane>>
    \/ pane = "hints" /\ HintNext /\ UNCHANGED <<chains, editorVars, pane>>

\* A poll's timer, a request on the wire and a callback that is due happen;
\* a click, the focus and a move of the row may not.
Fairness ==
    /\ WF_vars((Poll \/ Serve \/ Arrive) /\ Follows)
    /\ WF_vars(/\ \E c \in calls : c.kind = "submit" /\ useAttemptAction(c)
               /\ UNCHANGED <<chains, editorVars, hintVars, pane>>)
    /\ WF_vars(\E c \in chains : TerminalActs(c))

Spec == Init /\ [][Next]_vars /\ Fairness

-----------------------------------------------------------------------------
(* Properties *)

\* HintPanel.tsx, "stating the score cost", and handleSubmit of page.tsx: what
\* costs the learner is asked for.  The hint one gets costs what the button
\* said, for a panel that stayed mounted, lost no answer and shares the task
\* with no other tab; and no submission leaves without a question unless a
\* check, some time, did find every required task passing.
CostIsAskedFor ==
    /\ clean => \A c \in charged : c.level = c.agreed
    /\ (\E c \in calls : c.kind = "submit" /\ c.silent) => proved

\* What the page waits for comes.  page.tsx, refetchInterval: when the row has
\* moved on, the spinner ends.  use-attempt-action.ts, onSuccess: a submission
\* that was scored ends with the verdict on the screen, if nothing is lost on
\* the way, also when the learner has left the page and come back.
\* WorkspaceTerminal.tsx, scheduleReconnect: while the attempt is worked on,
\* the terminal is open again and again, whatever was refused or dropped.
WaitsEnd ==
    /\ (view = "PROVISIONING" /\ status # view) ~> (view # "PROVISIONING" \/ status = view)
    /\ (\E c \in calls : c.kind = "submit" /\ c.at = "ok") ~> (view \in Evaluated \/ lost > 0)
    /\ (pane = "terminal" /\ Active(view) /\ status = "IN_PROGRESS") ~>
         ((\E c \in chains : c.at = "open") \/ ~Active(view) \/ status # "IN_PROGRESS")
=============================================================================
