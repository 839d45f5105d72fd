------------------------- MODULE WorkspaceTerminal -------------------------
(***************************************************************************)
(* The terminal pane: every mount starts one chain of connect calls and    *)
(* reconnect timers, and a chain outlives its pane until it next looks.    *)
(***************************************************************************)
EXTENDS AttemptPage

VARIABLE chains     \* the chains alive, [gen, at]

TerminalInit == chains = {}

Sockets == {"opening", "open"}

\* unmountedRef and attemptRef: the chain's pane is on the screen.
Current(c) == Active(view) /\ c.gen = mounts
Step(c, at) == chains' = (chains \ {c}) \cup {[c EXCEPT !.at = at]}
Ends(c) == chains' = chains \ {c}
\* What every continuation asks before it goes on.
IfCurrent(c, at) == IF Current(c) THEN Step(c, at) ELSE Ends(c)

\* The cleanup closes the socket, and its onclose finds the pane gone.
CloseAll == {c \in chains : c.at \notin Sockets}

\* The effect and its cleanup, in the render that shows or removes the pane.
TerminalFollows ==
    chains' = (IF mounts' # mounts \/ ~Active(view') THEN CloseAll ELSE chains)
              \cup {[gen |-> g, at |-> "asking"] : g \in (mounts + 1) .. mounts'}

\* The attempt's environment, which a submission keeps until it is scored.
Live == status \in {"READY", "IN_PROGRESS", "SUBMITTED"}

\* POST /attempts/:id/connect: an attempt that has an environment gets a url.
Connect(c) ==
    /\ c.at = "asking"
    /\ \/ Live /\ Step(c, "told") /\ UNCHANGED pageVars
       \/ ~Live /\ Step(c, "refused") /\ UNCHANGED pageVars
       \/ /\ lost < MaxLost /\ lost' = lost + 1 /\ Step(c, "refused")
          /\ UNCHANGED <<status, view, fetch, check, calls, proved, mounts, moves, visits>>

connectTold_bug(c) == c.at = "told" /\ Step(c, "opening") /\ UNCHANGED pageVars

\* After the await: the socket is opened, for the pane that asked.
connectTold(c) == c.at = "told" /\ IfCurrent(c, "opening") /\ UNCHANGED pageVars

\* The gateway accepts while the environment lives, or closes.
SocketOpens(c) ==
    /\ c.at = "opening" /\ UNCHANGED pageVars
    /\ Step(c, IF Live THEN "open" ELSE "closed")

SocketDrops(c) ==
    /\ c.at = "open"
    /\ \/ ~Live /\ UNCHANGED pageVars
       \/ /\ lost < MaxLost /\ lost' = lost + 1
          /\ UNCHANGED <<status, view, fetch, check, calls, proved, mounts, moves, visits>>
    /\ Step(c, "closed")

\* onclose, and the catch of a refused connect.
scheduleReconnect(c) ==
    c.at \in {"closed", "refused"} /\ IfCurrent(c, "waiting") /\ UNCHANGED pageVars

\* The timer calls connect again, which first looks whether its pane is there.
Reconnect(c) == c.at = "waiting" /\ IfCurrent(c, "asking") /\ UNCHANGED pageVars

TerminalStep(c) ==
    \/ Connect(c) \/ connectTold(c) \/ SocketOpens(c) \/ SocketDrops(c)
    \/ scheduleReconnect(c) \/ Reconnect(c)

-----------------------------------------------------------------------------
(* Properties *)

\* WorkspaceTerminal.tsx, connect and the effect's cleanup: however the pane
\* comes and goes while a connect is awaited or a timer runs, the learner's
\* browser has at most one terminal socket, and it belongs to the pane on the
\* screen.
OneTerminal ==
    LET live == {c \in chains : c.at \in Sockets}
    IN Cardinality(live) <= 1 /\ \A c \in live : Current(c)
=============================================================================
