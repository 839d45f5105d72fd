---------------------------- MODULE AttemptPage ----------------------------
(***************************************************************************)
(* The browser's page of one attempt: the cached attempt it renders, the   *)
(* fetches that refresh it, and the calls its buttons make, beside the     *)
(* attempt's row at the server, which moves without telling the page.      *)
(***************************************************************************)
EXTENDS Integers, FiniteSets

CONSTANTS MaxMoves,     \* bound: moves of the row no click on this page made
          MaxLost,      \* bound: answers lost and pages reloaded
          MaxVisits     \* bound: times the learner leaves and comes back

ASSUME PageAssumption == MaxMoves \in Nat /\ MaxLost \in Nat /\ MaxVisits \in Nat

VARIABLES
    status,     \* practice_attempt.status
    view,       \* the status of the cached attempt; "loading", "missing"
    fetch,      \* the refresh under way: "idle", "asked", or its answer
    check,      \* checkResult: "none", "passing" or "failing"
    calls,      \* the requests the buttons made
    proved,     \* history: some check has found the work passing
    mounts,     \* history: times the workspace panes were mounted
    moves, lost, visits

pageVars == <<status, view, fetch, check, calls, proved, mounts, moves, lost, visits>>

\* PASSED, FAILED, COMPLETED and EVAL_FAILED are shown alike.
Evaluated == {"PASSED"}
Statuses == {"CREATED", "PROVISIONING", "PROVISION_FAILED", "READY", "IN_PROGRESS",
             "SUSPENDED", "SUBMITTED"} \cup Evaluated
\* isWorkspaceActive: the panes are rendered.
Active(v) == v = "IN_PROGRESS"

PageInit ==
    /\ status \in {"PROVISIONING", "IN_PROGRESS"}
    /\ view = "loading" /\ fetch = "asked" /\ check = "none" /\ calls = {}
    /\ proved = FALSE /\ mounts = 0 /\ moves = 0 /\ lost = 0 /\ visits = 0

-----------------------------------------------------------------------------
(* The cached attempt *)

\* A spinner polls, every 1500 ms; nothing else does.  A submission is scored
\* in SUBMITTED, so no page of this module shows EVALUATING.
refetchInterval == view \in {"PROVISIONING", "EVALUATING"}

Poll ==
    /\ refetchInterval /\ fetch = "idle" /\ fetch' = "asked"
    /\ UNCHANGED <<status, view, check, calls, proved, mounts, moves, lost, visits>>

\* The window gets the focus.
Focus ==
    /\ fetch = "idle" /\ fetch' = "asked"
    /\ UNCHANGED <<status, view, check, calls, proved, mounts, moves, lost, visits>>

\* GET /attempts/:id
Serve ==
    /\ fetch = "asked" /\ fetch' = status
    /\ UNCHANGED <<status, view, check, calls, proved, mounts, moves, lost, visits>>

Arrive ==
    /\ fetch \in Statuses
    /\ view' = fetch /\ fetch' = "idle"
    /\ mounts' = IF ~Active(view) /\ Active(fetch) THEN mounts + 1 ELSE mounts
    /\ UNCHANGED <<status, check, calls, proved, moves, lost, visits>>

\* The retries are used up: what was cached stays.
FetchFails ==
    /\ fetch \in {"asked"} \cup Statuses /\ lost < MaxLost
    /\ fetch' = "idle" /\ lost' = lost + 1
    /\ view' = IF view = "loading" THEN "missing" ELSE view
    /\ UNCHANGED <<status, check, calls, proved, mounts, moves, visits>>

-----------------------------------------------------------------------------
(* The buttons *)

Pending(kind) == \E c \in calls : c.kind = kind /\ c.from = "here"
Send(kind, silent) ==
    /\ calls' = calls \cup {[kind |-> kind, at |-> "sent", from |-> "here", silent |-> silent]}
    /\ UNCHANGED <<status, view, fetch, check, proved, mounts, moves, lost, visits>>

Start == view = "READY" /\ ~Pending("start") /\ Send("start", FALSE)

\* Each of the two buttons is off while either call runs.
Check == view = "IN_PROGRESS" /\ ~Pending("check") /\ ~Pending("submit") /\ Send("check", FALSE)

\* Only a check that passed goes through without window.confirm.
handleSubmit ==
    /\ view = "IN_PROGRESS" /\ ~Pending("check") /\ ~Pending("submit")
    /\ Send("submit", check = "passing")

onDismiss ==
    /\ view = "IN_PROGRESS" /\ check # "none" /\ check' = "none"
    /\ UNCHANGED <<status, view, fetch, calls, proved, mounts, moves, lost, visits>>

-----------------------------------------------------------------------------
(* The calls, at the server and on the way back *)

\* Nobody hears the answer to a check once its page is left, nor any after a
\* reload.
Heard(c) == c.at \in {"sent", "scoring"} \/ c.from = "here" \/ (c.from = "left" /\ c.kind # "check")
Turns(c, at) == calls' = (calls \ {c}) \cup {d \in {[c EXCEPT !.at = at]} : Heard(d)}
Leave(from) == calls' = {d \in {[c EXCEPT !.from = IF @ = "gone" THEN @ ELSE from] : c \in calls} : Heard(d)}

\* start is idempotent; check and submit want IN_PROGRESS.  A submission is
\* scored before it is answered.
Handle(c) ==
    /\ c.at = "sent"
    /\ \/ /\ c.kind = "start" /\ Turns(c, "ok")
          /\ status' = IF status = "READY" THEN "IN_PROGRESS" ELSE status
          /\ UNCHANGED proved
       \/ /\ c.kind = "check" /\ status = "IN_PROGRESS"
          /\ \/ Turns(c, "passing") /\ proved' = TRUE
             \/ Turns(c, "failing") /\ UNCHANGED proved
          /\ UNCHANGED status
       \/ /\ c.kind = "submit" /\ status = "IN_PROGRESS"
          /\ status' = "SUBMITTED" /\ Turns(c, "scoring") /\ UNCHANGED proved
       \/ /\ c.kind \in {"check", "submit"} /\ status # "IN_PROGRESS"
          /\ Turns(c, "error") /\ UNCHANGED <<status, proved>>
    /\ UNCHANGED <<view, fetch, check, mounts, moves, lost, visits>>

\* evaluate moves SUBMITTED to the verdict, or throws: on an error of its own,
\* or because the row has moved.
Score(c) ==
    /\ c.at = "scoring"
    /\ \/ /\ status = "SUBMITTED" /\ Turns(c, "ok")
          /\ status' \in Evaluated
       \/ Turns(c, "error") /\ UNCHANGED status
    /\ UNCHANGED <<view, fetch, check, proved, mounts, moves, lost, visits>>

useAttemptAction_bug(c) ==
    /\ c.kind \in {"start", "submit"} /\ c.at = "ok"
    /\ fetch' = IF c.from = "here" /\ fetch = "idle" THEN "asked" ELSE fetch
    /\ calls' = calls \ {c}
    /\ UNCHANGED <<status, view, check, proved, mounts, moves, lost, visits>>

\* onSuccess invalidates, also for a page that was left: a fetch under way is
\* cancelled and asked again.
useAttemptAction(c) ==
    /\ c.kind \in {"start", "submit"} /\ c.at = "ok"
    /\ fetch' = "asked" /\ calls' = calls \ {c}
    /\ UNCHANGED <<status, view, check, proved, mounts, moves, lost, visits>>

checkMutation(c) ==
    /\ c.kind = "check" /\ c.at \in {"passing", "failing"}
    /\ check' = c.at /\ calls' = calls \ {c}
    /\ UNCHANGED <<status, view, fetch, proved, mounts, moves, lost, visits>>

\* An error is rendered at most, and nothing is refetched.
Reject(c) ==
    /\ c.at = "error" /\ calls' = calls \ {c}
    /\ UNCHANGED <<status, view, fetch, check, proved, mounts, moves, lost, visits>>

\* The connection breaks: the server goes on (a submission is scored), the
\* page sees an error.
ReplyLost(c) ==
    /\ c.at \in {"ok", "passing", "failing", "error"} /\ lost < MaxLost
    /\ calls' = calls \ {c} /\ lost' = lost + 1
    /\ UNCHANGED <<status, view, fetch, check, proved, mounts, moves, visits>>

-----------------------------------------------------------------------------
(* The learner and the rest of the system *)

\* Away and back: a new component on the same cache.
Navigate ==
    /\ check' = "none" /\ Leave("left")
    /\ fetch' = IF fetch = "idle" THEN "asked" ELSE fetch
    /\ mounts' = IF Active(view) THEN mounts + 1 ELSE mounts
    /\ visits < MaxVisits /\ visits' = visits + 1
    /\ UNCHANGED <<status, view, proved, moves, lost>>

\* A new page: the cache is empty, the answers under way reach nobody.
Reload ==
    /\ lost < MaxLost /\ lost' = lost + 1
    /\ check' = "none" /\ view' = "loading" /\ fetch' = "asked" /\ Leave("gone")
    /\ UNCHANGED <<status, proved, mounts, moves, visits>>

\* Provisioning ends, the orchestrator takes the environment away, another tab
\* starts, submits or takes the attempt up again.
Elsewhere ==
    /\ moves < MaxMoves /\ moves' = moves + 1
    /\ status' \in CASE status = "PROVISIONING" -> {"READY", "PROVISION_FAILED"}
                     [] status = "READY" -> {"IN_PROGRESS"}
                     [] status = "IN_PROGRESS" -> {"SUSPENDED", "SUBMITTED"}
                     [] status = "SUBMITTED" -> {"SUSPENDED"} \cup Evaluated
                     [] status \in {"SUSPENDED", "PROVISION_FAILED"} -> {"CREATED"}
                     [] status = "CREATED" -> {"PROVISIONING"}
                     [] OTHER -> {}
    /\ UNCHANGED <<view, fetch, check, calls, proved, mounts, lost, visits>>

Answer(c) == useAttemptAction(c) \/ checkMutation(c) \/ Reject(c)

PageNext ==
    \/ Poll \/ Focus \/ Serve \/ Arrive \/ FetchFails
    \/ Navigate \/ Reload \/ Elsewhere

ButtonsNext ==
    \/ Start \/ Check \/ handleSubmit \/ onDismiss
    \/ \E c \in calls : Handle(c) \/ Score(c) \/ Answer(c) \/ ReplyLost(c)
=============================================================================
