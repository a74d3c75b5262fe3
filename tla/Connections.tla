------------------------------ MODULE Connections ------------------------------
(***************************************************************************)
(* Retained transport authority (auth/connections.py).  A socket, a media  *)
(* session or a running turn is retained with the credential that opened   *)
(* it.  Lifecycle calls and the maintenance loop close what has lost its   *)
(* authority; a close can fail or hang, is given CLOSE_SECONDS, and        *)
(* concurrent callers share one attempt.                                   *)
(***************************************************************************)
EXTENDS FiniteSets

CONSTANTS Conns,     \* connections, each opened at most once
          Callers,   \* concurrent callers of disconnect_stale
          Tasks,     \* identities of close attempts (asyncio tasks)
          NoTask

ASSUME TaskNames == NoTask \notin Tasks /\ Conns # {}

VARIABLES
    conn,     \* per connection: use, held (in _connections), stale, retiring and its attempt
    task,     \* per attempt: the connection and how far it is
    caller    \* per caller: what it snapshotted, which attempts it awaits, what it reported

vars == <<conn, task, caller>>

\* A finished attempt either closed the transport, or failed, or was cancelled.
Done == {"closed", "failed"}

ConnType == [use : {"new", "open", "closed"}, held : BOOLEAN, stale : BOOLEAN,
             retiring : BOOLEAN, task : Tasks \cup {NoTask}]
TaskType == [conn : Conns, state : {"running", "cancelling"} \cup Done]
\* owed: what had lost its authority and was open at the call; it only serves the properties.
CallerType == [todo : SUBSET Conns, await : [Conns -> Tasks \cup {NoTask}], failed : BOOLEAN,
               report : {"none", "pending", "success", "error"}, owed : SUBSET Conns]

\* Connections, attempts and callers are always one of the shapes above.
TypeOK ==
    /\ conn \in [Conns -> ConnType]
    /\ task \in [Tasks -> TaskType]
    /\ caller \in [Callers -> CallerType]

\* An attempt nobody refers to; its identity can be used again.
Spent == [conn |-> CHOOSE c \in Conns : TRUE, state |-> "failed"]

Init ==
    /\ conn = [c \in Conns |-> [use |-> "new", held |-> FALSE, stale |-> FALSE,
                                retiring |-> FALSE, task |-> NoTask]]
    /\ task = [t \in Tasks |-> Spent]
    /\ caller = [k \in Callers |-> [todo |-> {}, await |-> [c \in Conns |-> NoTask],
                                    failed |-> FALSE, report |-> "none", owed |-> {}]]

-----------------------------------------------------------------------------
\* retain: the principal was checked in the same step.
Retain(c) ==
    /\ conn[c].use = "new" /\ ~conn[c].stale
    /\ conn' = [conn EXCEPT ![c].use = "open", ![c].held = TRUE]
    /\ UNCHANGED <<task, caller>>

\* The credential behind the connection is retired; CredentialStore.current turns false.
Revoked(c) ==
    /\ conn[c].use = "open" /\ ~conn[c].stale
    /\ conn' = [conn EXCEPT ![c].stale = TRUE]
    /\ UNCHANGED <<task, caller>>

\* Mutant of Released: the entry goes although its teardown is under way.
ReleasedAlways(c) ==
    [conn EXCEPT ![c].held = FALSE, ![c].use = IF conn[c].retiring THEN @ ELSE "closed"]

\* release: an entry that is being retired stays until the attempt succeeds.
Released(c) ==
    IF conn[c].retiring THEN conn
    ELSE [conn EXCEPT ![c].held = FALSE, ![c].use = "closed"]

\* The handler of the connection ends by itself and releases it.
Release(c) ==
    /\ conn[c].use = "open" /\ conn[c].held
    /\ conn' = Released(c)
    /\ UNCHANGED <<task, caller>>

-----------------------------------------------------------------------------
\* disconnect_stale: the snapshot of what is retained without authority.
Call(k) ==
    LET stale == {c \in Conns : conn[c].held /\ conn[c].stale}
    IN  /\ caller[k].report # "pending"
        /\ stale # {}
        /\ caller' = [caller EXCEPT ![k] =
              [todo |-> stale, await |-> [c \in Conns |-> NoTask], failed |-> FALSE, report |-> "pending",
               owed |-> {c \in Conns : conn[c].use = "open" /\ conn[c].stale}]]
        /\ UNCHANGED <<conn, task>>

\* A call that finds nothing to close reports success at once.
CallIdle(k) ==
    /\ caller[k].report # "pending"
    /\ ~\E c \in Conns : conn[c].held /\ conn[c].stale
    /\ caller' = [caller EXCEPT ![k].report = "success",
                                ![k].owed = {c \in Conns : conn[c].use = "open" /\ conn[c].stale}]
    /\ UNCHANGED <<conn, task>>

Unused(t) == \A c \in Conns : conn[c].task # t /\ \A k \in Callers : caller[k].await[c] # t

\* gather starts the close of c: join the attempt under way or begin one.
Join(k, c) ==
    /\ c \in caller[k].todo
    /\ \E t \in Tasks :
          /\ IF conn[c].task = NoTask
             THEN /\ Unused(t)
                  /\ task' = [task EXCEPT ![t] = [conn |-> c, state |-> "running"]]
             ELSE t = conn[c].task /\ UNCHANGED task
          /\ conn' = [conn EXCEPT ![c].retiring = TRUE, ![c].task = t]
          /\ caller' = [caller EXCEPT ![k].todo = @ \ {c}, ![k].await[c] = t]

\* The close callback returns, raises, or is cancelled; it may also ignore its cancellation.
Finish(t, outcome) ==
    LET c == task[t].conn
    IN  /\ task[t].state \in {"running", "cancelling"}
        /\ outcome \in Done
        /\ task' = [task EXCEPT ![t].state = outcome]
        /\ conn' = IF outcome = "closed" THEN [conn EXCEPT ![c].use = "closed"] ELSE conn
        /\ UNCHANGED caller

\* A close that did not succeed leaves the entry retained, to be tried again.
TimedOut(c) == [conn EXCEPT ![c].held = TRUE]

\* CLOSE_SECONDS pass first: the attempt is cancelled, not forgotten.
Timeout(k, c) ==
    LET t == caller[k].await[c]
    IN  /\ t # NoTask /\ task[t].state \notin Done
        /\ task' = [task EXCEPT ![t].state = "cancelling"]
        /\ conn' = TimedOut(c)
        /\ caller' = [caller EXCEPT ![k].await[c] = NoTask, ![k].failed = TRUE]

\* The waiter resumes: the first one clears the attempt, success discards the entry.
Wake(k, c) ==
    \E t \in Tasks :
        /\ t = caller[k].await[c] /\ task[t].state \in Done
        /\ conn' = [conn EXCEPT ![c].task = IF conn[c].task = t THEN NoTask ELSE @,
                                ![c].held = task[t].state = "failed"]
        /\ caller' = [caller EXCEPT ![k].await[c] = NoTask,
                                    ![k].failed = @ \/ task[t].state = "failed"]
        /\ task' = [task EXCEPT ![t] = IF Unused(t)' THEN Spent ELSE task[t]]

\* Mutant of Outcome: the results of gather are not looked at.
OutcomeIgnored(k) == "success"

Outcome(k) == IF caller[k].failed THEN "error" ELSE "success"

Return(k) ==
    /\ caller[k].report = "pending" /\ caller[k].todo = {}
    /\ \A c \in Conns : caller[k].await[c] = NoTask
    /\ caller' = [caller EXCEPT ![k].report = Outcome(k), ![k].failed = FALSE,
                                ![k].owed = IF Outcome(k) = "success" THEN @ ELSE {}]
    /\ UNCHANGED <<conn, task>>

Next ==
    \/ \E c \in Conns : Retain(c) \/ Revoked(c) \/ Release(c)
    \/ \E k \in Callers : Call(k) \/ CallIdle(k) \/ Return(k)
    \/ \E k \in Callers, c \in Conns : Join(k, c) \/ Timeout(k, c) \/ Wake(k, c)
    \/ \E t \in Tasks, outcome \in Done : Finish(t, outcome)

Spec == Init /\ [][Next]_vars

\* The maintenance loop calls again and again, the event loop resumes what is ready, timers
\* fire; a transport that is told to close again and again closes in the end.
FairSpec ==
    /\ Spec
    /\ \A k \in Callers : WF_vars(Call(k)) /\ WF_vars(Return(k))
    /\ \A k \in Callers, c \in Conns : WF_vars(Join(k, c)) /\ WF_vars(Timeout(k, c) \/ Wake(k, c))
    /\ \A c \in Conns : SF_vars(\E t \in Tasks : task[t].conn = c /\ Finish(t, "closed"))

-----------------------------------------------------------------------------
\* disconnect_stale reports success only when everything that was open without authority at
\* the call is closed, also what another caller was closing at that time ("so neither can
\* report success while another caller is still closing authority").
SuccessMeansClosed ==
    \A k \in Callers : caller[k].report = "success" => \A c \in caller[k].owed : conn[c].use = "closed"

\* An open transport is never forgotten: whatever attempts failed, timed out or were shared, it
\* is still retained for the next caller (release, disconnect_stale).
OpenIsRetained == \A c \in Conns : conn[c].use = "open" => conn[c].held

\* "Keep a noncooperative attempt instead of accumulating duplicate tasks" (Teardown.run).
OneAttempt ==
    \A t, u \in Tasks : task[t].state \notin Done /\ task[u].state \notin Done
                        /\ task[t].conn = task[u].conn => t = u

\* Every transport that lost its authority is closed in the end (maintenance loop).
StaleIsClosed == \A c \in Conns : (conn[c].use = "open" /\ conn[c].stale) ~> (conn[c].use = "closed")
=============================================================================
