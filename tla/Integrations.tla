---------------------------- MODULE Integrations ----------------------------
(***************************************************************************)
(* Enrollment of agent integrations (provisioning/integration.py) and the  *)
(* registry agents are routed by (agents/registry.py).  What an agent may  *)
(* do is in authz.json, where to route is in agents.json; the two files    *)
(* are written one after the other, and every write may fail or be the     *)
(* last one of its process.                                                *)
(*                                                                         *)
(* A call holds the store's lock from its load to its last write, so that  *)
(* one call is under way at a time, of the server or of the console; what  *)
(* the process keeps in memory is what it loaded.  The registry's memory   *)
(* is the file, apart from rows a failed pruning left behind, which _valid *)
(* hides.  CredentialStore models the writing of authz.json itself.        *)
(***************************************************************************)
EXTENDS Naturals, FiniteSets

CONSTANTS Ids,             \* enrollment requests; each names the agent int_<id>
          Direct,          \* the builtin agent
          None,            \* no agent
          Origins,         \* public origins the server may be configured with
          MaxAttempts,     \* 5: wrong user codes
          UnissuedLimit,   \* 64: requests without a credential
          RowLimit,        \* LIMIT, all requests
          MaxEvents        \* budget of what comes from outside: the owner, time, failures, deaths

ASSUME AgentsAssumption == Direct \notin Ids /\ None \notin Ids \cup {Direct}
ASSUME LimitsAssumption == {MaxAttempts, UnissuedLimit, RowLimit, MaxEvents} \subseteq Nat

Open == {"pending", "approved", "delivered"}
Ended == {"denied", "cancelled", "failed", "expired", "stale", "revoked"}
\* The credential of an enrollment, and the one a rotation replaces it with.
Creds == Ids \X {"enrolled", "rotated"}

VARIABLES
    authz,   \* authz.json, as far as integrations go
    agents,  \* agents.json: the agents and the selection
    late,    \* requests past expires_at
    server,  \* "up", "starting" or "down"
    origin,  \* its public origin
    call,    \* the call that holds the lock: its next write, and what it commits
    events
vars == <<authz, agents, late, server, origin, call, events>>

NoRow == [state |-> "none", attempts |-> 0, owner |-> 0, origin |-> None, credential |-> FALSE]
Empty == [row |-> [i \in Ids |-> NoRow], issued |-> {}, enabled |-> {}, blocked |-> {},
          owner |-> 0, origin |-> None, lifecycle |-> FALSE]
Idle == [at |-> "idle", agent |-> None, failed |-> FALSE, to |-> Empty]

Init ==
    /\ origin \in Origins
    /\ authz = [Empty EXCEPT !.origin = origin]
    /\ agents = [rows |-> {Direct}, active |-> Direct]
    /\ late = {}
    /\ server = "up"
    /\ call = Idle
    /\ events = 0

Event == events < MaxEvents /\ events' = events + 1

-----------------------------------------------------------------------------
\* authz.json.

\* usable(), for a credential of an integration.
Usable(x, c) ==
    /\ c \in x.enabled \ x.blocked
    /\ c[2] = "enrolled" => x.row[c[1]].state = "completed"
\* integration_agent_valid.
Valid(x, i) ==
    /\ x.row[i].state = "completed"
    /\ \E c \in Creds : c[1] = i /\ c \in x.issued /\ Usable(x, c)
Available(x, a) == a = Direct \/ (a \in Ids /\ Valid(x, a))

Retired(x, cs) == [x EXCEPT !.blocked = @ \cup cs, !.enabled = @ \ cs, !.lifecycle = @ \/ cs # {}]

\* sweep: the state a row is due for.
Due(x, i) ==
    LET r == x.row[i]
        mine == {c \in x.issued : c[1] = i}
    IN  IF r.state = "completed" /\ mine # {} /\ mine \subseteq x.blocked THEN "revoked"
        ELSE IF r.state \notin Open THEN r.state
        ELSE IF r.credential /\ <<i, "enrolled">> \in x.blocked THEN "revoked"
        ELSE IF i \in late THEN "expired"
        ELSE IF r.owner # x.owner \/ r.origin # origin THEN "stale"
        ELSE r.state
Swept(x) ==
    LET ended == {i \in Ids : x.row[i].state \in Open /\ Due(x, i) \notin Open}
    IN  [Retired(x, {c \in x.issued : c[1] \in ended})
            EXCEPT !.row = [i \in Ids |-> [@[i] EXCEPT !.state = Due(x, i)]]]

\* The row of a new request, after expired ones without a credential were dropped.
Kept(x, i) == x.row[i].state # "none" /\ (x.row[i].credential \/ i \notin late)
Pruned(x) == [x EXCEPT !.row = [i \in Ids |-> IF Kept(x, i) THEN @[i] ELSE NoRow]]
Requested(x, i) ==
    [x EXCEPT !.row[i] = [NoRow EXCEPT !.state = "pending", !.owner = x.owner, !.origin = origin]]

-----------------------------------------------------------------------------
\* agents.json.

\* A mutant: registering again starts over.
RegisteredAnew(f, i) == [rows |-> f.rows \cup {i}, active |-> IF f.active = i THEN None ELSE f.active]

\* register: a row that exists, and the selection, stay as they are.
Registered(f, i) == [f EXCEPT !.rows = @ \cup {i}]

\* A mutant: the selection is kept.
RetainedSelection(f, x) == [f EXCEPT !.rows = {a \in @ : Available(x, a)}]

\* retire_invalid.
Retained(f, x) ==
    LET rows == {a \in f.rows : Available(x, a)}
    IN  [rows |-> rows, active |-> IF f.active \in rows THEN f.active ELSE None]

-----------------------------------------------------------------------------
\* Calls.  Each begins with a sweep: what is due is committed by Sweep before anything else.

Free == call.at = "idle"
Serving == server = "up" /\ Free
Begins == Serving /\ Swept(authz) = authz
Commit(x) == call' = [Idle EXCEPT !.at = "commit", !.to = x]
Unchanged == UNCHANGED <<authz, agents, late, server, origin>>

Sweep ==
    /\ Serving /\ Swept(authz) # authz
    /\ Commit(Swept(authz))
    /\ Unchanged /\ UNCHANGED events

Request(i) ==
    /\ Begins
    /\ authz.row[i].state = "none" \/ ~Kept(authz, i)
    /\ LET x == Pruned(authz)
           rows == {j \in Ids : x.row[j].state # "none"}
       IN  /\ Cardinality({j \in rows : ~x.row[j].credential}) < UnissuedLimit
           /\ Cardinality(rows) < RowLimit
           /\ Commit(Requested(x, i))
    /\ late' = late \ {i}
    /\ UNCHANGED <<authz, agents, server, origin, events>>

Approve(i) ==
    /\ Begins
    /\ authz.row[i].state \in {"pending", "approved"}
    /\ Commit([authz EXCEPT !.row[i].state = "approved"])
    /\ Unchanged /\ UNCHANGED events

WrongCode(i) ==
    /\ Begins
    /\ authz.row[i].state \in {"pending", "approved"}
    /\ LET r == authz.row[i]
       IN  Commit([authz EXCEPT !.row[i] = [r EXCEPT
                     !.attempts = r.attempts + 1,
                     !.state = IF r.attempts + 1 >= MaxAttempts THEN "failed" ELSE r.state]])
    /\ Unchanged /\ UNCHANGED events

\* deny by the owner, cancel by the client.
Withdraw(i, target) ==
    /\ Begins
    /\ authz.row[i].state \in Open
    /\ Commit([Retired(authz, {c \in authz.issued : c[1] = i}) EXCEPT !.row[i].state = target])
    /\ Unchanged /\ UNCHANGED events

\* The only time the credential is handed out.  It is not enabled yet.
Deliver(i) ==
    /\ Begins
    /\ authz.row[i].state = "approved"
    /\ Commit([authz EXCEPT !.row[i] = [authz.row[i] EXCEPT !.state = "delivered", !.credential = TRUE],
                            !.issued = @ \cup {<<i, "enrolled">>}])
    /\ Unchanged /\ UNCHANGED events

Completed(x, i) ==
    [x EXCEPT !.row[i].state = "completed", !.enabled = @ \cup {<<i, "enrolled">>}]

\* The client has saved the credential, or asks again because it did not hear the answer.
Ack(i) ==
    /\ Begins
    /\ authz.row[i].credential /\ <<i, "enrolled">> \notin authz.blocked
    /\ \/ /\ authz.row[i].state = "delivered"
          /\ call' = [Idle EXCEPT !.at = "register", !.agent = i, !.to = Completed(authz, i)]
       \/ /\ authz.row[i].state = "completed"
          /\ call' = [Idle EXCEPT !.at = "reregister", !.agent = i]
    /\ Unchanged /\ UNCHANGED events

\* The lifecycle rotates an agent's credential, which ends the old one, or revokes the agent.
Rotate(i) ==
    /\ Begins /\ Event
    /\ Usable(authz, <<i, "enrolled">>)
    /\ Commit([Retired(authz, {<<i, "enrolled">>}) EXCEPT !.issued = @ \cup {<<i, "rotated">>},
                                                          !.enabled = (@ \ {<<i, "enrolled">>}) \cup {<<i, "rotated">>}])
    /\ Unchanged
Revoke(i) ==
    /\ Begins /\ Event
    /\ \E c \in authz.issued : c[1] = i /\ Usable(authz, c)
    /\ Commit(Retired(authz, {c \in authz.issued : c[1] = i}))
    /\ Unchanged

\* The owner claims or recovers the server, at the console or in the browser.
OwnerChanges ==
    /\ Free /\ server # "starting" /\ Event
    /\ Commit([authz EXCEPT !.owner = @ + 1])
    /\ Unchanged

\* activate runs between two calls of its server; a console's call changes nothing it looks at.
Activate(a) ==
    /\ Serving
    /\ a \in agents.rows /\ Available(authz, a)
    /\ agents' = [agents EXCEPT !.active = a]
    /\ UNCHANGED <<authz, late, server, origin, call, events>>

-----------------------------------------------------------------------------
\* The writes of a call.

\* What follows the last write: an answer, or at the start the next thing to do.  A start ends
\* with a failure.
Continues(x) ==
    IF server # "starting" THEN call' = Idle /\ UNCHANGED server
    ELSE IF call.failed THEN call' = Idle /\ server' = "down"
    ELSE /\ call' = IF Swept(x) = x THEN [Idle EXCEPT !.at = "check"]
                    ELSE [Idle EXCEPT !.at = "commit", !.to = Swept(x)]
         /\ UNCHANGED server

\* agents.json is written first, so that no authority is without its row.
Registers ==
    /\ call.at \in {"register", "reregister"}
    /\ agents' = Registered(agents, call.agent)
    /\ call' = IF call.at = "register" THEN [call EXCEPT !.at = "commit"] ELSE Idle
    /\ UNCHANGED <<authz, late, server, origin, events>>
RegisterFails ==
    /\ call.at \in {"register", "reregister"}
    /\ Event
    /\ agents' \in {agents, Registered(agents, call.agent)}
    /\ call' = Idle
    /\ UNCHANGED <<authz, late, server, origin>>

Commits ==
    /\ call.at = "commit"
    /\ authz' = call.to
    /\ call' = [call EXCEPT !.at = "prune"]
    /\ UNCHANGED <<agents, late, server, origin, events>>
\* Before or after the rename; the registry is pruned by what is visible now.
CommitFails ==
    /\ call.at = "commit"
    /\ Event
    /\ authz' \in {authz, call.to}
    /\ call' = [call EXCEPT !.at = "prune", !.failed = TRUE]
    /\ UNCHANGED <<agents, late, server, origin>>

Prunes ==
    /\ call.at = "prune"
    /\ agents' = Retained(agents, authz)
    /\ Continues(authz)
    /\ UNCHANGED <<authz, late, origin, events>>
PruneFails ==
    /\ call.at = "prune"
    /\ Event
    /\ agents' \in {agents, Retained(agents, authz)}
    /\ call' = Idle
    /\ server' = IF server = "starting" THEN "down" ELSE server
    /\ UNCHANGED <<authz, late, origin>>

-----------------------------------------------------------------------------
\* The process and the time.

Dies ==
    /\ server # "down" \/ ~Free
    /\ Event
    /\ server' = "down"
    /\ call' = Idle
    /\ UNCHANGED <<authz, agents, late, origin>>

\* The start binds the origin, prunes for what the lifecycle has ended, sweeps, then checks.
Start(o) ==
    /\ server = "down" /\ Free
    /\ server' = "starting"
    /\ origin' = o
    /\ call' = [Idle EXCEPT !.at = IF authz.lifecycle \/ o # authz.origin THEN "commit" ELSE "sweep",
                            !.to = [authz EXCEPT !.origin = o]]
    /\ UNCHANGED <<authz, agents, late, events>>
StartSweeps ==
    /\ call.at = "sweep"
    /\ Continues(authz)
    /\ UNCHANGED <<authz, agents, late, origin, events>>

\* load decodes the file, validate_authority compares the two.
Startable ==
    /\ agents.active \in agents.rows \cup {None}
    /\ {i \in Ids : Valid(authz, i)} \subseteq agents.rows
    /\ agents.active # None => Available(authz, agents.active)
Checks ==
    /\ call.at = "check"
    /\ server' = IF Startable THEN "up" ELSE "down"
    /\ call' = Idle
    /\ UNCHANGED <<authz, agents, late, origin, events>>

Expires(i) ==
    /\ i \notin late /\ authz.row[i].state \in Open
    /\ Event
    /\ late' = late \cup {i}
    /\ UNCHANGED <<authz, agents, server, origin, call>>

-----------------------------------------------------------------------------
Client == \E i \in Ids : Request(i) \/ Withdraw(i, "cancelled") \/ Deliver(i) \/ Ack(i)
Owner ==
    \/ \E i \in Ids : Approve(i) \/ WrongCode(i) \/ Withdraw(i, "denied") \/ Rotate(i) \/ Revoke(i)
    \/ \E a \in Ids \cup {Direct} : Activate(a)
    \/ OwnerChanges
Writes == Registers \/ RegisterFails \/ Commits \/ CommitFails \/ Prunes \/ PruneFails
Process == Sweep \/ Dies \/ StartSweeps \/ Checks \/ (\E o \in Origins : Start(o)) \/ \E i \in Ids : Expires(i)
Next == Client \/ Owner \/ Writes \/ Process
Spec == Init /\ [][Next]_vars

-----------------------------------------------------------------------------
RowType == [state : {"none", "completed"} \cup Open \cup Ended, attempts : Nat, owner : Nat,
            origin : Origins \cup {None}, credential : BOOLEAN]
AuthzType == [row : [Ids -> RowType], issued : SUBSET Creds, enabled : SUBSET Creds, blocked : SUBSET Creds,
              owner : Nat, origin : Origins \cup {None}, lifecycle : BOOLEAN]
AgentsType == [rows : SUBSET (Ids \cup {Direct}), active : Ids \cup {Direct, None}]
CallType == [at : {"idle", "register", "reregister", "commit", "prune", "sweep", "check"},
             agent : Ids \cup {None}, failed : BOOLEAN, to : AuthzType]
TypeOK ==
    /\ authz \in AuthzType
    /\ agents \in AgentsType
    /\ late \in SUBSET Ids
    /\ server \in {"up", "starting", "down"}
    /\ origin \in Origins
    /\ call \in CallType
    /\ events \in Nat

\* However writes fail and processes die, the files agree well enough for the next start: the
\* check at its end refuses neither authority without a routing row nor the selection.
StartsAgain == call.at = "check" => Startable

\* A selection that still has authority is only replaced by another one that has.
SelectionKept ==
    [][\A a \in Ids \cup {Direct} :
          agents.active = a /\ Available(authz, a)
             => agents.active' # None /\ Available(authz, agents.active')]_vars
=============================================================================
