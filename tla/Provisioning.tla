----------------------------- MODULE Provisioning -----------------------------
(***************************************************************************)
(* Lifecycle and Enrollment over one authority snapshot, with the owner's  *)
(* generation changing under them, the server restarting with another      *)
(* configuration, and time passing.                                        *)
(***************************************************************************)
EXTENDS Enrollment

CONSTANT InitialRecords   \* credentials present before: enrolled agents, devices from before enrollment

ASSUME InitialRecordsAssumption ==
    /\ DOMAIN InitialRecords \subseteq Credentials
    /\ InitialRecords \in [DOMAIN InitialRecords -> [subject : Subjects, enabled : {TRUE}]]
    /\ Cardinality(DOMAIN InitialRecords) <= LIMIT
    /\ Cardinality(DOMAIN InitialRecords) <= TOMBSTONE_LIMIT

\* A claimed owner, nothing in the lifecycle and enrollment namespaces.
EmptyStore ==
    [records |-> InitialRecords, owner |-> [active |-> TRUE, gen |-> 1], blocked |-> {},
     ops |-> EmptyDict, bindings |-> EmptyDict, recovery |-> EmptyDict, requests |-> EmptyDict]

Init ==
    /\ store = EmptyStore
    /\ now = 0
    /\ server \in [origin : Origins, idlen : Lengths]

\* A new owner generation: recovery by the console (inactive) or the environment override (active).
OwnerReplaced(active) ==
    /\ store.owner.gen < MaxGeneration
    /\ store' = [store EXCEPT !.owner = [active |-> active, gen |-> store.owner.gen + 1]]
    /\ UNCHANGED <<now, server>>

\* The pending owner credential is acknowledged: same generation, now active.
OwnerAcknowledged ==
    /\ ~store.owner.active
    /\ store' = [store EXCEPT !.owner.active = TRUE]
    /\ UNCHANGED <<now, server>>

\* Enrollment.initialize: bindings are rebuilt from the consumed requests that are still retained.
Rebound(s) ==
    LET consumed == {r \in DOMAIN s.requests : s.requests[r].state = "consumed"}
        devices == {s.requests[r].device : r \in consumed}
    IN  [s EXCEPT !.bindings =
           [d \in DOMAIN s.bindings \cup devices |->
               IF d \in DOMAIN s.bindings THEN s.bindings[d]
               ELSE s.requests[CHOOSE r \in consumed : s.requests[r].device = d].key]]

\* The server process starts over with a possibly different configuration.
Restart(cfg) ==
    LET s == Rebound(Refreshed(store, cfg.origin))
    IN  /\ Committable(s)
        /\ server' = cfg
        /\ store' = s
        /\ now' = now

Tick ==
    /\ now < Horizon
    /\ now' = now + 1
    /\ UNCHANGED <<store, server>>

LifecycleStep ==
    \/ Maintain
    \/ \E o \in OpIds, subject \in Subjects :
          Rotate(o, subject) \/ Revoke(o, subject) \/ Recover(o, subject)
    \/ \E c \in Credentials, o \in OpIds : Poll(c, o) \/ Ack(c, o)
    \/ \E c, new \in Credentials, o \in OpIds : Deliver(c, o, new)

EnrollmentStep ==
    \/ Examine
    \/ Charge
    \/ \E key \in Keys, r \in RequestIds : Request(key, r)
    \/ \E r \in RequestIds : Prove(r) \/ Initiate(r) \/ Approve(r) \/ Cancel(r) \/ Deny(r) \/ Fail(r)
    \/ \E r \in RequestIds, new \in Credentials : Redeem(r, new)

Next ==
    \/ LifecycleStep
    \/ EnrollmentStep
    \/ \E active \in BOOLEAN : OwnerReplaced(active)
    \/ OwnerAcknowledged
    \/ \E cfg \in [origin : Origins, idlen : Lengths] : Restart(cfg)
    \/ Tick

Spec == Init /\ [][Next]_vars

\* The maintenance loop runs every second for the life of the server, and time passes.
FairSpec == Spec /\ WF_vars(Maintain) /\ WF_vars(Tick)

-----------------------------------------------------------------------------
\* Every part of the snapshot has the shape the schema validators demand.
TypeOK ==
    /\ WellTyped(store)
    /\ now \in Nat
    /\ server \in [origin : Origins, idlen : Lengths]

\* sweep() never raises "capacity".  It runs first in every call and in the maintenance loop,
\* which catches only OSError and ValueError (lifecycle_http.py): one refusal would end the loop.
SweepNeverRefused == Committable(Swept(store))

\* A subject with a credential that still works, or an operation under way, can always be
\* revoked, however full the history is (has_capacity: "one revoke per liability").
RevokeNeverRefused ==
    LET s == Swept(store)
    IN  \A subject \in Subjects, o \in OpIds \ DOMAIN s.ops :
           (\E c \in Matching(s, subject) : Usable(s, c, now) \/ ActiveOps(s, subject) # {})
           => RevokeAdmitted(s, subject) /\ Committable(RevokeResult(s, o, subject))

\* At most one unfinished operation per subject, so "the" operation poll() returns and a
\* recovery pointer names are never ambiguous (Lifecycle.execute, _control).
OneActiveOperation ==
    \A o, p \in Unfinished(store) : store.ops[o].subject = store.ops[p].subject => o = p

\* After a client acknowledged its durable save none of the credentials the operation set out
\* to replace works, and it stays so in the operation's history (Lifecycle.execute, ack).
PredecessorsRetired ==
    \A o \in DOMAIN store.ops : store.ops[o].state \in {"acknowledged", "completed"}
        => \A c \in store.ops[o].old \cap DOMAIN store.records : ~Usable(store, c, now)

\* A key keeps one device id for life, and a redeemed request is bound to the key that proved
\* it: restarts, pruning and a new device_id_length never rename or share an identity
\* (Enrollment._device_id, bind_enrollment).
IdentityStable ==
    /\ \A d, e \in DOMAIN store.bindings : store.bindings[d] = store.bindings[e] => d = e
    /\ \A r \in DOMAIN store.requests : store.requests[r].state = "consumed"
          => /\ store.requests[r].device \in DOMAIN store.bindings
             /\ store.bindings[store.requests[r].device] = store.requests[r].key

\* Access once lost never comes back: no sequence of retries, re-pairings, restarts or owner
\* changes makes a credential usable again (CredentialStore.usable, Lifecycle.sweep).
AccessNeverReturns ==
    [][\A c \in DOMAIN store.records : ~Usable(store, c, now) => ~Usable(store', c, now')]_vars

\* Finished operations and requests stay as they ended; a later enrollment never revives a
\* finished recovery (comment in Lifecycle.sweep).
FinishedForever ==
    [][/\ \A o \in DOMAIN store.ops : Finished(store.ops[o]) => store'.ops[o] = store.ops[o]
       /\ \A r \in DOMAIN store.requests \cap DOMAIN store'.requests :
             store.requests[r].state \in RequestTerminal
             => store'.requests[r] = store.requests[r]]_vars

\* The step that records a revoke or a recovery leaves the subject no way in: no usable
\* credential, no other operation, no open request for it or decided by it (_control).
RevokeIsTotal ==
    [][\A o \in DOMAIN store'.ops \ DOMAIN store.ops :
          store'.ops[o].action \in {"revoke", "recover"} =>
             LET subject == store'.ops[o].subject
                 ids == Matching(store', subject)
             IN  /\ \A c \in ids : ~Usable(store', c, now')
                 /\ ActiveOps(store', subject) \subseteq {o}
                 /\ \A r \in OpenRequests(store') :
                       /\ store'.requests[r].device # subject
                       /\ ~DecidedBy(store'.requests[r], ids)]_vars

\* The operation or request was begun under another owner generation or public origin.
Foreign(row) == row.gen # store.owner.gen \/ row.origin # server.origin

\* Work begun under another owner generation or another public origin goes nowhere: it can
\* only be ended, never advanced, delivered or redeemed (Lifecycle.sweep, Enrollment._status).
AuthorityChangeEndsWork ==
    [][/\ \A o \in DOMAIN store.ops : Foreign(store.ops[o])
             => store'.ops[o].state \in {store.ops[o].state} \cup OpTerminal
       /\ \A r \in DOMAIN store.requests \cap DOMAIN store'.requests :
             Foreign(store.requests[r])
             => store'.requests[r].state
                  \in {store.requests[r].state} \cup (RequestTerminal \ {"consumed"})]_vars

\* Every operation ends: acknowledged and completed, or expired at its deadline, or revoked;
\* re-pairing cannot keep a recovery alive (Lifecycle.sweep in the maintenance loop).
OperationsFinish ==
    \A o \in OpIds : (o \in Unfinished(store)) ~> (o \notin Unfinished(store))
=============================================================================
