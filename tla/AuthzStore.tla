------------------------------ MODULE AuthzStore ------------------------------
(***************************************************************************)
(* The authority snapshot of authz.json as the server holds it: one value, *)
(* store, with the namespaces of CredentialStore (auth/store.py).  Every   *)
(* handler of Lifecycle and Enrollment runs inside store.transaction(), so *)
(* an action reads the snapshot, builds the next one and commits it; the   *)
(* file protocol that makes a commit atomic is module CredentialStore.     *)
(*                                                                         *)
(* A credential stands for its id and for its verifier digest: both are    *)
(* fresh at issuance and _validate keeps them one to one.                  *)
(***************************************************************************)
EXTENDS Integers, FiniteSets

CONSTANTS
    Credentials,        \* ids a credential can be issued under
    NoCred,             \* credential_id ""
    OwnerCred,          \* stands for the owner in an actor
    Devices,            \* device subjects (device ids)
    Integrations,       \* integration subjects (agent ids)
    OpIds,              \* operation ids the owner's client chooses
    RequestIds,         \* enrollment request ids
    Keys,               \* (public key, kind) pairs that devices present
    BrowserKeys,        \* the keys of kind "browser"
    Origins,            \* public origins the server can be configured with
    Lengths,            \* settings of device_id_length
    DeviceIdOf,         \* the truncated hash: DeviceIdOf[length][key]
    LIMIT, TOMBSTONE_LIMIT, MAX_REQUESTS, MaxAttempts,
    QUEUE_SECONDS, OVERLAP_SECONDS, TTL,
    Horizon,            \* bound: the clock stops here
    MaxGeneration       \* bound: owner generations

Subjects == Devices \cup Integrations

ASSUME IdsDisjoint ==
    /\ NoCred \notin Credentials /\ OwnerCred \notin Credentials /\ NoCred # OwnerCred
    /\ Devices \cap Integrations = {}
    /\ BrowserKeys \subseteq Keys
    /\ DeviceIdOf \in [Lengths -> [Keys -> Devices]]
ASSUME LimitsAreNaturals ==
    /\ LIMIT \in Nat \ {0} /\ TOMBSTONE_LIMIT \in Nat /\ MAX_REQUESTS \in Nat
    /\ MaxAttempts \in Nat \ {0}
    /\ QUEUE_SECONDS \in Nat \ {0} /\ OVERLAP_SECONDS \in Nat \ {0} /\ TTL \in Nat \ {0}
    /\ Horizon \in Nat /\ MaxGeneration \in Nat
ASSUME IdsFinite == IsFiniteSet(Credentials) /\ IsFiniteSet(OpIds)

VARIABLES
    store,   \* CredentialStore: records, owner, lifecycle and enrollment namespaces
    now,     \* time.time()
    server   \* configuration of the running server: origin and device_id_length

vars == <<store, now, server>>

OPERATION_LIMIT == 3 * LIMIT

OpStates == {"queued", "pending", "delivered", "acknowledged", "completed", "expired", "revoked"}
OpTerminal == {"completed", "expired", "revoked"}
RequestStates == {"challenge", "ready", "initiated", "approved", "consumed", "denied",
                  "cancelled", "failed", "stale"}
RequestTerminal == {"consumed", "denied", "cancelled", "failed", "stale"}

Record == [subject : Subjects, enabled : BOOLEAN]
Operation == [subject : Subjects, action : {"rotate", "revoke", "recover"}, state : OpStates,
              expires : Nat, overlap : Nat, cred : Credentials \cup {NoCred},
              old : SUBSET Credentials, gen : Nat, origin : Origins]
Actor == [cred : Credentials \cup {NoCred, OwnerCred}, gen : Nat]
NoActor == [cred |-> NoCred, gen |-> 0]
EnrollmentRow == [key : Keys, device : Devices, state : RequestStates, attempts : Nat,
                  expires : Nat, gen : Nat, origin : Origins, initiator : Actor, approver : Actor]

\* The shape of a snapshot, as the schema validators demand it.
WellTyped(s) ==
    /\ s \in [records : [DOMAIN s.records -> Record],
              owner : [active : BOOLEAN, gen : Nat],
              blocked : SUBSET Credentials,
              ops : [DOMAIN s.ops -> Operation],
              bindings : [DOMAIN s.bindings -> Keys],
              recovery : [DOMAIN s.recovery -> OpIds],
              requests : [DOMAIN s.requests -> EnrollmentRow]]
    /\ DOMAIN s.records \subseteq Credentials
    /\ DOMAIN s.ops \subseteq OpIds
    /\ DOMAIN s.bindings \subseteq Devices
    /\ DOMAIN s.recovery \subseteq Devices
    /\ DOMAIN s.requests \subseteq RequestIds

(***************************************************************************)
(* Dictionary updates.                                                     *)
(***************************************************************************)
Put(f, k, v) == [x \in DOMAIN f \cup {k} |-> IF x = k THEN v ELSE f[x]]
Keep(f, S) == [x \in DOMAIN f \cap S |-> f[x]]
EmptyDict == [x \in {} |-> x]

-----------------------------------------------------------------------------
Finished(row) == row.state \in OpTerminal
Unfinished(s) == {o \in DOMAIN s.ops : ~Finished(s.ops[o])}

\* Mutant of ActiveOps: an operation the client has picked up no longer counts.
ActiveQueuedOnly(s, subject) == {o \in Unfinished(s) : s.ops[o].subject = subject /\ s.ops[o].state = "queued"}

ActiveOps(s, subject) == {o \in Unfinished(s) : s.ops[o].subject = subject}
Matching(s, subject) == {c \in DOMAIN s.records : s.records[c].subject = subject}
OpenRequests(s) == {r \in DOMAIN s.requests : s.requests[r].state \notin RequestTerminal}

\* CredentialStore.usable: tombstones override, a delivered pair is bounded by its deadline.
Usable(s, c, t) ==
    /\ s.records[c].enabled
    /\ c \notin s.blocked
    /\ \A o \in DOMAIN s.ops :
          LET row == s.ops[o]
              overdue == row.state = "delivered" /\ row.overlap <= t
          IN  /\ ~(overdue /\ c \in row.old)
              /\ ~( /\ row.cred = c
                    /\ row.action \in {"rotate", "recover"}
                    /\ row.state \in {"expired", "revoked"} \/ overdue )

\* CredentialStore.current: the presented principal still maps to a usable record.
Current(s, c, t) == c \in DOMAIN s.records /\ Usable(s, c, t)

\* Enrollment._actor_current
ActorCurrent(s, actor, t) ==
    IF actor.cred = OwnerCred
    THEN s.owner.active /\ actor.gen = s.owner.gen
    ELSE Current(s, actor.cred, t)

\* lifecycle_schema.has_capacity: one tombstone per verifier, one revoke per liability.
HasCapacity(s) ==
    /\ Cardinality(DOMAIN s.records) <= LIMIT
    /\ Cardinality(s.blocked \cup DOMAIN s.records) <= TOMBSTONE_LIMIT
    /\ Cardinality(DOMAIN s.ops) + Cardinality(DOMAIN s.records \ s.blocked)
         + Cardinality(Unfinished(s)) <= OPERATION_LIMIT

\* CredentialStore.replace refuses a snapshot whose lifecycle namespace load() would reject.
LifecycleValid(s) ==
    /\ Cardinality(DOMAIN s.ops) <= OPERATION_LIMIT
    /\ Cardinality(DOMAIN s.bindings) <= LIMIT
    /\ \A o \in DOMAIN s.ops :
          LET row == s.ops[o]
          IN  /\ row.overlap <= row.expires
              /\ row.state \in {"delivered", "acknowledged", "completed"} => row.cred # NoCred
              /\ row.action = "revoke" => row.state = "revoked"
    /\ \A d \in DOMAIN s.recovery :
          /\ d \in DOMAIN s.bindings
          /\ s.recovery[d] \in DOMAIN s.ops
          /\ s.ops[s.recovery[d]].subject = d
          /\ s.ops[s.recovery[d]].action = "recover"

\* What a commit needs of the snapshot it writes.
Committable(s) == LifecycleValid(s) /\ HasCapacity(s)

\* Lifecycle._retire: tombstone and disable the records named by ids.
Retire(s, ids) ==
    [s EXCEPT !.blocked = s.blocked \cup (ids \cap DOMAIN s.records),
              !.records = [c \in DOMAIN s.records |->
                              IF c \in ids THEN [s.records[c] EXCEPT !.enabled = FALSE]
                              ELSE s.records[c]]]

\* The request was initiated or approved with one of the credentials ids.
DecidedBy(row, ids) == {row.initiator.cred, row.approver.cred} \cap (ids \ {NoCred}) # {}

\* The requests of R that are still open are persisted as stale.
MarkStale(s, R) ==
    [s EXCEPT !.requests =
        [r \in DOMAIN s.requests |->
            IF r \in R /\ s.requests[r].state \notin RequestTerminal
            THEN [s.requests[r] EXCEPT !.state = "stale"]
            ELSE s.requests[r]]]

\* Lifecycle._invalidate_approvals
InvalidateApprovals(s, ids) ==
    MarkStale(s, {r \in DOMAIN s.requests : DecidedBy(s.requests[r], ids)})
=============================================================================
