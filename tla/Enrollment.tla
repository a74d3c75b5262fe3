------------------------------ MODULE Enrollment ------------------------------
(***************************************************************************)
(* Pairing of devices (provisioning/enrollment.py).  A request moves       *)
(*                                                                         *)
(*   challenge -> ready -> initiated -> approved -> consumed               *)
(*                                                                         *)
(* and ends denied, cancelled, failed or stale; past its deadline it reads *)
(* as expired whatever its stored state.  Signatures and the four digit    *)
(* code are right (the action below) or wrong (action Fail).               *)
(***************************************************************************)
EXTENDS Lifecycle

\* The part of Enrollment._status that reads "stale".
AuthorityLost(s, row, origin) ==
    \/ row.gen # s.owner.gen
    \/ row.origin # origin
    \/ \E actor \in {row.initiator, row.approver} : actor # NoActor /\ ~ActorCurrent(s, actor, now)

\* Enrollment._state: every open, unexpired request that lost its authority is persisted stale.
Refreshed(s, origin) ==
    MarkStale(s, {r \in DOMAIN s.requests : /\ s.requests[r].expires > now
                                            /\ AuthorityLost(s, s.requests[r], origin)})

\* What execute reads: lifecycle swept first, then the requests refreshed.
Opened == Refreshed(Swept(store), server.origin)

\* Status of a request is neither a terminal state nor expired.
Live(s, r) ==
    /\ r \in DOMAIN s.requests
    /\ s.requests[r].state \notin RequestTerminal
    /\ s.requests[r].expires > now

\* Lists, status reads and every refused enrollment call leave the opened snapshot.
Examine ==
    /\ Committable(Swept(store))
    /\ store' = Opened
    /\ UNCHANGED <<now, server>>

\* Every HTTP call is charged first, in a transaction of its own that refreshes the requests.
Charge ==
    /\ store' = Refreshed(store, server.origin)
    /\ UNCHANGED <<now, server>>

-----------------------------------------------------------------------------
\* Mutant of DeviceId: the name is derived afresh from the configured length.
DeviceIdDerived(s, key) == DeviceIdOf[server.idlen][key]

\* Enrollment._device_id: a bound identity, else the one an earlier request used, else the hash.
DeviceId(s, key) ==
    LET bound == {d \in DOMAIN s.bindings : s.bindings[d] = key}
        asked == {s.requests[r].device : r \in {x \in DOMAIN s.requests : s.requests[x].key = key}}
    IN  IF bound # {} THEN CHOOSE d \in bound : TRUE
        ELSE IF asked # {} THEN CHOOSE d \in asked : TRUE
        ELSE DeviceIdOf[server.idlen][key]

\* Enrollment._unowned: the id is free, or bound to exactly this key.
Unowned(s, device, key) ==
    /\ Cardinality(DOMAIN s.records) < LIMIT
    /\ IF device \in DOMAIN s.bindings THEN s.bindings[device] = key ELSE Matching(s, device) = {}

\* The recovery operation pointed to by device, if any, becomes pending again.
Reopened(s, device) ==
    IF device \in DOMAIN s.recovery
    THEN [s EXCEPT !.ops[s.recovery[device]].state = "pending"]
    ELSE s

Request(key, r) ==
    LET s == Opened
        device == DeviceId(s, key)
        kept == {x \in DOMAIN s.requests : s.requests[x].expires > now}
        row == [key |-> key, device |-> device, state |-> "challenge", attempts |-> 0,
                expires |-> now + TTL, gen |-> s.owner.gen, origin |-> server.origin,
                initiator |-> NoActor, approver |-> NoActor]
    IN  /\ Committable(Swept(store))
        /\ s.owner.active
        /\ r \notin DOMAIN s.requests
        /\ Cardinality({d \in DOMAIN s.bindings : s.bindings[d] = key}) <= 1
        /\ Cardinality(kept) < MAX_REQUESTS
        /\ Unowned(s, device, key)
        /\ \A x \in kept : s.requests[x].device = device => s.requests[x].state \in RequestTerminal
        /\ Commit([Reopened(s, device) EXCEPT !.requests = Put(Keep(s.requests, kept), r, row)])

\* The call addresses the live request r in stored state st.
Addressed(s, r, st) ==
    /\ Committable(Swept(store))
    /\ Live(s, r)
    /\ s.requests[r].state = st

Prove(r) ==
    LET s == Opened
    IN  /\ Addressed(s, r, "challenge")
        /\ Commit([s EXCEPT !.requests[r].state = "ready"])

\* Enrollment._controller: the owner, or for physical devices a current integration.
Controllers(s, key) ==
    {a \in {[cred |-> OwnerCred, gen |-> s.owner.gen]} : s.owner.active}
    \cup {a \in [cred : {c \in DOMAIN s.records : s.records[c].subject \in Integrations}, gen : {0}] :
            key \notin BrowserKeys /\ Usable(s, a.cred, now)}

Initiate(r) ==
    LET s == Opened
    IN  /\ Addressed(s, r, "ready")
        /\ Unowned(s, s.requests[r].device, s.requests[r].key)
        /\ \E a \in Controllers(s, s.requests[r].key) :
              Commit([s EXCEPT !.requests[r] = [@ EXCEPT !.initiator = a, !.state = "initiated"]])

Approve(r) ==
    LET s == Opened
    IN  /\ Addressed(s, r, "initiated")
        /\ Unowned(s, s.requests[r].device, s.requests[r].key)
        /\ \E a \in Controllers(s, s.requests[r].key) :
              Commit([s EXCEPT !.requests[r] = [@ EXCEPT !.approver = a, !.state = "approved"]])

\* Lifecycle.replace_enrollment_credential: every old credential of the device is retired.
Issued(s, device, new) ==
    LET old == Retire(s, Matching(s, device))
    IN  [old EXCEPT !.records = Put(old.records, new, [subject |-> device, enabled |-> TRUE])]

\* A recovery under way is delivered by this issuance, bounded by its own deadline.
Recovered(s, device, new) ==
    IF device \in DOMAIN s.recovery
    THEN LET o == s.recovery[device]
         IN  [s EXCEPT !.ops[o] = [s.ops[o] EXCEPT !.state = "delivered", !.cred = new,
                                                    !.overlap = s.ops[o].expires]]
    ELSE s

Redeem(r, new) ==
    LET s == Opened
        device == s.requests[r].device
        key == s.requests[r].key
    IN  /\ Addressed(s, r, "approved")
        /\ Unowned(s, device, key)
        /\ new \notin DOMAIN s.records \cup s.blocked
        /\ device \in DOMAIN s.bindings \/ Cardinality(DOMAIN s.bindings) < LIMIT
        /\ Commit([Recovered(Issued(s, device, new), device, new)
                     EXCEPT !.bindings = Put(s.bindings, device, key),
                            !.requests[r].state = "consumed"])

\* Cancel (by the key's holder) and deny (by a controller) end a live request.
Cancel(r) ==
    LET s == Opened
    IN  /\ Committable(Swept(store)) /\ Live(s, r)
        /\ Commit([s EXCEPT !.requests[r].state = "cancelled"])

Deny(r) ==
    LET s == Opened
    IN  /\ Committable(Swept(store)) /\ Live(s, r)
        /\ Controllers(s, s.requests[r].key) # {}
        /\ Commit([s EXCEPT !.requests[r].state = "denied"])

\* Enrollment._failure: a wrong signature or code; the last attempt ends the request.
Fail(r) ==
    LET s == Opened
        n == Min2(MaxAttempts, s.requests[r].attempts + 1)
        end == IF n = MaxAttempts THEN "failed" ELSE s.requests[r].state
    IN  /\ Committable(Swept(store)) /\ Live(s, r)
        /\ Commit([s EXCEPT !.requests[r] = [@ EXCEPT !.attempts = n, !.state = end]])
=============================================================================
