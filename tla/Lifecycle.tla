------------------------------- MODULE Lifecycle -------------------------------
(***************************************************************************)
(* Rotation, revocation and recovery of subject credentials                *)
(* (provisioning/lifecycle.py).  An operation moves                        *)
(*                                                                         *)
(*   rotate:  queued -> pending -> delivered -> acknowledged -> completed  *)
(*   recover: queued -> pending -> delivered -> acknowledged -> completed  *)
(*   revoke:  revoked                                                      *)
(*                                                                         *)
(* and ends expired or revoked from any unfinished state.  Every call      *)
(* first sweeps; a call that is refused after that leaves the swept        *)
(* snapshot, which is action Maintain.                                     *)
(***************************************************************************)
EXTENDS AuthzStore

Min2(a, b) == IF a <= b THEN a ELSE b

\* Mutant of Due: authority changes are forgotten, only the deadline counts.
DueByTimeOnly(s, row) ==
    /\ row.state \notin OpTerminal \cup {"acknowledged"}
    /\ Min2(row.expires, IF row.overlap = 0 THEN row.expires ELSE row.overlap) <= now

\* Mutant of Due: an operation without an overlap deadline never expires.
DueByOverlapOnly(s, row) ==
    /\ row.state \notin OpTerminal \cup {"acknowledged"}
    /\ \/ row.overlap # 0 /\ row.overlap <= now
       \/ row.gen # s.owner.gen
       \/ row.origin # server.origin

\* The unfinished operation is past its deadline or its authority is gone.
Due(s, row) ==
    /\ row.state \notin OpTerminal \cup {"acknowledged"}
    /\ \/ Min2(row.expires, IF row.overlap = 0 THEN row.expires ELSE row.overlap) <= now
       \/ row.gen # s.owner.gen
       \/ row.origin # server.origin

\* Credentials a due operation gives up.
Liabilities(row) == {row.cred} \cup (IF row.state = "delivered" THEN row.old ELSE {})

\* Mutant of SweptRow: whatever ends is called completed.
SweptRowCompletes(s, row) ==
    IF row.state = "acknowledged" \/ Due(s, row) THEN [row EXCEPT !.state = "completed"] ELSE row

SweptRow(s, row) ==
    IF row.state = "acknowledged" THEN [row EXCEPT !.state = "completed"]
    ELSE IF Due(s, row) THEN [row EXCEPT !.state = "expired"]
    ELSE row

SweptOps(s) == [o \in DOMAIN s.ops |-> SweptRow(s, s.ops[o])]
SweptIds(s) == UNION {Liabilities(s.ops[o]) : o \in {x \in DOMAIN s.ops : Due(s, s.ops[x])}}

\* Mutant of SweptRecovery: pointers to finished recoveries survive.
KeptRecovery(s) == s.recovery

\* Pointers to finished recoveries are dropped.
SweptRecovery(s) == Keep(s.recovery, {d \in DOMAIN s.recovery : ~Finished(SweptOps(s)[s.recovery[d]])})

\* Mutant of Swept: the predecessor outlives an expired delivery.
SweptWithoutRetire(s) == [s EXCEPT !.ops = SweptOps(s), !.recovery = SweptRecovery(s)]

\* Lifecycle.sweep
Swept(s) ==
    InvalidateApprovals(
        [Retire(s, SweptIds(s)) EXCEPT !.ops = SweptOps(s), !.recovery = SweptRecovery(s)],
        SweptIds(s))

\* The maintenance loop, a lifecycle status or idle poll, and every refused lifecycle call.
Maintain ==
    /\ Committable(Swept(store))
    /\ store' = Swept(store)
    /\ UNCHANGED <<now, server>>

-----------------------------------------------------------------------------
(***************************************************************************)
(* Owner operations (Lifecycle._control).  Repeating an operation id is    *)
(* answered from history and changes nothing.                              *)
(***************************************************************************)
NewOperation(s, subject, action, state, expires) ==
    [subject |-> subject, action |-> action, state |-> state, expires |-> expires,
     overlap |-> 0, cred |-> NoCred, old |-> Matching(s, subject),
     gen |-> s.owner.gen, origin |-> server.origin]

\* What every owner operation needs of the swept snapshot s.
Controllable(s, o, subject) ==
    /\ Committable(s)
    /\ s.owner.active
    /\ o \notin DOMAIN s.ops
    /\ Matching(s, subject) # {}

Commit(s) == Committable(s) /\ store' = s /\ UNCHANGED <<now, server>>

Rotate(o, subject) ==
    LET s == Swept(store)
    IN  /\ Controllable(s, o, subject)
        /\ Cardinality(DOMAIN s.ops) < LIMIT
        /\ ActiveOps(s, subject) = {}
        /\ \E c \in Matching(s, subject) : Usable(s, c, now)
        /\ now + QUEUE_SECONDS <= Horizon
        /\ Commit([s EXCEPT !.ops = Put(s.ops, o, NewOperation(s, subject, "rotate", "queued",
                                                               now + QUEUE_SECONDS))])

\* Mutant of Withdrawn: decisions the subject took part in stay open.
WithdrawnKeepsDecisions(s, subject) ==
    LET ids == Matching(s, subject)
        r == MarkStale(Retire(s, ids), {x \in DOMAIN s.requests : s.requests[x].device = subject})
    IN  [r EXCEPT !.ops = [o \in DOMAIN r.ops |-> IF o \in ActiveOps(r, subject)
                                                  THEN [r.ops[o] EXCEPT !.state = "revoked"]
                                                  ELSE r.ops[o]],
                  !.recovery = Keep(r.recovery, DOMAIN r.recovery \ {subject})]

\* All access of the subject ends: credentials, operations, approvals it gave, open requests.
Withdrawn(s, subject) ==
    LET ids == Matching(s, subject)
        r == MarkStale(InvalidateApprovals(Retire(s, ids), ids),
                       {x \in DOMAIN s.requests : s.requests[x].device = subject})
    IN  [r EXCEPT !.ops = [o \in DOMAIN r.ops |-> IF o \in ActiveOps(r, subject)
                                                  THEN [r.ops[o] EXCEPT !.state = "revoked"]
                                                  ELSE r.ops[o]],
                  !.recovery = Keep(r.recovery, DOMAIN r.recovery \ {subject})]

RevokeResult(s, o, subject) ==
    LET w == Withdrawn(s, subject)
    IN  [w EXCEPT !.ops = Put(w.ops, o, NewOperation(s, subject, "revoke", "revoked",
                                                     now + QUEUE_SECONDS))]

\* Mutant of RevokeAdmitted: revokes stop at LIMIT like everything else.
RevokeBelowLimit(s, subject) == Cardinality(DOMAIN s.ops) < LIMIT

\* Beyond LIMIT only a revoke that removes a liability is admitted.
RevokeAdmitted(s, subject) ==
    \/ Cardinality(DOMAIN s.ops) < LIMIT
    \/ ActiveOps(s, subject) # {}
    \/ Matching(s, subject) \ s.blocked # {}

Revoke(o, subject) ==
    LET s == Swept(store)
    IN  /\ Controllable(s, o, subject)
        /\ RevokeAdmitted(s, subject)
        /\ Commit(RevokeResult(s, o, subject))

\* Devices only; the durable key binding is what the new credential is issued to.
Recover(o, subject) ==
    LET s == Swept(store)
        w == Withdrawn(s, subject)
    IN  /\ Controllable(s, o, subject)
        /\ Cardinality(DOMAIN s.ops) < LIMIT
        /\ subject \in Devices /\ subject \in DOMAIN s.bindings
        /\ now + OVERLAP_SECONDS <= Horizon
        /\ Commit([w EXCEPT !.ops = Put(w.ops, o, NewOperation(s, subject, "recover", "queued",
                                                               now + OVERLAP_SECONDS)),
                            !.recovery = Put(w.recovery, subject, o)])

-----------------------------------------------------------------------------
(***************************************************************************)
(* Calls of the credential's holder.                                       *)
(***************************************************************************)
\* The holder of c presents it for operation o of its own subject.
Presents(s, c, o) ==
    /\ Committable(s)
    /\ Current(s, c, now)
    /\ o \in DOMAIN s.ops
    /\ s.ops[o].subject = s.records[c].subject

Poll(c, o) ==
    LET s == Swept(store)
    IN  /\ Presents(s, c, o)
        /\ s.ops[o].action = "rotate"
        /\ s.ops[o].state = "queued"
        /\ Commit([s EXCEPT !.ops[o].state = "pending"])

Deliver(c, o, new) ==
    LET s == Swept(store)
    IN  /\ Presents(s, c, o)
        /\ s.ops[o].state = "pending" /\ s.ops[o].action = "rotate"
        /\ Cardinality(DOMAIN s.records) < LIMIT
        /\ new \notin DOMAIN s.records \cup s.blocked
        /\ Commit([s EXCEPT !.records = Put(s.records, new, [subject |-> s.records[c].subject,
                                                             enabled |-> TRUE]),
                            !.ops[o] = [@ EXCEPT !.state = "delivered", !.cred = new,
                                          !.overlap = Min2(now + OVERLAP_SECONDS, s.ops[o].expires)]])

\* Mutant of AckResult: success is reported and the predecessor keeps its access.
AckWithoutRetire(s, o) == [s EXCEPT !.ops[o].state = "acknowledged"]

AckResult(s, o) ==
    InvalidateApprovals([Retire(s, s.ops[o].old) EXCEPT !.ops[o].state = "acknowledged"], s.ops[o].old)

Ack(c, o) ==
    LET s == Swept(store)
    IN  /\ Presents(s, c, o)
        /\ s.ops[o].cred = c
        /\ s.ops[o].state = "delivered"
        /\ Commit(AckResult(s, o))
=============================================================================
