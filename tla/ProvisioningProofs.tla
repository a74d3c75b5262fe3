--------------------------- MODULE ProvisioningProofs ---------------------------
(***************************************************************************)
(* Provisioning for every number of credentials, operations and requests.  *)
(* First what each operation on a snapshot preserves, then the invariants. *)
(***************************************************************************)
EXTENDS Provisioning, FiniteSetTheorems, TLAPS

-----------------------------------------------------------------------------
(* Shape: every operation on a snapshot returns a well-typed snapshot. *)

LEMMA RetireType ==
  ASSUME NEW s, NEW ids, WellTyped(s)
  PROVE  /\ WellTyped(Retire(s, ids))
         /\ DOMAIN Retire(s, ids).records = DOMAIN s.records
         /\ Retire(s, ids).blocked = s.blocked \cup (ids \cap DOMAIN s.records)
         /\ Retire(s, ids).ops = s.ops
         /\ Retire(s, ids).bindings = s.bindings
         /\ Retire(s, ids).recovery = s.recovery
         /\ Retire(s, ids).requests = s.requests
         /\ Retire(s, ids).owner = s.owner
<1> DEFINE recs == [c \in DOMAIN s.records |->
                       IF c \in ids THEN [s.records[c] EXCEPT !.enabled = FALSE] ELSE s.records[c]]
<1>1. recs \in [DOMAIN s.records -> Record] /\ DOMAIN recs = DOMAIN s.records
  BY DEF WellTyped, Record
<1>2. s.blocked \cup (ids \cap DOMAIN s.records) \in SUBSET Credentials
  BY DEF WellTyped
<1> HIDE DEF recs
<1>3. Retire(s, ids) = [s EXCEPT !.blocked = s.blocked \cup (ids \cap DOMAIN s.records), !.records = recs]
  BY DEF Retire, recs
<1> QED
  BY <1>1, <1>2, <1>3 DEF WellTyped

LEMMA MarkStaleType ==
  ASSUME NEW s, NEW R, WellTyped(s)
  PROVE  /\ WellTyped(MarkStale(s, R))
         /\ MarkStale(s, R).records = s.records
         /\ MarkStale(s, R).blocked = s.blocked
         /\ MarkStale(s, R).ops = s.ops
         /\ MarkStale(s, R).bindings = s.bindings
         /\ MarkStale(s, R).recovery = s.recovery
         /\ MarkStale(s, R).owner = s.owner
         /\ DOMAIN MarkStale(s, R).requests = DOMAIN s.requests
<1> DEFINE rows == [r \in DOMAIN s.requests |->
                       IF r \in R /\ s.requests[r].state \notin RequestTerminal
                       THEN [s.requests[r] EXCEPT !.state = "stale"]
                       ELSE s.requests[r]]
<1>1. ASSUME NEW r \in DOMAIN s.requests
      PROVE  s.requests[r] \in EnrollmentRow
  BY DEF WellTyped
<1>2. ASSUME NEW row \in EnrollmentRow
      PROVE  [row EXCEPT !.state = "stale"] \in EnrollmentRow
  BY DEF EnrollmentRow, RequestStates
<1>3. rows \in [DOMAIN s.requests -> EnrollmentRow] /\ DOMAIN rows = DOMAIN s.requests
  BY <1>1, <1>2
<1>4. MarkStale(s, R) = [s EXCEPT !.requests = rows]
  BY DEF MarkStale
<1> HIDE DEF rows
<1> QED
  BY <1>3, <1>4 DEF WellTyped

LEMMA InvalidateType ==
  ASSUME NEW s, NEW ids, WellTyped(s)
  PROVE  /\ WellTyped(InvalidateApprovals(s, ids))
         /\ InvalidateApprovals(s, ids).records = s.records
         /\ InvalidateApprovals(s, ids).blocked = s.blocked
         /\ InvalidateApprovals(s, ids).ops = s.ops
         /\ InvalidateApprovals(s, ids).bindings = s.bindings
         /\ InvalidateApprovals(s, ids).recovery = s.recovery
         /\ InvalidateApprovals(s, ids).owner = s.owner
         /\ DOMAIN InvalidateApprovals(s, ids).requests = DOMAIN s.requests
  BY MarkStaleType DEF InvalidateApprovals

LEMMA PutFacts ==
  ASSUME NEW f, NEW k, NEW v
  PROVE  /\ DOMAIN Put(f, k, v) = DOMAIN f \cup {k}
         /\ Put(f, k, v)[k] = v
         /\ \A x \in DOMAIN f : x # k => Put(f, k, v)[x] = f[x]
  BY DEF Put

LEMMA PutType ==
  ASSUME NEW T, NEW f, NEW k, NEW v, f \in [DOMAIN f -> T], v \in T
  PROVE  Put(f, k, v) \in [DOMAIN Put(f, k, v) -> T]
  BY DEF Put

LEMMA KeepFacts ==
  ASSUME NEW f, NEW S
  PROVE  /\ DOMAIN Keep(f, S) = DOMAIN f \cap S
         /\ \A x \in DOMAIN Keep(f, S) : Keep(f, S)[x] = f[x]
  BY DEF Keep

LEMMA KeepType ==
  ASSUME NEW T, NEW f, NEW S, f \in [DOMAIN f -> T]
  PROVE  Keep(f, S) \in [DOMAIN Keep(f, S) -> T]
  BY DEF Keep

\* Replacing the lifecycle fields of a snapshot by well-typed ones.
LEMMA SetLifecycleType ==
  ASSUME NEW s, WellTyped(s), NEW ops, NEW recovery,
         ops \in [DOMAIN ops -> Operation], DOMAIN ops \subseteq OpIds,
         recovery \in [DOMAIN recovery -> OpIds], DOMAIN recovery \subseteq Devices
  PROVE  WellTyped([s EXCEPT !.ops = ops, !.recovery = recovery])
  BY DEF WellTyped

LEMMA SweptOpsFacts ==
  ASSUME NEW s, WellTyped(s)
  PROVE  /\ DOMAIN SweptOps(s) = DOMAIN s.ops
         /\ SweptOps(s) \in [DOMAIN s.ops -> Operation]
         /\ \A o \in DOMAIN s.ops :
               /\ SweptOps(s)[o] = SweptRow(s, s.ops[o])
               /\ SweptOps(s)[o].state \in {s.ops[o].state, "completed", "expired"}
               /\ Finished(s.ops[o]) => SweptOps(s)[o] = s.ops[o]
               /\ SweptOps(s)[o].subject = s.ops[o].subject
               /\ SweptOps(s)[o].action = s.ops[o].action
               /\ SweptOps(s)[o].expires = s.ops[o].expires
               /\ SweptOps(s)[o].overlap = s.ops[o].overlap
               /\ SweptOps(s)[o].cred = s.ops[o].cred
               /\ SweptOps(s)[o].old = s.ops[o].old
               /\ SweptOps(s)[o].state = "completed" => s.ops[o].state \in {"acknowledged", "completed"}
               /\ SweptOps(s)[o].state # "acknowledged"
<1> SUFFICES ASSUME NEW o \in DOMAIN s.ops
             PROVE  /\ SweptRow(s, s.ops[o]) \in Operation
                    /\ LET row == s.ops[o]  new == SweptRow(s, row)
                       IN  /\ new.state \in {row.state, "completed", "expired"}
                           /\ Finished(row) => new = row
                           /\ new.subject = row.subject /\ new.action = row.action
                           /\ new.expires = row.expires /\ new.overlap = row.overlap
                           /\ new.cred = row.cred /\ new.old = row.old
                           /\ new.state = "completed" => row.state \in {"acknowledged", "completed"}
                           /\ new.state # "acknowledged"
  BY DEF SweptOps
<1> DEFINE row == s.ops[o]
<1>1. row \in Operation
  BY DEF WellTyped
<1>2. Due(s, row) => row.state \notin OpTerminal \cup {"acknowledged"}
  BY DEF Due
<1> HIDE DEF row
<1>3. /\ SweptRow(s, row) \in Operation
      /\ LET new == SweptRow(s, row)
         IN  /\ new.state \in {row.state, "completed", "expired"}
             /\ Finished(row) => new = row
             /\ new.subject = row.subject /\ new.action = row.action
             /\ new.expires = row.expires /\ new.overlap = row.overlap
             /\ new.cred = row.cred /\ new.old = row.old
             /\ new.state = "completed" => row.state \in {"acknowledged", "completed"}
             /\ new.state # "acknowledged"
  BY <1>1, <1>2 DEF SweptRow, Operation, OpStates, Finished, OpTerminal
<1> QED
  BY <1>3 DEF row

LEMMA SweptFacts ==
  ASSUME NEW s, WellTyped(s)
  PROVE  /\ WellTyped(Swept(s))
         /\ DOMAIN Swept(s).records = DOMAIN s.records
         /\ Swept(s).blocked = s.blocked \cup (SweptIds(s) \cap DOMAIN s.records)
         /\ Swept(s).ops = SweptOps(s)
         /\ Swept(s).bindings = s.bindings
         /\ Swept(s).recovery = SweptRecovery(s)
         /\ Swept(s).owner = s.owner
         /\ DOMAIN Swept(s).requests = DOMAIN s.requests
<1> DEFINE a == Retire(s, SweptIds(s))
           b == [a EXCEPT !.ops = SweptOps(s), !.recovery = SweptRecovery(s)]
<1>1. /\ WellTyped(a) /\ DOMAIN a.records = DOMAIN s.records
      /\ a.blocked = s.blocked \cup (SweptIds(s) \cap DOMAIN s.records)
      /\ a.bindings = s.bindings /\ a.owner = s.owner /\ a.requests = s.requests
  BY RetireType
<1>2. SweptOps(s) \in [DOMAIN SweptOps(s) -> Operation] /\ DOMAIN SweptOps(s) \subseteq OpIds
  BY SweptOpsFacts DEF WellTyped
<1>3. SweptRecovery(s) \in [DOMAIN SweptRecovery(s) -> OpIds] /\ DOMAIN SweptRecovery(s) \subseteq Devices
  <2> DEFINE live == {d \in DOMAIN s.recovery : ~Finished(SweptOps(s)[s.recovery[d]])}
  <2>1. SweptRecovery(s) = Keep(s.recovery, live)
    BY DEF SweptRecovery
  <2> HIDE DEF live
  <2>2. s.recovery \in [DOMAIN s.recovery -> OpIds] /\ DOMAIN s.recovery \subseteq Devices
    BY DEF WellTyped
  <2> QED
    BY <2>1, <2>2 DEF Keep
<1> HIDE DEF a
<1>4a. WellTyped(b)
  BY <1>1, <1>2, <1>3, SetLifecycleType
<1>4. /\ WellTyped(b) /\ b.records = a.records /\ b.blocked = a.blocked /\ b.bindings = a.bindings
      /\ b.owner = a.owner /\ b.requests = a.requests
      /\ b.ops = SweptOps(s) /\ b.recovery = SweptRecovery(s)
  BY <1>1, <1>4a DEF WellTyped
<1>5. Swept(s) = InvalidateApprovals(b, SweptIds(s))
  BY DEF Swept, a
<1> HIDE DEF b
<1> QED
  BY <1>1, <1>4, <1>5, InvalidateType

-----------------------------------------------------------------------------
(* Capacity: what sweeping and revoking cost. *)

LEMMA Finite ==
  ASSUME NEW s, WellTyped(s)
  PROVE  /\ IsFiniteSet(DOMAIN s.records) /\ IsFiniteSet(s.blocked)
         /\ IsFiniteSet(DOMAIN s.ops) /\ IsFiniteSet(Unfinished(s))
         /\ Cardinality(DOMAIN s.records) \in Nat /\ Cardinality(DOMAIN s.ops) \in Nat
         /\ Cardinality(Unfinished(s)) \in Nat
         /\ Cardinality(Unfinished(s)) <= Cardinality(DOMAIN s.ops)
<1>1. DOMAIN s.records \subseteq Credentials /\ s.blocked \subseteq Credentials
      /\ DOMAIN s.ops \subseteq OpIds
  BY DEF WellTyped
<1>2. IsFiniteSet(DOMAIN s.records) /\ IsFiniteSet(s.blocked) /\ IsFiniteSet(DOMAIN s.ops)
  BY <1>1, IdsFinite, FS_Subset
<1>3. Unfinished(s) \in SUBSET DOMAIN s.ops
  BY DEF Unfinished
<1> QED
  BY <1>2, <1>3, FS_Subset, FS_CardinalityType

\* A snapshot with no more of everything that is counted keeps its capacity.
LEMMA CapacityMonotone ==
  ASSUME NEW s, NEW w, WellTyped(s), WellTyped(w), HasCapacity(s),
         DOMAIN w.records = DOMAIN s.records,
         w.blocked \cup DOMAIN w.records = s.blocked \cup DOMAIN s.records,
         s.blocked \subseteq w.blocked,
         DOMAIN w.ops = DOMAIN s.ops,
         Unfinished(w) \subseteq Unfinished(s)
  PROVE  HasCapacity(w)
<1>1. DOMAIN w.records \ w.blocked \in SUBSET (DOMAIN s.records \ s.blocked)
  OBVIOUS
<1>2. IsFiniteSet(DOMAIN s.records \ s.blocked)
  BY Finite, FS_Subset
<1>3. Cardinality(DOMAIN w.records \ w.blocked) <= Cardinality(DOMAIN s.records \ s.blocked)
      /\ Cardinality(DOMAIN w.records \ w.blocked) \in Nat
      /\ Cardinality(DOMAIN s.records \ s.blocked) \in Nat
  BY <1>1, <1>2, FS_Subset, FS_CardinalityType
<1>4. Cardinality(Unfinished(w)) <= Cardinality(Unfinished(s))
      /\ Cardinality(Unfinished(w)) \in Nat /\ Cardinality(Unfinished(s)) \in Nat
  BY Finite, FS_Subset, FS_CardinalityType
<1>5. Cardinality(DOMAIN s.ops) \in Nat
  BY Finite
<1>6. Cardinality(w.blocked \cup DOMAIN w.records) <= TOMBSTONE_LIMIT
  <2>1. Cardinality(s.blocked \cup DOMAIN s.records) <= TOMBSTONE_LIMIT
    BY DEF HasCapacity
  <2> QED
    BY <2>1, Zenon
<1>7. Cardinality(DOMAIN w.records) <= LIMIT
  BY DEF HasCapacity
<1>8. Cardinality(DOMAIN w.ops) + Cardinality(DOMAIN w.records \ w.blocked)
        + Cardinality(Unfinished(w)) <= OPERATION_LIMIT
  <2>1. Cardinality(DOMAIN s.ops) + Cardinality(DOMAIN s.records \ s.blocked)
          + Cardinality(Unfinished(s)) <= OPERATION_LIMIT
    BY DEF HasCapacity
  <2>2. OPERATION_LIMIT \in Nat
    BY LimitsAreNaturals DEF OPERATION_LIMIT
  <2>3. Cardinality(DOMAIN w.ops) = Cardinality(DOMAIN s.ops)
    BY Zenon
  <2> QED
    BY <1>3, <1>4, <1>5, <2>1, <2>2, <2>3
<1> QED
  BY <1>6, <1>7, <1>8 DEF HasCapacity

LEMMA SweptCommittable ==
  ASSUME NEW s, WellTyped(s), Committable(s)
  PROVE  Committable(Swept(s))
<1> DEFINE w == Swept(s)
<1>1. /\ WellTyped(w) /\ DOMAIN w.records = DOMAIN s.records
      /\ w.blocked = s.blocked \cup (SweptIds(s) \cap DOMAIN s.records)
      /\ w.ops = SweptOps(s) /\ w.bindings = s.bindings /\ w.recovery = SweptRecovery(s)
  BY SweptFacts
<1> HIDE DEF w
<1>2. DOMAIN w.ops = DOMAIN s.ops
  BY <1>1, SweptOpsFacts
<1>3. Unfinished(w) \subseteq Unfinished(s)
  BY <1>1, <1>2, SweptOpsFacts DEF Unfinished
<1>4. HasCapacity(w)
  BY <1>1, <1>2, <1>3, CapacityMonotone DEF Committable
<1>5. LifecycleValid(w)
  <2>1. \A o \in DOMAIN w.ops :
           /\ w.ops[o].overlap <= w.ops[o].expires
           /\ w.ops[o].state \in {"delivered", "acknowledged", "completed"} => w.ops[o].cred # NoCred
           /\ w.ops[o].action = "revoke" => w.ops[o].state = "revoked"
    BY <1>1, <1>2, SweptOpsFacts DEF Committable, LifecycleValid, Finished, OpTerminal
  <2>2. \A d \in DOMAIN w.recovery :
           /\ d \in DOMAIN w.bindings
           /\ w.recovery[d] \in DOMAIN w.ops
           /\ w.ops[w.recovery[d]].subject = d
           /\ w.ops[w.recovery[d]].action = "recover"
    <3>1. \A d \in DOMAIN w.recovery : d \in DOMAIN s.recovery /\ w.recovery[d] = s.recovery[d]
      BY <1>1 DEF SweptRecovery, Keep
    <3> QED
      BY <1>1, <1>2, <3>1, SweptOpsFacts DEF Committable, LifecycleValid
  <2> QED
    BY <1>1, <1>2, <2>1, <2>2 DEF LifecycleValid, Committable
<1> QED
  BY <1>4, <1>5 DEF w, Committable

LEMMA WithdrawnFacts ==
  ASSUME NEW s, WellTyped(s), NEW subject
  PROVE  LET w == Withdrawn(s, subject)
         IN  /\ WellTyped(w)
             /\ DOMAIN w.records = DOMAIN s.records
             /\ w.blocked = s.blocked \cup Matching(s, subject)
             /\ DOMAIN w.ops = DOMAIN s.ops
             /\ \A o \in DOMAIN s.ops : w.ops[o] = IF o \in ActiveOps(s, subject)
                                                   THEN [s.ops[o] EXCEPT !.state = "revoked"]
                                                   ELSE s.ops[o]
             /\ w.bindings = s.bindings
             /\ w.recovery = Keep(s.recovery, DOMAIN s.recovery \ {subject})
             /\ w.owner = s.owner
             /\ DOMAIN w.requests = DOMAIN s.requests
<1> DEFINE ids == Matching(s, subject)
           a == Retire(s, ids)
           b == InvalidateApprovals(a, ids)
           r == MarkStale(b, {x \in DOMAIN s.requests : s.requests[x].device = subject})
           ops == [o \in DOMAIN r.ops |-> IF o \in ActiveOps(r, subject)
                                          THEN [r.ops[o] EXCEPT !.state = "revoked"]
                                          ELSE r.ops[o]]
           rec == Keep(r.recovery, DOMAIN r.recovery \ {subject})
           w == [r EXCEPT !.ops = ops, !.recovery = rec]
<1>0. Withdrawn(s, subject) = w
  BY DEF Withdrawn
<1>1. ids \subseteq DOMAIN s.records
  BY DEF Matching
<1>2. /\ WellTyped(a) /\ DOMAIN a.records = DOMAIN s.records
      /\ a.blocked = s.blocked \cup (ids \cap DOMAIN s.records)
      /\ a.ops = s.ops /\ a.bindings = s.bindings /\ a.recovery = s.recovery /\ a.owner = s.owner
      /\ a.requests = s.requests
  BY RetireType
<1> HIDE DEF ids, a
<1>3. /\ WellTyped(b) /\ DOMAIN b.records = DOMAIN s.records /\ b.blocked = a.blocked
      /\ b.ops = s.ops /\ b.bindings = s.bindings /\ b.recovery = s.recovery /\ b.owner = s.owner
      /\ DOMAIN b.requests = DOMAIN s.requests
  BY <1>2, InvalidateType
<1> HIDE DEF b
<1>4. /\ WellTyped(r) /\ DOMAIN r.records = DOMAIN s.records /\ r.blocked = a.blocked
      /\ r.ops = s.ops /\ r.bindings = s.bindings /\ r.recovery = s.recovery /\ r.owner = s.owner
      /\ DOMAIN r.requests = DOMAIN s.requests
  BY <1>3, MarkStaleType
<1> HIDE DEF r
<1>5. ActiveOps(r, subject) = ActiveOps(s, subject)
  BY <1>4 DEF ActiveOps, Unfinished
<1>6. ops \in [DOMAIN ops -> Operation] /\ DOMAIN ops = DOMAIN s.ops /\ DOMAIN ops \subseteq OpIds
  BY <1>4 DEF WellTyped, Operation, OpStates
<1>7. rec \in [DOMAIN rec -> OpIds] /\ DOMAIN rec \subseteq Devices
  BY <1>4 DEF WellTyped, Keep
<1>8. \A o \in DOMAIN s.ops : ops[o] = IF o \in ActiveOps(s, subject)
                                       THEN [s.ops[o] EXCEPT !.state = "revoked"] ELSE s.ops[o]
  BY <1>4, <1>5
<1>9. rec = Keep(s.recovery, DOMAIN s.recovery \ {subject})
  BY <1>4
<1> HIDE DEF ops, rec
<1>10. WellTyped(w)
  BY <1>4, <1>6, <1>7, SetLifecycleType
<1>11. /\ w.ops = ops /\ w.recovery = rec /\ w.records = r.records /\ w.blocked = r.blocked
       /\ w.bindings = r.bindings /\ w.owner = r.owner /\ w.requests = r.requests
  BY <1>4 DEF WellTyped
<1>12. r.blocked = s.blocked \cup Matching(s, subject)
  BY <1>1, <1>2, <1>4 DEF ids
<1> HIDE DEF w
<1> QED
  BY <1>0, <1>4, <1>6, <1>8, <1>9, <1>10, <1>11, <1>12

\* Adding an operation to a well-typed snapshot.
LEMMA AddOperationType ==
  ASSUME NEW s, WellTyped(s), NEW o \in OpIds, NEW row \in Operation
  PROVE  /\ WellTyped([s EXCEPT !.ops = Put(s.ops, o, row)])
         /\ [s EXCEPT !.ops = Put(s.ops, o, row)].ops = Put(s.ops, o, row)
         /\ [s EXCEPT !.ops = Put(s.ops, o, row)].records = s.records
         /\ [s EXCEPT !.ops = Put(s.ops, o, row)].blocked = s.blocked
         /\ [s EXCEPT !.ops = Put(s.ops, o, row)].bindings = s.bindings
         /\ [s EXCEPT !.ops = Put(s.ops, o, row)].recovery = s.recovery
         /\ [s EXCEPT !.ops = Put(s.ops, o, row)].owner = s.owner
         /\ [s EXCEPT !.ops = Put(s.ops, o, row)].requests = s.requests
<1>1. s.ops \in [DOMAIN s.ops -> Operation] /\ DOMAIN s.ops \subseteq OpIds
  BY DEF WellTyped
<1> DEFINE f == Put(s.ops, o, row)
<1>2. f \in [DOMAIN f -> Operation] /\ DOMAIN f \subseteq OpIds
  BY <1>1 DEF Put
<1> HIDE DEF f
<1>3. WellTyped([s EXCEPT !.ops = f])
  BY <1>2 DEF WellTyped
<1>4. LET w == [s EXCEPT !.ops = f]
      IN  w.ops = f /\ w.records = s.records /\ w.blocked = s.blocked /\ w.bindings = s.bindings
          /\ w.recovery = s.recovery /\ w.owner = s.owner /\ w.requests = s.requests
  BY DEF WellTyped
<1> QED
  BY <1>3, <1>4 DEF f

LEMMA NewOperationType ==
  ASSUME NEW s, WellTyped(s), NEW subject \in Subjects, TypeOK,
         NEW action \in {"rotate", "revoke", "recover"}, NEW state \in OpStates, NEW expires \in Nat
  PROVE  NewOperation(s, subject, action, state, expires) \in Operation
<1>1. Matching(s, subject) \in SUBSET Credentials
  BY DEF Matching, WellTyped
<1>2. s.owner.gen \in Nat /\ server.origin \in Origins
  BY DEF WellTyped, TypeOK
<1> QED
  BY <1>1, <1>2 DEF NewOperation, Operation

\* The heart of has_capacity: a revoke that is admitted can always be written.  Below LIMIT
\* operations there is room by LIMIT alone; beyond, it pays with the liability it removes.
LEMMA RevokeCommittable ==
  ASSUME TypeOK, NEW s, WellTyped(s), Committable(s), NEW subject \in Subjects,
         NEW o \in OpIds \ DOMAIN s.ops, RevokeAdmitted(s, subject)
  PROVE  Committable(RevokeResult(s, o, subject))
<1> DEFINE w == Withdrawn(s, subject)
           row == NewOperation(s, subject, "revoke", "revoked", now + QUEUE_SECONDS)
           x == [w EXCEPT !.ops = Put(w.ops, o, row)]
<1>1. RevokeResult(s, o, subject) = x
  BY DEF RevokeResult
<1>2. row \in Operation
  BY NewOperationType, LimitsAreNaturals DEF OpStates, TypeOK
<1>3. row.state = "revoked" /\ row.action = "revoke" /\ row.overlap = 0
  BY DEF NewOperation
<1>4. /\ WellTyped(w) /\ DOMAIN w.records = DOMAIN s.records
      /\ w.blocked = s.blocked \cup Matching(s, subject)
      /\ DOMAIN w.ops = DOMAIN s.ops
      /\ \A p \in DOMAIN s.ops : w.ops[p] = IF p \in ActiveOps(s, subject)
                                            THEN [s.ops[p] EXCEPT !.state = "revoked"] ELSE s.ops[p]
      /\ w.bindings = s.bindings
      /\ w.recovery = Keep(s.recovery, DOMAIN s.recovery \ {subject})
  BY WithdrawnFacts, ZenonT(30)
<1> HIDE DEF w, row
<1>5. /\ WellTyped(x) /\ x.ops = Put(w.ops, o, row) /\ x.records = w.records
      /\ x.blocked = w.blocked /\ x.bindings = w.bindings /\ x.recovery = w.recovery
  BY <1>2, <1>4, AddOperationType
<1> HIDE DEF x
<1>6. /\ DOMAIN x.ops = DOMAIN s.ops \cup {o}
      /\ x.ops[o] = row
      /\ \A p \in DOMAIN s.ops : x.ops[p] = IF p \in ActiveOps(s, subject)
                                            THEN [s.ops[p] EXCEPT !.state = "revoked"] ELSE s.ops[p]
  BY <1>4, <1>5 DEF Put
<1>7. \A p \in DOMAIN s.ops : s.ops[p] \in Operation
  BY DEF WellTyped
<1>8. \A p \in ActiveOps(s, subject) : p \in DOMAIN s.ops /\ ~Finished(s.ops[p]) /\ x.ops[p].state = "revoked"
  BY <1>6, <1>7 DEF ActiveOps, Unfinished, Operation
<1>9. Unfinished(x) = Unfinished(s) \ ActiveOps(s, subject)
  BY <1>3, <1>6, <1>8 DEF Unfinished, Finished, OpTerminal
<1>10. DOMAIN x.records \ x.blocked = (DOMAIN s.records \ s.blocked) \ Matching(s, subject)
  BY <1>4, <1>5
<1>11. x.blocked \cup DOMAIN x.records = s.blocked \cup DOMAIN s.records
  BY <1>4, <1>5 DEF Matching
<1>12. HasCapacity(x)
  <2> DEFINE nOps == Cardinality(DOMAIN s.ops)
             nRec == Cardinality(DOMAIN s.records)
             live == DOMAIN s.records \ s.blocked
             nLive == Cardinality(live)
             nLive2 == Cardinality(live \ Matching(s, subject))
             nOpen == Cardinality(Unfinished(s))
             nOpen2 == Cardinality(Unfinished(s) \ ActiveOps(s, subject))
  <2>1. /\ nOps \in Nat /\ nRec \in Nat /\ nOpen \in Nat /\ nOpen <= nOps
        /\ IsFiniteSet(DOMAIN s.records) /\ IsFiniteSet(Unfinished(s)) /\ IsFiniteSet(DOMAIN s.ops)
    BY Finite
  <2>2. IsFiniteSet(live) /\ nLive \in Nat /\ nLive <= nRec
    <3>1. live \in SUBSET DOMAIN s.records
      OBVIOUS
    <3> QED
      BY <2>1, <3>1, FS_Subset, FS_CardinalityType
  <2>3. nLive2 \in Nat /\ nLive2 <= nLive /\ (nLive2 = nLive => live \ Matching(s, subject) = live)
    <3>1. live \ Matching(s, subject) \in SUBSET live
      OBVIOUS
    <3> HIDE DEF live
    <3> QED
      BY <2>2, <3>1, FS_Subset, FS_CardinalityType
  <2>4. nOpen2 \in Nat /\ nOpen2 <= nOpen
        /\ (nOpen2 = nOpen => Unfinished(s) \ ActiveOps(s, subject) = Unfinished(s))
    <3>1. Unfinished(s) \ ActiveOps(s, subject) \in SUBSET Unfinished(s)
      OBVIOUS
    <3> QED
      BY <2>1, <3>1, FS_Subset, FS_CardinalityType
  <2>5. Cardinality(DOMAIN x.ops) = nOps + 1
    BY <1>6, <2>1, FS_AddElement
  <2>6. nRec <= LIMIT /\ nOps + nLive + nOpen <= OPERATION_LIMIT
    BY DEF Committable, HasCapacity
  <2>7. Cardinality(DOMAIN x.records \ x.blocked) = nLive2 /\ Cardinality(Unfinished(x)) = nOpen2
    BY <1>9, <1>10, Zenon
  <2>8. Cardinality(DOMAIN x.records) = nRec
    BY <1>4, <1>5, Zenon
  <2>9. Cardinality(x.blocked \cup DOMAIN x.records) <= TOMBSTONE_LIMIT
    <3>1. Cardinality(s.blocked \cup DOMAIN s.records) <= TOMBSTONE_LIMIT
      BY DEF Committable, HasCapacity
    <3> QED
      BY <1>11, <3>1, Zenon
  <2>10. CASE nOps < LIMIT
    <3>1. nOps + 1 + nLive2 + nOpen2 <= OPERATION_LIMIT
      <4> HIDE DEF nOps, nRec, nLive, nLive2, nOpen, nOpen2
      <4> QED
        BY <2>1, <2>2, <2>3, <2>4, <2>6, <2>10, LimitsAreNaturals DEF OPERATION_LIMIT
    <3> QED
      BY <2>5, <2>6, <2>7, <2>8, <2>9, <3>1 DEF HasCapacity
  <2>11. CASE ActiveOps(s, subject) # {}
    <3>1. nOpen2 # nOpen
      BY <2>4, <2>11, <1>8 DEF ActiveOps
    <3>2. nOps + 1 + nLive2 + nOpen2 <= OPERATION_LIMIT
      <4> HIDE DEF nOps, nRec, nLive, nLive2, nOpen, nOpen2
      <4> QED
        BY <2>1, <2>2, <2>3, <2>4, <2>6, <3>1, LimitsAreNaturals DEF OPERATION_LIMIT
    <3> QED
      BY <2>5, <2>6, <2>7, <2>8, <2>9, <3>2 DEF HasCapacity
  <2>12. CASE Matching(s, subject) \ s.blocked # {}
    <3>1. nLive2 # nLive
      BY <2>3, <2>12 DEF Matching
    <3>2. nOps + 1 + nLive2 + nOpen2 <= OPERATION_LIMIT
      <4>1. nLive2 \in Nat /\ nLive2 <= nLive /\ nOpen2 \in Nat /\ nOpen2 <= nOpen
        BY <2>3, <2>4
      <4>2. nOps \in Nat /\ nLive \in Nat /\ nOpen \in Nat /\ OPERATION_LIMIT \in Nat
        BY <2>1, <2>2, LimitsAreNaturals DEF OPERATION_LIMIT
      <4> HIDE DEF nOps, nRec, nLive, nLive2, nOpen, nOpen2
      <4> QED
        BY <2>6, <3>1, <4>1, <4>2
    <3> QED
      BY <2>5, <2>6, <2>7, <2>8, <2>9, <3>2 DEF HasCapacity
  <2> QED
    BY <2>10, <2>11, <2>12 DEF RevokeAdmitted
<1>13. LifecycleValid(x)
  <2>1. Cardinality(DOMAIN x.ops) <= OPERATION_LIMIT
    <3>1. Cardinality(DOMAIN x.ops) \in Nat /\ Cardinality(Unfinished(x)) \in Nat
          /\ IsFiniteSet(DOMAIN x.records)
      BY <1>5, Finite
    <3>2. Cardinality(DOMAIN x.records \ x.blocked) \in Nat
      BY <3>1, FS_Subset, FS_CardinalityType
    <3>3. OPERATION_LIMIT \in Nat
      BY LimitsAreNaturals DEF OPERATION_LIMIT
    <3> QED
      BY <1>12, <3>1, <3>2, <3>3 DEF HasCapacity
  <2>2. \A p \in DOMAIN x.ops :
           /\ x.ops[p].overlap <= x.ops[p].expires
           /\ x.ops[p].state \in {"delivered", "acknowledged", "completed"} => x.ops[p].cred # NoCred
           /\ x.ops[p].action = "revoke" => x.ops[p].state = "revoked"
    <3>1. row.overlap <= row.expires
      BY <1>2, <1>3 DEF Operation
    <3>2. ASSUME NEW p \in DOMAIN s.ops
          PROVE  /\ x.ops[p].overlap <= x.ops[p].expires
                 /\ x.ops[p].state \in {"delivered", "acknowledged", "completed"} => x.ops[p].cred # NoCred
                 /\ x.ops[p].action = "revoke" => x.ops[p].state = "revoked"
      <4>1. /\ s.ops[p].overlap <= s.ops[p].expires
            /\ s.ops[p].state \in {"delivered", "acknowledged", "completed"} => s.ops[p].cred # NoCred
            /\ s.ops[p].action = "revoke" => s.ops[p].state = "revoked"
        BY DEF Committable, LifecycleValid
      <4>2. CASE p \in ActiveOps(s, subject)
        <5>1. x.ops[p].state = "revoked" /\ x.ops[p].overlap = s.ops[p].overlap
              /\ x.ops[p].expires = s.ops[p].expires
          BY <1>6, <1>7, <4>2 DEF Operation
        <5> QED
          BY <4>1, <5>1
      <4>3. CASE p \notin ActiveOps(s, subject)
        BY <1>6, <4>1, <4>3
      <4> QED
        BY <4>2, <4>3
    <3> QED
      BY <1>3, <1>6, <3>1, <3>2
  <2>3. \A d \in DOMAIN x.recovery : d \in DOMAIN s.recovery /\ x.recovery[d] = s.recovery[d]
    BY <1>4, <1>5 DEF Keep
  <2>4. \A p \in DOMAIN s.ops : x.ops[p].subject = s.ops[p].subject /\ x.ops[p].action = s.ops[p].action
    BY <1>6, <1>7 DEF Operation
  <2>5. \A d \in DOMAIN x.recovery :
           /\ d \in DOMAIN x.bindings
           /\ x.recovery[d] \in DOMAIN x.ops
           /\ x.ops[x.recovery[d]].subject = d
           /\ x.ops[x.recovery[d]].action = "recover"
    <3> SUFFICES ASSUME NEW d \in DOMAIN x.recovery
                 PROVE  /\ d \in DOMAIN x.bindings
                        /\ x.recovery[d] \in DOMAIN x.ops
                        /\ x.ops[x.recovery[d]].subject = d
                        /\ x.ops[x.recovery[d]].action = "recover"
      OBVIOUS
    <3>1. d \in DOMAIN s.recovery /\ x.recovery[d] = s.recovery[d]
      BY <2>3
    <3>2. /\ d \in DOMAIN s.bindings /\ s.recovery[d] \in DOMAIN s.ops
          /\ s.ops[s.recovery[d]].subject = d /\ s.ops[s.recovery[d]].action = "recover"
      BY <3>1 DEF Committable, LifecycleValid
    <3>3. x.bindings = s.bindings
      BY <1>4, <1>5
    <3> QED
      BY <1>6, <2>4, <3>1, <3>2, <3>3
  <2>6. Cardinality(DOMAIN x.bindings) <= LIMIT
    BY <1>4, <1>5 DEF Committable, LifecycleValid
  <2> QED
    BY <2>1, <2>2, <2>5, <2>6 DEF LifecycleValid
<1> QED
  BY <1>1, <1>12, <1>13 DEF Committable

-----------------------------------------------------------------------------
(* Every step keeps the snapshot well typed and reloadable. *)

LEMMA OpenedFacts ==
  ASSUME TypeOK
  PROVE  /\ WellTyped(Swept(store)) /\ WellTyped(Opened)
         /\ Opened.ops = Swept(store).ops /\ Opened.records = Swept(store).records
         /\ Opened.blocked = Swept(store).blocked /\ Opened.bindings = Swept(store).bindings
         /\ Opened.recovery = Swept(store).recovery /\ Opened.owner = store.owner
         /\ DOMAIN Opened.requests = DOMAIN store.requests
<1>1. WellTyped(Swept(store)) /\ Swept(store).owner = store.owner
      /\ DOMAIN Swept(store).requests = DOMAIN store.requests
  BY SweptFacts DEF TypeOK
<1> QED
  BY <1>1, MarkStaleType DEF Opened, Refreshed

\* Replacing one enrollment row.
LEMMA SetRequestType ==
  ASSUME NEW s, WellTyped(s), NEW r \in DOMAIN s.requests, NEW row \in EnrollmentRow
  PROVE  WellTyped([s EXCEPT !.requests[r] = row])
  BY DEF WellTyped

\* Replacing one operation row, and the state of one.
LEMMA SetOperationType ==
  ASSUME NEW s, WellTyped(s), NEW o \in DOMAIN s.ops, NEW row \in Operation
  PROVE  WellTyped([s EXCEPT !.ops[o] = row])
  BY DEF WellTyped

LEMMA SetStateType ==
  ASSUME NEW s, WellTyped(s), NEW o \in DOMAIN s.ops, NEW st \in OpStates
  PROVE  WellTyped([s EXCEPT !.ops[o].state = st])
<1> DEFINE row == [s.ops[o] EXCEPT !.state = st]
<1>1. s.ops[o] \in Operation
  BY DEF WellTyped
<1>2. row \in Operation
  BY <1>1 DEF Operation
<1>3. [s EXCEPT !.ops[o].state = st] = [s EXCEPT !.ops[o] = row]
  OBVIOUS
<1> QED
  BY <1>2, <1>3, SetOperationType

LEMMA CommittableSame ==
  ASSUME NEW s, NEW w, Committable(s), w.records = s.records, w.blocked = s.blocked, w.ops = s.ops,
         w.bindings = s.bindings, w.recovery = s.recovery
  PROVE  Committable(w)
  BY DEF Committable, LifecycleValid, HasCapacity, Unfinished

LEMMA LifecycleTypes ==
  ASSUME TypeOK, LifecycleStep
  PROVE  WellTyped(store')
<1> DEFINE s == Swept(store)
<1>0. WellTyped(s) /\ now \in Nat /\ server.origin \in Origins
  BY SweptFacts DEF TypeOK
<1>1. CASE Maintain
  BY <1>0, <1>1 DEF Maintain
<1>2. ASSUME NEW o \in OpIds, NEW subject \in Subjects, Rotate(o, subject) PROVE WellTyped(store')
  <2> DEFINE row == NewOperation(s, subject, "rotate", "queued", now + QUEUE_SECONDS)
  <2>1. row \in Operation
    BY <1>0, NewOperationType, LimitsAreNaturals DEF OpStates
  <2>2. store' = [s EXCEPT !.ops = Put(s.ops, o, row)]
    BY <1>2 DEF Rotate, Commit
  <2> HIDE DEF row, s
  <2> QED
    BY <1>0, <2>1, <2>2, AddOperationType
<1>3. ASSUME NEW o \in OpIds, NEW subject \in Subjects, Revoke(o, subject) PROVE WellTyped(store')
  <2> DEFINE row == NewOperation(s, subject, "revoke", "revoked", now + QUEUE_SECONDS)
             w == Withdrawn(s, subject)
  <2>1. row \in Operation
    BY <1>0, NewOperationType, LimitsAreNaturals DEF OpStates
  <2>2. store' = [w EXCEPT !.ops = Put(w.ops, o, row)]
    BY <1>3 DEF Revoke, RevokeResult, Commit
  <2>3. WellTyped(w)
    BY <1>0, WithdrawnFacts
  <2> HIDE DEF row, w
  <2> QED
    BY <2>1, <2>2, <2>3, AddOperationType
<1>4. ASSUME NEW o \in OpIds, NEW subject \in Subjects, Recover(o, subject) PROVE WellTyped(store')
  <2> DEFINE row == NewOperation(s, subject, "recover", "queued", now + OVERLAP_SECONDS)
             w == Withdrawn(s, subject)
             ops == Put(w.ops, o, row)
             rec == Put(w.recovery, subject, o)
  <2>1. row \in Operation
    BY <1>0, NewOperationType, LimitsAreNaturals DEF OpStates
  <2>2. store' = [w EXCEPT !.ops = ops, !.recovery = rec]
    BY <1>4 DEF Recover, Commit
  <2>3. WellTyped(w) /\ subject \in Devices
    BY <1>0, <1>4, WithdrawnFacts DEF Recover
  <2> HIDE DEF row, w
  <2>4. ops \in [DOMAIN ops -> Operation] /\ DOMAIN ops \subseteq OpIds
    BY <2>1, <2>3 DEF WellTyped, Put
  <2>5. rec \in [DOMAIN rec -> OpIds] /\ DOMAIN rec \subseteq Devices
    BY <2>3 DEF WellTyped, Put
  <2> HIDE DEF ops, rec
  <2> QED
    BY <2>2, <2>3, <2>4, <2>5, SetLifecycleType
<1>5. ASSUME NEW c \in Credentials, NEW o \in OpIds, Poll(c, o) PROVE WellTyped(store')
  <2>1. o \in DOMAIN s.ops /\ store' = [s EXCEPT !.ops[o].state = "pending"]
    BY <1>5 DEF Poll, Presents, Commit
  <2> HIDE DEF s
  <2> QED
    BY <1>0, <2>1, SetStateType DEF OpStates
<1>6. ASSUME NEW c \in Credentials, NEW o \in OpIds, Ack(c, o) PROVE WellTyped(store')
  <2> DEFINE a == Retire(s, s.ops[o].old)
             b == [a EXCEPT !.ops[o].state = "acknowledged"]
  <2>1. o \in DOMAIN s.ops /\ store' = InvalidateApprovals(b, s.ops[o].old)
    BY <1>6 DEF Ack, AckResult, Presents, Commit
  <2>2. WellTyped(a) /\ a.ops = s.ops
    BY <1>0, RetireType
  <2> HIDE DEF s, a
  <2>3. WellTyped(b)
    BY <2>1, <2>2, SetStateType DEF OpStates
  <2> HIDE DEF b
  <2> QED
    BY <2>1, <2>3, InvalidateType
<1>7. ASSUME NEW c \in Credentials, NEW new \in Credentials, NEW o \in OpIds, Deliver(c, o, new)
      PROVE WellTyped(store')
  <2> DEFINE recs == Put(s.records, new, [subject |-> s.records[c].subject, enabled |-> TRUE])
             row == [s.ops[o] EXCEPT !.state = "delivered", !.cred = new,
                       !.overlap = Min2(now + OVERLAP_SECONDS, s.ops[o].expires)]
  <2>1. o \in DOMAIN s.ops /\ c \in DOMAIN s.records
        /\ store' = [s EXCEPT !.records = recs, !.ops[o] = row]
    BY <1>7 DEF Deliver, Presents, Current, Commit
  <2> HIDE DEF s
  <2>2. recs \in [DOMAIN recs -> Record] /\ DOMAIN recs \subseteq Credentials
    BY <1>0, <2>1 DEF WellTyped, Put, Record
  <2>3. row \in Operation
    <3>1. s.ops[o] \in Operation
      BY <1>0, <2>1 DEF WellTyped
    <3>2. s.ops[o].expires \in Nat
      BY <3>1 DEF Operation
    <3>3. Min2(now + OVERLAP_SECONDS, s.ops[o].expires) \in Nat
      BY <1>0, <3>2, LimitsAreNaturals DEF Min2
    <3> QED
      BY <3>1, <3>3 DEF Operation, OpStates
  <2> HIDE DEF recs, row
  <2> QED
    BY <1>0, <2>1, <2>2, <2>3 DEF WellTyped
<1> QED
  BY <1>1, <1>2, <1>3, <1>4, <1>5, <1>6, <1>7 DEF LifecycleStep

LEMMA DeviceIdType ==
  ASSUME NEW s, WellTyped(s), NEW key \in Keys, server.idlen \in Lengths
  PROVE  DeviceId(s, key) \in Devices
<1>1. \A r \in DOMAIN s.requests : s.requests[r].device \in Devices
  BY DEF WellTyped, EnrollmentRow
<1>2. DOMAIN s.bindings \subseteq Devices
  BY DEF WellTyped
<1>3. DeviceIdOf[server.idlen][key] \in Devices
  BY IdsDisjoint
<1> QED
  BY <1>1, <1>2, <1>3 DEF DeviceId

LEMMA SetRequestStateType ==
  ASSUME NEW s, WellTyped(s), NEW r \in DOMAIN s.requests, NEW st \in RequestStates
  PROVE  WellTyped([s EXCEPT !.requests[r].state = st])
<1> DEFINE row == [s.requests[r] EXCEPT !.state = st]
<1>1. s.requests[r] \in EnrollmentRow
  BY DEF WellTyped
<1>2. row \in EnrollmentRow
  BY <1>1 DEF EnrollmentRow
<1>3. [s EXCEPT !.requests[r].state = st] = [s EXCEPT !.requests[r] = row]
  OBVIOUS
<1> QED
  BY <1>2, <1>3, SetRequestType

LEMMA ControllersType ==
  ASSUME NEW s, WellTyped(s), NEW key, NEW a \in Controllers(s, key)
  PROVE  a \in Actor
  BY DEF Controllers, Actor, WellTyped

LEMMA IssuedType ==
  ASSUME NEW s, WellTyped(s), NEW device \in Devices, NEW new \in Credentials
  PROVE  /\ WellTyped(Issued(s, device, new))
         /\ Issued(s, device, new).ops = s.ops /\ Issued(s, device, new).recovery = s.recovery
         /\ Issued(s, device, new).bindings = s.bindings /\ Issued(s, device, new).owner = s.owner
         /\ Issued(s, device, new).requests = s.requests
<1> DEFINE old == Retire(s, Matching(s, device))
           recs == Put(old.records, new, [subject |-> device, enabled |-> TRUE])
<1>1. /\ WellTyped(old) /\ old.ops = s.ops /\ old.recovery = s.recovery
      /\ old.bindings = s.bindings /\ old.owner = s.owner /\ old.requests = s.requests
  BY RetireType
<1>2. Issued(s, device, new) = [old EXCEPT !.records = recs]
  BY DEF Issued
<1> HIDE DEF old
<1>3. recs \in [DOMAIN recs -> Record] /\ DOMAIN recs \subseteq Credentials
  BY <1>1 DEF WellTyped, Put, Record, Subjects
<1> HIDE DEF recs
<1>4. WellTyped([old EXCEPT !.records = recs])
  BY <1>1, <1>3 DEF WellTyped
<1>5. /\ [old EXCEPT !.records = recs].ops = old.ops
      /\ [old EXCEPT !.records = recs].recovery = old.recovery
      /\ [old EXCEPT !.records = recs].bindings = old.bindings
      /\ [old EXCEPT !.records = recs].owner = old.owner
      /\ [old EXCEPT !.records = recs].requests = old.requests
  BY <1>1 DEF WellTyped
<1> QED
  BY <1>1, <1>2, <1>4, <1>5

LEMMA RecoveredType ==
  ASSUME NEW s, WellTyped(s), NEW device, NEW new \in Credentials,
         \A d \in DOMAIN s.recovery : s.recovery[d] \in DOMAIN s.ops
  PROVE  /\ WellTyped(Recovered(s, device, new))
         /\ Recovered(s, device, new).bindings = s.bindings
         /\ Recovered(s, device, new).requests = s.requests
<1>1. CASE device \notin DOMAIN s.recovery
  BY <1>1 DEF Recovered
<1>2. CASE device \in DOMAIN s.recovery
  <2> DEFINE o == s.recovery[device]
             row == [s.ops[o] EXCEPT !.state = "delivered", !.cred = new, !.overlap = s.ops[o].expires]
  <2>1. o \in DOMAIN s.ops /\ s.ops[o] \in Operation
    BY <1>2 DEF WellTyped
  <2>2. row \in Operation
    BY <2>1 DEF Operation, OpStates
  <2>3. Recovered(s, device, new) = [s EXCEPT !.ops[o] = row]
    BY <1>2 DEF Recovered
  <2> HIDE DEF o, row
  <2>4. WellTyped([s EXCEPT !.ops[o] = row])
    BY <2>1, <2>2, SetOperationType
  <2>5. [s EXCEPT !.ops[o] = row].bindings = s.bindings /\ [s EXCEPT !.ops[o] = row].requests = s.requests
    BY DEF WellTyped
  <2> QED
    BY <2>3, <2>4, <2>5
<1> QED
  BY <1>1, <1>2

LEMMA SetRequestsType ==
  ASSUME NEW s, WellTyped(s), NEW q, q \in [DOMAIN q -> EnrollmentRow], DOMAIN q \subseteq RequestIds
  PROVE  WellTyped([s EXCEPT !.requests = q])
  BY DEF WellTyped

\* The recovery pointers of the opened snapshot name operations.
LEMMA OpenedPointers ==
  ASSUME TypeOK, Committable(Swept(store))
  PROVE  \A d \in DOMAIN Opened.recovery : Opened.recovery[d] \in DOMAIN Opened.ops
<1>1. \A d \in DOMAIN Swept(store).recovery : Swept(store).recovery[d] \in DOMAIN Swept(store).ops
  BY DEF Committable, LifecycleValid
<1> QED
  BY <1>1, OpenedFacts

LEMMA ReopenedType ==
  ASSUME NEW s, WellTyped(s), NEW device,
         \A d \in DOMAIN s.recovery : s.recovery[d] \in DOMAIN s.ops
  PROVE  WellTyped(Reopened(s, device))
<1>1. CASE device \in DOMAIN s.recovery
  <2> DEFINE o == s.recovery[device]
  <2>1. o \in DOMAIN s.ops /\ Reopened(s, device) = [s EXCEPT !.ops[o].state = "pending"]
    BY <1>1 DEF Reopened
  <2> HIDE DEF o
  <2>2. "pending" \in OpStates
    BY DEF OpStates
  <2>3. WellTyped([s EXCEPT !.ops[o].state = "pending"])
    BY <2>1, <2>2, SetStateType
  <2> QED
    BY <2>1, <2>3, Zenon
<1>2. CASE device \notin DOMAIN s.recovery
  BY <1>2 DEF Reopened
<1> QED
  BY <1>1, <1>2

LEMMA EnrollmentTypes ==
  ASSUME TypeOK, EnrollmentStep
  PROVE  WellTyped(store')
<1> DEFINE s == Opened
<1>0. /\ WellTyped(s) /\ now \in Nat /\ server.origin \in Origins /\ server.idlen \in Lengths
      /\ WellTyped(store)
  BY OpenedFacts DEF TypeOK
<1>00. Committable(Swept(store)) => \A d \in DOMAIN s.recovery : s.recovery[d] \in DOMAIN s.ops
  BY OpenedPointers
<1>1. CASE Examine
  BY <1>0, <1>1 DEF Examine
<1>2. CASE Charge
  BY <1>0, <1>2, MarkStaleType DEF Charge, Refreshed
<1>3. ASSUME NEW key \in Keys, NEW r \in RequestIds, Request(key, r) PROVE WellTyped(store')
  <2> DEFINE device == DeviceId(s, key)
             kept == {x \in DOMAIN s.requests : s.requests[x].expires > now}
             row == [key |-> key, device |-> device, state |-> "challenge", attempts |-> 0,
                     expires |-> now + TTL, gen |-> s.owner.gen, origin |-> server.origin,
                     initiator |-> NoActor, approver |-> NoActor]
             q == Put(Keep(s.requests, kept), r, row)
             w == Reopened(s, device)
  <2>1. store' = [w EXCEPT !.requests = q] /\ Committable(Swept(store))
    BY <1>3 DEF Request, Commit
  <2>2. device \in Devices
    BY <1>0, DeviceIdType
  <2> HIDE DEF s, device
  <2>3. WellTyped(w)
    BY <1>0, <1>00, <2>1, ReopenedType
  <2>4. s.owner.gen \in Nat
    BY <1>0 DEF WellTyped
  <2>5. NoActor \in Actor
    BY DEF NoActor, Actor
  <2>6. row \in EnrollmentRow
    BY <1>0, <2>2, <2>4, <2>5, LimitsAreNaturals DEF EnrollmentRow, RequestStates
  <2> HIDE DEF row, w
  <2>7. q \in [DOMAIN q -> EnrollmentRow] /\ DOMAIN q \subseteq RequestIds
    BY <1>0, <2>6 DEF WellTyped, Put, Keep
  <2> HIDE DEF q
  <2> QED
    BY <2>1, <2>3, <2>7, SetRequestsType
<1>4. ASSUME NEW r \in RequestIds, Prove(r) \/ Cancel(r) \/ Deny(r) PROVE WellTyped(store')
  <2>1. PICK st \in {"ready", "cancelled", "denied"} :
           r \in DOMAIN s.requests /\ store' = [s EXCEPT !.requests[r].state = st]
    BY <1>4 DEF Prove, Cancel, Deny, Addressed, Live, Commit
  <2>2. st \in RequestStates
    BY DEF RequestStates
  <2> HIDE DEF s
  <2>3. WellTyped([s EXCEPT !.requests[r].state = st])
    BY <1>0, <2>1, <2>2, SetRequestStateType
  <2> QED
    BY <2>1, <2>3, Zenon
<1>5. ASSUME NEW r \in RequestIds, Initiate(r) \/ Approve(r) PROVE WellTyped(store')
  <2>1. PICK a \in Controllers(s, s.requests[r].key) :
           /\ r \in DOMAIN s.requests
           /\ \/ store' = [s EXCEPT !.requests[r] = [s.requests[r] EXCEPT !.initiator = a,
                                                                         !.state = "initiated"]]
              \/ store' = [s EXCEPT !.requests[r] = [s.requests[r] EXCEPT !.approver = a,
                                                                         !.state = "approved"]]
    BY <1>5 DEF Initiate, Approve, Addressed, Live, Commit
  <2> HIDE DEF s
  <2>2. a \in Actor
    BY <1>0, ControllersType
  <2>3. s.requests[r] \in EnrollmentRow
    BY <1>0, <2>1 DEF WellTyped
  <2>4. /\ [s.requests[r] EXCEPT !.initiator = a, !.state = "initiated"] \in EnrollmentRow
        /\ [s.requests[r] EXCEPT !.approver = a, !.state = "approved"] \in EnrollmentRow
    BY <2>2, <2>3 DEF EnrollmentRow, RequestStates
  <2>5. \E row \in EnrollmentRow : store' = [s EXCEPT !.requests[r] = row]
    BY <2>1, <2>4
  <2> QED
    BY <1>0, <2>1, <2>5, SetRequestType
<1>6. ASSUME NEW r \in RequestIds, Fail(r) PROVE WellTyped(store')
  <2> DEFINE n == Min2(MaxAttempts, s.requests[r].attempts + 1)
             end == IF n = MaxAttempts THEN "failed" ELSE s.requests[r].state
             row == [s.requests[r] EXCEPT !.attempts = n, !.state = end]
  <2>1. r \in DOMAIN s.requests /\ store' = [s EXCEPT !.requests[r] = row]
    BY <1>6 DEF Fail, Live, Commit
  <2> HIDE DEF s
  <2>2. s.requests[r] \in EnrollmentRow
    BY <1>0, <2>1 DEF WellTyped
  <2>3. s.requests[r].attempts \in Nat
    BY <2>2 DEF EnrollmentRow
  <2>4. n \in Nat
    BY <2>3, LimitsAreNaturals DEF Min2
  <2> HIDE DEF n
  <2>5. row \in EnrollmentRow
    BY <2>2, <2>4 DEF EnrollmentRow, RequestStates
  <2> HIDE DEF row
  <2> QED
    BY <1>0, <2>1, <2>5, SetRequestType
<1>7. ASSUME NEW r \in RequestIds, NEW new \in Credentials, Redeem(r, new) PROVE WellTyped(store')
  <2> DEFINE device == s.requests[r].device
             key == s.requests[r].key
             i == Issued(s, device, new)
             w == Recovered(i, device, new)
             b == Put(s.bindings, device, key)
             v == [w EXCEPT !.bindings = b]
  <2>0. Addressed(s, r, "approved")
    BY <1>7, Zenon DEF Redeem
  <2>00. store' = [w EXCEPT !.bindings = b, !.requests[r].state = "consumed"]
    BY <1>7, Zenon DEF Redeem, Commit
  <2>1. r \in DOMAIN s.requests /\ Committable(Swept(store))
    BY <2>0 DEF Addressed, Live
  <2>2. device \in Devices /\ key \in Keys
    <3> HIDE DEF s
    <3> QED
      BY <1>0, <2>1 DEF WellTyped, EnrollmentRow
  <2> HIDE DEF s, device, key
  <2>3. WellTyped(i) /\ i.ops = s.ops /\ i.recovery = s.recovery /\ i.requests = s.requests
    BY <1>0, <2>2, IssuedType
  <2>4. \A d \in DOMAIN i.recovery : i.recovery[d] \in DOMAIN i.ops
    BY <1>00, <2>1, <2>3
  <2> HIDE DEF i
  <2>5. WellTyped(w) /\ w.requests = s.requests
    BY <2>3, <2>4, RecoveredType
  <2>6. b \in [DOMAIN b -> Keys] /\ DOMAIN b \subseteq Devices
    BY <1>0, <2>2 DEF WellTyped, Put
  <2> HIDE DEF w, b
  <2>7. WellTyped(v) /\ v.requests = s.requests
    BY <2>5, <2>6 DEF WellTyped
  <2>8. store' = [v EXCEPT !.requests[r].state = "consumed"]
    BY <2>00, <2>5 DEF WellTyped
  <2> HIDE DEF v
  <2>9. "consumed" \in RequestStates
    BY DEF RequestStates
  <2>10. WellTyped([v EXCEPT !.requests[r].state = "consumed"])
    BY <2>1, <2>7, <2>9, SetRequestStateType
  <2> QED
    BY <2>8, <2>10, Zenon
<1> QED
  BY <1>1, <1>2, <1>3, <1>4, <1>5, <1>6, <1>7 DEF EnrollmentStep

LEMMA ReboundType ==
  ASSUME NEW s, WellTyped(s)
  PROVE  WellTyped(Rebound(s))
<1> DEFINE consumed == {r \in DOMAIN s.requests : s.requests[r].state = "consumed"}
           devices == {s.requests[r].device : r \in consumed}
           b == [d \in DOMAIN s.bindings \cup devices |->
                    IF d \in DOMAIN s.bindings THEN s.bindings[d]
                    ELSE s.requests[CHOOSE r \in consumed : s.requests[r].device = d].key]
<1>1. \A r \in DOMAIN s.requests : s.requests[r].device \in Devices /\ s.requests[r].key \in Keys
  BY DEF WellTyped, EnrollmentRow
<1>2. devices \subseteq Devices /\ DOMAIN s.bindings \subseteq Devices
  BY <1>1 DEF WellTyped
<1>3. ASSUME NEW d \in DOMAIN s.bindings \cup devices PROVE b[d] \in Keys
  <2>1. CASE d \in DOMAIN s.bindings
    BY <2>1 DEF WellTyped
  <2>2. CASE d \notin DOMAIN s.bindings
    <3>1. \E r \in consumed : s.requests[r].device = d
      BY <2>2
    <3>2. (CHOOSE r \in consumed : s.requests[r].device = d) \in consumed
      BY <3>1
    <3> QED
      BY <1>1, <2>2, <3>2
  <2> QED
    BY <2>1, <2>2
<1>4. b \in [DOMAIN b -> Keys] /\ DOMAIN b \subseteq Devices
  BY <1>2, <1>3
<1>5. Rebound(s) = [s EXCEPT !.bindings = b]
  BY DEF Rebound
<1> HIDE DEF b
<1> QED
  BY <1>4, <1>5 DEF WellTyped

-----------------------------------------------------------------------------
(* The inductive invariant: a well-typed snapshot that load() accepts. *)
ProvInv == TypeOK /\ Committable(store)

LEMMA ProvInit == Init => ProvInv
<1> SUFFICES ASSUME Init PROVE ProvInv
  OBVIOUS
<1>1. store = EmptyStore /\ now = 0 /\ server \in [origin : Origins, idlen : Lengths]
  BY DEF Init
<1>2. /\ EmptyDict \in [{} -> Operation] /\ EmptyDict \in [{} -> Keys] /\ EmptyDict \in [{} -> OpIds]
      /\ EmptyDict \in [{} -> EnrollmentRow] /\ DOMAIN EmptyDict = {}
  BY DEF EmptyDict
<1>3. InitialRecords \in [DOMAIN InitialRecords -> Record] /\ DOMAIN InitialRecords \subseteq Credentials
  BY InitialRecordsAssumption DEF Record
<1>4. /\ store.records = InitialRecords /\ store.owner = [active |-> TRUE, gen |-> 1] /\ store.blocked = {}
      /\ store.ops = EmptyDict /\ store.bindings = EmptyDict /\ store.recovery = EmptyDict
      /\ store.requests = EmptyDict
  BY <1>1 DEF EmptyStore
<1>5. WellTyped(store)
  BY <1>1, <1>2, <1>3, <1>4 DEF WellTyped, EmptyStore
<1>6. Cardinality({}) = 0
  BY FS_EmptySet
<1>7. LifecycleValid(store)
  <2>1. Cardinality(DOMAIN store.ops) = 0 /\ Cardinality(DOMAIN store.bindings) = 0
    BY <1>2, <1>4, <1>6, Zenon
  <2>2. OPERATION_LIMIT >= 0 /\ LIMIT >= 0
    BY LimitsAreNaturals DEF OPERATION_LIMIT
  <2> QED
    BY <1>2, <1>4, <2>1, <2>2 DEF LifecycleValid
<1>8. HasCapacity(store)
  <2>1. DOMAIN store.ops = {} /\ Unfinished(store) = {}
        /\ store.blocked \cup DOMAIN store.records = DOMAIN InitialRecords
        /\ DOMAIN store.records \ store.blocked = DOMAIN InitialRecords
        /\ DOMAIN store.records = DOMAIN InitialRecords
    BY <1>2, <1>4 DEF Unfinished
  <2>2. Cardinality(DOMAIN store.ops) = 0 /\ Cardinality(Unfinished(store)) = 0
        /\ Cardinality(store.blocked \cup DOMAIN store.records) = Cardinality(DOMAIN InitialRecords)
        /\ Cardinality(DOMAIN store.records \ store.blocked) = Cardinality(DOMAIN InitialRecords)
        /\ Cardinality(DOMAIN store.records) = Cardinality(DOMAIN InitialRecords)
    BY <1>6, <2>1, Zenon
  <2>3. Cardinality(DOMAIN InitialRecords) \in Nat
    BY <1>3, IdsFinite, FS_Subset, FS_CardinalityType
  <2> QED
    BY <2>2, <2>3, InitialRecordsAssumption, LimitsAreNaturals DEF HasCapacity, OPERATION_LIMIT
<1> QED
  BY <1>1, <1>5, <1>7, <1>8 DEF ProvInv, TypeOK, Committable

LEMMA ProvStep == ProvInv /\ [Next]_vars => ProvInv'
<1> SUFFICES ASSUME ProvInv, [Next]_vars PROVE ProvInv'
  OBVIOUS
<1>0. TypeOK /\ Committable(store) /\ WellTyped(store) /\ now \in Nat
      /\ server \in [origin : Origins, idlen : Lengths]
  BY DEF ProvInv, TypeOK
<1>00. Committable(Swept(store))
  BY <1>0, SweptCommittable
<1>1. CASE LifecycleStep
  <2>1. WellTyped(store')
    BY <1>0, <1>1, LifecycleTypes
  <2>2. Committable(store') /\ now' = now /\ server' = server
    <3>1. CASE Maintain
      BY <3>1 DEF Maintain
    <3>2. CASE \E x : Commit(x)
      BY <3>2 DEF Commit
    <3>3. Maintain \/ \E x : Commit(x)
      <4>1. ASSUME NEW o, NEW subject, Rotate(o, subject) PROVE \E x : Commit(x)
        BY <4>1, Zenon DEF Rotate
      <4>2. ASSUME NEW o, NEW subject, Revoke(o, subject) PROVE \E x : Commit(x)
        BY <4>2, Zenon DEF Revoke
      <4>3. ASSUME NEW o, NEW subject, Recover(o, subject) PROVE \E x : Commit(x)
        BY <4>3, Zenon DEF Recover
      <4>4. ASSUME NEW c, NEW o, Poll(c, o) PROVE \E x : Commit(x)
        BY <4>4, Zenon DEF Poll
      <4>5. ASSUME NEW c, NEW o, Ack(c, o) PROVE \E x : Commit(x)
        BY <4>5, Zenon DEF Ack
      <4>6. ASSUME NEW c, NEW new, NEW o, Deliver(c, o, new) PROVE \E x : Commit(x)
        BY <4>6, Zenon DEF Deliver
      <4> QED
        BY <1>1, <4>1, <4>2, <4>3, <4>4, <4>5, <4>6, Zenon DEF LifecycleStep
    <3> QED
      BY <3>1, <3>2, <3>3
  <2> QED
    BY <1>0, <2>1, <2>2 DEF ProvInv, TypeOK
<1>2. CASE EnrollmentStep
  <2>1. WellTyped(store')
    BY <1>0, <1>2, EnrollmentTypes
  <2>2. Committable(store') /\ now' = now /\ server' = server
    <3>1. CASE Examine
      <4>1. Committable(Opened)
        BY <1>0, <1>00, OpenedFacts, CommittableSame
      <4> QED
        BY <3>1, <4>1 DEF Examine
    <3>2. CASE Charge
      <4>1. Committable(Refreshed(store, server.origin))
        BY <1>0, MarkStaleType, CommittableSame DEF Refreshed
      <4> QED
        BY <3>2, <4>1 DEF Charge
    <3>3. CASE \E x : Commit(x)
      BY <3>3 DEF Commit
    <3>4. Examine \/ Charge \/ \E x : Commit(x)
      <4>1. ASSUME NEW key, NEW r, Request(key, r) PROVE \E x : Commit(x)
        BY <4>1, Zenon DEF Request
      <4>2. ASSUME NEW r, Prove(r) \/ Cancel(r) \/ Deny(r) \/ Fail(r) PROVE \E x : Commit(x)
        BY <4>2, Zenon DEF Prove, Cancel, Deny, Fail
      <4>3. ASSUME NEW r, Initiate(r) \/ Approve(r) PROVE \E x : Commit(x)
        BY <4>3, Zenon DEF Initiate, Approve
      <4>4. ASSUME NEW r, NEW new, Redeem(r, new) PROVE \E x : Commit(x)
        BY <4>4, Zenon DEF Redeem
      <4> QED
        BY <1>2, <4>1, <4>2, <4>3, <4>4, Zenon DEF EnrollmentStep
    <3> QED
      BY <3>1, <3>2, <3>3, <3>4
  <2> QED
    BY <1>0, <2>1, <2>2 DEF ProvInv, TypeOK
<1>3. CASE (\E active \in BOOLEAN : OwnerReplaced(active)) \/ OwnerAcknowledged
  <2>1. PICK own \in [active : BOOLEAN, gen : Nat] : store' = [store EXCEPT !.owner = own]
    <3>1. store.owner \in [active : BOOLEAN, gen : Nat]
      BY <1>0 DEF WellTyped
    <3>2. ASSUME NEW active \in BOOLEAN, OwnerReplaced(active)
          PROVE  \E own \in [active : BOOLEAN, gen : Nat] : store' = [store EXCEPT !.owner = own]
      <4>1. [active |-> active, gen |-> store.owner.gen + 1] \in [active : BOOLEAN, gen : Nat]
        BY <3>1
      <4> QED
        BY <3>2, <4>1 DEF OwnerReplaced
    <3>3. ASSUME OwnerAcknowledged
          PROVE  \E own \in [active : BOOLEAN, gen : Nat] : store' = [store EXCEPT !.owner = own]
      <4>1. [store.owner EXCEPT !.active = TRUE] \in [active : BOOLEAN, gen : Nat]
        BY <3>1
      <4>2. store' = [store EXCEPT !.owner = [store.owner EXCEPT !.active = TRUE]]
        BY <3>3 DEF OwnerAcknowledged
      <4> QED
        BY <4>1, <4>2
    <3> QED
      BY <1>3, <3>2, <3>3
  <2>2. now' = now /\ server' = server
    BY <1>3 DEF OwnerReplaced, OwnerAcknowledged
  <2>3. WellTyped(store') /\ store'.records = store.records /\ store'.blocked = store.blocked
        /\ store'.ops = store.ops /\ store'.bindings = store.bindings
        /\ store'.recovery = store.recovery
    BY <1>0, <2>1 DEF WellTyped
  <2>4. Committable(store')
    BY <1>0, <2>3, CommittableSame
  <2> QED
    BY <1>0, <2>2, <2>3, <2>4 DEF ProvInv, TypeOK
<1>4. ASSUME NEW cfg \in [origin : Origins, idlen : Lengths], Restart(cfg) PROVE ProvInv'
  <2>1. WellTyped(Rebound(Refreshed(store, cfg.origin)))
    BY <1>0, MarkStaleType, ReboundType DEF Refreshed
  <2> QED
    BY <1>0, <1>4, <2>1 DEF Restart, ProvInv, TypeOK
<1>5. CASE Tick
  BY <1>0, <1>5 DEF Tick, ProvInv, TypeOK
<1>6. CASE UNCHANGED vars
  BY <1>0, <1>6 DEF vars, ProvInv, TypeOK, WellTyped
<1> QED
  BY <1>1, <1>2, <1>3, <1>4, <1>5, <1>6 DEF Next

\* The snapshot always has the shape the schema validators of auth/store.py demand, and is
\* always one load() accepts with the reserve of has_capacity intact: no chain of handlers,
\* restarts and owner changes writes a file the next start refuses.
THEOREM ReloadsAlways == Spec => []ProvInv
  BY ProvInit, ProvStep, PTL DEF Spec

\* The first half alone: the shape of the snapshot (auth/store.py, load).
THEOREM TypeCorrect == Spec => []TypeOK
<1>1. ProvInv => TypeOK
  BY DEF ProvInv
<1> QED
  BY <1>1, ReloadsAlways, PTL

\* The sweep that opens every call and every round of the maintenance loop never raises
\* "capacity" (Lifecycle.sweep, _save), for every limit and every number of credentials.
THEOREM SweepAlways == Spec => []SweepNeverRefused
<1>1. ProvInv => SweepNeverRefused
  BY SweptCommittable DEF ProvInv, TypeOK, SweepNeverRefused
<1> QED
  BY <1>1, ReloadsAlways, PTL

\* However full the history, a subject with a working credential or an operation under way can
\* be revoked (Lifecycle._control; has_capacity reserves the row).
THEOREM RevokeAlways == Spec => []RevokeNeverRefused
<1>1. ProvInv => RevokeNeverRefused
  <2> SUFFICES ASSUME ProvInv,
                      NEW subject \in Subjects, NEW o \in OpIds \ DOMAIN Swept(store).ops,
                      NEW c \in Matching(Swept(store), subject),
                      Usable(Swept(store), c, now) \/ ActiveOps(Swept(store), subject) # {}
               PROVE  /\ RevokeAdmitted(Swept(store), subject)
                      /\ Committable(RevokeResult(Swept(store), o, subject))
    BY DEF RevokeNeverRefused
  <2> DEFINE s == Swept(store)
  <2>1. WellTyped(s) /\ Committable(s)
    BY SweptFacts, SweptCommittable DEF ProvInv, TypeOK
  <2>2. RevokeAdmitted(s, subject)
    BY DEF RevokeAdmitted, Usable
  <2>3. TypeOK
    BY DEF ProvInv
  <2>4. Committable(RevokeResult(s, o, subject))
    BY <2>1, <2>2, <2>3, RevokeCommittable
  <2> QED
    BY <2>2, <2>4
<1> QED
  BY <1>1, ReloadsAlways, PTL

-----------------------------------------------------------------------------
(***************************************************************************)
(* The history of operations.  A step ends unfinished operations or adds   *)
(* one for a subject that has none; it never revives a finished one.  What *)
(* an operation set out to replace is on record when it starts, and is     *)
(* tombstoned before it reads acknowledged or completed.  Records and      *)
(* tombstones are never taken back, so both facts last.  A delivery always *)
(* has a deadline: an overlap of zero would read "none" to the sweep and   *)
(* "long past" to usable().                                                *)
(***************************************************************************)
Replaced == {"acknowledged", "completed"}

OneActive(s) ==
    \A o, p \in Unfinished(s) : s.ops[o].subject = s.ops[p].subject => o = p

PredecessorsHeld(s) ==
    \A o \in DOMAIN s.ops :
       /\ s.ops[o].old \subseteq DOMAIN s.records
       /\ s.ops[o].state \in Replaced => s.ops[o].old \subseteq s.blocked

DeadlineSet(row) == row.expires > 0 /\ (row.state = "delivered" => row.overlap > 0)
DeadlinesSet(s) == \A o \in DOMAIN s.ops : DeadlineSet(s.ops[o])

OpInv(s) == OneActive(s) /\ PredecessorsHeld(s) /\ DeadlinesSet(s)

\* Same operations, none revived, none newly replaced without its tombstones.
OpsKept(s, w) ==
    /\ DOMAIN s.records \subseteq DOMAIN w.records /\ s.blocked \subseteq w.blocked
    /\ DOMAIN w.ops = DOMAIN s.ops
    /\ \A o \in DOMAIN s.ops :
          /\ w.ops[o].subject = s.ops[o].subject /\ w.ops[o].old = s.ops[o].old
          /\ Finished(s.ops[o]) => Finished(w.ops[o])
          /\ w.ops[o].state \in Replaced => s.ops[o].state \in Replaced \/ s.ops[o].old \subseteq w.blocked
          /\ DeadlineSet(s.ops[o]) => DeadlineSet(w.ops[o])

LEMMA KeptOpInv ==
  ASSUME NEW s, NEW w, OpInv(s), OpsKept(s, w)
  PROVE  OpInv(w)
<1>1. Unfinished(w) \subseteq Unfinished(s)
  BY DEF OpsKept, Unfinished
<1>2. OneActive(w)
  BY <1>1 DEF OpInv, OneActive, OpsKept, Unfinished
<1>3. PredecessorsHeld(w)
  BY DEF OpInv, PredecessorsHeld, OpsKept
<1>4. DeadlinesSet(w)
  BY DEF OpInv, DeadlinesSet, OpsKept
<1> QED
  BY <1>2, <1>3, <1>4 DEF OpInv

LEMMA SameOpInv ==
  ASSUME NEW s, NEW w, OpInv(s), w.ops = s.ops, DOMAIN s.records \subseteq DOMAIN w.records,
         s.blocked \subseteq w.blocked
  PROVE  OpInv(w)
  BY DEF OpInv, OneActive, PredecessorsHeld, Unfinished, DeadlinesSet

LEMMA SweptOpInv ==
  ASSUME NEW s, WellTyped(s), OpInv(s)
  PROVE  OpInv(Swept(s))
<1>1. /\ DOMAIN Swept(s).records = DOMAIN s.records /\ s.blocked \subseteq Swept(s).blocked
      /\ Swept(s).ops = SweptOps(s)
  BY SweptFacts
<1>2. OpsKept(s, Swept(s))
  BY <1>1, SweptOpsFacts DEF OpsKept, Replaced, DeadlineSet
<1> QED
  BY <1>2, KeptOpInv

LEMMA WithdrawnOpInv ==
  ASSUME NEW s, WellTyped(s), OpInv(s), NEW subject
  PROVE  OpInv(Withdrawn(s, subject)) /\ ActiveOps(Withdrawn(s, subject), subject) = {}
<1> DEFINE w == Withdrawn(s, subject)
<1>1. /\ WellTyped(w) /\ DOMAIN w.records = DOMAIN s.records
      /\ w.blocked = s.blocked \cup Matching(s, subject)
      /\ DOMAIN w.ops = DOMAIN s.ops
      /\ \A p \in DOMAIN s.ops : w.ops[p] = IF p \in ActiveOps(s, subject)
                                            THEN [s.ops[p] EXCEPT !.state = "revoked"] ELSE s.ops[p]
      /\ w.bindings = s.bindings
      /\ w.recovery = Keep(s.recovery, DOMAIN s.recovery \ {subject})
  BY WithdrawnFacts, ZenonT(30)
<1> HIDE DEF w
<1>2. ASSUME NEW o \in DOMAIN s.ops
      PROVE  /\ w.ops[o].subject = s.ops[o].subject /\ w.ops[o].old = s.ops[o].old
             /\ w.ops[o].expires = s.ops[o].expires /\ w.ops[o].overlap = s.ops[o].overlap
             /\ w.ops[o].state = IF o \in ActiveOps(s, subject) THEN "revoked" ELSE s.ops[o].state
  <2>1. s.ops[o] \in Operation
    BY DEF WellTyped
  <2> QED
    BY <1>1, <2>1 DEF Operation
<1>3. OpsKept(s, w)
  BY <1>1, <1>2 DEF OpsKept, Finished, OpTerminal, Replaced, DeadlineSet
<1>4. ActiveOps(w, subject) = {}
  BY <1>1, <1>2 DEF ActiveOps, Unfinished, Finished, OpTerminal
<1> QED
  BY <1>3, <1>4, KeptOpInv DEF w

\* A new operation of a subject that has none, or one that is finished from the start.
LEMMA AddedOpInv ==
  ASSUME NEW s, OpInv(s), NEW o, o \notin DOMAIN s.ops, NEW row,
         row.old \subseteq DOMAIN s.records, row.state \notin Replaced, DeadlineSet(row),
         Finished(row) \/ ActiveOps(s, row.subject) = {},
         NEW w, w.ops = Put(s.ops, o, row), w.records = s.records, w.blocked = s.blocked
  PROVE  OpInv(w)
<1>1. /\ DOMAIN w.ops = DOMAIN s.ops \cup {o} /\ w.ops[o] = row
      /\ \A p \in DOMAIN s.ops : w.ops[p] = s.ops[p]
  BY DEF Put
<1>2. OneActive(w)
  <2> SUFFICES ASSUME NEW p \in Unfinished(w), NEW q \in Unfinished(w),
                      w.ops[p].subject = w.ops[q].subject
               PROVE  p = q
    BY DEF OneActive
  <2>1. CASE p # o /\ q # o
    BY <1>1, <2>1 DEF Unfinished, OpInv, OneActive
  <2>2. CASE p = o \/ q = o
    BY <1>1, <2>2 DEF Unfinished, ActiveOps
  <2> QED
    BY <2>1, <2>2
<1>3. PredecessorsHeld(w)
  BY <1>1 DEF PredecessorsHeld, OpInv
<1>4. DeadlinesSet(w)
  BY <1>1 DEF DeadlinesSet, OpInv
<1> QED
  BY <1>2, <1>3, <1>4 DEF OpInv

\* An unfinished operation moves on.
LEMMA MovedOpInv ==
  ASSUME NEW s, OpInv(s), NEW o \in DOMAIN s.ops, ~Finished(s.ops[o]), NEW row,
         row.subject = s.ops[o].subject, row.old = s.ops[o].old,
         NEW w, w.ops = [s.ops EXCEPT ![o] = row],
         DOMAIN s.records \subseteq DOMAIN w.records, s.blocked \subseteq w.blocked,
         row.state \in Replaced => row.old \subseteq w.blocked,
         DeadlineSet(s.ops[o]) => DeadlineSet(row)
  PROVE  OpInv(w)
<1>1. DOMAIN w.ops = DOMAIN s.ops /\ w.ops[o] = row /\ \A p \in DOMAIN s.ops \ {o} : w.ops[p] = s.ops[p]
  OBVIOUS
<1>2. OpsKept(s, w)
  BY <1>1 DEF OpsKept
<1> QED
  BY <1>2, KeptOpInv

LEMMA LifecycleOpInv ==
  ASSUME TypeOK, OpInv(store), LifecycleStep
  PROVE  OpInv(store')
<1> DEFINE s == Swept(store)
<1>0. WellTyped(s) /\ OpInv(s) /\ now \in Nat
  BY SweptFacts, SweptOpInv DEF TypeOK
<1>1. CASE Maintain
  BY <1>0, <1>1 DEF Maintain
<1> HIDE DEF s
<1>2. ASSUME NEW o \in OpIds, NEW subject \in Subjects, Rotate(o, subject) PROVE OpInv(store')
  <2> DEFINE row == NewOperation(s, subject, "rotate", "queued", now + QUEUE_SECONDS)
             w == [s EXCEPT !.ops = Put(s.ops, o, row)]
  <2>1. /\ store' = w /\ o \notin DOMAIN s.ops /\ ActiveOps(s, subject) = {}
    BY <1>2 DEF Rotate, Controllable, Commit, s
  <2>2. /\ row.subject = subject /\ row.old \subseteq DOMAIN s.records /\ row.state \notin Replaced
        /\ DeadlineSet(row)
    BY <1>0, LimitsAreNaturals DEF NewOperation, Matching, Replaced, DeadlineSet
  <2> HIDE DEF row
  <2>3. w.ops = Put(s.ops, o, row) /\ w.records = s.records /\ w.blocked = s.blocked
    BY <1>0 DEF WellTyped
  <2> HIDE DEF w
  <2> QED
    BY <1>0, <2>1, <2>2, <2>3, AddedOpInv
<1>3. ASSUME NEW o \in OpIds, NEW subject \in Subjects, Revoke(o, subject) PROVE OpInv(store')
  <2> DEFINE w == Withdrawn(s, subject)
             row == NewOperation(s, subject, "revoke", "revoked", now + QUEUE_SECONDS)
             v == [w EXCEPT !.ops = Put(w.ops, o, row)]
  <2>1. store' = v /\ o \notin DOMAIN s.ops
    BY <1>3 DEF Revoke, RevokeResult, Controllable, Commit, s
  <2>2. WellTyped(w) /\ DOMAIN w.records = DOMAIN s.records /\ DOMAIN w.ops = DOMAIN s.ops
    BY <1>0, WithdrawnFacts
  <2>3. OpInv(w)
    BY <1>0, WithdrawnOpInv
  <2>4. /\ row.old \subseteq DOMAIN s.records /\ row.state \notin Replaced /\ Finished(row)
        /\ DeadlineSet(row)
    BY <1>0, LimitsAreNaturals
       DEF NewOperation, Matching, Replaced, Finished, OpTerminal, DeadlineSet
  <2> HIDE DEF w, row
  <2>5. v.ops = Put(w.ops, o, row) /\ v.records = w.records /\ v.blocked = w.blocked
    BY <2>2 DEF WellTyped
  <2> HIDE DEF v
  <2> QED
    BY <2>1, <2>2, <2>3, <2>4, <2>5, AddedOpInv
<1>4. ASSUME NEW o \in OpIds, NEW subject \in Subjects, Recover(o, subject) PROVE OpInv(store')
  <2> DEFINE w == Withdrawn(s, subject)
             row == NewOperation(s, subject, "recover", "queued", now + OVERLAP_SECONDS)
             v == [w EXCEPT !.ops = Put(w.ops, o, row), !.recovery = Put(w.recovery, subject, o)]
  <2>1. store' = v /\ o \notin DOMAIN s.ops
    BY <1>4 DEF Recover, Controllable, Commit, s
  <2>2. WellTyped(w) /\ DOMAIN w.records = DOMAIN s.records /\ DOMAIN w.ops = DOMAIN s.ops
    BY <1>0, WithdrawnFacts
  <2>3. OpInv(w) /\ ActiveOps(w, subject) = {}
    BY <1>0, WithdrawnOpInv
  <2>4. /\ row.old \subseteq DOMAIN s.records /\ row.state \notin Replaced /\ row.subject = subject
        /\ DeadlineSet(row)
    BY <1>0, LimitsAreNaturals DEF NewOperation, Matching, Replaced, DeadlineSet
  <2> HIDE DEF w, row
  <2>5. v.ops = Put(w.ops, o, row) /\ v.records = w.records /\ v.blocked = w.blocked
    BY <2>2 DEF WellTyped
  <2> HIDE DEF v
  <2> QED
    BY <2>1, <2>2, <2>3, <2>4, <2>5, AddedOpInv
<1>5. ASSUME NEW c \in Credentials, NEW o \in OpIds, Poll(c, o) PROVE OpInv(store')
  <2> DEFINE row == [s.ops[o] EXCEPT !.state = "pending"]
  <2>1. o \in DOMAIN s.ops /\ s.ops[o].state = "queued" /\ store' = [s EXCEPT !.ops[o] = row]
    BY <1>5 DEF Poll, Presents, Commit, s
  <2>2. s.ops[o] \in Operation
    BY <1>0, <2>1 DEF WellTyped
  <2>3. row.subject = s.ops[o].subject /\ row.old = s.ops[o].old /\ row.state \notin Replaced
        /\ ~Finished(s.ops[o]) /\ (DeadlineSet(s.ops[o]) => DeadlineSet(row))
    BY <2>1, <2>2 DEF Operation, Replaced, Finished, OpTerminal, DeadlineSet
  <2> HIDE DEF row
  <2>4. store'.ops = [s.ops EXCEPT ![o] = row] /\ store'.records = s.records
        /\ store'.blocked = s.blocked
    BY <1>0, <2>1 DEF WellTyped
  <2> QED
    BY <1>0, <2>1, <2>3, <2>4, MovedOpInv
<1>6. ASSUME NEW c \in Credentials, NEW o \in OpIds, NEW new \in Credentials, Deliver(c, o, new)
      PROVE  OpInv(store')
  <2> DEFINE recs == Put(s.records, new, [subject |-> s.records[c].subject, enabled |-> TRUE])
             row == [s.ops[o] EXCEPT !.state = "delivered", !.cred = new,
                       !.overlap = Min2(now + OVERLAP_SECONDS, s.ops[o].expires)]
  <2>1. o \in DOMAIN s.ops /\ s.ops[o].state = "pending"
        /\ store' = [s EXCEPT !.records = recs, !.ops[o] = row]
    BY <1>6 DEF Deliver, Presents, Commit, s
  <2>2. s.ops[o] \in Operation
    BY <1>0, <2>1 DEF WellTyped
  <2>3. row.subject = s.ops[o].subject /\ row.old = s.ops[o].old /\ row.state \notin Replaced
        /\ ~Finished(s.ops[o]) /\ (DeadlineSet(s.ops[o]) => DeadlineSet(row))
    <3>1. row.subject = s.ops[o].subject /\ row.old = s.ops[o].old /\ row.state \notin Replaced
          /\ ~Finished(s.ops[o])
      BY <2>1, <2>2 DEF Operation, Replaced, Finished, OpTerminal
    <3>2. /\ row.expires = s.ops[o].expires /\ s.ops[o].expires \in Nat
          /\ row.overlap = Min2(now + OVERLAP_SECONDS, s.ops[o].expires)
      BY <2>2 DEF Operation
    <3>3. s.ops[o].expires > 0 => Min2(now + OVERLAP_SECONDS, s.ops[o].expires) > 0
      BY <1>0, <3>2, LimitsAreNaturals DEF Min2
    <3> HIDE DEF row
    <3> QED
      BY <3>1, <3>2, <3>3 DEF DeadlineSet
  <2>4. DOMAIN s.records \subseteq DOMAIN recs
    BY DEF Put
  <2> HIDE DEF row, recs
  <2>5. store'.ops = [s.ops EXCEPT ![o] = row] /\ store'.records = recs
        /\ store'.blocked = s.blocked
    BY <1>0, <2>1 DEF WellTyped
  <2>6. o \in DOMAIN s.ops /\ DOMAIN s.records \subseteq DOMAIN store'.records
        /\ s.blocked \subseteq store'.blocked
    BY <2>1, <2>4, <2>5
  <2> QED
    BY <1>0, <2>3, <2>5, <2>6, MovedOpInv
<1>7. ASSUME NEW c \in Credentials, NEW o \in OpIds, Ack(c, o) PROVE OpInv(store')
  <2> DEFINE a == Retire(s, s.ops[o].old)
             row == [s.ops[o] EXCEPT !.state = "acknowledged"]
             b == [a EXCEPT !.ops[o] = row]
  <2>0. a.ops = s.ops /\ WellTyped(a) /\ DOMAIN a.records = DOMAIN s.records
        /\ a.blocked = s.blocked \cup (s.ops[o].old \cap DOMAIN s.records)
    BY <1>0, RetireType
  <2>1. o \in DOMAIN s.ops /\ s.ops[o].state = "delivered"
        /\ store' = InvalidateApprovals(b, s.ops[o].old)
    <3>1. o \in DOMAIN s.ops /\ s.ops[o].state = "delivered" /\ store' = AckResult(s, o)
      BY <1>7 DEF Ack, Presents, Commit, s
    <3>2. [a EXCEPT !.ops[o].state = "acknowledged"] = b
      BY <2>0
    <3> QED
      BY <3>1, <3>2 DEF AckResult
  <2>2. s.ops[o] \in Operation
    BY <1>0, <2>1 DEF WellTyped
  <2>3. row.subject = s.ops[o].subject /\ row.old = s.ops[o].old /\ row \in Operation
        /\ ~Finished(s.ops[o]) /\ (DeadlineSet(s.ops[o]) => DeadlineSet(row))
    BY <2>1, <2>2 DEF Operation, OpStates, Finished, OpTerminal, DeadlineSet
  <2>4. s.ops[o].old \subseteq DOMAIN s.records
    BY <1>0, <2>1 DEF OpInv, PredecessorsHeld
  <2> HIDE DEF a, row
  <2>5. WellTyped(b)
    BY <2>0, <2>1, <2>3, SetOperationType
  <2>6. b.ops = [s.ops EXCEPT ![o] = row] /\ b.records = a.records /\ b.blocked = a.blocked
    BY <2>0 DEF WellTyped
  <2> HIDE DEF b
  <2>7. OpInv(b)
    BY <1>0, <2>0, <2>1, <2>3, <2>4, <2>6, MovedOpInv
  <2>8. store'.ops = b.ops /\ store'.records = b.records /\ store'.blocked = b.blocked
    BY <2>1, <2>5, InvalidateType
  <2> QED
    BY <2>7, <2>8, SameOpInv
<1> QED
  BY <1>1, <1>2, <1>3, <1>4, <1>5, <1>6, <1>7 DEF LifecycleStep

\* After the sweep every recovery pointer names an unfinished operation.
LivePointers(s) ==
    \A d \in DOMAIN s.recovery :
       s.recovery[d] \in DOMAIN s.ops /\ ~Finished(s.ops[s.recovery[d]])

LEMMA OpenedLive ==
  ASSUME TypeOK, Committable(Swept(store))
  PROVE  LivePointers(Opened)
<1>1. \A d \in DOMAIN SweptRecovery(store) :
         SweptRecovery(store)[d] = store.recovery[d] /\ ~Finished(SweptOps(store)[store.recovery[d]])
  BY DEF SweptRecovery, Keep
<1>2. Opened.ops = SweptOps(store) /\ Opened.recovery = SweptRecovery(store)
  <2>1. WellTyped(store)
    BY DEF TypeOK
  <2>2. Swept(store).ops = SweptOps(store) /\ Swept(store).recovery = SweptRecovery(store)
    BY <2>1, SweptFacts
  <2> QED
    BY <2>2, OpenedFacts
<1> QED
  BY <1>1, <1>2, OpenedPointers DEF LivePointers

LEMMA ReopenedOpInv ==
  ASSUME NEW s, WellTyped(s), OpInv(s), LivePointers(s), NEW device
  PROVE  OpInv(Reopened(s, device))
<1>1. CASE device \in DOMAIN s.recovery
  <2> DEFINE o == s.recovery[device]
             row == [s.ops[o] EXCEPT !.state = "pending"]
             w == [s EXCEPT !.ops[o] = row]
  <2>1. o \in DOMAIN s.ops /\ ~Finished(s.ops[o]) /\ Reopened(s, device) = w
    BY <1>1 DEF LivePointers, Reopened
  <2> HIDE DEF o
  <2>2. s.ops[o] \in Operation
    BY <2>1 DEF WellTyped
  <2>3. row.subject = s.ops[o].subject /\ row.old = s.ops[o].old /\ row.state \notin Replaced
        /\ (DeadlineSet(s.ops[o]) => DeadlineSet(row))
    BY <2>2 DEF Operation, Replaced, DeadlineSet
  <2> HIDE DEF row
  <2>4. w.ops = [s.ops EXCEPT ![o] = row] /\ w.records = s.records /\ w.blocked = s.blocked
    BY DEF WellTyped
  <2>5. DOMAIN s.records \subseteq DOMAIN w.records /\ s.blocked \subseteq w.blocked
    BY <2>4
  <2> HIDE DEF w
  <2> QED
    BY <2>1, <2>3, <2>4, <2>5, MovedOpInv
<1>2. CASE device \notin DOMAIN s.recovery
  BY <1>2 DEF Reopened
<1> QED
  BY <1>1, <1>2

LEMMA IssuedGrows ==
  ASSUME NEW s, WellTyped(s), NEW device, NEW new
  PROVE  /\ DOMAIN s.records \subseteq DOMAIN Issued(s, device, new).records
         /\ s.blocked \subseteq Issued(s, device, new).blocked
<1> DEFINE old == Retire(s, Matching(s, device))
           recs == Put(old.records, new, [subject |-> device, enabled |-> TRUE])
           w == [old EXCEPT !.records = recs]
<1>1. WellTyped(old) /\ DOMAIN old.records = DOMAIN s.records /\ s.blocked \subseteq old.blocked
  BY RetireType
<1>2. Issued(s, device, new) = w
  BY DEF Issued
<1> HIDE DEF old
<1>3. DOMAIN old.records \subseteq DOMAIN recs
  BY DEF Put
<1> HIDE DEF recs
<1>4. w.records = recs /\ w.blocked = old.blocked
  BY <1>1 DEF WellTyped
<1> QED
  BY <1>1, <1>2, <1>3, <1>4

LEMMA RecoveredOpInv ==
  ASSUME NEW s, WellTyped(s), OpInv(s), LivePointers(s), NEW device, NEW new
  PROVE  OpInv(Recovered(s, device, new))
<1>1. CASE device \in DOMAIN s.recovery
  <2> DEFINE o == s.recovery[device]
             row == [s.ops[o] EXCEPT !.state = "delivered", !.cred = new, !.overlap = s.ops[o].expires]
             w == [s EXCEPT !.ops[o] = row]
  <2>1. o \in DOMAIN s.ops /\ ~Finished(s.ops[o]) /\ Recovered(s, device, new) = w
    BY <1>1 DEF LivePointers, Recovered
  <2> HIDE DEF o
  <2>2. s.ops[o] \in Operation
    BY <2>1 DEF WellTyped
  <2>3. row.subject = s.ops[o].subject /\ row.old = s.ops[o].old /\ row.state \notin Replaced
        /\ (DeadlineSet(s.ops[o]) => DeadlineSet(row))
    BY <2>2 DEF Operation, Replaced, DeadlineSet
  <2> HIDE DEF row
  <2>4. w.ops = [s.ops EXCEPT ![o] = row] /\ w.records = s.records /\ w.blocked = s.blocked
    BY DEF WellTyped
  <2>5. DOMAIN s.records \subseteq DOMAIN w.records /\ s.blocked \subseteq w.blocked
    BY <2>4
  <2> HIDE DEF w
  <2> QED
    BY <2>1, <2>3, <2>4, <2>5, MovedOpInv
<1>2. CASE device \notin DOMAIN s.recovery
  BY <1>2 DEF Recovered
<1> QED
  BY <1>1, <1>2

LEMMA EnrollmentOpInv ==
  ASSUME TypeOK, OpInv(store), EnrollmentStep
  PROVE  OpInv(store')
<1> DEFINE s == Opened
<1>0. WellTyped(store) /\ WellTyped(s) /\ OpInv(s)
  <2>1. WellTyped(store)
    BY DEF TypeOK
  <2>2. OpInv(Swept(store))
    BY <2>1, SweptOpInv
  <2>3. s.ops = Swept(store).ops /\ s.records = Swept(store).records /\ s.blocked = Swept(store).blocked
        /\ WellTyped(s)
    BY OpenedFacts
  <2> HIDE DEF s
  <2> QED
    BY <2>1, <2>2, <2>3, SameOpInv
<1>00. Committable(Swept(store)) => LivePointers(s)
  BY OpenedLive
<1>1. CASE Examine
  BY <1>0, <1>1 DEF Examine
<1>2. CASE Charge
  <2>1. store'.ops = store.ops /\ store'.records = store.records /\ store'.blocked = store.blocked
    BY <1>0, <1>2, MarkStaleType DEF Charge, Refreshed
  <2> QED
    BY <2>1, SameOpInv
<1>3. ASSUME NEW key \in Keys, NEW r \in RequestIds, Request(key, r) PROVE OpInv(store')
  <2>1. PICK q : /\ store' = [Reopened(s, DeviceId(s, key)) EXCEPT !.requests = q]
                 /\ Committable(Swept(store))
    BY <1>3 DEF Request, Commit
  <2> DEFINE w == Reopened(s, DeviceId(s, key))
  <2>2. OpInv(w)
    BY <1>0, <1>00, <2>1, ReopenedOpInv
  <2>3. WellTyped(w)
    BY <1>0, <1>00, <2>1, ReopenedType DEF LivePointers
  <2>4. store' = [w EXCEPT !.requests = q]
    BY <2>1
  <2> HIDE DEF w
  <2>5. store'.ops = w.ops /\ store'.records = w.records /\ store'.blocked = w.blocked
    BY <2>3, <2>4 DEF WellTyped
  <2> QED
    BY <2>2, <2>5, SameOpInv
<1>4. ASSUME NEW q, store' = [s EXCEPT !.requests = q] PROVE OpInv(store')
  <2> HIDE DEF s
  <2>1. store'.ops = s.ops /\ store'.records = s.records /\ store'.blocked = s.blocked
    BY <1>0, <1>4 DEF WellTyped
  <2> QED
    BY <1>0, <2>1, SameOpInv
<1>5. ASSUME NEW r \in RequestIds, Prove(r) \/ Cancel(r) \/ Deny(r) PROVE OpInv(store')
  <2>1. PICK st : store' = [s EXCEPT !.requests[r].state = st]
    BY <1>5 DEF Prove, Cancel, Deny, Commit
  <2> HIDE DEF s
  <2>2. \E q : store' = [s EXCEPT !.requests = q]
    BY <2>1
  <2> QED
    BY <1>4, <2>2
<1>6. ASSUME NEW r \in RequestIds, Initiate(r) \/ Approve(r) \/ Fail(r) PROVE OpInv(store')
  <2>1. PICK row : store' = [s EXCEPT !.requests[r] = row]
    BY <1>6 DEF Initiate, Approve, Fail, Commit
  <2> HIDE DEF s
  <2>2. \E q : store' = [s EXCEPT !.requests = q]
    BY <2>1
  <2> QED
    BY <1>4, <2>2
<1>7. ASSUME NEW r \in RequestIds, NEW new \in Credentials, Redeem(r, new) PROVE OpInv(store')
  <2> DEFINE device == s.requests[r].device
             i == Issued(s, device, new)
             w == Recovered(i, device, new)
             b == Put(s.bindings, device, s.requests[r].key)
  <2>0. Addressed(s, r, "approved")
    BY <1>7, Zenon DEF Redeem
  <2>1. store' = [w EXCEPT !.bindings = b, !.requests[r].state = "consumed"]
    BY <1>7, Zenon DEF Redeem, Commit
  <2>2. LivePointers(s) /\ r \in DOMAIN s.requests
    BY <1>00, <2>0 DEF Addressed, Live
  <2> HIDE DEF s
  <2>3. device \in Devices
    BY <1>0, <2>2 DEF WellTyped, EnrollmentRow
  <2> HIDE DEF device, b
  <2>4. WellTyped(i) /\ i.ops = s.ops /\ i.recovery = s.recovery
        /\ DOMAIN s.records \subseteq DOMAIN i.records /\ s.blocked \subseteq i.blocked
    BY <1>0, <2>3, IssuedType, IssuedGrows
  <2>5. OpInv(i) /\ LivePointers(i)
    BY <1>0, <2>2, <2>4, SameOpInv DEF LivePointers
  <2> HIDE DEF i
  <2>6. OpInv(w) /\ WellTyped(w)
    BY <2>4, <2>5, RecoveredOpInv, RecoveredType DEF LivePointers
  <2> HIDE DEF w
  <2>7. store'.ops = w.ops /\ store'.records = w.records /\ store'.blocked = w.blocked
    BY <2>1, <2>6 DEF WellTyped
  <2> QED
    BY <2>6, <2>7, SameOpInv
<1> QED
  BY <1>1, <1>2, <1>3, <1>5, <1>6, <1>7 DEF EnrollmentStep

LEMMA OpStep == ProvInv /\ OpInv(store) /\ [Next]_vars => OpInv(store')
<1> SUFFICES ASSUME ProvInv, OpInv(store), [Next]_vars PROVE OpInv(store')
  OBVIOUS
<1>0. TypeOK /\ WellTyped(store)
  BY DEF ProvInv, TypeOK
<1>1. CASE LifecycleStep
  BY <1>0, <1>1, LifecycleOpInv
<1>2. CASE EnrollmentStep
  BY <1>0, <1>2, EnrollmentOpInv
<1>3. CASE (\E active \in BOOLEAN : OwnerReplaced(active)) \/ OwnerAcknowledged
  <2>1. store'.ops = store.ops /\ store'.records = store.records /\ store'.blocked = store.blocked
    BY <1>0, <1>3 DEF OwnerReplaced, OwnerAcknowledged, WellTyped
  <2> QED
    BY <2>1, SameOpInv
<1>4. ASSUME NEW cfg \in [origin : Origins, idlen : Lengths], Restart(cfg) PROVE OpInv(store')
  <2> DEFINE f == Refreshed(store, cfg.origin)
  <2>1. WellTyped(f) /\ f.ops = store.ops /\ f.records = store.records /\ f.blocked = store.blocked
    BY <1>0, MarkStaleType DEF Refreshed
  <2>2. PICK b : store' = [f EXCEPT !.bindings = b]
    BY <1>4 DEF Restart, Rebound
  <2> HIDE DEF f
  <2>3. store'.ops = f.ops /\ store'.records = f.records /\ store'.blocked = f.blocked
    BY <2>1, <2>2 DEF WellTyped
  <2> QED
    BY <2>1, <2>3, SameOpInv
<1>5. CASE UNCHANGED store
  BY <1>5
<1> QED
  BY <1>1, <1>2, <1>3, <1>4, <1>5 DEF Next, Tick, vars

LEMMA OpInit == Init => OpInv(store)
<1>1. Init => DOMAIN store.ops = {}
  BY DEF Init, EmptyStore, EmptyDict
<1> QED
  BY <1>1 DEF OpInv, OneActive, PredecessorsHeld, Unfinished, DeadlinesSet

(* The lifecycle's operations stay consistent: one unfinished operation per *)
(* subject, replaced predecessors tombstoned, deadlines set where waiting.   *)
THEOREM OpAlways == Spec => []OpInv(store)
<1>1. ProvInv /\ OpInv(store) /\ [Next]_vars => OpInv(store)'
  BY OpStep
<1> QED
  BY <1>1, OpInit, ReloadsAlways, PTL DEF Spec

\* However requests, retries and recoveries interleave, a subject never has two unfinished
\* operations, so the one that poll() hands out is the only one (Lifecycle.execute).
THEOREM OneActiveAlways == Spec => []OneActiveOperation
<1>1. OpInv(store) => OneActiveOperation
  BY DEF OpInv, OneActive, OneActiveOperation
<1> QED
  BY <1>1, OpAlways, PTL

\* Once a client has acknowledged its new credential, what it replaced is tombstoned, and no
\* later call, restart or owner change takes the tombstones back (Lifecycle._retire, ack).
THEOREM PredecessorsAlways == Spec => []PredecessorsRetired
<1>1. OpInv(store) => PredecessorsRetired
  BY DEF OpInv, PredecessorsHeld, PredecessorsRetired, Usable, Replaced
<1> QED
  BY <1>1, OpAlways, PTL

-----------------------------------------------------------------------------
(***************************************************************************)
(* Identity.  A key's requests all ask for one device id, the one the key  *)
(* is bound to if it is bound: DeviceId looks at the bindings and at the   *)
(* requests before it derives a name.  Two restarts with different name    *)
(* lengths in between cannot split the key, then.                          *)
(***************************************************************************)
OneName(s) ==
    \A q, r \in DOMAIN s.requests :
       s.requests[q].key = s.requests[r].key => s.requests[q].device = s.requests[r].device

BoundName(s) ==
    \A r \in DOMAIN s.requests, d \in DOMAIN s.bindings :
       s.bindings[d] = s.requests[r].key => d = s.requests[r].device

OneDevice(s) == \A d, e \in DOMAIN s.bindings : s.bindings[d] = s.bindings[e] => d = e

ConsumedBound(s) ==
    \A r \in DOMAIN s.requests : s.requests[r].state = "consumed"
       => /\ s.requests[r].device \in DOMAIN s.bindings
          /\ s.bindings[s.requests[r].device] = s.requests[r].key

IdInv(s) == OneName(s) /\ BoundName(s) /\ OneDevice(s) /\ ConsumedBound(s)

\* Requests may go or end; none is renamed or consumed.
RowsKept(s, w) ==
    /\ DOMAIN w.requests \subseteq DOMAIN s.requests
    /\ \A r \in DOMAIN w.requests :
          /\ w.requests[r].key = s.requests[r].key /\ w.requests[r].device = s.requests[r].device
          /\ w.requests[r].state = "consumed" => s.requests[r].state = "consumed"

LEMMA KeptIdInv ==
  ASSUME NEW s, NEW w, IdInv(s), RowsKept(s, w), w.bindings = s.bindings
  PROVE  IdInv(w)
<1>1. OneName(w)
  BY DEF IdInv, OneName, RowsKept
<1>2. BoundName(w)
  BY DEF IdInv, BoundName, RowsKept
<1>3. OneDevice(w)
  BY DEF IdInv, OneDevice
<1>4. ConsumedBound(w)
  BY DEF IdInv, ConsumedBound, RowsKept
<1> QED
  BY <1>1, <1>2, <1>3, <1>4 DEF IdInv

LEMMA SameIdInv ==
  ASSUME NEW s, NEW w, IdInv(s), w.requests = s.requests, w.bindings = s.bindings
  PROVE  IdInv(w)
  BY KeptIdInv DEF RowsKept

LEMMA MarkStaleIdInv ==
  ASSUME NEW s, WellTyped(s), IdInv(s), NEW R
  PROVE  IdInv(MarkStale(s, R))
<1> DEFINE rows == [r \in DOMAIN s.requests |->
                       IF r \in R /\ s.requests[r].state \notin RequestTerminal
                       THEN [s.requests[r] EXCEPT !.state = "stale"]
                       ELSE s.requests[r]]
           w == [s EXCEPT !.requests = rows]
<1>1. ASSUME NEW r \in DOMAIN s.requests
      PROVE  /\ rows[r].key = s.requests[r].key /\ rows[r].device = s.requests[r].device
             /\ rows[r].state = "consumed" => s.requests[r].state = "consumed"
  <2>1. s.requests[r] \in EnrollmentRow
    BY DEF WellTyped
  <2> QED
    BY <2>1 DEF EnrollmentRow
<1>2. MarkStale(s, R) = w /\ DOMAIN rows = DOMAIN s.requests
  BY DEF MarkStale
<1> HIDE DEF rows
<1>3. w.requests = rows /\ w.bindings = s.bindings
  BY DEF WellTyped
<1> HIDE DEF w
<1>4. RowsKept(s, w)
  BY <1>1, <1>2, <1>3 DEF RowsKept
<1> QED
  BY <1>2, <1>3, <1>4, KeptIdInv

LEMMA InvalidateIdInv ==
  ASSUME NEW s, WellTyped(s), IdInv(s), NEW ids
  PROVE  IdInv(InvalidateApprovals(s, ids))
  BY MarkStaleIdInv DEF InvalidateApprovals

LEMMA SweptIdInv ==
  ASSUME NEW s, WellTyped(s), IdInv(s)
  PROVE  IdInv(Swept(s))
<1> DEFINE a == Retire(s, SweptIds(s))
           b == [a EXCEPT !.ops = SweptOps(s), !.recovery = SweptRecovery(s)]
<1>1. WellTyped(a) /\ a.bindings = s.bindings /\ a.requests = s.requests
  BY RetireType
<1>2. SweptOps(s) \in [DOMAIN SweptOps(s) -> Operation] /\ DOMAIN SweptOps(s) \subseteq OpIds
  BY SweptOpsFacts DEF WellTyped
<1>3. SweptRecovery(s) \in [DOMAIN SweptRecovery(s) -> OpIds] /\ DOMAIN SweptRecovery(s) \subseteq Devices
  <2>1. /\ WellTyped(Swept(s)) /\ Swept(s).recovery = SweptRecovery(s)
    BY SweptFacts
  <2> QED
    BY <2>1 DEF WellTyped
<1>4. Swept(s) = InvalidateApprovals(b, SweptIds(s))
  BY DEF Swept
<1> HIDE DEF a
<1>5. WellTyped(b)
  BY <1>1, <1>2, <1>3, SetLifecycleType
<1>6. b.requests = a.requests /\ b.bindings = a.bindings
  BY <1>1 DEF WellTyped
<1> HIDE DEF b
<1>7. IdInv(b)
  BY <1>1, <1>6, SameIdInv
<1> QED
  BY <1>4, <1>5, <1>7, InvalidateIdInv

LEMMA WithdrawnIdInv ==
  ASSUME NEW s, WellTyped(s), IdInv(s), NEW subject
  PROVE  IdInv(Withdrawn(s, subject))
<1> DEFINE ids == Matching(s, subject)
           a == Retire(s, ids)
           b == InvalidateApprovals(a, ids)
           r == MarkStale(b, {x \in DOMAIN s.requests : s.requests[x].device = subject})
<1>1. WellTyped(a) /\ a.bindings = s.bindings /\ a.requests = s.requests
  BY RetireType
<1>2. PICK ops, rec : Withdrawn(s, subject) = [r EXCEPT !.ops = ops, !.recovery = rec]
  BY DEF Withdrawn
<1> HIDE DEF ids, a
<1>3. IdInv(a)
  BY <1>1, SameIdInv
<1>4. WellTyped(b) /\ IdInv(b)
  BY <1>1, <1>3, InvalidateType, InvalidateIdInv
<1> HIDE DEF b
<1>5. WellTyped(r) /\ IdInv(r)
  BY <1>4, MarkStaleType, MarkStaleIdInv
<1> HIDE DEF r
<1>6. /\ [r EXCEPT !.ops = ops, !.recovery = rec].requests = r.requests
      /\ [r EXCEPT !.ops = ops, !.recovery = rec].bindings = r.bindings
  BY <1>5 DEF WellTyped
<1> QED
  BY <1>2, <1>5, <1>6, SameIdInv

LEMMA LifecycleIdInv ==
  ASSUME TypeOK, IdInv(store), LifecycleStep
  PROVE  IdInv(store')
<1> DEFINE s == Swept(store)
<1>0. WellTyped(s) /\ IdInv(s)
  BY SweptFacts, SweptIdInv DEF TypeOK
<1>1. CASE Maintain
  BY <1>0, <1>1 DEF Maintain
<1> HIDE DEF s
<1>2. ASSUME NEW w, WellTyped(w), IdInv(w), NEW f, store' = [w EXCEPT !.ops = f] PROVE IdInv(store')
  <2>1. store'.requests = w.requests /\ store'.bindings = w.bindings
    BY <1>2 DEF WellTyped
  <2> QED
    BY <1>2, <2>1, SameIdInv
<1>3. ASSUME NEW o \in OpIds, NEW subject \in Subjects, Rotate(o, subject) PROVE IdInv(store')
  <2>1. PICK f : store' = [s EXCEPT !.ops = f]
    BY <1>3 DEF Rotate, Commit, s
  <2> QED
    BY <1>0, <1>2, <2>1
<1>4. ASSUME NEW o \in OpIds, NEW subject \in Subjects, Revoke(o, subject) \/ Recover(o, subject)
      PROVE  IdInv(store')
  <2> DEFINE w == Withdrawn(s, subject)
  <2>1. (\E f : store' = [w EXCEPT !.ops = f])
        \/ (\E f, rec : store' = [w EXCEPT !.ops = f, !.recovery = rec])
    BY <1>4 DEF Revoke, RevokeResult, Recover, Commit, s
  <2>2. WellTyped(w) /\ IdInv(w)
    BY <1>0, WithdrawnFacts, WithdrawnIdInv
  <2> HIDE DEF w
  <2>3. ASSUME NEW f, NEW rec, store' = [w EXCEPT !.ops = f, !.recovery = rec] PROVE IdInv(store')
    <3>1. store'.requests = w.requests /\ store'.bindings = w.bindings
      BY <2>2, <2>3 DEF WellTyped
    <3> QED
      BY <2>2, <3>1, SameIdInv
  <2> QED
    BY <1>2, <2>1, <2>2, <2>3
<1>5. ASSUME NEW c \in Credentials, NEW o \in OpIds, Poll(c, o) PROVE IdInv(store')
  <2>1. store' = [s EXCEPT !.ops[o].state = "pending"]
    BY <1>5 DEF Poll, Commit, s
  <2>2. store'.requests = s.requests /\ store'.bindings = s.bindings
    BY <1>0, <2>1 DEF WellTyped
  <2> QED
    BY <1>0, <2>2, SameIdInv
<1>6. ASSUME NEW c \in Credentials, NEW o \in OpIds, NEW new \in Credentials, Deliver(c, o, new)
      PROVE  IdInv(store')
  <2>1. PICK recs, row : store' = [s EXCEPT !.records = recs, !.ops[o] = row]
    BY <1>6 DEF Deliver, Commit, s
  <2>2. store'.requests = s.requests /\ store'.bindings = s.bindings
    BY <1>0, <2>1 DEF WellTyped
  <2> QED
    BY <1>0, <2>2, SameIdInv
<1>7. ASSUME NEW c \in Credentials, NEW o \in OpIds, Ack(c, o) PROVE IdInv(store')
  <2> DEFINE a == Retire(s, s.ops[o].old)
             b == [a EXCEPT !.ops[o].state = "acknowledged"]
  <2>1. o \in DOMAIN s.ops /\ store' = InvalidateApprovals(b, s.ops[o].old)
    BY <1>7 DEF Ack, AckResult, Presents, Commit, s
  <2>2. WellTyped(a) /\ a.ops = s.ops /\ a.requests = s.requests /\ a.bindings = s.bindings
    BY <1>0, RetireType
  <2> HIDE DEF a
  <2>3. WellTyped(b)
    BY <2>1, <2>2, SetStateType DEF OpStates
  <2>4. b.requests = s.requests /\ b.bindings = s.bindings
    BY <2>2 DEF WellTyped
  <2> HIDE DEF b
  <2>5. IdInv(b)
    BY <1>0, <2>4, SameIdInv
  <2> QED
    BY <2>1, <2>3, <2>5, InvalidateIdInv
<1> QED
  BY <1>1, <1>3, <1>4, <1>5, <1>6, <1>7 DEF LifecycleStep

\* The name a key is given is the one its requests and its binding already use.
LEMMA DeviceIdAgrees ==
  ASSUME NEW s, IdInv(s), NEW key
  PROVE  /\ \A r \in DOMAIN s.requests : s.requests[r].key = key => s.requests[r].device = DeviceId(s, key)
         /\ \A d \in DOMAIN s.bindings : s.bindings[d] = key => d = DeviceId(s, key)
<1> DEFINE bound == {d \in DOMAIN s.bindings : s.bindings[d] = key}
           asked == {s.requests[r].device : r \in {x \in DOMAIN s.requests : s.requests[x].key = key}}
<1>1. CASE bound # {}
  <2>1. DeviceId(s, key) = CHOOSE d \in bound : TRUE
    BY <1>1 DEF DeviceId
  <2>2. (CHOOSE d \in bound : TRUE) \in bound
    BY <1>1
  <2> QED
    BY <2>1, <2>2 DEF IdInv, BoundName, OneDevice
<1>2. CASE bound = {} /\ asked # {}
  <2>1. DeviceId(s, key) = CHOOSE d \in asked : TRUE
    BY <1>2 DEF DeviceId
  <2>2. (CHOOSE d \in asked : TRUE) \in asked
    BY <1>2
  <2>3. PICK q \in DOMAIN s.requests : s.requests[q].key = key /\ s.requests[q].device = DeviceId(s, key)
    BY <2>1, <2>2
  <2> QED
    BY <1>2, <2>3 DEF IdInv, OneName
<1>3. CASE bound = {} /\ asked = {}
  <2>1. \A r \in DOMAIN s.requests : s.requests[r].key # key
    BY <1>3
  <2>2. \A d \in DOMAIN s.bindings : s.bindings[d] # key
    BY <1>3
  <2> QED
    BY <2>1, <2>2
<1> QED
  BY <1>1, <1>2, <1>3

LEMMA RequestIdInv ==
  ASSUME NEW s, IdInv(s), NEW key, NEW r, NEW S, NEW row,
         row.key = key, row.device = DeviceId(s, key), row.state # "consumed",
         NEW w, w.requests = Put(Keep(s.requests, S), r, row), w.bindings = s.bindings
  PROVE  IdInv(w)
<1>1. /\ DOMAIN w.requests \subseteq DOMAIN s.requests \cup {r} /\ w.requests[r] = row
      /\ \A x \in DOMAIN w.requests : x # r => x \in DOMAIN s.requests /\ w.requests[x] = s.requests[x]
  BY DEF Put, Keep
<1>2. /\ \A x \in DOMAIN s.requests : s.requests[x].key = key => s.requests[x].device = DeviceId(s, key)
      /\ \A d \in DOMAIN s.bindings : s.bindings[d] = key => d = DeviceId(s, key)
  BY DeviceIdAgrees
<1>3. OneName(w)
  BY <1>1, <1>2 DEF IdInv, OneName
<1>4. BoundName(w)
  BY <1>1, <1>2 DEF IdInv, BoundName
<1>5. OneDevice(w)
  BY DEF IdInv, OneDevice
<1>6. ConsumedBound(w)
  BY <1>1 DEF IdInv, ConsumedBound
<1> QED
  BY <1>3, <1>4, <1>5, <1>6 DEF IdInv

\* Binding the key of a request to the request's device.
LEMMA BindIdInv ==
  ASSUME NEW s, IdInv(s), NEW r \in DOMAIN s.requests, NEW key, key = s.requests[r].key,
         NEW device, device = s.requests[r].device,
         device \in DOMAIN s.bindings => s.bindings[device] = key,
         NEW w, w.bindings = Put(s.bindings, device, key),
         DOMAIN w.requests = DOMAIN s.requests,
         \A x \in DOMAIN s.requests :
            /\ w.requests[x].key = s.requests[x].key /\ w.requests[x].device = s.requests[x].device
            /\ x # r => w.requests[x].state = s.requests[x].state
  PROVE  IdInv(w)
<1>1. /\ DOMAIN w.bindings = DOMAIN s.bindings \cup {device} /\ w.bindings[device] = key
      /\ \A d \in DOMAIN s.bindings : w.bindings[d] = s.bindings[d]
  BY DEF Put
<1>2. OneName(w)
  BY DEF IdInv, OneName
<1>3. BoundName(w)
  BY <1>1 DEF IdInv, BoundName, OneName
<1>4. OneDevice(w)
  BY <1>1 DEF IdInv, OneDevice, BoundName
<1>5. ConsumedBound(w)
  BY <1>1 DEF IdInv, ConsumedBound
<1> QED
  BY <1>2, <1>3, <1>4, <1>5 DEF IdInv

\* One request is replaced by one of the same key and device that is not consumed.
LEMMA MovedIdInv ==
  ASSUME NEW s, WellTyped(s), IdInv(s), NEW r \in DOMAIN s.requests, NEW row,
         row.key = s.requests[r].key, row.device = s.requests[r].device,
         row.state # "consumed",
         NEW w, w = [s EXCEPT !.requests[r] = row]
  PROVE  IdInv(w)
<1>1. w.requests = [s.requests EXCEPT ![r] = row] /\ w.bindings = s.bindings
  BY DEF WellTyped
<1>2. RowsKept(s, w)
  BY <1>1 DEF RowsKept
<1> QED
  BY <1>1, <1>2, KeptIdInv

LEMMA ReopenedRest ==
  ASSUME NEW s, WellTyped(s), NEW device
  PROVE  /\ Reopened(s, device).requests = s.requests /\ Reopened(s, device).bindings = s.bindings
         /\ Reopened(s, device).records = s.records
  BY DEF Reopened, WellTyped

LEMMA EnrollmentIdInv ==
  ASSUME TypeOK, IdInv(store), EnrollmentStep
  PROVE  IdInv(store')
<1> DEFINE s == Opened
<1>0. WellTyped(store) /\ WellTyped(s) /\ IdInv(s)
  <2>1. WellTyped(store) /\ WellTyped(Swept(store)) /\ WellTyped(Opened)
    BY OpenedFacts DEF TypeOK
  <2> QED
    BY <2>1, SweptIdInv, MarkStaleIdInv DEF Opened, Refreshed
<1>1. CASE Examine
  BY <1>0, <1>1 DEF Examine
<1>2. CASE Charge
  BY <1>0, <1>2, MarkStaleIdInv DEF Charge, Refreshed
<1>3. ASSUME NEW key \in Keys, NEW r \in RequestIds, Request(key, r) PROVE IdInv(store')
  <2> DEFINE device == DeviceId(s, key)
             kept == {x \in DOMAIN s.requests : s.requests[x].expires > now}
             row == [key |-> key, device |-> device, state |-> "challenge", attempts |-> 0,
                     expires |-> now + TTL, gen |-> s.owner.gen, origin |-> server.origin,
                     initiator |-> NoActor, approver |-> NoActor]
             w == Reopened(s, device)
             q == Put(Keep(s.requests, kept), r, row)
  <2>1. store' = [w EXCEPT !.requests = q] /\ Committable(Swept(store))
    BY <1>3 DEF Request, Commit
  <2>2. WellTyped(w) /\ w.bindings = s.bindings
    BY <1>0, <2>1, OpenedPointers, ReopenedType, ReopenedRest
  <2>3. row.key = key /\ row.device = DeviceId(s, key) /\ row.state # "consumed"
    OBVIOUS
  <2> HIDE DEF s, w, q
  <2>4. store'.requests = q /\ store'.bindings = s.bindings
    BY <2>1, <2>2 DEF WellTyped
  <2>5. store'.requests = Put(Keep(s.requests, kept), r, row)
    BY <2>4 DEF q
  <2> HIDE DEF row, kept
  <2> QED
    BY <1>0, <2>3, <2>4, <2>5, RequestIdInv
<1>4. ASSUME NEW r \in RequestIds, Prove(r) \/ Cancel(r) \/ Deny(r) PROVE IdInv(store')
  <2>1. PICK st \in {"ready", "cancelled", "denied"} :
           r \in DOMAIN s.requests /\ store' = [s EXCEPT !.requests[r].state = st]
    BY <1>4 DEF Prove, Cancel, Deny, Addressed, Live, Commit
  <2> DEFINE row == [s.requests[r] EXCEPT !.state = st]
  <2> HIDE DEF s
  <2>2. s.requests[r] \in EnrollmentRow
    BY <1>0, <2>1 DEF WellTyped
  <2>3. row.key = s.requests[r].key /\ row.device = s.requests[r].device /\ row.state # "consumed"
    BY <2>2 DEF EnrollmentRow
  <2>4. store' = [s EXCEPT !.requests[r] = row]
    BY <2>1
  <2> HIDE DEF row
  <2> QED
    BY <1>0, <2>1, <2>3, <2>4, MovedIdInv
<1>5. ASSUME NEW r \in RequestIds, Initiate(r) \/ Approve(r) PROVE IdInv(store')
  <2>1. PICK a :
           /\ r \in DOMAIN s.requests
           /\ \/ store' = [s EXCEPT !.requests[r] = [s.requests[r] EXCEPT !.initiator = a,
                                                                         !.state = "initiated"]]
              \/ store' = [s EXCEPT !.requests[r] = [s.requests[r] EXCEPT !.approver = a,
                                                                         !.state = "approved"]]
    BY <1>5 DEF Initiate, Approve, Addressed, Live, Commit
  <2> HIDE DEF s
  <2>2. s.requests[r] \in EnrollmentRow
    BY <1>0, <2>1 DEF WellTyped
  <2>3. \E row : /\ row.key = s.requests[r].key /\ row.device = s.requests[r].device
                 /\ row.state # "consumed"
                 /\ store' = [s EXCEPT !.requests[r] = row]
    <3> DEFINE x == [s.requests[r] EXCEPT !.initiator = a, !.state = "initiated"]
               y == [s.requests[r] EXCEPT !.approver = a, !.state = "approved"]
    <3>1. /\ x.key = s.requests[r].key /\ x.device = s.requests[r].device /\ x.state # "consumed"
          /\ y.key = s.requests[r].key /\ y.device = s.requests[r].device /\ y.state # "consumed"
      BY <2>2 DEF EnrollmentRow
    <3>2. store' = [s EXCEPT !.requests[r] = x] \/ store' = [s EXCEPT !.requests[r] = y]
      BY <2>1
    <3> HIDE DEF x, y
    <3> QED
      BY <3>1, <3>2
  <2> QED
    BY <1>0, <2>1, <2>3, MovedIdInv
<1>6. ASSUME NEW r \in RequestIds, Fail(r) PROVE IdInv(store')
  <2> DEFINE n == Min2(MaxAttempts, s.requests[r].attempts + 1)
             end == IF n = MaxAttempts THEN "failed" ELSE s.requests[r].state
             row == [s.requests[r] EXCEPT !.attempts = n, !.state = end]
  <2>1. r \in DOMAIN s.requests /\ s.requests[r].state \notin RequestTerminal
        /\ store' = [s EXCEPT !.requests[r] = row]
    BY <1>6 DEF Fail, Live, Commit
  <2> HIDE DEF s, n
  <2>2. s.requests[r] \in EnrollmentRow
    BY <1>0, <2>1 DEF WellTyped
  <2>3. row.key = s.requests[r].key /\ row.device = s.requests[r].device /\ row.state # "consumed"
    BY <2>1, <2>2 DEF EnrollmentRow, RequestTerminal
  <2> HIDE DEF row
  <2> QED
    BY <1>0, <2>1, <2>3, MovedIdInv
<1>7. ASSUME NEW r \in RequestIds, NEW new \in Credentials, Redeem(r, new) PROVE IdInv(store')
  <2> DEFINE device == s.requests[r].device
             key == s.requests[r].key
             i == Issued(s, device, new)
             w == Recovered(i, device, new)
             b == Put(s.bindings, device, key)
  <2>0. Addressed(s, r, "approved") /\ Unowned(s, device, key)
    BY <1>7, Zenon DEF Redeem
  <2>1. store' = [w EXCEPT !.bindings = b, !.requests[r].state = "consumed"]
    BY <1>7, Zenon DEF Redeem, Commit
  <2>2. r \in DOMAIN s.requests /\ Committable(Swept(store))
    BY <2>0 DEF Addressed, Live
  <2>3. device \in DOMAIN s.bindings => s.bindings[device] = key
    BY <2>0 DEF Unowned
  <2>4. \A d \in DOMAIN s.recovery : s.recovery[d] \in DOMAIN s.ops
    BY <2>2, OpenedPointers
  <2> HIDE DEF s
  <2>5. device \in Devices /\ s.requests \in [DOMAIN s.requests -> EnrollmentRow]
    BY <1>0, <2>2 DEF WellTyped, EnrollmentRow
  <2>6. key = s.requests[r].key /\ device = s.requests[r].device
    OBVIOUS
  <2> HIDE DEF device, key
  <2>7. WellTyped(i) /\ i.ops = s.ops /\ i.recovery = s.recovery /\ i.requests = s.requests
    BY <1>0, <2>5, IssuedType
  <2> HIDE DEF i
  <2>8. WellTyped(w) /\ w.requests = s.requests
    BY <2>4, <2>7, RecoveredType
  <2>9. b = Put(s.bindings, device, key)
    OBVIOUS
  <2> HIDE DEF w, b
  <2>10. store'.bindings = b /\ store'.requests = [s.requests EXCEPT ![r].state = "consumed"]
    BY <2>1, <2>8 DEF WellTyped
  <2>11. /\ DOMAIN store'.requests = DOMAIN s.requests
         /\ \A x \in DOMAIN s.requests :
               /\ store'.requests[x].key = s.requests[x].key
               /\ store'.requests[x].device = s.requests[x].device
               /\ x # r => store'.requests[x].state = s.requests[x].state
    BY <2>5, <2>10 DEF EnrollmentRow
  <2>12. store'.bindings = Put(s.bindings, device, key) /\ r \in DOMAIN s.requests /\ IdInv(s)
    BY <1>0, <2>2, <2>9, <2>10
  <2> QED
    BY <2>3, <2>6, <2>11, <2>12, BindIdInv
<1> QED
  BY <1>1, <1>2, <1>3, <1>4, <1>5, <1>6, <1>7 DEF EnrollmentStep

\* Every consumed request is bound already, so the rebuild at a start changes nothing.
LEMMA ReboundIdInv ==
  ASSUME NEW s, WellTyped(s), IdInv(s)
  PROVE  IdInv(Rebound(s))
<1> DEFINE consumed == {r \in DOMAIN s.requests : s.requests[r].state = "consumed"}
           devices == {s.requests[r].device : r \in consumed}
           b == [d \in DOMAIN s.bindings \cup devices |->
                    IF d \in DOMAIN s.bindings THEN s.bindings[d]
                    ELSE s.requests[CHOOSE r \in consumed : s.requests[r].device = d].key]
           w == [s EXCEPT !.bindings = b]
<1>1. devices \subseteq DOMAIN s.bindings
  BY DEF IdInv, ConsumedBound
<1>2. DOMAIN b = DOMAIN s.bindings /\ \A d \in DOMAIN s.bindings : b[d] = s.bindings[d]
  BY <1>1
<1>3. Rebound(s) = w
  BY DEF Rebound
<1> HIDE DEF b
<1>4. w.bindings = b /\ w.requests = s.requests
  BY DEF WellTyped
<1> HIDE DEF w
<1>5. OneName(w) /\ BoundName(w) /\ OneDevice(w) /\ ConsumedBound(w)
  BY <1>2, <1>4 DEF IdInv, OneName, BoundName, OneDevice, ConsumedBound
<1> QED
  BY <1>3, <1>5 DEF IdInv

LEMMA IdStep == ProvInv /\ IdInv(store) /\ [Next]_vars => IdInv(store')
<1> SUFFICES ASSUME ProvInv, IdInv(store), [Next]_vars PROVE IdInv(store')
  OBVIOUS
<1>0. TypeOK /\ WellTyped(store)
  BY DEF ProvInv, TypeOK
<1>1. CASE LifecycleStep
  BY <1>0, <1>1, LifecycleIdInv
<1>2. CASE EnrollmentStep
  BY <1>0, <1>2, EnrollmentIdInv
<1>3. CASE (\E active \in BOOLEAN : OwnerReplaced(active)) \/ OwnerAcknowledged
  <2>1. store'.requests = store.requests /\ store'.bindings = store.bindings
    BY <1>0, <1>3 DEF OwnerReplaced, OwnerAcknowledged, WellTyped
  <2> QED
    BY <2>1, SameIdInv
<1>4. ASSUME NEW cfg \in [origin : Origins, idlen : Lengths], Restart(cfg) PROVE IdInv(store')
  <2>1. WellTyped(Refreshed(store, cfg.origin)) /\ IdInv(Refreshed(store, cfg.origin))
    BY <1>0, MarkStaleType, MarkStaleIdInv DEF Refreshed
  <2> QED
    BY <1>4, <2>1, ReboundIdInv DEF Restart
<1>5. CASE UNCHANGED store
  BY <1>5
<1> QED
  BY <1>1, <1>2, <1>3, <1>4, <1>5 DEF Next, Tick, vars

\* A key keeps one device id, through pruning, restarts and another device_id_length, and what
\* a request was redeemed for stays bound to its key (Enrollment._device_id, bind_enrollment).
THEOREM IdentityAlways == Spec => []IdentityStable
<1>1. Init => IdInv(store)
  <2>1. Init => DOMAIN store.requests = {} /\ DOMAIN store.bindings = {}
    BY DEF Init, EmptyStore, EmptyDict
  <2> QED
    BY <2>1 DEF IdInv, OneName, BoundName, OneDevice, ConsumedBound
<1>2. ProvInv /\ IdInv(store) /\ [Next]_vars => IdInv(store)'
  BY IdStep
<1>3. IdInv(store) => IdentityStable
  BY DEF IdInv, OneDevice, ConsumedBound, IdentityStable
<1> QED
  BY <1>1, <1>2, <1>3, ReloadsAlways, PTL DEF Spec

-----------------------------------------------------------------------------
(***************************************************************************)
(* What lasts.  Access is lost in two ways: for good, by a tombstone, a    *)
(* disabled record or a failed issuance, or by a deadline that passes.     *)
(* What is lost for good stays lost in every step; a deadline that passed  *)
(* is turned into a tombstone by the next sweep, which every step that     *)
(* could touch the operation starts with.                                  *)
(***************************************************************************)
\* An operation moves on as what it was: its deadline and authority are fixed, its end is final.
Moves(p, q) ==
    /\ q.subject = p.subject /\ q.action = p.action /\ q.old = p.old
    /\ q.expires = p.expires /\ q.gen = p.gen /\ q.origin = p.origin
    /\ Finished(p) => q = p

CredsLast(s, w) ==
    /\ s.blocked \subseteq w.blocked
    /\ \A c \in DOMAIN s.records :
          /\ c \in DOMAIN w.records /\ w.records[c].subject = s.records[c].subject
          /\ w.records[c].enabled => s.records[c].enabled
    /\ \A o \in DOMAIN s.ops : o \in DOMAIN w.ops /\ Moves(s.ops[o], w.ops[o])

RowsLast(s, w) ==
    \A r \in DOMAIN s.requests \cap DOMAIN w.requests :
       s.requests[r].state \in RequestTerminal => w.requests[r] = s.requests[r]

\* Requests are kept, and at most some of them read stale now.
RowsEnd(s, w) ==
    /\ DOMAIN w.requests = DOMAIN s.requests /\ RowsLast(s, w)
    /\ \A r \in DOMAIN s.requests :
          /\ w.requests[r].state \in {s.requests[r].state, "stale"}
          /\ w.requests[r].gen = s.requests[r].gen /\ w.requests[r].origin = s.requests[r].origin
          /\ w.requests[r].expires = s.requests[r].expires /\ w.requests[r].key = s.requests[r].key
          /\ w.requests[r].device = s.requests[r].device
          /\ w.requests[r].initiator = s.requests[r].initiator
          /\ w.requests[r].approver = s.requests[r].approver

\* Requests that ended or expired are not touched.
RowsIdle(s, w) ==
    \A r \in DOMAIN s.requests \cap DOMAIN w.requests :
       ~Live(s, r) => w.requests[r] = s.requests[r]

LEMMA CredsSame ==
  ASSUME NEW s, NEW w, w.records = s.records, w.blocked = s.blocked, w.ops = s.ops
  PROVE  CredsLast(s, w)
  BY DEF CredsLast, Moves

LEMMA MovesTrans ==
  ASSUME NEW p, NEW q, NEW r, Moves(p, q), Moves(q, r)
  PROVE  Moves(p, r)
  BY DEF Moves

LEMMA MovesAhead ==
  ASSUME NEW p \in Operation, ~Finished(p), NEW state, NEW cred, NEW overlap
  PROVE  /\ Moves(p, [p EXCEPT !.state = state])
         /\ Moves(p, [p EXCEPT !.state = state, !.cred = cred, !.overlap = overlap])
  BY DEF Moves, Operation

LEMMA CredsTrans ==
  ASSUME NEW s, NEW v, NEW w, CredsLast(s, v), CredsLast(v, w)
  PROVE  CredsLast(s, w)
<1>1. s.blocked \subseteq w.blocked
  BY DEF CredsLast
<1>2. ASSUME NEW c \in DOMAIN s.records
      PROVE  /\ c \in DOMAIN w.records /\ w.records[c].subject = s.records[c].subject
             /\ w.records[c].enabled => s.records[c].enabled
  BY <1>2, Zenon DEF CredsLast
<1>3. ASSUME NEW o \in DOMAIN s.ops
      PROVE  o \in DOMAIN w.ops /\ Moves(s.ops[o], w.ops[o])
  <2>1. o \in DOMAIN v.ops /\ Moves(s.ops[o], v.ops[o])
    BY <1>3, Zenon DEF CredsLast
  <2>2. o \in DOMAIN w.ops /\ Moves(v.ops[o], w.ops[o])
    BY <2>1, Zenon DEF CredsLast
  <2> QED
    BY <2>1, <2>2, MovesTrans
<1> QED
  BY <1>1, <1>2, <1>3, Zenon DEF CredsLast

LEMMA RowsEndTrans ==
  ASSUME NEW s, NEW v, NEW w, RowsEnd(s, v), RowsEnd(v, w)
  PROVE  RowsEnd(s, w)
  BY DEF RowsEnd, RowsLast

\* Operations that are only added or move on before they are finished.
LEMMA CredsOps ==
  ASSUME NEW s, NEW w, w.records = s.records, w.blocked = s.blocked,
         \A o \in DOMAIN s.ops : o \in DOMAIN w.ops /\ Moves(s.ops[o], w.ops[o])
  PROVE  CredsLast(s, w)
  BY DEF CredsLast

LEMMA CredsMoved ==
  ASSUME NEW s, NEW w, w.records = s.records, w.blocked = s.blocked,
         NEW o \in DOMAIN s.ops, NEW row, Moves(s.ops[o], row), w.ops = [s.ops EXCEPT ![o] = row]
  PROVE  CredsLast(s, w)
<1>1. ASSUME NEW p \in DOMAIN s.ops
      PROVE  p \in DOMAIN w.ops /\ Moves(s.ops[p], w.ops[p])
  BY <1>1 DEF Moves
<1> QED
  BY <1>1, CredsOps

LEMMA RetireCreds ==
  ASSUME NEW s, NEW ids, WellTyped(s)
  PROVE  CredsLast(s, Retire(s, ids)) /\ RowsEnd(s, Retire(s, ids))
<1> DEFINE recs == [c \in DOMAIN s.records |->
                       IF c \in ids THEN [s.records[c] EXCEPT !.enabled = FALSE] ELSE s.records[c]]
           tombs == s.blocked \cup (ids \cap DOMAIN s.records)
           w == [s EXCEPT !.blocked = tombs, !.records = recs]
<1>1. Retire(s, ids) = w
  BY DEF Retire
<1>2. ASSUME NEW c \in DOMAIN s.records
      PROVE  /\ c \in DOMAIN recs /\ recs[c].subject = s.records[c].subject
             /\ recs[c].enabled => s.records[c].enabled
  <2>1. s.records[c] \in Record
    BY DEF WellTyped
  <2>2. CASE c \in ids
    BY <2>1, <2>2 DEF Record
  <2>3. CASE c \notin ids
    BY <2>3
  <2> QED
    BY <2>2, <2>3
<1>3. s.blocked \subseteq tombs
  OBVIOUS
<1> HIDE DEF recs, tombs
<1>4. /\ w.blocked = tombs /\ w.records = recs /\ w.ops = s.ops /\ w.requests = s.requests
  BY DEF WellTyped
<1> HIDE DEF w
<1>5. CredsLast(s, w)
  BY <1>2, <1>3, <1>4 DEF CredsLast, Moves
<1>6. RowsEnd(s, w)
  BY <1>4 DEF RowsEnd, RowsLast
<1> QED
  BY <1>1, <1>5, <1>6

LEMMA MarkStaleLasts ==
  ASSUME NEW s, WellTyped(s), NEW R
  PROVE  CredsLast(s, MarkStale(s, R)) /\ RowsEnd(s, MarkStale(s, R))
<1>1. CredsLast(s, MarkStale(s, R))
  <2>1. /\ MarkStale(s, R).records = s.records /\ MarkStale(s, R).blocked = s.blocked
        /\ MarkStale(s, R).ops = s.ops
    BY MarkStaleType
  <2> QED
    BY <2>1, CredsSame
<1>2. RowsEnd(s, MarkStale(s, R))
  <2> DEFINE rows == [r \in DOMAIN s.requests |->
                         IF r \in R /\ s.requests[r].state \notin RequestTerminal
                         THEN [s.requests[r] EXCEPT !.state = "stale"]
                         ELSE s.requests[r]]
  <2>1. /\ DOMAIN rows = DOMAIN s.requests
        /\ \A r \in DOMAIN s.requests :
              s.requests[r].state \in RequestTerminal => rows[r] = s.requests[r]
    OBVIOUS
  <2>4. ASSUME NEW r \in DOMAIN s.requests
        PROVE  /\ rows[r].state \in {s.requests[r].state, "stale"}
               /\ rows[r].gen = s.requests[r].gen /\ rows[r].origin = s.requests[r].origin
               /\ rows[r].expires = s.requests[r].expires /\ rows[r].key = s.requests[r].key
               /\ rows[r].device = s.requests[r].device
               /\ rows[r].initiator = s.requests[r].initiator
               /\ rows[r].approver = s.requests[r].approver
    <3>1. s.requests[r] \in EnrollmentRow
      BY DEF WellTyped
    <3> QED
      BY <3>1 DEF EnrollmentRow
  <2>2. MarkStale(s, R) = [s EXCEPT !.requests = rows]
    BY DEF MarkStale
  <2> HIDE DEF rows
  <2>3. MarkStale(s, R).requests = rows
    BY <2>2 DEF WellTyped
  <2> QED
    BY <2>1, <2>3, <2>4 DEF RowsEnd, RowsLast
<1> QED
  BY <1>1, <1>2

LEMMA InvalidateLasts ==
  ASSUME NEW s, WellTyped(s), NEW ids
  PROVE  CredsLast(s, InvalidateApprovals(s, ids)) /\ RowsEnd(s, InvalidateApprovals(s, ids))
  BY MarkStaleLasts DEF InvalidateApprovals

LEMMA SweptLasts ==
  ASSUME NEW s, WellTyped(s)
  PROVE  CredsLast(s, Swept(s)) /\ RowsEnd(s, Swept(s))
<1> DEFINE a == Retire(s, SweptIds(s))
           b == [a EXCEPT !.ops = SweptOps(s), !.recovery = SweptRecovery(s)]
<1>1. WellTyped(a) /\ a.ops = s.ops /\ CredsLast(s, a) /\ RowsEnd(s, a)
  BY RetireType, RetireCreds
<1>2. SweptOps(s) \in [DOMAIN SweptOps(s) -> Operation] /\ DOMAIN SweptOps(s) \subseteq OpIds
  BY SweptOpsFacts DEF WellTyped
<1>3. SweptRecovery(s) \in [DOMAIN SweptRecovery(s) -> OpIds] /\ DOMAIN SweptRecovery(s) \subseteq Devices
  <2>1. WellTyped(Swept(s)) /\ Swept(s).recovery = SweptRecovery(s)
    BY SweptFacts
  <2> QED
    BY <2>1 DEF WellTyped
<1>4. Swept(s) = InvalidateApprovals(b, SweptIds(s))
  BY DEF Swept
<1> HIDE DEF a
<1>5. WellTyped(b)
  BY <1>1, <1>2, <1>3, SetLifecycleType
<1>6. b.requests = a.requests /\ b.records = a.records /\ b.blocked = a.blocked /\ b.ops = SweptOps(s)
  BY <1>1 DEF WellTyped
<1> HIDE DEF b
<1>7. CredsLast(a, b)
  <2>1. ASSUME NEW o \in DOMAIN a.ops
        PROVE  o \in DOMAIN b.ops /\ Moves(a.ops[o], b.ops[o])
    <3>1. a.ops[o] \in Operation /\ o \in DOMAIN s.ops /\ a.ops[o] = s.ops[o]
      BY <1>1 DEF WellTyped
    <3>2. o \in DOMAIN b.ops /\ b.ops[o] = SweptRow(s, a.ops[o])
      BY <1>6, <3>1, SweptOpsFacts
    <3>3. Finished(a.ops[o]) => b.ops[o] = a.ops[o]
      BY <1>6, <3>1, SweptOpsFacts
    <3>4. ASSUME NEW p \in Operation, NEW state
          PROVE  LET q == [p EXCEPT !.state = state]
                 IN  /\ q.subject = p.subject /\ q.action = p.action /\ q.old = p.old
                     /\ q.expires = p.expires /\ q.gen = p.gen /\ q.origin = p.origin
      BY DEF Operation
    <3> QED
      BY <3>1, <3>2, <3>3, <3>4 DEF Moves, SweptRow
  <2> QED
    BY <1>6, <2>1, CredsOps
<1>8. RowsEnd(a, b)
  BY <1>6 DEF RowsEnd, RowsLast
<1>9. CredsLast(b, Swept(s)) /\ RowsEnd(b, Swept(s))
  BY <1>4, <1>5, InvalidateLasts
<1> QED
  BY <1>1, <1>7, <1>8, <1>9, CredsTrans, RowsEndTrans

LEMMA WithdrawnLasts ==
  ASSUME NEW s, WellTyped(s), NEW subject
  PROVE  CredsLast(s, Withdrawn(s, subject)) /\ RowsEnd(s, Withdrawn(s, subject))
<1> DEFINE ids == Matching(s, subject)
           a == Retire(s, ids)
           b == InvalidateApprovals(a, ids)
           r == MarkStale(b, {x \in DOMAIN s.requests : s.requests[x].device = subject})
           ops == [o \in DOMAIN r.ops |-> IF o \in ActiveOps(r, subject)
                                          THEN [r.ops[o] EXCEPT !.state = "revoked"]
                                          ELSE r.ops[o]]
           rec == Keep(r.recovery, DOMAIN r.recovery \ {subject})
           w == [r EXCEPT !.ops = ops, !.recovery = rec]
<1>1. WellTyped(a) /\ CredsLast(s, a) /\ RowsEnd(s, a)
  BY RetireType, RetireCreds
<1>2. Withdrawn(s, subject) = w
  BY DEF Withdrawn
<1> HIDE DEF ids, a
<1>3. WellTyped(b) /\ CredsLast(a, b) /\ RowsEnd(a, b)
  BY <1>1, InvalidateType, InvalidateLasts
<1> HIDE DEF b
<1>4. WellTyped(r) /\ CredsLast(b, r) /\ RowsEnd(b, r)
  BY <1>3, MarkStaleType, MarkStaleLasts
<1> HIDE DEF r
<1>5. ASSUME NEW o \in DOMAIN r.ops PROVE o \in DOMAIN ops /\ Moves(r.ops[o], ops[o])
  <2>1. r.ops[o] \in Operation
    BY <1>4 DEF WellTyped
  <2>2. o \in ActiveOps(r, subject) => ~Finished(r.ops[o])
    BY DEF ActiveOps, Unfinished
  <2> QED
    BY <2>1, <2>2, MovesAhead DEF Moves
<1> HIDE DEF ops, rec
<1>6. w.records = r.records /\ w.blocked = r.blocked /\ w.ops = ops /\ w.requests = r.requests
  BY <1>4 DEF WellTyped
<1> HIDE DEF w
<1>7. CredsLast(r, w)
  BY <1>5, <1>6, CredsOps
<1>8. RowsEnd(r, w)
  BY <1>6 DEF RowsEnd, RowsLast
<1>9. CredsLast(s, r) /\ RowsEnd(s, r)
  BY <1>1, <1>3, <1>4, CredsTrans, RowsEndTrans
<1> QED
  BY <1>2, <1>7, <1>8, <1>9, CredsTrans, RowsEndTrans

LEMMA LifecycleLasts ==
  ASSUME TypeOK, LifecycleStep
  PROVE  CredsLast(Swept(store), store') /\ RowsEnd(Swept(store), store')
<1> DEFINE s == Swept(store)
<1> SUFFICES CredsLast(s, store') /\ RowsEnd(s, store')
  OBVIOUS
<1>0. WellTyped(s)
  BY SweptFacts DEF TypeOK
<1>1. CASE Maintain
  <2>1. store' = s
    BY <1>1 DEF Maintain
  <2> QED
    BY <2>1, CredsSame DEF RowsEnd, RowsLast
<1> HIDE DEF s
\* A new operation on a snapshot reached from s.
<1>2. ASSUME NEW w, WellTyped(w), CredsLast(s, w), RowsEnd(s, w),
             NEW o, o \notin DOMAIN w.ops, NEW row,
             store'.ops = Put(w.ops, o, row), store'.records = w.records,
             store'.blocked = w.blocked, store'.requests = w.requests
      PROVE  CredsLast(s, store') /\ RowsEnd(s, store')
  <2>1. \A p \in DOMAIN w.ops : p \in DOMAIN store'.ops /\ store'.ops[p] = w.ops[p]
    BY <1>2 DEF Put
  <2>2. CredsLast(w, store')
    BY <1>2, <2>1, CredsOps DEF Moves
  <2>3. RowsEnd(w, store')
    BY <1>2 DEF RowsEnd, RowsLast
  <2> QED
    BY <1>2, <2>2, <2>3, CredsTrans, RowsEndTrans
<1>3. ASSUME NEW o \in OpIds, NEW subject \in Subjects, Rotate(o, subject)
      PROVE  CredsLast(s, store') /\ RowsEnd(s, store')
  <2>1. PICK row : store' = [s EXCEPT !.ops = Put(s.ops, o, row)] /\ o \notin DOMAIN s.ops
    BY <1>3 DEF Rotate, Controllable, Commit, s
  <2>2. /\ store'.ops = Put(s.ops, o, row) /\ store'.records = s.records
        /\ store'.blocked = s.blocked /\ store'.requests = s.requests
    BY <1>0, <2>1 DEF WellTyped
  <2>3. CredsLast(s, s) /\ RowsEnd(s, s)
    BY CredsSame DEF RowsEnd, RowsLast
  <2> QED
    BY <1>0, <1>2, <2>1, <2>2, <2>3
<1>4. ASSUME NEW o \in OpIds, NEW subject \in Subjects, Revoke(o, subject) \/ Recover(o, subject)
      PROVE  CredsLast(s, store') /\ RowsEnd(s, store')
  <2> DEFINE w == Withdrawn(s, subject)
  <2>1. /\ o \notin DOMAIN s.ops
        /\ \/ \E row : store' = [w EXCEPT !.ops = Put(w.ops, o, row)]
           \/ \E row, rec : store' = [w EXCEPT !.ops = Put(w.ops, o, row), !.recovery = rec]
    BY <1>4 DEF Revoke, RevokeResult, Recover, Controllable, Commit, s
  <2>2. WellTyped(w) /\ DOMAIN w.ops = DOMAIN s.ops
    BY <1>0, WithdrawnFacts
  <2>3. CredsLast(s, w) /\ RowsEnd(s, w)
    BY <1>0, WithdrawnLasts
  <2> HIDE DEF w
  <2>4. PICK row : /\ store'.ops = Put(w.ops, o, row) /\ store'.records = w.records
                   /\ store'.blocked = w.blocked /\ store'.requests = w.requests
    <3>1. ASSUME NEW row, store' = [w EXCEPT !.ops = Put(w.ops, o, row)]
          PROVE  /\ store'.ops = Put(w.ops, o, row) /\ store'.records = w.records
                 /\ store'.blocked = w.blocked /\ store'.requests = w.requests
      BY <2>2, <3>1 DEF WellTyped
    <3>2. ASSUME NEW row, NEW rec, store' = [w EXCEPT !.ops = Put(w.ops, o, row), !.recovery = rec]
          PROVE  /\ store'.ops = Put(w.ops, o, row) /\ store'.records = w.records
                 /\ store'.blocked = w.blocked /\ store'.requests = w.requests
      BY <2>2, <3>2 DEF WellTyped
    <3> QED
      BY <2>1, <3>1, <3>2
  <2> QED
    BY <1>2, <2>1, <2>2, <2>3, <2>4
<1>5. ASSUME NEW c \in Credentials, NEW o \in OpIds, Poll(c, o)
      PROVE  CredsLast(s, store') /\ RowsEnd(s, store')
  <2> DEFINE row == [s.ops[o] EXCEPT !.state = "pending"]
  <2>1. o \in DOMAIN s.ops /\ s.ops[o].state = "queued" /\ store' = [s EXCEPT !.ops[o] = row]
    BY <1>5 DEF Poll, Presents, Commit, s
  <2>2. Moves(s.ops[o], row)
    <3>1. s.ops[o] \in Operation /\ ~Finished(s.ops[o])
      BY <1>0, <2>1 DEF WellTyped, Finished, OpTerminal
    <3> QED
      BY <3>1, MovesAhead
  <2> HIDE DEF row
  <2>3. /\ store'.ops = [s.ops EXCEPT ![o] = row] /\ store'.records = s.records
        /\ store'.blocked = s.blocked /\ store'.requests = s.requests
    BY <1>0, <2>1 DEF WellTyped
  <2>4. o \in DOMAIN s.ops
    BY <2>1
  <2> QED
    BY <2>2, <2>3, <2>4, CredsMoved DEF RowsEnd, RowsLast
<1>6. ASSUME NEW c \in Credentials, NEW o \in OpIds, NEW new \in Credentials, Deliver(c, o, new)
      PROVE  CredsLast(s, store') /\ RowsEnd(s, store')
  <2>a. PICK rec, overlap :
          /\ store' = [s EXCEPT !.records = Put(s.records, new, rec),
                                !.ops[o] = [@ EXCEPT !.state = "delivered", !.cred = new, !.overlap = overlap]]
          /\ o \in DOMAIN s.ops /\ s.ops[o].state = "pending"
          /\ new \notin DOMAIN s.records
    BY <1>6 DEF Deliver, Presents, Commit, s
  <2> DEFINE row == [s.ops[o] EXCEPT !.state = "delivered", !.cred = new, !.overlap = overlap]
  <2>1. /\ store' = [s EXCEPT !.records = Put(s.records, new, rec), !.ops[o] = row]
        /\ o \in DOMAIN s.ops /\ s.ops[o].state = "pending"
        /\ new \notin DOMAIN s.records
    BY <2>a
  <2>b. Moves(s.ops[o], row)
    <3>1. s.ops[o] \in Operation /\ ~Finished(s.ops[o])
      BY <1>0, <2>1 DEF WellTyped, Finished, OpTerminal
    <3> QED
      BY <3>1, MovesAhead
  <2> HIDE DEF row
  <2> DEFINE v == [s EXCEPT !.records = Put(s.records, new, rec)]
  <2>2. /\ v.ops = s.ops /\ v.records = Put(s.records, new, rec) /\ v.blocked = s.blocked
        /\ v.requests = s.requests
    BY <1>0 DEF WellTyped
  <2>3. /\ store'.ops = [s.ops EXCEPT ![o] = row] /\ store'.records = Put(s.records, new, rec)
        /\ store'.blocked = s.blocked /\ store'.requests = s.requests
    BY <1>0, <2>1 DEF WellTyped
  <2> HIDE DEF v
  <2>4. CredsLast(s, v)
    BY <2>1, <2>2 DEF CredsLast, Put, Moves
  <2>6. /\ store'.ops = [v.ops EXCEPT ![o] = row] /\ store'.records = v.records
        /\ store'.blocked = v.blocked /\ o \in DOMAIN v.ops /\ Moves(v.ops[o], row)
    BY <2>1, <2>2, <2>3, <2>b
  <2>7. CredsLast(v, store')
    BY <2>6, CredsMoved
  <2> QED
    BY <2>3, <2>4, <2>7, CredsTrans DEF RowsEnd, RowsLast
<1>7. ASSUME NEW c \in Credentials, NEW o \in OpIds, Ack(c, o)
      PROVE  CredsLast(s, store') /\ RowsEnd(s, store')
  <2> DEFINE a == Retire(s, s.ops[o].old)
             row == [s.ops[o] EXCEPT !.state = "acknowledged"]
             b == [a EXCEPT !.ops[o] = row]
  <2>0. a.ops = s.ops /\ WellTyped(a) /\ CredsLast(s, a) /\ RowsEnd(s, a)
    BY <1>0, RetireType, RetireCreds
  <2>1. o \in DOMAIN s.ops /\ s.ops[o].state = "delivered"
        /\ store' = InvalidateApprovals(b, s.ops[o].old)
    <3>1. o \in DOMAIN s.ops /\ s.ops[o].state = "delivered" /\ store' = AckResult(s, o)
      BY <1>7 DEF Ack, Presents, Commit, s
    <3>2. [a EXCEPT !.ops[o].state = "acknowledged"] = b
      BY <2>0
    <3> QED
      BY <3>1, <3>2 DEF AckResult
  <2>2. row \in Operation
    <3>1. s.ops[o] \in Operation
      BY <1>0, <2>1 DEF WellTyped
    <3> QED
      BY <3>1 DEF Operation, OpStates
  <2>3. o \in DOMAIN a.ops /\ Moves(a.ops[o], row)
    <3>1. s.ops[o] \in Operation /\ ~Finished(s.ops[o])
      BY <1>0, <2>1 DEF WellTyped, Finished, OpTerminal
    <3> QED
      BY <2>0, <2>1, <3>1, MovesAhead
  <2> HIDE DEF a, row
  <2>4. WellTyped(b)
    BY <2>0, <2>2, <2>3, SetOperationType
  <2>5. /\ b.ops = [a.ops EXCEPT ![o] = row] /\ b.records = a.records /\ b.blocked = a.blocked
        /\ b.requests = a.requests
    BY <2>0 DEF WellTyped
  <2> HIDE DEF b
  <2>6. CredsLast(a, b) /\ RowsEnd(a, b)
    BY <2>3, <2>5, CredsMoved DEF RowsEnd, RowsLast
  <2>7. CredsLast(b, store') /\ RowsEnd(b, store')
    BY <2>1, <2>4, InvalidateLasts
  <2> QED
    BY <2>0, <2>6, <2>7, CredsTrans, RowsEndTrans
<1> QED
  BY <1>1, <1>3, <1>4, <1>5, <1>6, <1>7 DEF LifecycleStep

\* Replacing a live request.
LEMMA RowsMoved ==
  ASSUME NEW s, NEW w, NEW r, Live(s, r), NEW row, w.requests = [s.requests EXCEPT ![r] = row]
  PROVE  RowsIdle(s, w)
<1>1. \A x \in DOMAIN s.requests : x # r => w.requests[x] = s.requests[x]
  OBVIOUS
<1> QED
  BY <1>1 DEF RowsIdle

LEMMA IdleLast ==
  ASSUME NEW s, NEW w, RowsIdle(s, w)
  PROVE  RowsLast(s, w)
  BY DEF RowsIdle, RowsLast, Live

LEMMA ReopenedCreds ==
  ASSUME NEW s, WellTyped(s), LivePointers(s), NEW device
  PROVE  CredsLast(s, Reopened(s, device))
<1>1. CASE device \in DOMAIN s.recovery
  <2> DEFINE o == s.recovery[device]
             row == [s.ops[o] EXCEPT !.state = "pending"]
             w == [s EXCEPT !.ops[o] = row]
  <2>1. o \in DOMAIN s.ops /\ ~Finished(s.ops[o]) /\ Reopened(s, device) = w
    BY <1>1 DEF LivePointers, Reopened
  <2>3. Moves(s.ops[o], row)
    <3>1. s.ops[o] \in Operation
      BY <2>1 DEF WellTyped
    <3> HIDE DEF o
    <3> QED
      BY <2>1, <3>1, MovesAhead
  <2> HIDE DEF o, row
  <2>2. w.ops = [s.ops EXCEPT ![o] = row] /\ w.records = s.records /\ w.blocked = s.blocked
    BY DEF WellTyped
  <2> HIDE DEF w
  <2> QED
    BY <2>1, <2>2, <2>3, CredsMoved
<1>2. CASE device \notin DOMAIN s.recovery
  BY <1>2, CredsSame DEF Reopened
<1> QED
  BY <1>1, <1>2

LEMMA RecoveredCreds ==
  ASSUME NEW s, WellTyped(s), LivePointers(s), NEW device, NEW new
  PROVE  CredsLast(s, Recovered(s, device, new))
<1>1. CASE device \in DOMAIN s.recovery
  <2> DEFINE o == s.recovery[device]
             row == [s.ops[o] EXCEPT !.state = "delivered", !.cred = new, !.overlap = s.ops[o].expires]
             w == [s EXCEPT !.ops[o] = row]
  <2>1. o \in DOMAIN s.ops /\ ~Finished(s.ops[o]) /\ Recovered(s, device, new) = w
    BY <1>1 DEF LivePointers, Recovered
  <2>3. Moves(s.ops[o], row)
    <3>1. s.ops[o] \in Operation
      BY <2>1 DEF WellTyped
    <3> HIDE DEF o
    <3> QED
      BY <2>1, <3>1, MovesAhead
  <2> HIDE DEF o, row
  <2>2. w.ops = [s.ops EXCEPT ![o] = row] /\ w.records = s.records /\ w.blocked = s.blocked
    BY DEF WellTyped
  <2> HIDE DEF w
  <2> QED
    BY <2>1, <2>2, <2>3, CredsMoved
<1>2. CASE device \notin DOMAIN s.recovery
  BY <1>2, CredsSame DEF Recovered
<1> QED
  BY <1>1, <1>2

LEMMA IssuedCreds ==
  ASSUME NEW s, WellTyped(s), NEW device, NEW new, new \notin DOMAIN s.records
  PROVE  CredsLast(s, Issued(s, device, new))
<1> DEFINE old == Retire(s, Matching(s, device))
           recs == Put(old.records, new, [subject |-> device, enabled |-> TRUE])
           w == [old EXCEPT !.records = recs]
<1>1. WellTyped(old) /\ DOMAIN old.records = DOMAIN s.records /\ CredsLast(s, old)
  BY RetireType, RetireCreds
<1>2. Issued(s, device, new) = w
  BY DEF Issued
<1> HIDE DEF old
<1>3. \A c \in DOMAIN old.records : c \in DOMAIN recs /\ recs[c] = old.records[c]
  BY <1>1 DEF Put
<1> HIDE DEF recs
<1>4. w.records = recs /\ w.blocked = old.blocked /\ w.ops = old.ops
  BY <1>1 DEF WellTyped
<1> HIDE DEF w
<1>5. CredsLast(old, w)
  BY <1>3, <1>4 DEF CredsLast, Moves
<1> QED
  BY <1>1, <1>2, <1>5, CredsTrans

\* Charge does not sweep; it leaves credentials and operations as they are.
LEMMA EnrollmentLasts ==
  ASSUME TypeOK, EnrollmentStep, ~Charge
  PROVE  CredsLast(Opened, store') /\ RowsIdle(Opened, store')
<1> DEFINE s == Opened
<1> SUFFICES CredsLast(s, store') /\ RowsIdle(s, store')
  OBVIOUS
<1>0. WellTyped(s)
  BY OpenedFacts
<1>00. Committable(Swept(store)) => LivePointers(s)
  BY OpenedLive
<1>1. CASE Examine
  <2>1. store' = s
    BY <1>1 DEF Examine
  <2> QED
    BY <2>1, CredsSame DEF RowsIdle
<1>2. ASSUME NEW key \in Keys, NEW r \in RequestIds, Request(key, r)
      PROVE  CredsLast(s, store') /\ RowsIdle(s, store')
  <2>1. PICK S, row : /\ store' = [Reopened(s, DeviceId(s, key)) EXCEPT
                                      !.requests = Put(Keep(s.requests, S), r, row)]
                      /\ Committable(Swept(store)) /\ r \notin DOMAIN s.requests
    BY <1>2 DEF Request, Commit
  <2> DEFINE w == Reopened(s, DeviceId(s, key))
             q == Put(Keep(s.requests, S), r, row)
  <2>2. WellTyped(w) /\ CredsLast(s, w)
    BY <1>0, <1>00, <2>1, ReopenedType, ReopenedCreds DEF LivePointers
  <2>3. store' = [w EXCEPT !.requests = q]
    BY <2>1
  <2>4. \A x \in DOMAIN s.requests \cap DOMAIN q : q[x] = s.requests[x]
    BY <2>1 DEF Put, Keep
  <2> HIDE DEF s, w, q
  <2>5. /\ store'.requests = q /\ store'.ops = w.ops /\ store'.records = w.records
        /\ store'.blocked = w.blocked
    BY <2>2, <2>3 DEF WellTyped
  <2>6. CredsLast(w, store')
    BY <2>5, CredsSame
  <2> QED
    BY <2>2, <2>4, <2>5, <2>6, CredsTrans DEF RowsIdle
\* One live request moves on.
<1>3. ASSUME NEW r \in DOMAIN s.requests, Live(s, r), NEW row,
             store' = [s EXCEPT !.requests[r] = row]
      PROVE  CredsLast(s, store') /\ RowsIdle(s, store')
  <2> HIDE DEF s
  <2>1. /\ store'.requests = [s.requests EXCEPT ![r] = row] /\ store'.ops = s.ops
        /\ store'.records = s.records /\ store'.blocked = s.blocked
    BY <1>0, <1>3 DEF WellTyped
  <2>2. store'.requests = [s.requests EXCEPT ![r] = row]
    BY <2>1
  <2>3. CredsLast(s, store')
    BY <2>1, CredsSame
  <2>4. \A x \in DOMAIN s.requests : x # r => store'.requests[x] = s.requests[x]
    BY <2>2
  <2>5. Live(s, r)
    BY <1>3
  <2>6. RowsIdle(s, store')
    BY <2>4, <2>5 DEF RowsIdle
  <2> QED
    BY <2>3, <2>6
<1>4. ASSUME NEW r \in RequestIds, Prove(r) \/ Cancel(r) \/ Deny(r)
      PROVE  CredsLast(s, store') /\ RowsIdle(s, store')
  <2>1. PICK st : /\ r \in DOMAIN s.requests /\ Live(s, r)
                  /\ store' = [s EXCEPT !.requests[r].state = st]
    BY <1>4 DEF Prove, Cancel, Deny, Addressed, Live, Commit
  <2> HIDE DEF s
  <2>2. store' = [s EXCEPT !.requests[r] = [s.requests[r] EXCEPT !.state = st]]
    BY <2>1
  <2> QED
    BY <1>3, <2>1, <2>2
<1>5. ASSUME NEW r \in RequestIds, Initiate(r) \/ Approve(r) \/ Fail(r)
      PROVE  CredsLast(s, store') /\ RowsIdle(s, store')
  <2>1. PICK row : /\ r \in DOMAIN s.requests /\ Live(s, r)
                   /\ store' = [s EXCEPT !.requests[r] = row]
    BY <1>5 DEF Initiate, Approve, Fail, Addressed, Live, Commit
  <2> HIDE DEF s
  <2> QED
    BY <1>3, <2>1
<1>6. ASSUME NEW r \in RequestIds, NEW new \in Credentials, Redeem(r, new)
      PROVE  CredsLast(s, store') /\ RowsIdle(s, store')
  <2> DEFINE device == s.requests[r].device
             i == Issued(s, device, new)
             w == Recovered(i, device, new)
             b == Put(s.bindings, device, s.requests[r].key)
  <2>0. Addressed(s, r, "approved") /\ new \notin DOMAIN s.records
    BY <1>6, Zenon DEF Redeem
  <2>1. store' = [w EXCEPT !.bindings = b, !.requests[r].state = "consumed"]
    BY <1>6, Zenon DEF Redeem, Commit
  <2>2. /\ LivePointers(s) /\ r \in DOMAIN s.requests
        /\ Live(s, r)
    BY <1>00, <2>0 DEF Addressed, Live
  <2> HIDE DEF s
  <2>3. device \in Devices /\ s.requests[r] \in EnrollmentRow
    BY <1>0, <2>2 DEF WellTyped, EnrollmentRow
  <2> DEFINE row == [s.requests[r] EXCEPT !.state = "consumed"]
  <2> HIDE DEF device, b
  <2>4. WellTyped(i) /\ i.ops = s.ops /\ i.recovery = s.recovery /\ i.requests = s.requests
        /\ CredsLast(s, i)
    BY <1>0, <2>0, <2>3, IssuedType, IssuedCreds
  <2>5. LivePointers(i)
    BY <2>2, <2>4 DEF LivePointers
  <2> HIDE DEF i
  <2>6. CredsLast(i, w) /\ WellTyped(w) /\ w.requests = s.requests
    BY <2>4, <2>5, RecoveredCreds, RecoveredType DEF LivePointers
  <2> HIDE DEF w
  <2>7. /\ store'.ops = w.ops /\ store'.records = w.records /\ store'.blocked = w.blocked
        /\ store'.requests = [s.requests EXCEPT ![r] = row]
    BY <2>1, <2>6 DEF WellTyped
  <2> HIDE DEF row
  <2>8. RowsIdle(s, store')
    BY <2>2, <2>7, RowsMoved
  <2>9. CredsLast(w, store')
    BY <2>7, CredsSame
  <2> QED
    BY <2>4, <2>6, <2>8, <2>9, CredsTrans
<1> QED
  BY <1>1, <1>2, <1>4, <1>5, <1>6 DEF EnrollmentStep

-----------------------------------------------------------------------------
(* Access lost for good. *)

Dead(s, c) ==
    \/ ~s.records[c].enabled
    \/ c \in s.blocked
    \/ \E o \in DOMAIN s.ops : /\ s.ops[o].cred = c
                               /\ s.ops[o].action \in {"rotate", "recover"}
                               /\ s.ops[o].state \in {"expired", "revoked"}

LEMMA DeadUnusable ==
  ASSUME NEW s, NEW c, Dead(s, c), NEW t
  PROVE  ~Usable(s, c, t)
  BY DEF Dead, Usable

LEMMA DeadLasts ==
  ASSUME NEW s, NEW w, CredsLast(s, w), NEW c \in DOMAIN s.records, Dead(s, c)
  PROVE  Dead(w, c)
<1>1. CASE ~s.records[c].enabled
  BY <1>1, Zenon DEF CredsLast, Dead
<1>2. CASE c \in s.blocked
  BY <1>2 DEF CredsLast, Dead
<1>3. ASSUME NEW o \in DOMAIN s.ops, s.ops[o].cred = c, s.ops[o].action \in {"rotate", "recover"},
             s.ops[o].state \in {"expired", "revoked"}
      PROVE  Dead(w, c)
  <2>1. Finished(s.ops[o])
    BY <1>3 DEF Finished, OpTerminal
  <2>2. o \in DOMAIN w.ops /\ w.ops[o] = s.ops[o]
    BY <2>1 DEF CredsLast, Moves
  <2> QED
    BY <1>3, <2>2 DEF Dead
<1> QED
  BY <1>1, <1>2, <1>3 DEF Dead

\* The sweep turns a deadline that has passed into a tombstone.
LEMMA SweepBuries ==
  ASSUME TypeOK, OpInv(store), NEW c \in DOMAIN store.records, ~Usable(store, c, now)
  PROVE  Dead(Swept(store), c)
<1>0. WellTyped(store) /\ now \in Nat
  BY DEF TypeOK
<1>1. CASE Dead(store, c)
  BY <1>0, <1>1, SweptLasts, DeadLasts
<1>2. CASE \E o \in DOMAIN store.ops :
              /\ store.ops[o].state = "delivered" /\ store.ops[o].overlap <= now
              /\ c \in store.ops[o].old \/ store.ops[o].cred = c
  <2>1. PICK o \in DOMAIN store.ops :
           /\ store.ops[o].state = "delivered" /\ store.ops[o].overlap <= now
           /\ c \in store.ops[o].old \/ store.ops[o].cred = c
    BY <1>2
  <2> DEFINE row == store.ops[o]
  <2>2. row \in Operation /\ DeadlineSet(row)
    BY <1>0 DEF WellTyped, OpInv, DeadlinesSet
  <2>3. row.state = "delivered" /\ row.overlap <= now /\ (c \in row.old \/ row.cred = c)
    BY <2>1
  <2> HIDE DEF row
  <2>4. Due(store, row)
    <3>1. row.overlap \in Nat /\ row.overlap # 0 /\ row.expires \in Nat
      BY <2>2, <2>3 DEF Operation, DeadlineSet
    <3>2. Min2(row.expires, IF row.overlap = 0 THEN row.expires ELSE row.overlap) <= now
      BY <1>0, <2>3, <3>1 DEF Min2
    <3> QED
      BY <2>3, <3>2 DEF Due, OpTerminal
  <2>5. c \in Liabilities(row)
    BY <2>3 DEF Liabilities
  <2>6. c \in SweptIds(store)
    BY <2>4, <2>5 DEF SweptIds, row
  <2>7. c \in Swept(store).blocked
    BY <1>0, <2>6, SweptFacts
  <2> QED
    BY <2>7 DEF Dead
<1>3. Dead(store, c) \/ \E o \in DOMAIN store.ops :
              /\ store.ops[o].state = "delivered" /\ store.ops[o].overlap <= now
              /\ c \in store.ops[o].old \/ store.ops[o].cred = c
  BY DEF Usable, Dead
<1> QED
  BY <1>1, <1>2, <1>3

\* Without a sweep a credential is as usable as before, or less as time passes.
LEMMA UnusableLater ==
  ASSUME NEW s, WellTyped(s), NEW w, w.records = s.records, w.blocked = s.blocked, w.ops = s.ops,
         NEW t \in Nat, NEW u \in Nat, t <= u, NEW c, ~Usable(s, c, t)
  PROVE  ~Usable(w, c, u)
<1>1. \A o \in DOMAIN s.ops : s.ops[o].overlap <= t => s.ops[o].overlap <= u
  <2>1. \A o \in DOMAIN s.ops : s.ops[o].overlap \in Nat
    BY DEF WellTyped, Operation
  <2> QED
    BY <2>1
<1> QED
  BY <1>1 DEF Usable

\* No sequence of retries, pairings, restarts and owner changes makes a credential usable again
\* (CredentialStore.usable; the tombstones of Lifecycle._retire).
THEOREM AccessStaysLost == Spec => AccessNeverReturns
<1>1. ASSUME ProvInv, OpInv(store), [Next]_vars, NEW c \in DOMAIN store.records,
             ~Usable(store, c, now)
      PROVE  ~Usable(store', c, now')
  <2>0. TypeOK /\ WellTyped(store) /\ now \in Nat
    BY <1>1 DEF ProvInv, TypeOK
  <2>1. Dead(Swept(store), c) /\ c \in DOMAIN Swept(store).records
    BY <1>1, <2>0, SweepBuries, SweptFacts
  <2>2. CASE LifecycleStep
    <3>1. Dead(store', c)
      BY <2>0, <2>1, <2>2, LifecycleLasts, DeadLasts
    <3> QED
      BY <3>1, DeadUnusable
  <2>3. CASE EnrollmentStep /\ ~Charge
    <3>1. CredsLast(Swept(store), Opened)
      BY <2>0, OpenedFacts, CredsSame
    <3>2. CredsLast(Opened, store')
      BY <2>0, <2>3, EnrollmentLasts
    <3>3. Dead(store', c)
      BY <2>1, <3>1, <3>2, CredsTrans, DeadLasts
    <3> QED
      BY <3>3, DeadUnusable
  <2>4. ASSUME store'.records = store.records, store'.blocked = store.blocked, store'.ops = store.ops,
               now' \in Nat, now <= now'
        PROVE  ~Usable(store', c, now')
    BY <1>1, <2>0, <2>4, UnusableLater
  <2>5. CASE Charge
    <3>1. /\ store'.records = store.records /\ store'.blocked = store.blocked
          /\ store'.ops = store.ops /\ now' = now
      BY <2>0, <2>5, MarkStaleType DEF Charge, Refreshed
    <3> QED
      BY <2>0, <2>4, <3>1
  <2>6. CASE (\E active \in BOOLEAN : OwnerReplaced(active)) \/ OwnerAcknowledged
    <3>1. /\ store'.records = store.records /\ store'.blocked = store.blocked
          /\ store'.ops = store.ops /\ now' = now
      BY <2>0, <2>6 DEF OwnerReplaced, OwnerAcknowledged, WellTyped
    <3> QED
      BY <2>0, <2>4, <3>1
  <2>7. ASSUME NEW cfg \in [origin : Origins, idlen : Lengths], Restart(cfg)
        PROVE  ~Usable(store', c, now')
    <3> DEFINE f == Refreshed(store, cfg.origin)
    <3>1. WellTyped(f) /\ f.ops = store.ops /\ f.records = store.records /\ f.blocked = store.blocked
      BY <2>0, MarkStaleType DEF Refreshed
    <3>2. PICK b : store' = [f EXCEPT !.bindings = b] /\ now' = now
      BY <2>7 DEF Restart, Rebound
    <3> HIDE DEF f
    <3>3. store'.ops = f.ops /\ store'.records = f.records /\ store'.blocked = f.blocked
      BY <3>1, <3>2 DEF WellTyped
    <3> QED
      BY <2>0, <2>4, <3>1, <3>2, <3>3
  <2>8. CASE Tick \/ UNCHANGED vars
    <3>1. store' = store /\ now' \in Nat /\ now <= now'
      BY <2>0, <2>8 DEF Tick, vars
    <3> QED
      BY <2>4, <3>1
  <2> QED
    BY <1>1, <2>2, <2>3, <2>5, <2>6, <2>7, <2>8 DEF Next
<1>2. ProvInv /\ OpInv(store) /\ [Next]_vars
      => [\A c \in DOMAIN store.records : ~Usable(store, c, now) => ~Usable(store', c, now')]_vars
  BY <1>1
<1> QED
  BY <1>2, ReloadsAlways, OpAlways, PTL DEF Spec, AccessNeverReturns

\* A finished operation or request is never reopened: history only grows (Lifecycle.sweep,
\* Enrollment._expect).
THEOREM HistoryStays == Spec => FinishedForever
<1>1. ASSUME ProvInv, [Next]_vars
      PROVE  CredsLast(store, store') /\ RowsLast(store, store')
  <2>0. TypeOK /\ WellTyped(store)
    BY <1>1 DEF ProvInv, TypeOK
  <2>1. CredsLast(store, Swept(store)) /\ RowsEnd(store, Swept(store))
    BY <2>0, SweptLasts
  <2>2. CASE LifecycleStep
    <3>1. CredsLast(Swept(store), store') /\ RowsEnd(Swept(store), store')
      BY <2>0, <2>2, LifecycleLasts
    <3>2. CredsLast(store, store') /\ RowsEnd(store, store')
      BY <2>1, <3>1, CredsTrans, RowsEndTrans
    <3> QED
      BY <3>2 DEF RowsEnd
  <2>3. CASE EnrollmentStep /\ ~Charge
    <3>1. CredsLast(Swept(store), Opened) /\ RowsEnd(Swept(store), Opened)
      BY <2>0, OpenedFacts, MarkStaleLasts DEF Opened, Refreshed
    <3>2. CredsLast(store, Opened) /\ RowsEnd(store, Opened)
      BY <2>1, <3>1, CredsTrans, RowsEndTrans
    <3>3. CredsLast(Opened, store') /\ RowsLast(Opened, store')
      BY <2>0, <2>3, EnrollmentLasts, IdleLast
    <3>4. CredsLast(store, store')
      BY <3>2, <3>3, CredsTrans
    <3>5. RowsLast(store, store')
      BY <3>2, <3>3 DEF RowsEnd, RowsLast
    <3> QED
      BY <3>4, <3>5
  <2>4. CASE Charge
    BY <2>0, <2>4, MarkStaleLasts DEF Charge, Refreshed, RowsEnd
  <2>5. ASSUME store'.records = store.records, store'.blocked = store.blocked,
               store'.ops = store.ops, store'.requests = store.requests
        PROVE  CredsLast(store, store') /\ RowsLast(store, store')
    BY <2>5, CredsSame DEF RowsLast
  <2>6. CASE (\E active \in BOOLEAN : OwnerReplaced(active)) \/ OwnerAcknowledged
    <3>1. /\ store'.records = store.records /\ store'.blocked = store.blocked
          /\ store'.ops = store.ops /\ store'.requests = store.requests
      BY <2>0, <2>6 DEF OwnerReplaced, OwnerAcknowledged, WellTyped
    <3> QED
      BY <2>5, <3>1
  <2>7. ASSUME NEW cfg \in [origin : Origins, idlen : Lengths], Restart(cfg)
        PROVE  CredsLast(store, store') /\ RowsLast(store, store')
    <3> DEFINE f == Refreshed(store, cfg.origin)
    <3>1. WellTyped(f) /\ CredsLast(store, f) /\ RowsEnd(store, f)
      BY <2>0, MarkStaleType, MarkStaleLasts DEF Refreshed
    <3>2. PICK b : store' = [f EXCEPT !.bindings = b]
      BY <2>7 DEF Restart, Rebound
    <3> HIDE DEF f
    <3>3. /\ store'.ops = f.ops /\ store'.records = f.records /\ store'.blocked = f.blocked
          /\ store'.requests = f.requests
      BY <3>1, <3>2 DEF WellTyped
    <3>4. CredsLast(f, store')
      BY <3>3, CredsSame
    <3> QED
      BY <3>1, <3>3, <3>4, CredsTrans DEF RowsEnd, RowsLast
  <2>8. CASE Tick \/ UNCHANGED vars
    <3>1. store' = store
      BY <2>8 DEF Tick, vars
    <3> QED
      BY <2>5, <3>1
  <2> QED
    BY <1>1, <2>2, <2>3, <2>4, <2>6, <2>7, <2>8 DEF Next
<1>2. ProvInv /\ [Next]_vars
      => [/\ \A o \in DOMAIN store.ops : Finished(store.ops[o]) => store'.ops[o] = store.ops[o]
          /\ \A r \in DOMAIN store.requests \cap DOMAIN store'.requests :
                store.requests[r].state \in RequestTerminal
                => store'.requests[r] = store.requests[r]]_vars
  BY <1>1 DEF CredsLast, RowsLast, Moves
<1> QED
  BY <1>2, ReloadsAlways, PTL DEF Spec, FinishedForever

-----------------------------------------------------------------------------
(* Work begun under another owner generation or public origin. *)

\* The sweep finishes such an operation.
LEMMA SweepEndsForeign ==
  ASSUME TypeOK, NEW o \in DOMAIN store.ops, Foreign(store.ops[o])
  PROVE  o \in DOMAIN Swept(store).ops /\ Finished(Swept(store).ops[o])
<1> DEFINE row == store.ops[o]
<1>1. WellTyped(store) /\ row \in Operation
  BY DEF TypeOK, WellTyped
<1>2. o \in DOMAIN Swept(store).ops /\ Swept(store).ops[o] = SweptRow(store, row)
  <2>1. Swept(store).ops = SweptOps(store)
    BY <1>1, SweptFacts
  <2>2. o \in DOMAIN SweptOps(store) /\ SweptOps(store)[o] = SweptRow(store, store.ops[o])
    BY Zenon DEF SweptOps
  <2> QED
    BY <2>1, <2>2
<1>3. row.state \in OpTerminal \cup {"acknowledged"} \/ Due(store, row)
  BY DEF Due, Foreign
<1> HIDE DEF row
<1>4. Finished(SweptRow(store, row))
  BY <1>1, <1>3 DEF SweptRow, Finished, OpTerminal, Operation
<1> QED
  BY <1>2, <1>4

\* Opening the pairing makes such a request stale, unless it ended or expired before.
LEMMA OpenedForeign ==
  ASSUME TypeOK, NEW r \in DOMAIN store.requests, Foreign(store.requests[r])
  PROVE  /\ r \in DOMAIN Opened.requests
         /\ Opened.requests[r].state \in {store.requests[r].state, "stale"}
         /\ ~Live(Opened, r)
<1> DEFINE s == Swept(store)
           R == {x \in DOMAIN s.requests : /\ s.requests[x].expires > now
                                           /\ AuthorityLost(s, s.requests[x], server.origin)}
<1>1. WellTyped(store)
  BY DEF TypeOK
<1>2. WellTyped(s) /\ s.owner = store.owner /\ RowsEnd(store, s)
  BY <1>1, SweptFacts, SweptLasts
<1>3. Opened = MarkStale(s, R)
  BY DEF Opened, Refreshed
<1>4. RowsEnd(s, Opened)
  BY <1>2, <1>3, MarkStaleLasts
<1>5. /\ r \in DOMAIN s.requests /\ s.requests[r].state \in {store.requests[r].state, "stale"}
      /\ s.requests[r].gen = store.requests[r].gen
      /\ s.requests[r].origin = store.requests[r].origin
  BY <1>2 DEF RowsEnd
<1>6. /\ r \in DOMAIN Opened.requests
      /\ Opened.requests[r].state \in {s.requests[r].state, "stale"}
      /\ Opened.requests[r].expires = s.requests[r].expires
  BY <1>4, <1>5 DEF RowsEnd
<1>7. AuthorityLost(s, s.requests[r], server.origin)
  BY <1>2, <1>5 DEF AuthorityLost, Foreign
<1>8. s.requests[r].expires > now => r \in R
  BY <1>5, <1>7
<1>9. r \in R => Opened.requests[r].state \in RequestTerminal
  <2>1. s.requests[r] \in EnrollmentRow
    BY <1>2, <1>5 DEF WellTyped
  <2>2. [s.requests[r] EXCEPT !.state = "stale"].state \in RequestTerminal
    BY <2>1 DEF EnrollmentRow, RequestTerminal
  <2>3. MarkStale(s, R).requests[r] = IF r \in R /\ s.requests[r].state \notin RequestTerminal
                                      THEN [s.requests[r] EXCEPT !.state = "stale"]
                                      ELSE s.requests[r]
    <3> HIDE DEF R, s
    <3> QED
      BY <1>2, <1>5 DEF MarkStale, WellTyped
  <2> HIDE DEF R, s
  <2> QED
    BY <1>3, <2>2, <2>3
<1> HIDE DEF s, R
<1> QED
  BY <1>5, <1>6, <1>8, <1>9 DEF Live

\* A foreign request is at most turned stale.
Ends(s, w) ==
    \A r \in DOMAIN s.requests \cap DOMAIN w.requests :
       Foreign(s.requests[r]) => w.requests[r].state \in {s.requests[r].state, "stale"}

\* After the owner's authority or the public origin changed, no pairing and no operation begun
\* before goes further: it can only end (Lifecycle.sweep, Enrollment._status).
THEOREM AuthorityEnds == Spec => AuthorityChangeEndsWork
<1>1. ASSUME ProvInv, [Next]_vars
      PROVE  /\ \A o \in DOMAIN store.ops : Foreign(store.ops[o])
                   => store'.ops[o].state \in {store.ops[o].state} \cup OpTerminal
             /\ Ends(store, store')
  <2>0. TypeOK /\ WellTyped(store)
    BY <1>1 DEF ProvInv, TypeOK
  <2>1. RowsEnd(store, Swept(store)) /\ WellTyped(Swept(store))
    BY <2>0, SweptLasts, SweptFacts
  \* A step that sweeps keeps what the sweep finished.
  <2>2. ASSUME CredsLast(Swept(store), store')
        PROVE  \A o \in DOMAIN store.ops : Foreign(store.ops[o])
                  => store'.ops[o].state \in {store.ops[o].state} \cup OpTerminal
    <3> SUFFICES ASSUME NEW o \in DOMAIN store.ops, Foreign(store.ops[o])
                 PROVE  store'.ops[o].state \in OpTerminal
      OBVIOUS
    <3>1. o \in DOMAIN Swept(store).ops /\ Finished(Swept(store).ops[o])
      BY <2>0, SweepEndsForeign
    <3>2. store'.ops[o] = Swept(store).ops[o]
      BY <2>2, <3>1 DEF CredsLast, Moves
    <3> QED
      BY <3>1, <3>2 DEF Finished
  <2>3. ASSUME store'.ops = store.ops
        PROVE  \A o \in DOMAIN store.ops : Foreign(store.ops[o])
                  => store'.ops[o].state \in {store.ops[o].state} \cup OpTerminal
    BY <2>3
  <2>4. ASSUME RowsEnd(store, store')
        PROVE  Ends(store, store')
    BY <2>4 DEF RowsEnd, Ends
  <2>5. CASE LifecycleStep
    <3>1. CredsLast(Swept(store), store') /\ RowsEnd(Swept(store), store')
      BY <2>0, <2>5, LifecycleLasts
    <3>2. RowsEnd(store, store')
      BY <2>1, <3>1, RowsEndTrans
    <3> QED
      BY <2>2, <2>4, <3>1, <3>2
  <2>6. CASE EnrollmentStep /\ ~Charge
    <3>1. CredsLast(Swept(store), Opened)
      BY <2>0, OpenedFacts, CredsSame
    <3>2. CredsLast(Opened, store') /\ RowsIdle(Opened, store')
      BY <2>0, <2>6, EnrollmentLasts
    <3>3. CredsLast(Swept(store), store')
      BY <3>1, <3>2, CredsTrans
    <3>4. Ends(store, store')
      <4> SUFFICES ASSUME NEW r \in DOMAIN store.requests, r \in DOMAIN store'.requests,
                          Foreign(store.requests[r])
                   PROVE  store'.requests[r].state \in {store.requests[r].state, "stale"}
        BY DEF Ends
      <4>1. /\ r \in DOMAIN Opened.requests /\ ~Live(Opened, r)
            /\ Opened.requests[r].state \in {store.requests[r].state, "stale"}
        BY <2>0, OpenedForeign
      <4>2. store'.requests[r] = Opened.requests[r]
        BY <3>2, <4>1 DEF RowsIdle
      <4> QED
        BY <4>1, <4>2
    <3> QED
      BY <2>2, <3>3, <3>4
  <2>7. CASE Charge
    <3>1. RowsEnd(store, store') /\ store'.ops = store.ops
      BY <2>0, <2>7, MarkStaleLasts, MarkStaleType DEF Charge, Refreshed
    <3> QED
      BY <2>3, <2>4, <3>1
  <2>8. ASSUME store'.ops = store.ops, store'.requests = store.requests
        PROVE  Ends(store, store')
    BY <2>8 DEF Ends
  <2>9. CASE (\E active \in BOOLEAN : OwnerReplaced(active)) \/ OwnerAcknowledged
    <3>1. store'.ops = store.ops /\ store'.requests = store.requests
      BY <2>0, <2>9 DEF OwnerReplaced, OwnerAcknowledged, WellTyped
    <3> QED
      BY <2>3, <2>8, <3>1
  <2>10. ASSUME NEW cfg \in [origin : Origins, idlen : Lengths], Restart(cfg)
         PROVE  store'.ops = store.ops /\ Ends(store, store')
    <3> DEFINE f == Refreshed(store, cfg.origin)
    <3>1. WellTyped(f) /\ f.ops = store.ops /\ RowsEnd(store, f)
      BY <2>0, MarkStaleType, MarkStaleLasts DEF Refreshed
    <3>2. PICK b : store' = [f EXCEPT !.bindings = b]
      BY <2>10 DEF Restart, Rebound
    <3> HIDE DEF f
    <3>3. store'.ops = f.ops /\ store'.requests = f.requests
      BY <3>1, <3>2 DEF WellTyped
    <3> QED
      BY <3>1, <3>3 DEF RowsEnd, Ends
  <2>11. CASE Tick \/ UNCHANGED vars
    <3>1. store' = store
      BY <2>11 DEF Tick, vars
    <3> QED
      BY <2>3, <2>8, <3>1
  <2> QED
    BY <1>1, <2>3, <2>5, <2>6, <2>7, <2>9, <2>10, <2>11 DEF Next
<1>2. ProvInv /\ [Next]_vars
      => [/\ \A o \in DOMAIN store.ops : Foreign(store.ops[o])
                => store'.ops[o].state \in {store.ops[o].state} \cup OpTerminal
          /\ \A r \in DOMAIN store.requests \cap DOMAIN store'.requests :
                Foreign(store.requests[r])
                => store'.requests[r].state
                     \in {store.requests[r].state} \cup (RequestTerminal \ {"consumed"})]_vars
  BY <1>1 DEF Ends, RequestTerminal
<1> QED
  BY <1>2, ReloadsAlways, PTL DEF Spec, AuthorityChangeEndsWork

-----------------------------------------------------------------------------
(* Deadlines. *)

\* An operation keeps its subject, action, authority and deadline for life, and past its deadline
\* it can only end.
DeadlineEndsWork ==
    [][\A o \in DOMAIN store.ops :
          /\ o \in DOMAIN store'.ops /\ Moves(store.ops[o], store'.ops[o])
          /\ store.ops[o].expires <= now
             => store'.ops[o].state \in {store.ops[o].state} \cup OpTerminal]_vars

\* The sweep finishes an operation past its deadline, whatever overlap it was delivered with.
LEMMA SweepEndsOverdue ==
  ASSUME TypeOK, NEW o \in DOMAIN store.ops, store.ops[o].expires <= now
  PROVE  o \in DOMAIN Swept(store).ops /\ Finished(Swept(store).ops[o])
<1> DEFINE row == store.ops[o]
<1>1. WellTyped(store) /\ row \in Operation /\ now \in Nat
  BY DEF TypeOK, WellTyped
<1>2. o \in DOMAIN Swept(store).ops /\ Swept(store).ops[o] = SweptRow(store, row)
  <2>1. Swept(store).ops = SweptOps(store)
    BY <1>1, SweptFacts
  <2>2. o \in DOMAIN SweptOps(store) /\ SweptOps(store)[o] = SweptRow(store, store.ops[o])
    BY Zenon DEF SweptOps
  <2> QED
    BY <2>1, <2>2
<1>3. row.expires <= now
  OBVIOUS
<1> HIDE DEF row
<1>4. row.expires \in Nat /\ row.overlap \in Nat
  BY <1>1 DEF Operation
<1>5. Min2(row.expires, IF row.overlap = 0 THEN row.expires ELSE row.overlap) <= now
  BY <1>1, <1>3, <1>4 DEF Min2
<1>6. row.state \in OpTerminal \cup {"acknowledged"} \/ Due(store, row)
  BY <1>5 DEF Due
<1>7. Finished(SweptRow(store, row))
  BY <1>1, <1>6 DEF SweptRow, Finished, OpTerminal, Operation
<1> QED
  BY <1>2, <1>7

\* No poll, delivery, acknowledgement or re-pairing moves a deadline or gets past it: a recovery
\* that is paired again stays bounded by its own deadline (Lifecycle.sweep,
\* replace_enrollment_credential).  OperationsFinish adds, under fairness, that a sweep comes.
THEOREM DeadlinesHold == Spec => DeadlineEndsWork
<1>1. ASSUME ProvInv, [Next]_vars, NEW o \in DOMAIN store.ops
      PROVE  /\ o \in DOMAIN store'.ops /\ Moves(store.ops[o], store'.ops[o])
             /\ store.ops[o].expires <= now
                => store'.ops[o].state \in {store.ops[o].state} \cup OpTerminal
  <2>0. TypeOK /\ WellTyped(store)
    BY <1>1 DEF ProvInv, TypeOK
  <2>1. CredsLast(store, Swept(store))
    BY <2>0, SweptLasts
  <2>2. CASE CredsLast(Swept(store), store')
    <3>1. CredsLast(store, store')
      BY <2>1, <2>2, CredsTrans
    <3>2. ASSUME store.ops[o].expires <= now PROVE store'.ops[o].state \in OpTerminal
      <4>1. o \in DOMAIN Swept(store).ops /\ Finished(Swept(store).ops[o])
        BY <2>0, <3>2, SweepEndsOverdue
      <4>2. store'.ops[o] = Swept(store).ops[o]
        BY <2>2, <4>1 DEF CredsLast, Moves
      <4> QED
        BY <4>1, <4>2 DEF Finished
    <3> QED
      BY <3>1, <3>2 DEF CredsLast
  <2>3. CASE store'.ops = store.ops
    BY <2>3 DEF Moves
  <2>4. CASE LifecycleStep
    BY <2>0, <2>2, <2>4, LifecycleLasts
  <2>5. CASE EnrollmentStep /\ ~Charge
    <3>1. CredsLast(Swept(store), Opened)
      BY <2>0, OpenedFacts, CredsSame
    <3>2. CredsLast(Opened, store')
      BY <2>0, <2>5, EnrollmentLasts
    <3> QED
      BY <2>2, <3>1, <3>2, CredsTrans
  <2>6. CASE Charge
    BY <2>0, <2>3, <2>6, MarkStaleType DEF Charge, Refreshed
  <2>7. CASE (\E active \in BOOLEAN : OwnerReplaced(active)) \/ OwnerAcknowledged
    BY <2>0, <2>3, <2>7 DEF OwnerReplaced, OwnerAcknowledged, WellTyped
  <2>8. ASSUME NEW cfg \in [origin : Origins, idlen : Lengths], Restart(cfg) PROVE store'.ops = store.ops
    <3> DEFINE f == Refreshed(store, cfg.origin)
    <3>1. WellTyped(f) /\ f.ops = store.ops
      BY <2>0, MarkStaleType DEF Refreshed
    <3>2. PICK b : store' = [f EXCEPT !.bindings = b]
      BY <2>8 DEF Restart, Rebound
    <3> HIDE DEF f
    <3> QED
      BY <3>1, <3>2 DEF WellTyped
  <2>9. CASE Tick \/ UNCHANGED vars
    BY <2>3, <2>9 DEF Tick, vars
  <2> QED
    BY <1>1, <2>3, <2>4, <2>5, <2>6, <2>7, <2>8, <2>9 DEF Next
<1>2. ProvInv /\ [Next]_vars
      => [\A o \in DOMAIN store.ops :
             /\ o \in DOMAIN store'.ops /\ Moves(store.ops[o], store'.ops[o])
             /\ store.ops[o].expires <= now
                => store'.ops[o].state \in {store.ops[o].state} \cup OpTerminal]_vars
  BY <1>1
<1> QED
  BY <1>2, ReloadsAlways, PTL DEF Spec, DeadlineEndsWork

-----------------------------------------------------------------------------
(***************************************************************************)
(* Grants.  A credential comes to be in two ways: its predecessor's holder *)
(* rotates it, or a pairing that two controllers agreed to is redeemed.    *)
(* Both rest on decisions made earlier, and on every one of them still     *)
(* being backed when the credential is issued.                             *)
(***************************************************************************)
\* a is the owner or, for a physical device, an integration.
Chosen(s, row, a) ==
    \/ a.cred = OwnerCred
    \/ /\ a.cred \in DOMAIN s.records /\ s.records[a.cred].subject \in Integrations
       /\ row.key \notin BrowserKeys

RowDecided(s, row) ==
    /\ row.state \in {"initiated", "approved"} => Chosen(s, row, row.initiator)
    /\ row.state = "approved" => Chosen(s, row, row.approver)

Decided(s) == \A r \in DOMAIN s.requests : RowDecided(s, s.requests[r])

\* The holder of a usable credential of the same subject collects c for a rotation under way.
HandedOver(c) ==
    \E o \in DOMAIN store.ops :
       /\ store.ops[o].action = "rotate" /\ store.ops[o].state = "pending"
       /\ ~Foreign(store.ops[o]) /\ now < store.ops[o].expires
       /\ store'.ops[o].state = "delivered" /\ store'.ops[o].cred = c
       /\ store'.records[c].subject = store.ops[o].subject
       /\ \E h \in DOMAIN store.records :
             store.records[h].subject = store.ops[o].subject /\ Usable(store, h, now)

\* An approved request is redeemed for c while both of its controllers still have authority.
Paired(c) ==
    \E r \in DOMAIN store.requests :
       LET row == store.requests[r]
       IN  /\ row.state = "approved" /\ ~Foreign(row) /\ now < row.expires
           /\ store'.requests[r].state = "consumed"
           /\ store'.records[c].subject = row.device
           /\ \A a \in {row.initiator, row.approver} : Chosen(store, row, a) /\ ActorCurrent(store, a, now)

Backed == \A c \in DOMAIN store'.records \ DOMAIN store.records : HandedOver(c) \/ Paired(c)

GrantsNeedAuthority == [][Backed]_vars

LEMMA ChosenLasts ==
  ASSUME NEW s, NEW w, CredsLast(s, w), NEW p, NEW q, q.key = p.key, NEW a, Chosen(s, p, a)
  PROVE  Chosen(w, q, a)
  BY DEF Chosen, CredsLast

LEMMA DecidedKept ==
  ASSUME NEW s, NEW w, Decided(s), CredsLast(s, w), RowsEnd(s, w)
  PROVE  Decided(w)
<1> SUFFICES ASSUME NEW r \in DOMAIN w.requests PROVE RowDecided(w, w.requests[r])
  BY DEF Decided
<1> DEFINE p == s.requests[r]
           q == w.requests[r]
<1>1. RowDecided(s, p) /\ q.key = p.key /\ q.initiator = p.initiator /\ q.approver = p.approver
      /\ q.state \in {p.state, "stale"}
  BY DEF Decided, RowsEnd
<1> HIDE DEF p, q
<1>2. RowDecided(w, q)
  BY <1>1, ChosenLasts DEF RowDecided
<1> QED
  BY <1>2 DEF q

\* One request is new or moves on.
LEMMA DecidedMoved ==
  ASSUME NEW s, NEW w, Decided(s), CredsLast(s, w), NEW r,
         \A x \in DOMAIN w.requests : x # r => x \in DOMAIN s.requests /\ w.requests[x] = s.requests[x],
         r \in DOMAIN w.requests => RowDecided(w, w.requests[r])
  PROVE  Decided(w)
<1> SUFFICES ASSUME NEW x \in DOMAIN w.requests, x # r PROVE RowDecided(w, w.requests[x])
  BY DEF Decided
<1> DEFINE p == s.requests[x]
<1>1. RowDecided(s, p) /\ w.requests[x] = p
  BY DEF Decided
<1> HIDE DEF p
<1>2. RowDecided(w, p)
  BY <1>1, ChosenLasts DEF RowDecided
<1> QED
  BY <1>1, <1>2

LEMMA ControllersChosen ==
  ASSUME NEW s, WellTyped(s), NEW row, NEW a \in Controllers(s, row.key)
  PROVE  Chosen(s, row, a)
<1>1. CASE a \in {b \in {[cred |-> OwnerCred, gen |-> s.owner.gen]} : s.owner.active}
  BY <1>1 DEF Chosen
<1>2. CASE a \in {b \in [cred : {c \in DOMAIN s.records : s.records[c].subject \in Integrations}, gen : {0}] :
                     row.key \notin BrowserKeys /\ Usable(s, b.cred, now)}
  BY <1>2 DEF Chosen
<1> QED
  BY <1>1, <1>2 DEF Controllers

LEMMA RecoveredRest ==
  ASSUME NEW s, WellTyped(s), NEW device, NEW new
  PROVE  Recovered(s, device, new).records = s.records
<1> DEFINE o == s.recovery[device]
           row == [s.ops[o] EXCEPT !.state = "delivered", !.cred = new, !.overlap = s.ops[o].expires]
           w == [s EXCEPT !.ops[o] = row]
<1>1. Recovered(s, device, new) = IF device \in DOMAIN s.recovery THEN w ELSE s
  BY DEF Recovered
<1> HIDE DEF o, row
<1>2. w.records = s.records
  BY DEF WellTyped
<1> HIDE DEF w
<1> QED
  BY <1>1, <1>2

LEMMA IssuedRecords ==
  ASSUME NEW s, WellTyped(s), NEW device, NEW new
  PROVE  /\ DOMAIN Issued(s, device, new).records = DOMAIN s.records \cup {new}
         /\ Issued(s, device, new).records[new].subject = device
<1> DEFINE old == Retire(s, Matching(s, device))
           recs == Put(old.records, new, [subject |-> device, enabled |-> TRUE])
<1>1. WellTyped(old) /\ DOMAIN old.records = DOMAIN s.records
  BY RetireType
<1>2. Issued(s, device, new) = [old EXCEPT !.records = recs]
  BY DEF Issued
<1> HIDE DEF old
<1>3. DOMAIN recs = DOMAIN old.records \cup {new} /\ recs[new].subject = device
  BY DEF Put
<1> HIDE DEF recs
<1>4. [old EXCEPT !.records = recs].records = recs
  BY <1>1 DEF WellTyped
<1> QED
  BY <1>1, <1>2, <1>3, <1>4

\* What redeeming a request changes.
LEMMA RedeemFacts ==
  ASSUME TypeOK, NEW r \in RequestIds, NEW new \in Credentials, Redeem(r, new)
  PROVE  /\ r \in DOMAIN Opened.requests /\ Live(Opened, r) /\ Opened.requests[r].state = "approved"
         /\ store'.requests = [Opened.requests EXCEPT ![r] = [Opened.requests[r] EXCEPT !.state = "consumed"]]
         /\ DOMAIN store'.records = DOMAIN Opened.records \cup {new}
         /\ store'.records[new].subject = Opened.requests[r].device
<1> DEFINE s == Opened
           device == s.requests[r].device
           i == Issued(s, device, new)
           w == Recovered(i, device, new)
           b == Put(s.bindings, device, s.requests[r].key)
           row == [s.requests[r] EXCEPT !.state = "consumed"]
<1>0. WellTyped(s)
  BY OpenedFacts
<1>1. Addressed(s, r, "approved") /\ new \notin DOMAIN s.records
  BY Zenon DEF Redeem
<1>2. store' = [w EXCEPT !.bindings = b, !.requests[r].state = "consumed"]
  BY Zenon DEF Redeem, Commit
<1>3. /\ LivePointers(s) /\ r \in DOMAIN s.requests /\ Live(s, r) /\ s.requests[r].state = "approved"
  <2>1. Committable(Swept(store)) /\ Live(s, r) /\ s.requests[r].state = "approved"
    BY <1>1 DEF Addressed
  <2> QED
    BY <2>1, OpenedLive DEF Live
<1> HIDE DEF s
<1>4. device \in Devices
  BY <1>0, <1>3 DEF WellTyped, EnrollmentRow
<1> HIDE DEF device, b
<1>5. /\ WellTyped(i) /\ i.ops = s.ops /\ i.recovery = s.recovery /\ i.requests = s.requests
      /\ DOMAIN i.records = DOMAIN s.records \cup {new} /\ i.records[new].subject = device
  BY <1>0, <1>4, IssuedType, IssuedRecords
<1>6. LivePointers(i)
  BY <1>3, <1>5 DEF LivePointers
<1> HIDE DEF i
<1>7. WellTyped(w) /\ w.requests = s.requests /\ w.records = i.records
  BY <1>5, <1>6, RecoveredRest, RecoveredType DEF LivePointers
<1> HIDE DEF w
<1>8. store'.records = w.records /\ store'.requests = [s.requests EXCEPT ![r] = row]
  BY <1>2, <1>7 DEF WellTyped
<1> HIDE DEF row
<1>9. /\ r \in DOMAIN s.requests /\ Live(s, r) /\ s.requests[r].state = "approved"
      /\ store'.requests = [s.requests EXCEPT ![r] = row]
      /\ DOMAIN store'.records = DOMAIN s.records \cup {new}
      /\ store'.records[new].subject = device
  BY <1>3, <1>5, <1>7, <1>8
<1> QED
  BY <1>9 DEF s, row, device

\* A request that only moves on without a new decision.
LEMMA MovedDecided ==
  ASSUME NEW s, NEW w, CredsLast(s, w), NEW p, NEW q, RowDecided(s, p), q.key = p.key,
         q.initiator = p.initiator, q.approver = p.approver,
         q.state = p.state \/ q.state \notin {"initiated", "approved"}
  PROVE  RowDecided(w, q)
  BY ChosenLasts DEF RowDecided

\* An enrollment call decides only through a controller.
LEMMA EnrollmentDecides ==
  ASSUME TypeOK, EnrollmentStep, ~Charge, Decided(Opened)
  PROVE  Decided(store')
<1> DEFINE s == Opened
<1>0. WellTyped(s) /\ CredsLast(s, store') /\ Decided(s)
  BY OpenedFacts, EnrollmentLasts
<1>1. CASE Examine
  <2>1. store' = s
    BY <1>1 DEF Examine
  <2> QED
    BY <1>0, <2>1
<1>2. ASSUME NEW key \in Keys, NEW r \in RequestIds, Request(key, r)
      PROVE  Decided(store')
  <2> DEFINE S == {x \in DOMAIN s.requests : s.requests[x].expires > now}
             row == [key |-> key, device |-> DeviceId(s, key), state |-> "challenge", attempts |-> 0,
                     expires |-> now + TTL, gen |-> s.owner.gen, origin |-> server.origin,
                     initiator |-> NoActor, approver |-> NoActor]
             w == Reopened(s, DeviceId(s, key))
             q == Put(Keep(s.requests, S), r, row)
  <2>0. store' = [w EXCEPT !.requests = q]
    BY <1>2, Zenon DEF Request, Commit
  <2>00. row.state = "challenge"
    OBVIOUS
  <2> HIDE DEF S, row
  <2>1. Committable(Swept(store)) /\ row.state = "challenge"
    BY <1>2, <2>00, Zenon DEF Request
  <2>2. LivePointers(s)
    BY <2>1, OpenedLive
  <2>3. WellTyped(w)
    BY <1>0, <2>2, ReopenedType DEF LivePointers
  <2>5. /\ \A x \in DOMAIN q : x # r => x \in DOMAIN s.requests /\ q[x] = s.requests[x]
        /\ q[r] = row
    <3> HIDE DEF s
    <3> QED
      BY DEF Put, Keep
  <2> HIDE DEF s, w, q
  <2>6. store'.requests = q
    BY <2>0, <2>3 DEF WellTyped
  <2>7. RowDecided(store', store'.requests[r])
    BY <2>1, <2>5, <2>6 DEF RowDecided
  <2> QED
    BY <1>0, <2>5, <2>6, <2>7, DecidedMoved
\* One live request moves on.
<1>3. ASSUME NEW r \in DOMAIN s.requests, NEW row, RowDecided(store', row),
             store'.requests = [s.requests EXCEPT ![r] = row]
      PROVE  Decided(store')
  <2> HIDE DEF s
  <2>1. /\ \A x \in DOMAIN store'.requests :
              x # r => x \in DOMAIN s.requests /\ store'.requests[x] = s.requests[x]
        /\ store'.requests[r] = row
    BY <1>3
  <2>2. RowDecided(store', store'.requests[r])
    BY <1>3, <2>1
  <2> QED
    BY <1>0, <2>1, <2>2, DecidedMoved
<1>4. ASSUME NEW r \in DOMAIN s.requests
      PROVE  s.requests[r] \in EnrollmentRow /\ RowDecided(s, s.requests[r])
  BY <1>0, <1>4 DEF WellTyped, Decided
\* The row without a new decision.
<1>5. ASSUME NEW r \in DOMAIN s.requests, NEW row, store' = [s EXCEPT !.requests[r] = row],
             row.key = s.requests[r].key, row.initiator = s.requests[r].initiator,
             row.approver = s.requests[r].approver,
             row.state = s.requests[r].state \/ row.state \notin {"initiated", "approved"}
      PROVE  Decided(store')
  <2> HIDE DEF s
  <2>1. store'.requests = [s.requests EXCEPT ![r] = row]
    BY <1>0, <1>5 DEF WellTyped
  <2>2. RowDecided(s, s.requests[r])
    BY <1>4
  <2>3. RowDecided(store', row)
    BY <1>0, <1>5, <2>2, MovedDecided
  <2> QED
    BY <1>3, <2>1, <2>3
<1>6. ASSUME NEW r \in RequestIds, Prove(r) \/ Cancel(r) \/ Deny(r)
      PROVE  Decided(store')
  <2>1. PICK st \in {"ready", "cancelled", "denied"} :
           r \in DOMAIN s.requests /\ store' = [s EXCEPT !.requests[r].state = st]
    BY <1>6 DEF Prove, Cancel, Deny, Addressed, Live, Commit
  <2>2. s.requests[r] \in EnrollmentRow
    BY <1>4, <2>1
  <2> DEFINE row == [s.requests[r] EXCEPT !.state = st]
  <2>3. /\ row.state = st /\ row.key = s.requests[r].key
        /\ row.initiator = s.requests[r].initiator /\ row.approver = s.requests[r].approver
    BY <2>2 DEF EnrollmentRow
  <2> HIDE DEF s
  <2>4. store' = [s EXCEPT !.requests[r] = row]
    BY <2>1
  <2> HIDE DEF row
  <2> QED
    BY <1>5, <2>1, <2>3, <2>4
<1>7. ASSUME NEW r \in RequestIds, Fail(r)
      PROVE  Decided(store')
  <2>1. PICK n, end : /\ r \in DOMAIN s.requests /\ end \in {"failed", s.requests[r].state}
                      /\ store' = [s EXCEPT !.requests[r] = [s.requests[r] EXCEPT !.attempts = n,
                                                                                  !.state = end]]
    BY <1>7 DEF Fail, Live, Commit
  <2>2. s.requests[r] \in EnrollmentRow
    BY <1>4, <2>1
  <2> DEFINE row == [s.requests[r] EXCEPT !.attempts = n, !.state = end]
  <2>3. /\ row.state = end /\ row.key = s.requests[r].key
        /\ row.initiator = s.requests[r].initiator /\ row.approver = s.requests[r].approver
    BY <2>2 DEF EnrollmentRow
  <2> HIDE DEF s
  <2>4. store' = [s EXCEPT !.requests[r] = row]
    BY <2>1
  <2> HIDE DEF row
  <2> QED
    BY <1>5, <2>1, <2>3, <2>4
<1>8. ASSUME NEW r \in RequestIds, Initiate(r) \/ Approve(r)
      PROVE  Decided(store')
  <2> DEFINE p == s.requests[r]
  <2>1. /\ r \in DOMAIN s.requests
        /\ \E a \in Controllers(s, p.key) :
              \/ store' = [s EXCEPT !.requests[r] = [p EXCEPT !.initiator = a, !.state = "initiated"]]
              \/ /\ p.state = "initiated"
                 /\ store' = [s EXCEPT !.requests[r] = [p EXCEPT !.approver = a, !.state = "approved"]]
    BY <1>8 DEF Initiate, Approve, Addressed, Live, Commit
  <2>2. p \in EnrollmentRow /\ RowDecided(s, p)
    BY <1>4, <2>1
  <2>3. PICK a \in Controllers(s, p.key) :
              \/ store' = [s EXCEPT !.requests[r] = [p EXCEPT !.initiator = a, !.state = "initiated"]]
              \/ /\ p.state = "initiated"
                 /\ store' = [s EXCEPT !.requests[r] = [p EXCEPT !.approver = a, !.state = "approved"]]
    BY <2>1
  <2>4. Chosen(s, p, a)
    <3> HIDE DEF s, p
    <3> QED
      BY <1>0, <2>3, ControllersChosen
  <2>5. ASSUME NEW row, store' = [s EXCEPT !.requests[r] = row], RowDecided(store', row)
        PROVE  Decided(store')
    <3> HIDE DEF s
    <3>1. store'.requests = [s.requests EXCEPT ![r] = row]
      BY <1>0, <2>5 DEF WellTyped
    <3> QED
      BY <1>3, <2>1, <2>5, <3>1
  <2> HIDE DEF s, p
  <2>6. CASE store' = [s EXCEPT !.requests[r] = [p EXCEPT !.initiator = a, !.state = "initiated"]]
    <3> DEFINE row == [p EXCEPT !.initiator = a, !.state = "initiated"]
    <3>1. row.state = "initiated" /\ row.key = p.key /\ row.initiator = a
      BY <2>2 DEF EnrollmentRow
    <3> HIDE DEF row
    <3>2. Chosen(store', row, a)
      BY <1>0, <2>4, <3>1, ChosenLasts
    <3>3. RowDecided(store', row)
      BY <3>1, <3>2 DEF RowDecided
    <3> QED
      BY <2>5, <2>6, <3>3 DEF row
  <2>7. CASE /\ p.state = "initiated"
             /\ store' = [s EXCEPT !.requests[r] = [p EXCEPT !.approver = a, !.state = "approved"]]
    <3> DEFINE row == [p EXCEPT !.approver = a, !.state = "approved"]
    <3>1. row.state = "approved" /\ row.key = p.key /\ row.initiator = p.initiator /\ row.approver = a
      BY <2>2 DEF EnrollmentRow
    <3> HIDE DEF row
    <3>2. Chosen(s, p, p.initiator)
      BY <2>2, <2>7 DEF RowDecided
    <3>3. Chosen(store', row, a) /\ Chosen(store', row, p.initiator)
      BY <1>0, <2>4, <3>1, <3>2, ChosenLasts
    <3>4. RowDecided(store', row)
      BY <3>1, <3>3 DEF RowDecided
    <3> QED
      BY <2>5, <2>7, <3>4 DEF row
  <2> QED
    BY <2>3, <2>6, <2>7
<1>9. ASSUME NEW r \in RequestIds, NEW new \in Credentials, Redeem(r, new)
      PROVE  Decided(store')
  <2>1. /\ r \in DOMAIN s.requests
        /\ store'.requests = [s.requests EXCEPT ![r] = [s.requests[r] EXCEPT !.state = "consumed"]]
    BY <1>9, RedeemFacts
  <2>2. s.requests[r] \in EnrollmentRow
    BY <1>4, <2>1
  <2> DEFINE row == [s.requests[r] EXCEPT !.state = "consumed"]
  <2>3. row.state = "consumed"
    BY <2>2 DEF EnrollmentRow
  <2>4. RowDecided(store', row)
    BY <2>3 DEF RowDecided
  <2> HIDE DEF s
  <2> QED
    BY <1>3, <2>1, <2>4
<1> QED
  BY <1>1, <1>2, <1>6, <1>7, <1>8, <1>9 DEF EnrollmentStep

\* Decisions stand in every reachable snapshot.
LEMMA DecidedStep ==
  ASSUME ProvInv, Decided(store), [Next]_vars
  PROVE  Decided(store')
<1>0. TypeOK /\ WellTyped(store)
  BY DEF ProvInv, TypeOK
<1>1. WellTyped(Swept(store)) /\ Decided(Swept(store))
  BY <1>0, SweptFacts, SweptLasts, DecidedKept
<1>2. CASE LifecycleStep
  BY <1>0, <1>1, <1>2, LifecycleLasts, DecidedKept
<1>3. CASE EnrollmentStep /\ ~Charge
  <2>1. Decided(Opened)
    BY <1>1, MarkStaleLasts, DecidedKept DEF Opened, Refreshed
  <2> QED
    BY <1>0, <1>3, <2>1, EnrollmentDecides
<1>4. CASE Charge
  BY <1>0, <1>4, MarkStaleLasts, DecidedKept DEF Charge, Refreshed
<1>5. ASSUME NEW s, Decided(s), store'.records = s.records, store'.requests = s.requests
      PROVE  Decided(store')
  BY <1>5 DEF Decided, RowDecided, Chosen
<1>6. CASE (\E active \in BOOLEAN : OwnerReplaced(active)) \/ OwnerAcknowledged
  <2>1. store'.records = store.records /\ store'.requests = store.requests
    BY <1>0, <1>6 DEF OwnerReplaced, OwnerAcknowledged, WellTyped
  <2> QED
    BY <1>5, <2>1
<1>7. ASSUME NEW cfg \in [origin : Origins, idlen : Lengths], Restart(cfg)
      PROVE  Decided(store')
  <2> DEFINE f == Refreshed(store, cfg.origin)
  <2>1. WellTyped(f) /\ Decided(f)
    BY <1>0, MarkStaleType, MarkStaleLasts, DecidedKept DEF Refreshed
  <2>2. PICK b : store' = [f EXCEPT !.bindings = b]
    BY <1>7 DEF Restart, Rebound
  <2> HIDE DEF f
  <2>3. store'.records = f.records /\ store'.requests = f.requests
    BY <2>1, <2>2 DEF WellTyped
  <2> QED
    BY <1>5, <2>1, <2>3
<1>8. CASE Tick \/ UNCHANGED vars
  <2>1. store' = store
    BY <1>8 DEF Tick, vars
  <2> QED
    BY <1>5, <2>1
<1> QED
  BY <1>2, <1>3, <1>4, <1>6, <1>7, <1>8 DEF Next

LEMMA DecidedAlways == Spec => []Decided(store)
<1>1. Init => Decided(store)
  BY DEF Init, EmptyStore, EmptyDict, Decided
<1>2. ProvInv /\ Decided(store) /\ [Next]_vars => Decided(store')
  BY DecidedStep
<1>3. Decided(store)' <=> Decided(store')
  BY DEF Decided, RowDecided, Chosen
<1> QED
  BY <1>1, <1>2, <1>3, ReloadsAlways, PTL DEF Spec

\* A lifecycle call adds a credential only by delivering a rotation.
LEMMA LifecycleGrants ==
  ASSUME TypeOK, LifecycleStep, NEW x \in DOMAIN store'.records \ DOMAIN store.records
  PROVE  /\ x \in Credentials
         /\ \E c \in Credentials, o \in OpIds : Deliver(c, o, x)
<1> DEFINE s == Swept(store)
<1>0. WellTyped(s) /\ DOMAIN s.records = DOMAIN store.records /\ WellTyped(store')
  BY SweptFacts, LifecycleTypes DEF TypeOK
<1>1. x \in Credentials
  BY <1>0 DEF WellTyped
<1>2. CASE Maintain
  BY <1>0, <1>2 DEF Maintain
<1>3. ASSUME NEW o \in OpIds, NEW subject \in Subjects, Rotate(o, subject) PROVE FALSE
  <2>1. PICK ops : store' = [s EXCEPT !.ops = ops]
    BY <1>3 DEF Rotate, Commit
  <2> HIDE DEF s
  <2>2. store'.records = s.records
    BY <1>0, <2>1 DEF WellTyped
  <2> QED
    BY <1>0, <2>2
<1>4. ASSUME NEW o \in OpIds, NEW subject \in Subjects, Revoke(o, subject) \/ Recover(o, subject) PROVE FALSE
  <2> DEFINE w == Withdrawn(s, subject)
  <2>1. \/ \E ops : store' = [w EXCEPT !.ops = ops]
        \/ \E ops, rec : store' = [w EXCEPT !.ops = ops, !.recovery = rec]
    BY <1>4 DEF Revoke, RevokeResult, Recover, Commit
  <2>2. WellTyped(w) /\ DOMAIN w.records = DOMAIN s.records
    BY <1>0, WithdrawnFacts
  <2> HIDE DEF w, s
  <2>3. store'.records = w.records
    BY <2>1, <2>2 DEF WellTyped
  <2> QED
    BY <1>0, <2>2, <2>3
<1>5. ASSUME NEW c \in Credentials, NEW o \in OpIds, Poll(c, o) PROVE FALSE
  <2>1. store' = [s EXCEPT !.ops[o].state = "pending"]
    BY <1>5 DEF Poll, Commit
  <2> HIDE DEF s
  <2>2. store'.records = s.records
    BY <1>0, <2>1 DEF WellTyped
  <2> QED
    BY <1>0, <2>2
<1>6. ASSUME NEW c \in Credentials, NEW o \in OpIds, Ack(c, o) PROVE FALSE
  <2> DEFINE a == Retire(s, s.ops[o].old)
             b == [a EXCEPT !.ops[o].state = "acknowledged"]
  <2>1. o \in DOMAIN s.ops /\ store' = InvalidateApprovals(b, s.ops[o].old)
    BY <1>6 DEF Ack, AckResult, Presents, Commit
  <2>2. WellTyped(a) /\ a.ops = s.ops /\ DOMAIN a.records = DOMAIN s.records
    BY <1>0, RetireType
  <2> HIDE DEF s, a
  <2>3. WellTyped(b) /\ b.records = a.records
    BY <2>1, <2>2, SetStateType DEF OpStates, WellTyped
  <2> HIDE DEF b
  <2>4. store'.records = b.records
    BY <2>1, <2>3, InvalidateType
  <2> QED
    BY <1>0, <2>2, <2>3, <2>4
<1>7. ASSUME NEW c \in Credentials, NEW new \in Credentials, NEW o \in OpIds, Deliver(c, o, new)
      PROVE  Deliver(c, o, x)
  <2> DEFINE row == [s.ops[o] EXCEPT !.state = "delivered", !.cred = new,
                       !.overlap = Min2(now + OVERLAP_SECONDS, s.ops[o].expires)]
             rec == [subject |-> s.records[c].subject, enabled |-> TRUE]
  <2>1. store' = [s EXCEPT !.records = Put(s.records, new, rec), !.ops[o] = row]
    BY <1>7 DEF Deliver, Commit
  <2> HIDE DEF s, row, rec
  <2>2. store'.records = Put(s.records, new, rec)
    BY <1>0, <2>1 DEF WellTyped
  <2>3. DOMAIN Put(s.records, new, rec) = DOMAIN s.records \cup {new}
    BY DEF Put
  <2>4. x = new
    BY <1>0, <2>2, <2>3
  <2> QED
    BY <1>7, <2>4
<1> QED
  BY <1>1, <1>2, <1>3, <1>4, <1>5, <1>6, <1>7 DEF LifecycleStep

\* An enrollment call adds a credential only by redeeming a request.
LEMMA EnrollmentGrants ==
  ASSUME TypeOK, EnrollmentStep, NEW x \in DOMAIN store'.records \ DOMAIN store.records
  PROVE  \E r \in RequestIds, new \in Credentials : Redeem(r, new) /\ new = x
<1> DEFINE s == Opened
<1>0. WellTyped(s) /\ DOMAIN s.records = DOMAIN store.records
  BY OpenedFacts, SweptFacts DEF TypeOK
<1>1. CASE Examine
  BY <1>0, <1>1 DEF Examine
<1>2. CASE Charge
  BY <1>2, MarkStaleType DEF Charge, Refreshed, TypeOK
<1> HIDE DEF s
<1>3. ASSUME NEW key \in Keys, NEW r \in RequestIds, Request(key, r) PROVE FALSE
  <2> DEFINE w == Reopened(s, DeviceId(s, key))
  <2>1. PICK q : /\ store' = [w EXCEPT !.requests = q]
                 /\ Committable(Swept(store))
    BY <1>3 DEF Request, Commit, s
  <2>2. LivePointers(s)
    BY <2>1, OpenedLive DEF s
  <2>3. w.records = s.records /\ WellTyped(w)
    BY <1>0, <2>2, ReopenedRest, ReopenedType DEF LivePointers
  <2> HIDE DEF w
  <2>4. store'.records = w.records
    BY <2>1, <2>3 DEF WellTyped
  <2> QED
    BY <1>0, <2>3, <2>4
<1>4. ASSUME NEW q, store' = [s EXCEPT !.requests = q] PROVE FALSE
  BY <1>0, <1>4 DEF WellTyped
<1>5. ASSUME NEW r \in RequestIds, Prove(r) \/ Cancel(r) \/ Deny(r) PROVE FALSE
  <2>1. PICK st : store' = [s EXCEPT !.requests[r].state = st]
    BY <1>5 DEF Prove, Cancel, Deny, Commit, s
  <2>2. \E q : store' = [s EXCEPT !.requests = q]
    BY <2>1
  <2> QED
    BY <1>4, <2>2
<1>6. ASSUME NEW r \in RequestIds, Initiate(r) \/ Approve(r) \/ Fail(r) PROVE FALSE
  <2>1. PICK row : store' = [s EXCEPT !.requests[r] = row]
    BY <1>6 DEF Initiate, Approve, Fail, Commit, s
  <2>2. \E q : store' = [s EXCEPT !.requests = q]
    BY <2>1
  <2> QED
    BY <1>4, <2>2
<1>7. ASSUME NEW r \in RequestIds, NEW new \in Credentials, Redeem(r, new)
      PROVE  new = x
  BY <1>0, <1>7, RedeemFacts DEF s
<1> QED
  BY <1>1, <1>2, <1>3, <1>5, <1>6, <1>7 DEF EnrollmentStep

\* What the sweep leaves usable was usable.
LEMMA SweepUsable ==
  ASSUME TypeOK, OpInv(store), NEW c, Current(Swept(store), c, now)
  PROVE  /\ c \in DOMAIN store.records /\ Usable(store, c, now)
         /\ store.records[c].subject = Swept(store).records[c].subject
<1>1. WellTyped(store) /\ c \in DOMAIN Swept(store).records /\ Usable(Swept(store), c, now)
  BY DEF TypeOK, Current
<1>2. c \in DOMAIN store.records
  BY <1>1, SweptFacts
<1>3. Usable(store, c, now)
  <2> SUFFICES ASSUME ~Usable(store, c, now) PROVE FALSE
    OBVIOUS
  <2>1. Dead(Swept(store), c)
    BY <1>2, SweepBuries
  <2> QED
    BY <1>1, <2>1, DeadUnusable
<1>4. CredsLast(store, Swept(store))
  BY <1>1, SweptLasts
<1> QED
  BY <1>2, <1>3, <1>4, Zenon DEF CredsLast

LEMMA DeliverHands ==
  ASSUME TypeOK, OpInv(store), NEW c \in Credentials, NEW o \in OpIds, NEW x \in Credentials, Deliver(c, o, x)
  PROVE  HandedOver(x)
<1> DEFINE s == Swept(store)
           row == [s.ops[o] EXCEPT !.state = "delivered", !.cred = x,
                       !.overlap = Min2(now + OVERLAP_SECONDS, s.ops[o].expires)]
           recs == Put(s.records, x, [subject |-> s.records[c].subject, enabled |-> TRUE])
<1>0. WellTyped(store) /\ WellTyped(s) /\ now \in Nat /\ s.ops = SweptOps(store)
  BY SweptFacts DEF TypeOK
<1>1. /\ o \in DOMAIN s.ops /\ s.ops[o].subject = s.records[c].subject /\ Current(s, c, now)
      /\ s.ops[o].state = "pending" /\ s.ops[o].action = "rotate"
      /\ store' = [s EXCEPT !.records = recs, !.ops[o] = row]
  BY DEF Deliver, Presents, Commit
<1>2. o \in DOMAIN store.ops /\ s.ops[o] = SweptRow(store, store.ops[o])
  BY <1>0, <1>1, SweptOpsFacts
<1>3. /\ c \in DOMAIN store.records /\ Usable(store, c, now)
      /\ store.records[c].subject = s.records[c].subject
  BY <1>1, SweepUsable
<1> DEFINE p == store.ops[o]
<1>4. p \in Operation /\ s.ops[o] = p /\ ~Due(store, p)
  <2>1. p \in Operation
    BY <1>0, <1>2 DEF WellTyped
  <2>2. SweptRow(store, p).state = "pending"
    BY <1>1, <1>2
  <2> HIDE DEF p
  <2>3. SweptRow(store, p) = p /\ ~Due(store, p)
    BY <2>1, <2>2 DEF SweptRow, Operation
  <2> QED
    BY <1>2, <2>1, <2>3 DEF p
<1>5. s.ops[o] \in Operation
  BY <1>4
<1>6. /\ store'.ops[o] = row /\ store'.records = recs
  <2> HIDE DEF s, row, recs
  <2> QED
    BY <1>0, <1>1 DEF WellTyped
<1>7. /\ row.state = "delivered" /\ row.cred = x /\ recs[x].subject = s.records[c].subject
  BY <1>5 DEF Operation, Put
<1> HIDE DEF s, row, recs
<1>8. p.state = "pending" /\ p.action = "rotate" /\ p.subject = store.records[c].subject
  BY <1>1, <1>3, <1>4
<1> HIDE DEF p
<1>9. ~Foreign(p) /\ now < p.expires
  <2>1. ~Foreign(p) /\ ~(Min2(p.expires, IF p.overlap = 0 THEN p.expires ELSE p.overlap) <= now)
    BY <1>4, <1>8 DEF Due, Foreign, OpTerminal
  <2>2. p.expires \in Nat /\ p.overlap \in Nat
    BY <1>4 DEF Operation
  <2> QED
    BY <1>0, <2>1, <2>2 DEF Min2
<1>10. store'.ops[o].state = "delivered" /\ store'.ops[o].cred = x /\ store'.records[x].subject = p.subject
  BY <1>3, <1>6, <1>7, <1>8
<1> QED
  BY <1>2, <1>3, <1>8, <1>9, <1>10 DEF HandedOver, p

LEMMA RedeemPairs ==
  ASSUME TypeOK, OpInv(store), Decided(store), NEW r \in RequestIds, NEW x \in Credentials, Redeem(r, x)
  PROVE  Paired(x)
<1> DEFINE s == Swept(store)
           R == {y \in DOMAIN s.requests : /\ s.requests[y].expires > now
                                           /\ AuthorityLost(s, s.requests[y], server.origin)}
           row == store.requests[r]
<1>0. /\ WellTyped(store) /\ WellTyped(s) /\ s.owner = store.owner
      /\ DOMAIN s.records = DOMAIN store.records
      /\ RowsEnd(store, s) /\ Opened = MarkStale(s, R) /\ RowsEnd(s, Opened)
  BY SweptFacts, SweptLasts, MarkStaleLasts DEF TypeOK, Opened, Refreshed
<1>1. /\ r \in DOMAIN Opened.requests /\ Live(Opened, r) /\ Opened.requests[r].state = "approved"
      /\ store'.requests = [Opened.requests EXCEPT ![r] = [Opened.requests[r] EXCEPT !.state = "consumed"]]
      /\ store'.records[x].subject = Opened.requests[r].device
  BY RedeemFacts
<1>2. Opened.requests[r].expires > now
  BY <1>1 DEF Live
<1>3. /\ r \in DOMAIN s.requests /\ s.requests[r].state = "approved"
      /\ Opened.requests[r].device = s.requests[r].device
      /\ s.requests[r].expires > now
  BY <1>0, <1>1, <1>2 DEF RowsEnd
<1>4. /\ r \in DOMAIN store.requests /\ row.state = "approved" /\ row.expires > now
      /\ s.requests[r].device = row.device /\ s.requests[r].gen = row.gen
      /\ s.requests[r].origin = row.origin
      /\ s.requests[r].initiator = row.initiator /\ s.requests[r].approver = row.approver
  BY <1>0, <1>3 DEF RowsEnd
<1>5. r \notin R
  <2> SUFFICES ASSUME r \in R PROVE FALSE
    OBVIOUS
  <2>1. s.requests[r] \in EnrollmentRow
    BY <1>0, <1>3 DEF WellTyped
  <2>2. [s.requests[r] EXCEPT !.state = "stale"].state = "stale"
    BY <2>1 DEF EnrollmentRow
  <2>3. MarkStale(s, R).requests[r] = [s.requests[r] EXCEPT !.state = "stale"]
    <3> HIDE DEF R, s
    <3> QED
      BY <1>0, <1>3 DEF MarkStale, WellTyped, RequestTerminal
  <2> HIDE DEF R, s
  <2> QED
    BY <1>0, <1>1, <2>2, <2>3
<1>6. ~AuthorityLost(s, s.requests[r], server.origin)
  BY <1>3, <1>5
<1> HIDE DEF R
<1>7. /\ ~Foreign(row)
      /\ \A a \in {row.initiator, row.approver} : a = NoActor \/ ActorCurrent(s, a, now)
  <2> HIDE DEF s, row
  <2> QED
    BY <1>0, <1>4, <1>6 DEF AuthorityLost, Foreign
<1>8. Chosen(store, row, row.initiator) /\ Chosen(store, row, row.approver)
  <2>1. RowDecided(store, row)
    BY <1>4 DEF Decided
  <2> QED
    BY <1>4, <2>1 DEF RowDecided
<1>9. ASSUME NEW a, Chosen(store, row, a), a = NoActor \/ ActorCurrent(s, a, now)
      PROVE  ActorCurrent(store, a, now)
  <2>1. a # NoActor
    <3>1. DOMAIN store.records \subseteq Credentials
      BY <1>0 DEF WellTyped
    <3> QED
      BY <1>9, <3>1, IdsDisjoint DEF Chosen, NoActor
  <2>2. ActorCurrent(s, a, now)
    BY <1>9, <2>1
  <2>3. CASE a.cred = OwnerCred
    BY <1>0, <2>2, <2>3 DEF ActorCurrent
  <2>4. CASE a.cred # OwnerCred
    <3>1. Current(Swept(store), a.cred, now)
      BY <2>2, <2>4 DEF ActorCurrent
    <3>2. a.cred \in DOMAIN store.records /\ Usable(store, a.cred, now)
      BY <3>1, SweepUsable
    <3> QED
      BY <2>4, <3>2 DEF ActorCurrent, Current
  <2> QED
    BY <2>3, <2>4
<1>10. store'.requests[r].state = "consumed"
  <2>1. Opened.requests[r] \in EnrollmentRow
    BY <1>1, OpenedFacts DEF WellTyped
  <2> QED
    BY <1>1, <2>1 DEF EnrollmentRow
<1>11. store'.records[x].subject = row.device
  BY <1>1, <1>3, <1>4
<1>12. \A a \in {row.initiator, row.approver} : Chosen(store, row, a) /\ ActorCurrent(store, a, now)
  BY <1>7, <1>8, <1>9
<1>13. now < row.expires
  BY <1>4
<1> HIDE DEF s
<1> QED
  BY <1>4, <1>7, <1>10, <1>11, <1>12, <1>13 DEF Paired

\* No credential appears out of nothing: a new one was collected by the holder of a usable
\* credential of the same subject, for a rotation under way under the present owner and origin
\* (Lifecycle.execute, deliver), or redeemed for an approved request whose initiator and approver
\* were controllers of it and are still current (Enrollment._redeem, _controller, _actor_current).
THEOREM GrantsAreBacked == Spec => GrantsNeedAuthority
<1>1. ASSUME ProvInv, OpInv(store), Decided(store), [Next]_vars,
             NEW c \in DOMAIN store'.records \ DOMAIN store.records
      PROVE  HandedOver(c) \/ Paired(c)
  <2>0. TypeOK /\ WellTyped(store)
    BY <1>1 DEF ProvInv, TypeOK
  <2>1. CASE LifecycleStep
    BY <1>1, <2>0, <2>1, LifecycleGrants, DeliverHands
  <2>2. CASE EnrollmentStep
    <3>1. PICK r \in RequestIds, new \in Credentials : Redeem(r, new) /\ new = c
      BY <1>1, <2>0, <2>2, EnrollmentGrants
    <3> QED
      BY <1>1, <2>0, <3>1, RedeemPairs
  <2>3. CASE (\E active \in BOOLEAN : OwnerReplaced(active)) \/ OwnerAcknowledged
    <3>1. store'.records = store.records
      BY <2>0, <2>3 DEF OwnerReplaced, OwnerAcknowledged, WellTyped
    <3> QED
      BY <1>1, <3>1
  <2>4. ASSUME NEW cfg \in [origin : Origins, idlen : Lengths], Restart(cfg)
        PROVE  store'.records = store.records
    <3> DEFINE f == Refreshed(store, cfg.origin)
    <3>1. WellTyped(f) /\ f.records = store.records
      BY <2>0, MarkStaleType DEF Refreshed
    <3>2. PICK b : store' = [f EXCEPT !.bindings = b]
      BY <2>4 DEF Restart, Rebound
    <3> HIDE DEF f
    <3> QED
      BY <3>1, <3>2 DEF WellTyped
  <2>5. CASE Tick \/ UNCHANGED vars
    BY <1>1, <2>5 DEF Tick, vars
  <2> QED
    BY <1>1, <2>1, <2>2, <2>3, <2>4, <2>5 DEF Next
<1>2. ProvInv /\ OpInv(store) /\ Decided(store) /\ [Next]_vars
      => [Backed]_vars
  BY <1>1 DEF Backed
<1> QED
  BY <1>2, ReloadsAlways, OpAlways, DecidedAlways, PTL DEF Spec, GrantsNeedAuthority

-----------------------------------------------------------------------------
(* A revoke or a recovery is total. *)

LEMMA MarkStaleOpen ==
  ASSUME NEW s, WellTyped(s), NEW R, NEW r \in OpenRequests(MarkStale(s, R))
  PROVE  /\ r \in DOMAIN s.requests /\ r \notin R
         /\ MarkStale(s, R).requests[r] = s.requests[r] /\ r \in OpenRequests(s)
<1> DEFINE row == IF r \in R /\ s.requests[r].state \notin RequestTerminal
                  THEN [s.requests[r] EXCEPT !.state = "stale"] ELSE s.requests[r]
<1>1. r \in DOMAIN MarkStale(s, R).requests
      /\ MarkStale(s, R).requests[r].state \notin RequestTerminal
  BY DEF OpenRequests
<1>2. r \in DOMAIN s.requests
  BY <1>1, MarkStaleType
<1>3. MarkStale(s, R).requests[r] = row
  BY <1>2 DEF MarkStale, WellTyped
<1>4. s.requests[r] \in EnrollmentRow
  BY <1>2 DEF WellTyped
<1>5. [s.requests[r] EXCEPT !.state = "stale"].state \in RequestTerminal
  BY <1>4 DEF EnrollmentRow, RequestTerminal
<1>6. ~(r \in R /\ s.requests[r].state \notin RequestTerminal)
  BY <1>1, <1>3, <1>5
<1>7. row = s.requests[r]
  BY <1>6
<1> HIDE DEF row
<1> QED
  BY <1>1, <1>2, <1>3, <1>6, <1>7 DEF OpenRequests

\* No open request survives that is for the subject or was decided by its credentials.
LEMMA WithdrawnRequests ==
  ASSUME NEW s, WellTyped(s), NEW subject, NEW r \in OpenRequests(Withdrawn(s, subject))
  PROVE  /\ Withdrawn(s, subject).requests[r].device # subject
         /\ ~DecidedBy(Withdrawn(s, subject).requests[r], Matching(s, subject))
<1> DEFINE ids == Matching(s, subject)
           a == Retire(s, ids)
           D == {x \in DOMAIN a.requests : DecidedBy(a.requests[x], ids)}
           b == MarkStale(a, D)
           T == {x \in DOMAIN s.requests : s.requests[x].device = subject}
           c == MarkStale(b, T)
           ops == [o \in DOMAIN c.ops |-> IF o \in ActiveOps(c, subject)
                                          THEN [c.ops[o] EXCEPT !.state = "revoked"]
                                          ELSE c.ops[o]]
           rec == Keep(c.recovery, DOMAIN c.recovery \ {subject})
           w == [c EXCEPT !.ops = ops, !.recovery = rec]
<1>1. Withdrawn(s, subject) = w
  BY DEF Withdrawn, InvalidateApprovals
<1>2. WellTyped(a) /\ a.requests = s.requests
  BY RetireType
<1> HIDE DEF ids, a
<1>3. WellTyped(b)
  BY <1>2, MarkStaleType
<1>4. WellTyped(c)
  BY <1>3, MarkStaleType
<1> HIDE DEF ops, rec
<1>5. w.requests = c.requests
  BY <1>4 DEF WellTyped
<1>6. r \in OpenRequests(c)
  BY <1>1, <1>5 DEF OpenRequests
<1> HIDE DEF w
<1>7. r \in DOMAIN b.requests /\ r \notin T /\ c.requests[r] = b.requests[r] /\ r \in OpenRequests(b)
  BY <1>3, <1>6, MarkStaleOpen
<1>8. r \in DOMAIN a.requests /\ r \notin D /\ b.requests[r] = a.requests[r]
  BY <1>2, <1>7, MarkStaleOpen
<1>9. w.requests[r] = s.requests[r]
  BY <1>2, <1>5, <1>7, <1>8
<1>10. s.requests[r].device # subject /\ ~DecidedBy(s.requests[r], ids)
  BY <1>2, <1>7, <1>8
<1> QED
  BY <1>1, <1>9, <1>10 DEF ids

\* Retiring credentials leaves them with their subject.
LEMMA WithdrawnSubjects ==
  ASSUME NEW s, WellTyped(s), NEW subject
  PROVE  Matching(Withdrawn(s, subject), subject) = Matching(s, subject)
<1> DEFINE ids == Matching(s, subject)
           recs == [c \in DOMAIN s.records |->
                       IF c \in ids THEN [s.records[c] EXCEPT !.enabled = FALSE] ELSE s.records[c]]
<1>1. \A c \in DOMAIN s.records : recs[c].subject = s.records[c].subject
  BY DEF WellTyped, Record
<1>2. Withdrawn(s, subject).records = recs
  BY DEF Withdrawn, InvalidateApprovals, MarkStale, Retire, WellTyped
<1>3. DOMAIN recs = DOMAIN s.records
  OBVIOUS
<1> HIDE DEF recs
<1> QED
  BY <1>1, <1>2, <1>3 DEF Matching

\* The subject has no way in but operation o.
NoWayIn(w, subject, o, t) ==
    /\ \A c \in Matching(w, subject) : ~Usable(w, c, t)
    /\ ActiveOps(w, subject) \subseteq {o}
    /\ \A r \in OpenRequests(w) : /\ w.requests[r].device # subject
                                  /\ ~DecidedBy(w.requests[r], Matching(w, subject))

\* The snapshot a revoke or a recovery leaves.
LEMMA WithdrawnTotal ==
  ASSUME NEW s, WellTyped(s), OpInv(s), NEW subject, NEW o, NEW row, NEW w,
         w.ops = Put(Withdrawn(s, subject).ops, o, row),
         w.records = Withdrawn(s, subject).records, w.blocked = Withdrawn(s, subject).blocked,
         w.requests = Withdrawn(s, subject).requests, NEW t
  PROVE  NoWayIn(w, subject, o, t)
<1> DEFINE v == Withdrawn(s, subject)
<1>1. ActiveOps(v, subject) = {}
  BY WithdrawnOpInv
<1>2. v.blocked = s.blocked \cup Matching(s, subject)
  BY WithdrawnFacts, ZenonT(30)
<1>3. Matching(v, subject) = Matching(s, subject)
  BY WithdrawnSubjects
<1>4. Matching(w, subject) = Matching(v, subject) /\ OpenRequests(w) = OpenRequests(v)
  BY DEF Matching, OpenRequests
<1>5. \A r \in OpenRequests(v) : /\ v.requests[r].device # subject
                                 /\ ~DecidedBy(v.requests[r], Matching(s, subject))
  BY WithdrawnRequests
<1>6. w.ops = Put(v.ops, o, row) /\ w.blocked = v.blocked /\ w.requests = v.requests
  OBVIOUS
<1> HIDE DEF v
<1>7. \A c \in Matching(w, subject) : ~Usable(w, c, t)
  BY <1>2, <1>3, <1>4, <1>6 DEF Usable
<1>8. ActiveOps(w, subject) \subseteq {o}
  BY <1>1, <1>6 DEF ActiveOps, Unfinished, Put
<1> QED
  BY <1>3, <1>4, <1>5, <1>6, <1>7, <1>8 DEF NoWayIn

\* What RevokeIsTotal says of one new operation, over explicit snapshots.
Total(w, o, t) ==
    w.ops[o].action \in {"revoke", "recover"} => NoWayIn(w, w.ops[o].subject, o, t)

LEMMA LifecycleTotal ==
  ASSUME TypeOK, OpInv(store), LifecycleStep, NEW o \in DOMAIN store'.ops \ DOMAIN store.ops
  PROVE  Total(store', o, now')
<1> DEFINE s == Swept(store)
<1>0. WellTyped(s) /\ OpInv(s) /\ DOMAIN s.ops = DOMAIN store.ops
  BY SweptFacts, SweptOpInv DEF TypeOK, SweptOps
<1>1. CASE Maintain
  BY <1>0, <1>1 DEF Maintain
<1> HIDE DEF s
<1>2. ASSUME NEW p \in OpIds, NEW subject \in Subjects, Rotate(p, subject)
      PROVE  Total(store', o, now')
  <2> DEFINE row == NewOperation(s, subject, "rotate", "queued", now + QUEUE_SECONDS)
  <2>1. store' = [s EXCEPT !.ops = Put(s.ops, p, row)] /\ row.action = "rotate"
    BY <1>2 DEF Rotate, Commit, s, NewOperation
  <2> HIDE DEF row
  <2>2. store'.ops = Put(s.ops, p, row)
    BY <1>0, <2>1 DEF WellTyped
  <2>3. store'.ops[o].action = "rotate"
    BY <1>0, <2>1, <2>2 DEF Put
  <2> QED
    BY <2>3 DEF Total
<1>3. ASSUME NEW p \in OpIds, NEW subject \in Subjects, Revoke(p, subject) \/ Recover(p, subject)
      PROVE  Total(store', o, now')
  <2> DEFINE w == Withdrawn(s, subject)
  <2>1. \/ \E row : /\ store' = [w EXCEPT !.ops = Put(w.ops, p, row)]
                    /\ row.subject = subject
        \/ \E row, rec : /\ store' = [w EXCEPT !.ops = Put(w.ops, p, row), !.recovery = rec]
                         /\ row.subject = subject
    <3>1. NewOperation(s, subject, "revoke", "revoked", now + QUEUE_SECONDS).subject = subject
      BY DEF NewOperation
    <3>2. NewOperation(s, subject, "recover", "queued", now + OVERLAP_SECONDS).subject = subject
      BY DEF NewOperation
    <3>3. CASE Revoke(p, subject)
      BY <3>1, <3>3, Zenon DEF Revoke, RevokeResult, Commit, s
    <3>4. CASE Recover(p, subject)
      BY <3>2, <3>4, Zenon DEF Recover, Commit, s
    <3> QED
      BY <1>3, <3>3, <3>4
  <2>2. WellTyped(w) /\ DOMAIN w.ops = DOMAIN s.ops
    BY <1>0, WithdrawnFacts
  <2> HIDE DEF w
  <2>3. PICK row : /\ store'.ops = Put(w.ops, p, row) /\ store'.records = w.records
                   /\ store'.blocked = w.blocked /\ store'.requests = w.requests
                   /\ row.subject = subject
    <3>1. ASSUME NEW row, store' = [w EXCEPT !.ops = Put(w.ops, p, row)]
          PROVE  /\ store'.ops = Put(w.ops, p, row) /\ store'.records = w.records
                 /\ store'.blocked = w.blocked /\ store'.requests = w.requests
      BY <2>2, <3>1 DEF WellTyped
    <3>2. ASSUME NEW row, NEW rec, store' = [w EXCEPT !.ops = Put(w.ops, p, row), !.recovery = rec]
          PROVE  /\ store'.ops = Put(w.ops, p, row) /\ store'.records = w.records
                 /\ store'.blocked = w.blocked /\ store'.requests = w.requests
      BY <2>2, <3>2 DEF WellTyped
    <3> QED
      BY <2>1, <3>1, <3>2
  <2>4. o = p /\ store'.ops[o] = row
    BY <1>0, <2>2, <2>3 DEF Put
  <2>5. NoWayIn(store', subject, p, now')
    <3>1. /\ store'.ops = Put(Withdrawn(s, subject).ops, p, row)
          /\ store'.records = Withdrawn(s, subject).records
          /\ store'.blocked = Withdrawn(s, subject).blocked
          /\ store'.requests = Withdrawn(s, subject).requests
      BY <2>3 DEF w
    <3> QED
      BY <1>0, <3>1, WithdrawnTotal
  <2> QED
    BY <2>3, <2>4, <2>5 DEF Total
\* The holder's calls add no operation.
<1>4. ASSUME NEW c \in Credentials, NEW p \in OpIds, Poll(c, p)
      PROVE  DOMAIN store'.ops = DOMAIN s.ops
  <2> DEFINE row == [s.ops[p] EXCEPT !.state = "pending"]
  <2>1. store' = [s EXCEPT !.ops[p] = row]
    BY <1>4 DEF Poll, Commit, s
  <2> HIDE DEF row
  <2> QED
    BY <1>0, <2>1 DEF WellTyped
<1>5. ASSUME NEW c \in Credentials, NEW p \in OpIds, NEW new \in Credentials, Deliver(c, p, new)
      PROVE  DOMAIN store'.ops = DOMAIN s.ops
  <2>1. PICK recs, row : store' = [s EXCEPT !.records = recs, !.ops[p] = row]
    BY <1>5 DEF Deliver, Commit, s
  <2> QED
    BY <1>0, <2>1 DEF WellTyped
<1>6. ASSUME NEW c \in Credentials, NEW p \in OpIds, Ack(c, p)
      PROVE  DOMAIN store'.ops = DOMAIN s.ops
  <2> DEFINE a == Retire(s, s.ops[p].old)
             row == [s.ops[p] EXCEPT !.state = "acknowledged"]
             b == [a EXCEPT !.ops[p] = row]
  <2>0. a.ops = s.ops /\ WellTyped(a)
    BY <1>0, RetireType
  <2>1. p \in DOMAIN s.ops /\ store' = InvalidateApprovals(b, s.ops[p].old)
    <3>1. p \in DOMAIN s.ops /\ store' = AckResult(s, p)
      BY <1>6 DEF Ack, Presents, Commit, s
    <3>2. [a EXCEPT !.ops[p].state = "acknowledged"] = b
      BY <2>0
    <3> QED
      BY <3>1, <3>2 DEF AckResult
  <2>2. row \in Operation
    <3>1. s.ops[p] \in Operation
      BY <1>0, <2>1 DEF WellTyped
    <3> QED
      BY <3>1 DEF Operation, OpStates
  <2> HIDE DEF a, row
  <2>3. WellTyped(b) /\ b.ops = [a.ops EXCEPT ![p] = row]
    <3>1. WellTyped(b)
      BY <2>0, <2>1, <2>2, SetOperationType
    <3> QED
      BY <2>0, <3>1 DEF WellTyped
  <2> HIDE DEF b
  <2>4. store'.ops = b.ops
    BY <2>1, <2>3, InvalidateType
  <2> QED
    BY <2>0, <2>3, <2>4
<1> QED
  BY <1>0, <1>1, <1>2, <1>3, <1>4, <1>5, <1>6 DEF LifecycleStep

LEMMA ReopenedDomain ==
  ASSUME NEW s, WellTyped(s), NEW device
  PROVE  DOMAIN Reopened(s, device).ops = DOMAIN s.ops
<1> DEFINE o == s.recovery[device]
           row == [s.ops[o] EXCEPT !.state = "pending"]
           w == [s EXCEPT !.ops[o] = row]
<1>1. Reopened(s, device) = IF device \in DOMAIN s.recovery THEN w ELSE s
  BY DEF Reopened
<1> HIDE DEF o, row
<1>2. w.ops = [s.ops EXCEPT ![o] = row]
  BY DEF WellTyped
<1> HIDE DEF w
<1> QED
  BY <1>1, <1>2

LEMMA RecoveredDomain ==
  ASSUME NEW s, WellTyped(s), NEW device, NEW new
  PROVE  DOMAIN Recovered(s, device, new).ops = DOMAIN s.ops
<1> DEFINE o == s.recovery[device]
           row == [s.ops[o] EXCEPT !.state = "delivered", !.cred = new, !.overlap = s.ops[o].expires]
           w == [s EXCEPT !.ops[o] = row]
<1>1. Recovered(s, device, new) = IF device \in DOMAIN s.recovery THEN w ELSE s
  BY DEF Recovered
<1> HIDE DEF o, row
<1>2. w.ops = [s.ops EXCEPT ![o] = row]
  BY DEF WellTyped
<1> HIDE DEF w
<1> QED
  BY <1>1, <1>2

LEMMA EnrollmentAddsNone ==
  ASSUME TypeOK, EnrollmentStep
  PROVE  DOMAIN store'.ops = DOMAIN store.ops
<1> DEFINE s == Opened
<1>0. WellTyped(s) /\ DOMAIN s.ops = DOMAIN store.ops
  BY OpenedFacts, SweptFacts DEF TypeOK, SweptOps
<1>1. CASE Examine
  BY <1>0, <1>1 DEF Examine
<1>2. CASE Charge
  BY <1>2, MarkStaleType DEF Charge, Refreshed, TypeOK
<1> HIDE DEF s
<1>3. ASSUME NEW key \in Keys, NEW r \in RequestIds, Request(key, r)
      PROVE  DOMAIN store'.ops = DOMAIN s.ops
  <2> DEFINE w == Reopened(s, DeviceId(s, key))
  <2>1. PICK q : /\ store' = [w EXCEPT !.requests = q]
                 /\ Committable(Swept(store))
    BY <1>3 DEF Request, Commit, s
  <2>2. LivePointers(s)
    BY <2>1, OpenedLive DEF s
  <2>3. DOMAIN w.ops = DOMAIN s.ops /\ WellTyped(w)
    BY <1>0, <2>2, ReopenedDomain, ReopenedType DEF LivePointers
  <2> HIDE DEF w
  <2> QED
    BY <2>1, <2>3 DEF WellTyped
<1>4. ASSUME NEW q, store' = [s EXCEPT !.requests = q]
      PROVE  DOMAIN store'.ops = DOMAIN s.ops
  BY <1>0, <1>4 DEF WellTyped
<1>5. ASSUME NEW r \in RequestIds, Prove(r) \/ Cancel(r) \/ Deny(r)
      PROVE  DOMAIN store'.ops = DOMAIN s.ops
  <2>1. PICK st : store' = [s EXCEPT !.requests[r].state = st]
    BY <1>5 DEF Prove, Cancel, Deny, Commit, s
  <2>2. \E q : store' = [s EXCEPT !.requests = q]
    BY <2>1
  <2> QED
    BY <1>4, <2>2
<1>6. ASSUME NEW r \in RequestIds, Initiate(r) \/ Approve(r) \/ Fail(r)
      PROVE  DOMAIN store'.ops = DOMAIN s.ops
  <2>1. PICK row : store' = [s EXCEPT !.requests[r] = row]
    BY <1>6 DEF Initiate, Approve, Fail, Commit, s
  <2>2. \E q : store' = [s EXCEPT !.requests = q]
    BY <2>1
  <2> QED
    BY <1>4, <2>2
<1>7. ASSUME NEW r \in RequestIds, NEW new \in Credentials, Redeem(r, new)
      PROVE  DOMAIN store'.ops = DOMAIN s.ops
  <2> DEFINE device == s.requests[r].device
             i == Issued(s, device, new)
             w == Recovered(i, device, new)
             b == Put(s.bindings, device, s.requests[r].key)
  <2>1. store' = [w EXCEPT !.bindings = b, !.requests[r].state = "consumed"]
    BY <1>7, Zenon DEF Redeem, Commit, s
  <2>2. Committable(Swept(store)) /\ r \in DOMAIN s.requests
    BY <1>7 DEF Redeem, Addressed, Live, s
  <2>3. LivePointers(s) /\ device \in Devices
    <3>1. LivePointers(s)
      BY <2>2, OpenedLive DEF s
    <3> QED
      BY <1>0, <2>2, <3>1 DEF WellTyped, EnrollmentRow
  <2> HIDE DEF device, b
  <2>4. WellTyped(i) /\ i.ops = s.ops /\ i.recovery = s.recovery
    BY <1>0, <2>3, IssuedType
  <2>5. LivePointers(i)
    BY <2>3, <2>4 DEF LivePointers
  <2> HIDE DEF i
  <2>6. DOMAIN w.ops = DOMAIN i.ops /\ WellTyped(w)
    BY <2>4, <2>5, RecoveredDomain, RecoveredType DEF LivePointers
  <2> HIDE DEF w
  <2>7. store'.ops = w.ops
    BY <2>1, <2>6 DEF WellTyped
  <2> QED
    BY <2>4, <2>6, <2>7
<1> QED
  BY <1>0, <1>1, <1>2, <1>3, <1>5, <1>6, <1>7 DEF EnrollmentStep

\* After a revoke or a recovery nothing of the subject's access is left, whatever was under way:
\* other operations, pending replacements, requests it opened or decided (Lifecycle._control).
THEOREM RevokeEndsAccess == Spec => RevokeIsTotal
<1>1. ASSUME ProvInv, OpInv(store), [Next]_vars, NEW o \in DOMAIN store'.ops \ DOMAIN store.ops
      PROVE  Total(store', o, now')
  <2>0. TypeOK /\ WellTyped(store)
    BY <1>1 DEF ProvInv, TypeOK
  <2>1. CASE LifecycleStep
    BY <1>1, <2>0, <2>1, LifecycleTotal
  <2>2. CASE EnrollmentStep
    BY <1>1, <2>0, <2>2, EnrollmentAddsNone
  <2>3. CASE (\E active \in BOOLEAN : OwnerReplaced(active)) \/ OwnerAcknowledged
    <3>1. store'.ops = store.ops
      BY <2>0, <2>3 DEF OwnerReplaced, OwnerAcknowledged, WellTyped
    <3> QED
      BY <1>1, <3>1
  <2>4. ASSUME NEW cfg \in [origin : Origins, idlen : Lengths], Restart(cfg)
        PROVE  FALSE
    <3> DEFINE f == Refreshed(store, cfg.origin)
    <3>1. WellTyped(f) /\ f.ops = store.ops
      BY <2>0, MarkStaleType DEF Refreshed
    <3>2. PICK b : store' = [f EXCEPT !.bindings = b]
      BY <2>4 DEF Restart, Rebound
    <3> HIDE DEF f
    <3>3. store'.ops = f.ops
      BY <3>1, <3>2 DEF WellTyped
    <3> QED
      BY <1>1, <3>1, <3>3
  <2>5. CASE Tick \/ UNCHANGED vars
    BY <1>1, <2>5 DEF Tick, vars
  <2> QED
    BY <1>1, <2>1, <2>2, <2>3, <2>4, <2>5 DEF Next
<1>2. ProvInv /\ OpInv(store) /\ [Next]_vars
      => [\A o \in DOMAIN store'.ops \ DOMAIN store.ops :
            store'.ops[o].action \in {"revoke", "recover"} =>
               LET subject == store'.ops[o].subject
                   ids == Matching(store', subject)
               IN  /\ \A c \in ids : ~Usable(store', c, now')
                   /\ ActiveOps(store', subject) \subseteq {o}
                   /\ \A r \in OpenRequests(store') :
                         /\ store'.requests[r].device # subject
                         /\ ~DecidedBy(store'.requests[r], ids)]_vars
  BY <1>1 DEF Total, NoWayIn
<1> QED
  BY <1>2, ReloadsAlways, OpAlways, PTL DEF Spec, RevokeIsTotal

-----------------------------------------------------------------------------
(***************************************************************************)
(* The owner as provisioning sees it.  Every handler commits a whole       *)
(* snapshot, the owner's namespace included; none of them moves it.        *)
(***************************************************************************)
Authority == INSTANCE OwnerAuthority WITH active <- store.owner.active, generation <- store.owner.gen

OwnerIsAuthority == [][Authority!Next]_<<store.owner.active, store.owner.gen>>

LEMMA LifecycleOwner ==
  ASSUME TypeOK, LifecycleStep
  PROVE  store'.owner = store.owner
<1> DEFINE s == Swept(store)
<1>0. WellTyped(s) /\ s.owner = store.owner
  BY SweptFacts DEF TypeOK
<1>1. ASSUME NEW subject
      PROVE  WellTyped(Withdrawn(s, subject)) /\ Withdrawn(s, subject).owner = store.owner
  BY <1>0, <1>1, WithdrawnFacts
<1>2. CASE Maintain
  BY <1>0, <1>2 DEF Maintain
<1> HIDE DEF s
<1>3. ASSUME NEW o \in OpIds, NEW subject \in Subjects, Rotate(o, subject)
      PROVE  store'.owner = store.owner
  BY <1>0, <1>3 DEF Rotate, Commit, s, WellTyped
<1>4. ASSUME NEW o \in OpIds, NEW subject \in Subjects, Revoke(o, subject)
      PROVE  store'.owner = store.owner
  BY <1>1, <1>4 DEF Revoke, RevokeResult, Commit, s, WellTyped
<1>5. ASSUME NEW o \in OpIds, NEW subject \in Subjects, Recover(o, subject)
      PROVE  store'.owner = store.owner
  BY <1>1, <1>5 DEF Recover, Commit, s, WellTyped
<1>6. ASSUME NEW c \in Credentials, NEW o \in OpIds, Poll(c, o)
      PROVE  store'.owner = store.owner
  BY <1>0, <1>6 DEF Poll, Commit, s, WellTyped
<1>7. ASSUME NEW c \in Credentials, NEW o \in OpIds, Ack(c, o)
      PROVE  store'.owner = store.owner
  <2> DEFINE a == Retire(s, s.ops[o].old)
             b == [a EXCEPT !.ops[o].state = "acknowledged"]
  <2>1. store' = InvalidateApprovals(b, s.ops[o].old)
    BY <1>7 DEF Ack, AckResult, Commit, s
  <2>2. WellTyped(a) /\ a.owner = s.owner
    BY <1>0, RetireType
  <2> HIDE DEF a
  <2>3. b.owner = a.owner /\ "owner" \in DOMAIN b
    BY <2>2 DEF WellTyped
  <2> HIDE DEF b
  <2> QED
    BY <1>0, <2>1, <2>2, <2>3 DEF InvalidateApprovals, MarkStale
<1>8. ASSUME NEW c \in Credentials, NEW new \in Credentials, NEW o \in OpIds, Deliver(c, o, new)
      PROVE  store'.owner = store.owner
  BY <1>0, <1>8 DEF Deliver, Commit, s, WellTyped
<1> QED
  BY <1>2, <1>3, <1>4, <1>5, <1>6, <1>7, <1>8 DEF LifecycleStep

LEMMA EnrollmentOwner ==
  ASSUME TypeOK, EnrollmentStep
  PROVE  store'.owner = store.owner
<1> DEFINE s == Opened
<1>0. WellTyped(s) /\ s.owner = store.owner
  BY OpenedFacts
<1>1. CASE Examine
  BY <1>0, <1>1 DEF Examine
<1>2. CASE Charge
  BY <1>2, MarkStaleType DEF Charge, Refreshed, TypeOK
<1> HIDE DEF s
<1>3. ASSUME NEW key \in Keys, NEW r \in RequestIds, Request(key, r)
      PROVE  store'.owner = store.owner
  <2>1. ASSUME NEW d PROVE Reopened(s, d).owner = s.owner /\ DOMAIN Reopened(s, d) = DOMAIN s
    BY <1>0 DEF Reopened, WellTyped
  <2>2. PICK d, q : store' = [Reopened(s, d) EXCEPT !.requests = q]
    BY <1>3 DEF Request, Commit, s
  <2>3. "owner" \in DOMAIN s
    BY <1>0 DEF WellTyped
  <2> QED
    BY <1>0, <2>1, <2>2, <2>3
<1>4. ASSUME NEW r \in RequestIds,
             Prove(r) \/ Initiate(r) \/ Approve(r) \/ Cancel(r) \/ Deny(r) \/ Fail(r)
      PROVE  store'.owner = store.owner
  <2>1. PICK row : store' = [s EXCEPT !.requests[r] = row]
    BY <1>4 DEF Prove, Initiate, Approve, Cancel, Deny, Fail, Commit, s
  <2> QED
    BY <1>0, <2>1 DEF WellTyped
<1>5. ASSUME NEW r \in RequestIds, NEW new \in Credentials, Redeem(r, new)
      PROVE  store'.owner = store.owner
  <2> DEFINE device == s.requests[r].device
             i == Issued(s, device, new)
             w == Recovered(i, device, new)
  <2>1. PICK b : store' = [w EXCEPT !.bindings = b, !.requests[r].state = "consumed"]
    BY <1>5 DEF Redeem, Commit, s
  <2>2. device \in Devices
    BY <1>0, <1>5 DEF Redeem, Addressed, Live, WellTyped, EnrollmentRow, s
  <2>3. WellTyped(i) /\ i.owner = s.owner
    BY <1>0, <2>2, IssuedType
  <2> HIDE DEF i
  <2>4. w.owner = i.owner /\ "owner" \in DOMAIN w
    BY <2>3 DEF Recovered, WellTyped
  <2> HIDE DEF w
  <2> QED
    BY <1>0, <2>1, <2>3, <2>4
<1> QED
  BY <1>1, <1>2, <1>3, <1>4, <1>5 DEF EnrollmentStep

\* The composition with the owner's protocol: whatever provisioning commits, with its sweeps,
\* withdrawals and restarts, the owner changes in the steps of OwnerAuthority only, which is what
\* OwnerAuth is shown to implement.  So no commit takes a generation back or revives a grant.
THEOREM OwnerStaysAuthority == Spec => OwnerIsAuthority
<1>1. ASSUME TypeOK, [Next]_vars, store'.owner # store.owner
      PROVE  Authority!Next
  <2>1. WellTyped(store) /\ store.owner \in [active : BOOLEAN, gen : Nat]
    BY <1>1 DEF TypeOK, WellTyped
  <2>2. ASSUME NEW active \in BOOLEAN, OwnerReplaced(active)
        PROVE  Authority!Replace
    <3>1. store'.owner = [active |-> active, gen |-> store.owner.gen + 1]
      BY <2>1, <2>2 DEF OwnerReplaced, WellTyped
    <3> QED
      BY <3>1 DEF Authority!Replace
  <2>3. CASE OwnerAcknowledged
    <3>1. store'.owner = [store.owner EXCEPT !.active = TRUE] /\ ~store.owner.active
      BY <2>1, <2>3 DEF OwnerAcknowledged, WellTyped
    <3>2. store'.owner.active = TRUE /\ store'.owner.gen = store.owner.gen
      BY <2>1, <3>1
    <3> QED
      BY <3>1, <3>2 DEF Authority!Next, Authority!Acknowledge
  <2>4. ASSUME NEW cfg \in [origin : Origins, idlen : Lengths], Restart(cfg)
        PROVE  store'.owner = store.owner
    <3> DEFINE f == Refreshed(store, cfg.origin)
    <3>1. WellTyped(f) /\ f.owner = store.owner
      BY <2>1, MarkStaleType DEF Refreshed
    <3>2. PICK b : store' = [f EXCEPT !.bindings = b]
      BY <2>4 DEF Restart, Rebound
    <3> HIDE DEF f
    <3> QED
      BY <3>1, <3>2 DEF WellTyped
  <2>5. CASE Tick \/ UNCHANGED vars
    BY <1>1, <2>5 DEF Tick, vars
  <2> QED
    BY <1>1, <2>2, <2>3, <2>4, <2>5, LifecycleOwner, EnrollmentOwner DEF Next, Authority!Next
<1>2. TypeOK /\ [Next]_vars => [Authority!Next]_<<store.owner.active, store.owner.gen>>
  <2> SUFFICES ASSUME TypeOK, [Next]_vars, store'.owner = store.owner
               PROVE  UNCHANGED <<store.owner.active, store.owner.gen>>
    BY <1>1
  <2> QED
    OBVIOUS
<1> QED
  BY <1>2, TypeCorrect, PTL DEF Spec, OwnerIsAuthority
=============================================================================
