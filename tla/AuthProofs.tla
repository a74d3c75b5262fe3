------------------------------ MODULE AuthProofs ------------------------------
(***************************************************************************)
(* The file protocol of auth/store.py, for any number of processes and     *)
(* updates, and the retained transports of auth/connections.py, for any    *)
(* number of transports, callers and close attempts.                       *)
(***************************************************************************)
EXTENDS CredentialStore, Connections, TLAPS

-----------------------------------------------------------------------------
\* The store implements the atomic store.  The refinement needs to know, at each place inside a
\* transaction, how memory, file and durable content relate: Inside below.

\* What holds for a process that is inside a transaction.
Inside(p) ==
    /\ pc[p] \in {"open", "writing"} => mem[p] = file
    /\ pc[p] \in {"open", "writing", "renamed", "routing", "failed"} => lock = p
    /\ pc[p] = "writing" => mem[p] \subseteq staged[p] /\ \E u \in Updates : staged[p] = mem[p] \cup {u}
    /\ pc[p] = "renamed" => file = staged[p] /\ mem[p] \subseteq file
    /\ pc[p] = "routing" => mem[p] = file
    /\ pc[p] = "failed" => mem[p] \in {file, {}}
    /\ pc[p] \in {"open", "writing", "renamed", "routing"} => mine[p] \subseteq durable

StoreInv ==
    /\ StoreTypeOK
    /\ \A p \in Procs : Inside(p)
    /\ promised \subseteq durable
    /\ durable \subseteq file

LEMMA StoreStarts == StoreInit => StoreInv
  BY ProcessNames DEF StoreInit, StoreInv, StoreTypeOK, Inside, Places

LEMMA StoreStep == StoreInv /\ [StoreNext]_storeVars => StoreInv'
<1> SUFFICES ASSUME StoreInv, [StoreNext]_storeVars PROVE StoreInv'
  OBVIOUS
<1> USE ProcessNames DEF StoreInv, StoreTypeOK, Inside, Places
<1>1. ASSUME NEW p \in Procs, Start(p) PROVE StoreInv'
  BY <1>1 DEF Start, LoadsOk
<1>2. ASSUME NEW p \in Procs, Begin(p) PROVE StoreInv'
  BY <1>2 DEF Begin, LoadsOk, Lockable
<1>3. ASSUME NEW p \in Procs, BeginFails(p) PROVE StoreInv'
  BY <1>3 DEF BeginFails
<1>4. ASSUME NEW p \in Procs, NEW u \in Updates, Stage(p, u) PROVE StoreInv'
  BY <1>4 DEF Stage
<1>5. ASSUME NEW p \in Procs, WriteFails(p) PROVE StoreInv'
  BY <1>5 DEF WriteFails, Loads
<1>6. ASSUME NEW p \in Procs, Rename(p) PROVE StoreInv'
  BY <1>6 DEF Rename
<1>7. ASSUME NEW p \in Procs, SyncFails(p) PROVE StoreInv'
  BY <1>7 DEF SyncFails, Loads
<1>8. ASSUME NEW p \in Procs, Sync(p) PROVE StoreInv'
  BY <1>8 DEF Sync
<1>9. ASSUME NEW p \in Procs, Routed(p) PROVE StoreInv'
  BY <1>9 DEF Routed
<1>10. ASSUME NEW p \in Procs, RoutingFails(p) PROVE StoreInv'
  BY <1>10 DEF RoutingFails, Loads
<1>11. ASSUME NEW p \in Procs, End(p) PROVE StoreInv'
  BY <1>11 DEF End
<1>12. ASSUME NEW p \in Procs, Raise(p) PROVE StoreInv'
  BY <1>12 DEF Raise
<1>13. ASSUME NEW p \in Procs, Crash(p) PROVE StoreInv'
  BY <1>13 DEF Crash, Died
<1>14. CASE PowerLoss
  BY <1>14 DEF PowerLoss, Died
<1>15. CASE UNCHANGED storeVars
  BY <1>15 DEF storeVars
<1> QED
  BY <1>1, <1>2, <1>3, <1>4, <1>5, <1>6, <1>7, <1>8, <1>9, <1>10, <1>11, <1>12, <1>13, <1>14, <1>15
     DEF StoreNext

\* The inductive invariant holds throughout.
THEOREM StoreInvariant == StoreSpec => []StoreInv
  BY StoreStarts, StoreStep, PTL DEF StoreSpec

\* Every process, inside a transaction and before its rename, holds the flock and the visible
\* snapshot (transaction() loads under the flock).
THEOREM BuildsOnCurrentAlways == StoreSpec => []BuildsOnCurrent
<1>1. StoreInv => BuildsOnCurrent
  BY DEF StoreInv, Inside, BuildsOnCurrent
<1> QED
  BY <1>1, StoreInvariant, PTL

\* Leaving a transaction, by result or by exception, a process holds the visible snapshot or
\* nothing (replace() reloads after a failed write, fsync or routing update).
THEOREM LeavesWithVisible == StoreSpec => LeavesWithVisibleSnapshot
<1> DEFINE Leaves == \A p \in Procs : pc[p] \in {"open", "failed"} /\ pc'[p] = "idle"
                       => mem'[p] \in {file', {}}
<1>1. StoreInv /\ [StoreNext]_storeVars => [Leaves]_storeVars
  <2> SUFFICES ASSUME StoreInv, StoreNext, NEW p \in Procs, pc[p] \in {"open", "failed"}, pc'[p] = "idle"
               PROVE mem'[p] \in {file', {}}
    OBVIOUS
  <2> USE DEF StoreInv, StoreTypeOK, Inside
  <2>1. ASSUME NEW q \in Procs, End(q) \/ Raise(q) PROVE mem'[p] \in {file', {}}
    BY <2>1 DEF End, Raise
  <2>2. ASSUME NEW q \in Procs,
               \/ Start(q) \/ Begin(q) \/ BeginFails(q) \/ \E u \in Updates : Stage(q, u)
               \/ WriteFails(q) \/ Rename(q) \/ SyncFails(q) \/ Sync(q) \/ Routed(q)
               \/ RoutingFails(q) \/ Crash(q)
        PROVE FALSE
    BY <2>2 DEF Start, Begin, BeginFails, Stage, WriteFails, Rename, SyncFails, Sync, Routed,
                RoutingFails, Crash, Died
  <2>3. ~PowerLoss
    BY DEF PowerLoss, Died
  <2> QED
    BY <2>1, <2>2, <2>3 DEF StoreNext
<1> QED
  BY <1>1, StoreInvariant, PTL DEF StoreSpec, LeavesWithVisibleSnapshot

\* A step of the protocol is a step of the atomic store or changes neither file nor promises.
LEMMA StepRefines == StoreInv /\ [StoreNext]_storeVars => [Abstract!Next]_<<file, promised>>
<1> SUFFICES ASSUME StoreInv, [StoreNext]_storeVars PROVE [Abstract!Next]_<<file, promised>>
  OBVIOUS
<1>1. ASSUME NEW p \in Procs, Rename(p) PROVE Abstract!Apply
  BY <1>1 DEF Rename, Abstract!Apply, StoreInv, Inside
<1>2. ASSUME NEW p \in Procs, End(p) PROVE Abstract!Promise
  <2>1. mine[p] \in SUBSET file
    BY <1>2 DEF End, StoreInv, Inside
  <2> QED
    BY <1>2, <2>1 DEF End, Abstract!Promise
<1>3. CASE PowerLoss
  BY <1>3 DEF PowerLoss, Abstract!Next, Abstract!Forget, StoreInv
<1>4. ASSUME NEW p \in Procs,
             \/ Start(p) \/ Begin(p) \/ BeginFails(p) \/ \E u \in Updates : Stage(p, u)
             \/ WriteFails(p) \/ SyncFails(p) \/ Sync(p) \/ Routed(p) \/ RoutingFails(p)
             \/ Raise(p) \/ Crash(p)
      PROVE UNCHANGED <<file, promised>>
  BY <1>4 DEF Start, Begin, BeginFails, Stage, WriteFails, SyncFails, Sync, Routed, RoutingFails,
              Raise, Crash
<1>5. CASE UNCHANGED storeVars
  BY <1>5 DEF storeVars
<1> QED
  BY <1>1, <1>2, <1>3, <1>4, <1>5 DEF StoreNext, Abstract!Next

\* The file protocol implements the atomic store, for any number of processes and updates.
THEOREM StoreRefinement == StoreSpec => ImplementsAtomicStore
<1>1. StoreInit => Abstract!Init
  BY DEF StoreInit, Abstract!Init
<1> QED
  BY <1>1, StoreInvariant, StepRefines, PTL DEF StoreSpec, ImplementsAtomicStore, Abstract!Spec

-----------------------------------------------------------------------------
\* The retained transports.

\* An attempt that is under way is the one its connection names, and only retiring
\* connections have one; attempts that are awaited or named belong to the connection.
AttemptsNamed ==
    /\ \A t \in Tasks : task[t].state \notin Done
          => conn[task[t].conn].task = t /\ conn[task[t].conn].retiring
    /\ \A c \in Conns : conn[c].task # NoTask => task[conn[c].task].conn = c
    /\ \A k \in Callers, c \in Conns : caller[k].await[c] # NoTask
          => task[caller[k].await[c]].conn = c

\* An attempt that reports success has closed its transport.
ClosedIsClosed == \A t \in Tasks : task[t].state = "closed" => conn[task[t].conn].use = "closed"

\* A call without a failure so far: what it owes is closed, awaited or still to be joined.
OwedAccounted ==
    \A k \in Callers : caller[k].report = "pending" /\ ~caller[k].failed
        => \A c \in caller[k].owed :
              conn[c].use = "closed" \/ c \in caller[k].todo \/ caller[k].await[c] # NoTask

ConnInv ==
    TypeOK /\ OpenIsRetained /\ AttemptsNamed /\ ClosedIsClosed /\ OwedAccounted /\ SuccessMeansClosed

LEMMA ConnInit == Init => ConnInv
  BY TaskNames DEF Init, Spent, ConnInv, TypeOK, OpenIsRetained, AttemptsNamed, ClosedIsClosed,
     OwedAccounted, SuccessMeansClosed, ConnType, TaskType, CallerType, Done

LEMMA ConnStep == ConnInv /\ [Next]_vars => ConnInv'
<1> SUFFICES ASSUME ConnInv, [Next]_vars PROVE ConnInv'
  OBVIOUS
<1> USE TaskNames DEF Done
<1>0. TypeOK /\ OpenIsRetained /\ AttemptsNamed /\ ClosedIsClosed /\ OwedAccounted /\ SuccessMeansClosed
  BY DEF ConnInv
<1>00. /\ \A d \in Conns : conn[d].use \in {"new", "open", "closed"} /\ conn[d].task \in Tasks \cup {NoTask}
       /\ \A u \in Tasks : task[u].conn \in Conns /\ task[u].state \in {"running", "cancelling"} \cup Done
       /\ \A j \in Callers : /\ caller[j].owed \subseteq Conns
                             /\ \A d \in Conns : caller[j].await[d] \in Tasks \cup {NoTask}
  BY <1>0 DEF TypeOK, ConnType, TaskType, CallerType
<1>1. ASSUME NEW c \in Conns, Retain(c) \/ Revoked(c) \/ Release(c) PROVE ConnInv'
  <2>1. /\ conn' \in [Conns -> ConnType]
        /\ \A d \in Conns \ {c} : conn'[d] = conn[d]
        /\ conn'[c].task = conn[c].task /\ conn'[c].retiring = conn[c].retiring
        /\ conn'[c].use = "open" => conn'[c].held
        /\ conn[c].use = "closed" => conn'[c].use = "closed"
    <3>0. conn \in [Conns -> ConnType] /\ (conn[c].use = "open" => conn[c].held)
      BY <1>0 DEF TypeOK, OpenIsRetained
    <3>1. CASE Retain(c)
      BY <3>0, <3>1 DEF Retain, ConnType
    <3>2. CASE Revoked(c)
      BY <3>0, <3>2 DEF Revoked, ConnType
    <3>3. CASE Release(c)
      BY <3>0, <3>3 DEF Release, Released, ConnType
    <3> QED
      BY <1>1, <3>1, <3>2, <3>3
  <2>2. task' = task /\ caller' = caller
    BY <1>1 DEF Retain, Revoked, Release
  <2>4. TypeOK'
    BY <1>0, <2>1, <2>2 DEF TypeOK
  <2>5. OpenIsRetained'
    BY <1>0, <1>00, <2>1, <2>2, <2>4 DEF OpenIsRetained, ClosedIsClosed, AttemptsNamed
  <2>6. AttemptsNamed'
    BY <1>0, <1>00, <2>1, <2>2, <2>4 DEF AttemptsNamed
  <2>7. ClosedIsClosed'
    BY <1>0, <1>00, <2>1, <2>2, <2>4 DEF ClosedIsClosed, AttemptsNamed
  <2>8. OwedAccounted'
    BY <1>0, <1>00, <2>1, <2>2, <2>4 DEF OwedAccounted, OpenIsRetained, AttemptsNamed, ClosedIsClosed
  <2>9. SuccessMeansClosed'
    BY <1>0, <1>00, <2>1, <2>2, <2>4 DEF SuccessMeansClosed, OwedAccounted, OpenIsRetained
  <2> QED
    BY <2>4, <2>5, <2>6, <2>7, <2>8, <2>9 DEF ConnInv
<1>2. ASSUME NEW k \in Callers, Call(k) \/ CallIdle(k) \/ Return(k) PROVE ConnInv'
  <2>1. conn' = conn /\ task' = task
    BY <1>2 DEF Call, CallIdle, Return
  <2>2. /\ caller' \in [Callers -> CallerType]
        /\ \A j \in Callers \ {k} : caller'[j] = caller[j]
    <3>0. caller \in [Callers -> CallerType]
      BY <1>0 DEF TypeOK
    <3>1. CASE Call(k)
      BY <3>0, <3>1 DEF Call, CallerType
    <3>2. CASE CallIdle(k)
      <4> DEFINE row == [caller[k] EXCEPT !.report = "success",
                            !.owed = {c \in Conns : conn[c].use = "open" /\ conn[c].stale}]
      <4>1. row \in CallerType
        BY <3>0 DEF CallerType
      <4>2. caller' = [caller EXCEPT ![k] = row]
        BY <3>2 DEF CallIdle
      <4> QED
        BY <3>0, <4>1, <4>2
    <3>3. CASE Return(k)
      <4> DEFINE row == [caller[k] EXCEPT !.report = Outcome(k), !.failed = FALSE,
                            !.owed = IF Outcome(k) = "success" THEN caller[k].owed ELSE {}]
      <4>1. Outcome(k) \in {"error", "success"}
        BY DEF Outcome
      <4>2. row \in CallerType
        BY <3>0, <4>1 DEF CallerType
      <4>3. caller' = [caller EXCEPT ![k] = row]
        BY <3>3 DEF Return
      <4> QED
        BY <3>0, <4>2, <4>3
    <3> QED
      BY <1>2, <3>1, <3>2, <3>3
  <2>3. /\ \A c \in Conns : caller'[k].await[c] # NoTask => caller'[k].await[c] = caller[k].await[c]
        /\ \/ /\ caller'[k].report = "pending"
              /\ caller'[k].owed = {c \in Conns : conn[c].use = "open" /\ conn[c].stale}
              /\ caller'[k].todo = {c \in Conns : conn[c].held /\ conn[c].stale}
           \/ /\ caller'[k].report = "success"
              /\ caller'[k].owed = {c \in Conns : conn[c].use = "open" /\ conn[c].stale}
              /\ ~\E c \in Conns : conn[c].held /\ conn[c].stale
           \/ /\ caller'[k].report \in {"success", "error"}
              /\ caller'[k].report = "success" => caller'[k].owed = caller[k].owed
              /\ caller[k].report = "pending" /\ caller[k].todo = {}
              /\ \A c \in Conns : caller[k].await[c] = NoTask
              /\ caller'[k].report = "success" => ~caller[k].failed
    BY <1>0, <1>2 DEF Call, CallIdle, Return, Outcome, TypeOK, CallerType
  <2>4. TypeOK'
    BY <1>0, <2>1, <2>2, <2>3 DEF TypeOK
  <2>5. OpenIsRetained'
    BY <1>0, <1>00, <2>1, <2>2, <2>3, <2>4 DEF OpenIsRetained, ClosedIsClosed, AttemptsNamed
  <2>6. AttemptsNamed'
    BY <1>0, <1>00, <2>1, <2>2, <2>3, <2>4 DEF AttemptsNamed
  <2>7. ClosedIsClosed'
    BY <1>0, <1>00, <2>1, <2>2, <2>3, <2>4 DEF ClosedIsClosed, AttemptsNamed
  <2>8. OwedAccounted'
    BY <1>0, <1>00, <2>1, <2>2, <2>3, <2>4 DEF OwedAccounted, OpenIsRetained, AttemptsNamed, ClosedIsClosed
  <2>9. SuccessMeansClosed'
    BY <1>0, <1>00, <2>1, <2>2, <2>3, <2>4 DEF SuccessMeansClosed, OwedAccounted, OpenIsRetained
  <2> QED
    BY <2>4, <2>5, <2>6, <2>7, <2>8, <2>9 DEF ConnInv
<1>3. ASSUME NEW k \in Callers, NEW c \in Conns, Join(k, c) PROVE ConnInv'
  <2>0. PICK t \in Tasks :
         /\ IF conn[c].task = NoTask
            THEN /\ Unused(t)
                 /\ task' = [task EXCEPT ![t] = [conn |-> c, state |-> "running"]]
            ELSE t = conn[c].task /\ UNCHANGED task
         /\ conn' = [conn EXCEPT ![c].retiring = TRUE, ![c].task = t]
         /\ caller' = [caller EXCEPT ![k].todo = @ \ {c}, ![k].await[c] = t]
    BY <1>3 DEF Join
  <2>1. /\ conn' \in [Conns -> ConnType]
        /\ \A d \in Conns \ {c} : conn'[d] = conn[d]
        /\ conn'[c].task = t /\ conn'[c].retiring /\ conn'[c].use = conn[c].use
        /\ conn'[c].held = conn[c].held
    BY <1>0, <2>0, ZenonT(40) DEF TypeOK, ConnType
  <2>2. /\ task' \in [Tasks -> TaskType] /\ task'[t].conn = c
        /\ \A u \in Tasks \ {t} : task'[u] = task[u]
        /\ \/ task' = task /\ t = conn[c].task
           \/ Unused(t) /\ task'[t].state = "running" /\ conn[c].task = NoTask
    BY <1>0, <1>00, <2>0 DEF TypeOK, TaskType, AttemptsNamed
  <2>3. /\ caller' \in [Callers -> CallerType]
        /\ \A j \in Callers \ {k} : caller'[j] = caller[j]
        /\ caller'[k].todo = caller[k].todo \ {c} /\ caller'[k].await[c] = t
        /\ \A d \in Conns \ {c} : caller'[k].await[d] = caller[k].await[d]
        /\ caller'[k].failed = caller[k].failed /\ caller'[k].report = caller[k].report
        /\ caller'[k].owed = caller[k].owed
    BY <1>0, <2>0, ZenonT(40) DEF TypeOK, CallerType
  <2>4. TypeOK'
    BY <1>0, <2>1, <2>2, <2>3 DEF TypeOK
  <2>5. OpenIsRetained'
    BY <1>0, <1>00, <2>1, <2>2, <2>3, <2>4 DEF OpenIsRetained, ClosedIsClosed, AttemptsNamed
  <2>6. AttemptsNamed'
    BY <1>0, <1>00, <2>1, <2>2, <2>3 DEF AttemptsNamed, Unused
  <2>7. ClosedIsClosed'
    BY <1>0, <1>00, <2>1, <2>2, <2>3, <2>4 DEF ClosedIsClosed, AttemptsNamed, Unused
  <2>8. OwedAccounted'
    BY <1>0, <1>00, <2>1, <2>2, <2>3, <2>4 DEF OwedAccounted, OpenIsRetained, AttemptsNamed, ClosedIsClosed
  <2>9. SuccessMeansClosed'
    BY <1>0, <1>00, <2>1, <2>2, <2>3, <2>4 DEF SuccessMeansClosed, OwedAccounted, OpenIsRetained
  <2> QED
    BY <2>4, <2>5, <2>6, <2>7, <2>8, <2>9 DEF ConnInv
<1>4. ASSUME NEW k \in Callers, NEW c \in Conns, Timeout(k, c) PROVE ConnInv'
  <2> DEFINE t == caller[k].await[c]
  <2>0. t \in Tasks /\ task[t].state \notin Done
    BY <1>00, <1>4 DEF Timeout
  <2>1. /\ conn' \in [Conns -> ConnType]
        /\ \A d \in Conns \ {c} : conn'[d] = conn[d]
        /\ conn'[c].task = conn[c].task /\ conn'[c].retiring = conn[c].retiring
        /\ conn'[c].use = conn[c].use /\ conn'[c].held
    BY <1>0, <1>4 DEF Timeout, TimedOut, TypeOK, ConnType
  <2>2. /\ task' \in [Tasks -> TaskType] /\ \A u \in Tasks : task'[u].conn = task[u].conn
        /\ \A u \in Tasks \ {t} : task'[u] = task[u]
        /\ task'[t].state = "cancelling"
    BY <1>0, <1>4, <2>0 DEF Timeout, TypeOK, TaskType
  <2>3. /\ caller' \in [Callers -> CallerType]
        /\ \A j \in Callers \ {k} : caller'[j] = caller[j]
        /\ caller'[k].todo = caller[k].todo /\ caller'[k].await[c] = NoTask
        /\ \A d \in Conns \ {c} : caller'[k].await[d] = caller[k].await[d]
        /\ caller'[k].report = caller[k].report /\ caller'[k].owed = caller[k].owed
        /\ caller'[k].failed
    BY <1>0, <1>4 DEF Timeout, TypeOK, CallerType
  <2>4. TypeOK'
    BY <1>0, <2>0, <2>1, <2>2, <2>3 DEF TypeOK
  <2>5. OpenIsRetained'
    BY <1>0, <1>00, <2>0, <2>1, <2>2, <2>3, <2>4 DEF OpenIsRetained, ClosedIsClosed, AttemptsNamed
  <2>6. AttemptsNamed'
    BY <1>0, <1>00, <2>0, <2>1, <2>2, <2>3 DEF AttemptsNamed
  <2>7. ClosedIsClosed'
    BY <1>0, <1>00, <2>0, <2>1, <2>2, <2>3, <2>4 DEF ClosedIsClosed, AttemptsNamed
  <2>8. OwedAccounted'
    BY <1>0, <1>00, <2>0, <2>1, <2>2, <2>3, <2>4 DEF OwedAccounted, OpenIsRetained, AttemptsNamed, ClosedIsClosed
  <2>9. SuccessMeansClosed'
    BY <1>0, <1>00, <2>0, <2>1, <2>2, <2>3, <2>4 DEF SuccessMeansClosed, OwedAccounted, OpenIsRetained
  <2> QED
    BY <2>4, <2>5, <2>6, <2>7, <2>8, <2>9 DEF ConnInv
<1>5. ASSUME NEW k \in Callers, NEW c \in Conns, Wake(k, c) PROVE ConnInv'
  <2>00. PICK t \in Tasks :
         /\ t = caller[k].await[c] /\ task[t].state \in Done
         /\ conn' = [conn EXCEPT ![c].task = IF conn[c].task = t THEN NoTask ELSE @,
                                 ![c].held = task[t].state = "failed"]
         /\ caller' = [caller EXCEPT ![k].await[c] = NoTask,
                                     ![k].failed = @ \/ task[t].state = "failed"]
         /\ task' = [task EXCEPT ![t] = IF Unused(t)' THEN Spent ELSE task[t]]
    BY <1>5 DEF Wake
  <2>0. t \in Tasks /\ task[t].state \in Done /\ task[t].conn = c
    BY <1>0, <1>00, <2>00 DEF AttemptsNamed
  <2>2. /\ task' \in [Tasks -> TaskType]
        /\ \A u \in Tasks \ {t} : task'[u] = task[u]
        /\ task'[t].state \in Done /\ task'[t].conn \in Conns
        /\ \/ task'[t] = task[t]
           \/ task'[t].state = "failed" /\ Unused(t)'
    <3>1. Spent \in TaskType /\ Spent.state = "failed" /\ Spent.conn \in Conns
      BY DEF Spent, TaskType
    <3> QED
      BY <1>0, <2>0, <2>00, <3>1 DEF TypeOK, TaskType
  <2>1. /\ conn' \in [Conns -> ConnType]
        /\ \A d \in Conns \ {c} : conn'[d] = conn[d]
        /\ conn'[c].task = (IF conn[c].task = t THEN NoTask ELSE conn[c].task)
        /\ conn'[c].retiring = conn[c].retiring
        /\ conn'[c].use = conn[c].use /\ (task[t].state = "failed" => conn'[c].held)
    BY <1>0, <2>00, ZenonT(40) DEF TypeOK, ConnType
  <2>3. /\ caller' \in [Callers -> CallerType]
        /\ \A j \in Callers \ {k} : caller'[j] = caller[j]
        /\ caller'[k].todo = caller[k].todo /\ caller'[k].await[c] = NoTask
        /\ \A d \in Conns \ {c} : caller'[k].await[d] = caller[k].await[d]
        /\ caller'[k].report = caller[k].report /\ caller'[k].owed = caller[k].owed
        /\ caller[k].failed \/ task[t].state = "failed" => caller'[k].failed
    BY <1>0, <2>00 DEF TypeOK, CallerType
  <2>3a. \A u \in Tasks : task'[u].state \in {"running", "cancelling", "closed"} => task'[u] = task[u]
    BY <2>2
  <2>3b. ASSUME NEW d \in Conns, conn'[d].task # NoTask
        PROVE  /\ conn'[d].task = conn[d].task /\ conn[d].task \in Tasks
               /\ task'[conn[d].task] = task[conn[d].task]
    <3>1. conn'[d].task = conn[d].task /\ conn[d].task \in Tasks
      BY <1>00, <2>1, <2>3b
    <3>2. conn[d].task = t => ~Unused(t)'
      BY <3>1 DEF Unused
    <3> QED
      BY <2>2, <3>1, <3>2
  <2>3c. ASSUME NEW j \in Callers, NEW d \in Conns, caller'[j].await[d] # NoTask
        PROVE  /\ caller'[j].await[d] = caller[j].await[d] /\ caller[j].await[d] \in Tasks
               /\ task'[caller[j].await[d]] = task[caller[j].await[d]]
    <3>1. caller'[j].await[d] = caller[j].await[d] /\ caller[j].await[d] \in Tasks
      BY <1>00, <2>3, <2>3c
    <3>2. caller[j].await[d] = t => ~Unused(t)'
      BY <3>1 DEF Unused
    <3> QED
      BY <2>2, <3>1, <3>2
  <2>4. TypeOK'
    BY <1>0, <2>0, <2>1, <2>2, <2>3 DEF TypeOK
  <2>5. OpenIsRetained'
    BY <1>0, <1>00, <2>0, <2>1 DEF OpenIsRetained, ClosedIsClosed
  <2>6. AttemptsNamed'
    <3>1. ASSUME NEW u \in Tasks, task'[u].state \notin Done
          PROVE  conn'[task'[u].conn].task = u /\ conn'[task'[u].conn].retiring
      <4>1. u # t /\ task'[u] = task[u] /\ task[u].conn \in Conns
        BY <1>00, <2>2, <3>1
      <4>2. conn[task[u].conn].task = u /\ conn[task[u].conn].retiring
        BY <1>0, <3>1, <4>1 DEF AttemptsNamed
      <4> QED
        BY <2>1, <4>1, <4>2
    <3>2. ASSUME NEW d \in Conns, conn'[d].task # NoTask PROVE task'[conn'[d].task].conn = d
      <4>1. /\ conn'[d].task = conn[d].task /\ conn[d].task # NoTask
            /\ task'[conn[d].task] = task[conn[d].task]
        BY <2>3b, <3>2
      <4>2. task[conn[d].task].conn = d
        BY <1>0, <4>1 DEF AttemptsNamed
      <4> QED
        BY <4>1, <4>2
    <3>3. ASSUME NEW j \in Callers, NEW d \in Conns, caller'[j].await[d] # NoTask
          PROVE  task'[caller'[j].await[d]].conn = d
      <4>1. /\ caller'[j].await[d] = caller[j].await[d] /\ caller[j].await[d] # NoTask
            /\ task'[caller[j].await[d]] = task[caller[j].await[d]]
        BY <2>3c, <3>3
      <4>2. task[caller[j].await[d]].conn = d
        BY <1>0, <4>1 DEF AttemptsNamed
      <4> QED
        BY <4>1, <4>2
    <3> QED
      BY <3>1, <3>2, <3>3 DEF AttemptsNamed
  <2>7. ClosedIsClosed'
    BY <1>0, <1>00, <2>1, <2>3a DEF ClosedIsClosed
  <2>8. OwedAccounted'
    <3>1. \A d \in Conns : conn[d].use = "closed" => conn'[d].use = "closed"
      BY <2>1
    <3>2. task[t].state = "closed" => conn'[c].use = "closed"
      BY <1>0, <2>0, <2>1 DEF ClosedIsClosed
    <3> QED
      <4> SUFFICES ASSUME NEW j \in Callers, caller'[j].report = "pending", ~caller'[j].failed,
                          NEW d \in caller'[j].owed
                   PROVE  conn'[d].use = "closed" \/ d \in caller'[j].todo \/ caller'[j].await[d] # NoTask
        BY DEF OwedAccounted
      <4>1. /\ d \in Conns /\ d \in caller[j].owed /\ caller[j].report = "pending"
            /\ ~caller[j].failed /\ caller'[j].todo = caller[j].todo
        BY <1>00, <2>3
      <4>2. conn[d].use = "closed" \/ d \in caller[j].todo \/ caller[j].await[d] # NoTask
        BY <1>0, <4>1 DEF OwedAccounted
      <4>3. CASE j = k /\ d = c
        BY <2>0, <2>3, <3>2, <4>3
      <4>4. CASE ~(j = k /\ d = c)
        <5>1. caller'[j].await[d] = caller[j].await[d]
          BY <2>3, <4>1, <4>4
        <5> QED
          BY <3>1, <4>1, <4>2, <5>1
      <4> QED
        BY <4>3, <4>4
  <2>9. SuccessMeansClosed'
    BY <1>0, <1>00, <2>1, <2>3 DEF SuccessMeansClosed
  <2> QED
    BY <2>4, <2>5, <2>6, <2>7, <2>8, <2>9 DEF ConnInv
<1>6. ASSUME NEW t \in Tasks, NEW outcome \in Done, Finish(t, outcome) PROVE ConnInv'
  <2> DEFINE c == task[t].conn
  <2>0. c \in Conns /\ caller' = caller /\ task[t].state \notin Done
    BY <1>00, <1>6 DEF Finish
  <2>1. /\ conn' \in [Conns -> ConnType]
        /\ \A d \in Conns \ {c} : conn'[d] = conn[d]
        /\ conn'[c].task = conn[c].task /\ conn'[c].retiring = conn[c].retiring
        /\ conn'[c].held = conn[c].held
        /\ conn'[c].use = (IF outcome = "closed" THEN "closed" ELSE conn[c].use)
    BY <1>0, <1>6, <2>0 DEF Finish, TypeOK, ConnType
  <2>1a. \A d \in Conns : /\ conn'[d].held = conn[d].held
                         /\ conn'[d].use \in {"closed", conn[d].use}
    BY <2>0, <2>1
  <2>2. /\ task' \in [Tasks -> TaskType] /\ \A u \in Tasks : task'[u].conn = task[u].conn
        /\ \A u \in Tasks \ {t} : task'[u] = task[u]
        /\ task'[t].state = outcome
    BY <1>0, <1>6 DEF Finish, TypeOK, TaskType
  <2>4. TypeOK'
    BY <1>0, <2>0, <2>1, <2>2 DEF TypeOK
  <2>5. OpenIsRetained'
    BY <1>0, <2>1a DEF OpenIsRetained
  <2>6. AttemptsNamed'
    BY <1>0, <1>00, <2>0, <2>1, <2>2, <2>4 DEF AttemptsNamed
  <2>7. ClosedIsClosed'
    BY <1>0, <1>00, <2>0, <2>1, <2>2, <2>4 DEF ClosedIsClosed, AttemptsNamed
  <2>8. OwedAccounted'
    BY <1>0, <1>00, <2>0, <2>1a DEF OwedAccounted
  <2>9. SuccessMeansClosed'
    BY <1>0, <1>00, <2>0, <2>1, <2>2, <2>4 DEF SuccessMeansClosed, OwedAccounted, OpenIsRetained
  <2> QED
    BY <2>4, <2>5, <2>6, <2>7, <2>8, <2>9 DEF ConnInv
<1>7. CASE UNCHANGED vars
  BY <1>7 DEF vars, ConnInv, TypeOK, OpenIsRetained, AttemptsNamed,
     ClosedIsClosed, OwedAccounted, SuccessMeansClosed
<1> QED
  BY <1>1, <1>2, <1>3, <1>4, <1>5, <1>6, <1>7 DEF Next

\* Whatever number of callers, transports and hanging closes: a success of disconnect_stale
\* means that everything that was open without authority at the call is closed.
THEOREM SuccessIsHonest == Spec => []SuccessMeansClosed
<1>1. ConnInv => SuccessMeansClosed
  BY DEF ConnInv
<1> QED
  BY <1>1, ConnInit, ConnStep, PTL DEF Spec

\* No interleaving of releases, timeouts and shared attempts drops an open transport from the
\* retained set (release, disconnect_stale).
THEOREM OpenStaysRetained == Spec => []OpenIsRetained
<1>1. ConnInv => OpenIsRetained
  BY DEF ConnInv
<1> QED
  BY <1>1, ConnInit, ConnStep, PTL DEF Spec

\* A transport has at most one close attempt under way (Teardown.run).
THEOREM AttemptsNeverPileUp == Spec => []OneAttempt
<1>1. ConnInv => OneAttempt
  BY DEF ConnInv, AttemptsNamed, OneAttempt
<1> QED
  BY <1>1, ConnInit, ConnStep, PTL DEF Spec
=============================================================================
