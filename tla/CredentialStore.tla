---------------------------- MODULE CredentialStore ----------------------------
(***************************************************************************)
(* The file protocol of auth/store.py.  The server and the owner's console *)
(* are separate processes that share authz.json: each transaction takes an *)
(* exclusive flock, loads the file, and writes snapshots by temporary file,*)
(* rename and directory fsync.  Every step can fail, either process can    *)
(* die between any two steps, and the machine can lose power.              *)
(*                                                                         *)
(* A snapshot is the set of updates it contains; an update stands for one  *)
(* commit of a handler (a rotation, a redeemed request, a new claim...).   *)
(***************************************************************************)
EXTENDS FiniteSets

CONSTANTS Procs,     \* processes that open the store
          Updates,   \* updates they may commit
          Server,    \* the process with the maintenance loop
          None

ASSUME ProcessNames == None \notin Procs /\ Server \in Procs

VARIABLES
    file,       \* visible content of authz.json
    durable,    \* content that survives a power loss
    lock,       \* process holding the flock on authz.lock
    pc,         \* where each process is
    mem,        \* the snapshot in each process's CredentialStore
    staged,     \* the snapshot being written
    mine,       \* updates committed in the running transaction
    promised    \* updates reported as saved

storeVars == <<file, durable, lock, pc, mem, staged, mine, promised>>

\* down; up and outside a transaction; in a transaction; building the temporary file; renamed
\* and not yet fsynced; committed and pruning agents.json; failed and leaving the transaction
Places == {"down", "idle", "open", "writing", "renamed", "routing", "failed"}

StoreInit ==
    /\ file = {} /\ durable = {} /\ lock = None /\ promised = {}
    /\ pc = [p \in Procs |-> "down"]
    /\ mem = [p \in Procs |-> {}] /\ staged = [p \in Procs |-> {}] /\ mine = [p \in Procs |-> {}]

\* CredentialStore.load: the visible snapshot, or nothing when reading it fails.
Loads(p) == mem' = [mem EXCEPT ![p] = file] \/ mem' = [mem EXCEPT ![p] = {}]

\* Mutant of LoadsOk: a failed reload leaves the memory of the process as it was.
KeepsMemory(p) == UNCHANGED mem

LoadsOk(p) == mem' = [mem EXCEPT ![p] = file]

\* CredentialStore.__init__ loads without the lock; rename makes that a whole snapshot.
Start(p) ==
    /\ pc[p] = "down"
    /\ pc' = [pc EXCEPT ![p] = "idle"]
    /\ LoadsOk(p)
    /\ UNCHANGED <<file, durable, lock, staged, mine, promised>>

Lockable(p) == lock = None

\* transaction(): flock, then load.
Begin(p) ==
    /\ pc[p] = "idle" /\ Lockable(p)
    /\ lock' = p
    /\ pc' = [pc EXCEPT ![p] = "open"]
    /\ LoadsOk(p)
    /\ mine' = [mine EXCEPT ![p] = {}]
    /\ UNCHANGED <<file, durable, staged, promised>>

\* The load under the flock raises: records are cleared and the lock is released.
BeginFails(p) ==
    /\ pc[p] = "idle" /\ lock = None
    /\ mem' = [mem EXCEPT ![p] = {}]
    /\ UNCHANGED <<file, durable, lock, pc, staged, mine, promised>>

\* A handler builds the next snapshot from the loaded one; replace() starts to write it.
Stage(p, u) ==
    /\ pc[p] = "open"
    /\ u \notin mem[p]
    /\ staged' = [staged EXCEPT ![p] = mem[p] \cup {u}]
    /\ pc' = [pc EXCEPT ![p] = "writing"]
    /\ UNCHANGED <<file, durable, lock, mem, mine, promised>>

\* Writing, fsyncing or renaming the temporary file fails: the memory is reloaded.
WriteFails(p) ==
    /\ pc[p] = "writing"
    /\ Loads(p)
    /\ pc' = [pc EXCEPT ![p] = "failed"]
    /\ UNCHANGED <<file, durable, lock, staged, mine, promised>>

\* os.replace of the fsynced temporary file.
Rename(p) ==
    /\ pc[p] = "writing"
    /\ file' = staged[p]
    /\ pc' = [pc EXCEPT ![p] = "renamed"]
    /\ UNCHANGED <<durable, lock, mem, staged, mine, promised>>

\* Mutant of SyncFails: the memory keeps the snapshot from before the rename.
SyncFailsKeepsMemory(p) ==
    /\ pc[p] = "renamed"
    /\ pc' = [pc EXCEPT ![p] = "failed"]
    /\ UNCHANGED <<file, durable, lock, mem, staged, mine, promised>>

\* The directory fsync fails after the rename: the visible snapshot is the new one.
SyncFails(p) ==
    /\ pc[p] = "renamed"
    /\ Loads(p)
    /\ pc' = [pc EXCEPT ![p] = "failed"]
    /\ UNCHANGED <<file, durable, lock, staged, mine, promised>>

\* Mutant of Sync: the directory is never fsynced.
SyncSkipped(p) ==
    /\ pc[p] = "renamed"
    /\ mem' = [mem EXCEPT ![p] = staged[p]]
    /\ mine' = [mine EXCEPT ![p] = @ \cup (staged[p] \ mem[p])]
    /\ pc' = [pc EXCEPT ![p] = "routing"]
    /\ UNCHANGED <<file, durable, lock, staged, promised>>

\* The directory is fsynced and the memory published; agents.json is pruned next.
Sync(p) ==
    /\ pc[p] = "renamed"
    /\ durable' = file
    /\ mem' = [mem EXCEPT ![p] = staged[p]]
    /\ mine' = [mine EXCEPT ![p] = @ \cup (staged[p] \ mem[p])]
    /\ pc' = [pc EXCEPT ![p] = "routing"]
    /\ UNCHANGED <<file, lock, staged, promised>>

\* retire_invalid succeeds; the handler may commit again, as execute does after its sweep.
Routed(p) ==
    /\ pc[p] = "routing"
    /\ pc' = [pc EXCEPT ![p] = "open"]
    /\ UNCHANGED <<file, durable, lock, mem, staged, mine, promised>>

\* retire_invalid raises: the caller's handler reloads and reports an error for a saved update.
RoutingFails(p) ==
    /\ pc[p] = "routing"
    /\ Loads(p)
    /\ pc' = [pc EXCEPT ![p] = "failed"]
    /\ UNCHANGED <<file, durable, lock, staged, mine, promised>>

\* The transaction ends normally and its commits are reported.
End(p) ==
    /\ pc[p] = "open"
    /\ promised' = promised \cup mine[p]
    /\ lock' = None
    /\ pc' = [pc EXCEPT ![p] = "idle"]
    /\ UNCHANGED <<file, durable, mem, staged, mine>>

\* The exception leaves the transaction: nothing is reported.
Raise(p) ==
    /\ pc[p] = "failed"
    /\ lock' = None
    /\ pc' = [pc EXCEPT ![p] = "idle"]
    /\ UNCHANGED <<file, durable, mem, staged, mine, promised>>

Died(P) ==
    /\ pc' = [p \in Procs |-> IF p \in P THEN "down" ELSE pc[p]]
    /\ mem' = [p \in Procs |-> IF p \in P THEN {} ELSE mem[p]]
    /\ lock' = IF lock \in P THEN None ELSE lock

\* A process dies; the operating system drops its flock.
Crash(p) ==
    /\ pc[p] # "down"
    /\ Died({p})
    /\ UNCHANGED <<file, durable, staged, mine, promised>>

\* The machine goes down: a rename that was not fsynced may or may not be there afterwards.
PowerLoss ==
    /\ Died(Procs)
    /\ file' \in {file, durable}
    /\ durable' = file'
    /\ UNCHANGED <<staged, mine, promised>>

StoreNext ==
    \/ \E p \in Procs :
          \/ Start(p) \/ Begin(p) \/ BeginFails(p)
          \/ \E u \in Updates : Stage(p, u)
          \/ WriteFails(p) \/ Rename(p) \/ SyncFails(p) \/ Sync(p)
          \/ Routed(p) \/ RoutingFails(p) \/ End(p) \/ Raise(p) \/ Crash(p)
    \/ PowerLoss

StoreSpec == StoreInit /\ [][StoreNext]_storeVars

\* A process inside a transaction runs on (handlers have no await there), and the server's
\* maintenance loop opens one every second; flock wakes a waiter once the holder is gone.
StoreFairSpec ==
    /\ StoreSpec
    /\ \A p \in Procs : WF_storeVars(Rename(p) \/ Sync(p) \/ Routed(p) \/ End(p) \/ Raise(p))
    /\ SF_storeVars(Begin(Server))

-----------------------------------------------------------------------------
\* Whatever is visible, durable, staged or in memory is a snapshot: a set of updates.
StoreTypeOK ==
    /\ file \subseteq Updates /\ durable \subseteq Updates /\ promised \subseteq Updates
    /\ lock \in Procs \cup {None}
    /\ pc \in [Procs -> Places]
    /\ mem \in [Procs -> SUBSET Updates]
    /\ staged \in [Procs -> SUBSET Updates]
    /\ mine \in [Procs -> SUBSET Updates]

Abstract == INSTANCE AtomicStore WITH value <- file, promised <- promised

\* The protocol implements the atomic store: no lost updates between server and console, and
\* nothing reported as saved is taken back by a crash or a power loss (transaction, replace).
ImplementsAtomicStore == Abstract!Spec

\* A process that leaves a transaction, with a result or with an exception, holds the snapshot
\* that is visible in the file, or nothing: "Never retain a different authorization snapshot
\* from the file that is now visible" (replace), also when the fsync failed after the rename.
LeavesWithVisibleSnapshot ==
    [][\A p \in Procs : pc[p] \in {"open", "failed"} /\ pc'[p] = "idle"
          => mem'[p] \in {file', {}}]_storeVars

\* A handler never builds on a snapshot somebody else has overtaken: inside the transaction the
\* memory is the file until its own rename.
BuildsOnCurrent ==
    \A p \in Procs : pc[p] \in {"open", "writing"} => lock = p /\ mem[p] = file

\* A server whose memory misses the console's update sees it, fails closed, or stops: readers
\* that look at the memory outside a transaction (authenticate, current) lag, but not forever.
MemoryCatchesUp ==
    (pc[Server] = "idle") ~> (mem[Server] \in {file, {}} \/ pc[Server] = "down")
=============================================================================
