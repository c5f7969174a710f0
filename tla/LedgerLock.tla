----------------------------- MODULE LedgerLock -----------------------------
(***************************************************************************)
(* The exclusive lock of the durable ledger (state/ledger.rs, state/ffi.rs)*)
(* between processes that open the same path.  flock locks the inode a     *)
(* descriptor is open on, not the path: open and prune_expired each take   *)
(* two steps to get from the path to the lock, and prune_expired puts a    *)
(* new inode under the path in between.                                    *)
(*                                                                         *)
(* flock, rename and the inode table are external.  What the file holds is *)
(* the business of GrantLedger.tla.                                        *)
(***************************************************************************)
EXTENDS Naturals

CONSTANTS
    Procs,        \* processes (or handles of one process)
    MaxInodes     \* bound: inodes that are created

ASSUME LockAssumption == MaxInodes \in Nat \ {0}

NoFile == 0

VARIABLES
    pc,       \* process -> where it is in open, prune_expired or between calls
    fd,       \* process -> the inode its handle is open on, or NoFile
    locks,    \* the pairs <<inode, process>> of locks that are held
    path,     \* the inode under the ledger's path
    temp,     \* the inode under temp_path, or NoFile
    made      \* inodes created so far

lockVars == <<pc, fd, locks, path, temp, made>>

LockInit ==
    /\ pc = [p \in Procs |-> "closed"]
    /\ fd = [p \in Procs |-> NoFile]
    /\ locks = {} /\ path = 1 /\ temp = NoFile /\ made = 1

\* flock_exclusive_nb succeeds.
CanLock(p) == \A l \in locks : l[1] # fd[p]

\* flock_exclusive_nb and what follows from it in open and in prune_expired:
\* with the lock, `file` is set; without it, it is dropped.
Flock(p, got, refused) ==
    IF CanLock(p)
    THEN /\ locks' = locks \cup {<<fd[p], p>>}
         /\ pc' = [pc EXCEPT ![p] = got]
         /\ UNCHANGED fd
    ELSE /\ fd' = [fd EXCEPT ![p] = NoFile]
         /\ pc' = [pc EXCEPT ![p] = refused]
         /\ UNCHANGED locks

\* A handle is dropped and its lock with it.
DropHandle(p) ==
    /\ fd' = [fd EXCEPT ![p] = NoFile]
    /\ locks' = {l \in locks : l[2] # p}

-----------------------------------------------------------------------------
\* open, first step: the descriptor.
OpenFile(p) ==
    /\ pc[p] = "closed"
    /\ fd' = [fd EXCEPT ![p] = path]
    /\ pc' = [pc EXCEPT ![p] = "opening"]
    /\ UNCHANGED <<locks, path, temp, made>>

\* open, second step: the lock, and the temp file of a prune that died.
OpenLock(p) ==
    /\ pc[p] = "opening"
    /\ Flock(p, "writer", "closed")
    /\ temp' = IF CanLock(p) THEN NoFile ELSE temp
    /\ UNCHANGED <<path, made>>

\* prune_expired writes and syncs the new image; an old temp file is reused.
PruneWrite(p) ==
    /\ pc[p] = "writer"
    /\ temp = NoFile => made < MaxInodes
    /\ made' = IF temp = NoFile THEN made + 1 ELSE made
    /\ temp' = IF temp = NoFile THEN made + 1 ELSE temp
    /\ pc' = [pc EXCEPT ![p] = "pruning"]
    /\ UNCHANGED <<fd, locks, path>>

\* rename: the new inode is under the path, the handle still on the old one.
\* A temp file somebody removed is a DiskError, and the old handle stays.
PruneRename(p) ==
    /\ pc[p] = "pruning"
    /\ path' = IF temp = NoFile THEN path ELSE temp
    /\ pc' = [pc EXCEPT ![p] = IF temp = NoFile THEN "writer" ELSE "renamed"]
    /\ temp' = NoFile
    /\ UNCHANGED <<fd, locks, made>>

\* `self.file = None`
PruneDrop(p) ==
    /\ pc[p] = "renamed"
    /\ DropHandle(p)
    /\ pc' = [pc EXCEPT ![p] = "dropped"]
    /\ UNCHANGED <<path, temp, made>>

PruneReopen(p) ==
    /\ pc[p] = "dropped"
    /\ fd' = [fd EXCEPT ![p] = path]
    /\ pc' = [pc EXCEPT ![p] = "reopening"]
    /\ UNCHANGED <<locks, path, temp, made>>

\* Mutant: the new inode is not locked again.
PruneLockForgotten(p) ==
    /\ pc[p] = "reopening"
    /\ pc' = [pc EXCEPT ![p] = "writer"]
    /\ UNCHANGED <<fd, locks, path, temp, made>>

\* The lock on the new inode; who does not get it is left without a file, and
\* every later append of it is a DiskError.
PruneLock(p) ==
    /\ pc[p] = "reopening"
    /\ Flock(p, "writer", "shut out")
    /\ UNCHANGED <<path, temp, made>>

\* close, the end of the value, or the end of the process at any step.
Close(p) ==
    /\ pc[p] # "closed"
    /\ DropHandle(p)
    /\ pc' = [pc EXCEPT ![p] = "closed"]
    /\ UNCHANGED <<path, temp, made>>

LockNext ==
    \E p \in Procs :
        \/ OpenFile(p) \/ OpenLock(p)
        \/ PruneWrite(p) \/ PruneRename(p) \/ PruneDrop(p) \/ PruneReopen(p) \/ PruneLock(p)
        \/ Close(p)

LockSpec == LockInit /\ [][LockNext]_lockVars

-----------------------------------------------------------------------------
\* Handles whose append reaches a file.
Writing(p) == pc[p] = "writer"

\* MD3 where it holds: two handles that append never append to one file, not
\* even while one of them is being moved to a new inode.
WritersDisjoint ==
    \A p, q \in Procs : p # q /\ Writing(p) /\ Writing(q) => fd[p] # fd[q]
=============================================================================
