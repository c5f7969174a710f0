----------------------------- MODULE DiskProofs -----------------------------
(***************************************************************************)
(* Theorems about what a node keeps on disk: the lock on the durable       *)
(* ledger, the key and token files of start-up, the ledger's log, which is *)
(* read back after every crash, and its caches between two rebuilds.       *)
(***************************************************************************)
EXTENDS GrantLedger, LedgerLock, NodeBoot, DataLemmas, SequenceTheorems, TLAPS

-----------------------------------------------------------------------------
(* The lock.                                                               *)

LockSteps == {"closed", "opening", "writer", "pruning", "renamed", "dropped", "reopening",
              "shut out"}

\* A handle that may append holds the lock of the inode it is open on, and no
\* inode is locked twice.
LockInv ==
    /\ pc \in [Procs -> LockSteps]
    /\ fd \in [Procs -> Nat] /\ path \in Nat /\ temp \in Nat /\ made \in Nat
    /\ locks \subseteq Nat \X Procs
    /\ \A p \in Procs : pc[p] \in {"writer", "pruning", "renamed"} => <<fd[p], p>> \in locks
    /\ \A i \in Nat, p, q \in Procs : <<i, p>> \in locks /\ <<i, q>> \in locks => p = q

\* flock_exclusive_nb never locks an inode a second time, and whoever goes on as a
\* writer has the lock of the inode its handle is open on.
LEMMA FlockKeepsLockInv ==
    ASSUME LockInv, NEW p \in Procs, NEW got, NEW refused \in {"closed", "shut out"},
           got = "writer", pc[p] \in {"opening", "reopening"}, Flock(p, got, refused)
    PROVE  /\ pc' \in [Procs -> LockSteps] /\ fd' \in [Procs -> Nat] /\ locks' \subseteq Nat \X Procs
           /\ \A q \in Procs : pc'[q] \in {"writer", "pruning", "renamed"} => <<fd'[q], q>> \in locks'
           /\ \A i \in Nat, q, r \in Procs : <<i, q>> \in locks' /\ <<i, r>> \in locks' => q = r
  <1>1. CASE CanLock(p)
    <2>1. /\ locks' = locks \cup {<<fd[p], p>>} /\ fd' = fd
          /\ pc' = [pc EXCEPT ![p] = "writer"]
      BY <1>1 DEF Flock
    <2>2. \A i \in Nat, q, r \in Procs : <<i, q>> \in locks' /\ <<i, r>> \in locks' => q = r
      <3>1. \A q \in Procs : <<fd[p], q>> \notin locks
        BY <1>1 DEF CanLock
      <3> QED BY <2>1, <3>1 DEF LockInv
    <2>3. locks' \subseteq Nat \X Procs
      <3>1. <<fd[p], p>> \in Nat \X Procs BY DEF LockInv
      <3> QED BY <2>1, <3>1 DEF LockInv
    <2>4. \A q \in Procs : pc'[q] \in {"writer", "pruning", "renamed"} => <<fd'[q], q>> \in locks'
      BY <2>1 DEF LockInv
    <2>5. pc' \in [Procs -> LockSteps]
      BY <2>1 DEF LockInv, LockSteps
    <2>6. fd' \in [Procs -> Nat]
      BY <2>1 DEF LockInv
    <2> QED BY <2>2, <2>3, <2>4, <2>5, <2>6
  <1>2. CASE ~CanLock(p)
    <2>1. /\ locks' = locks /\ fd' = [fd EXCEPT ![p] = 0]
          /\ pc' = [pc EXCEPT ![p] = refused]
      BY <1>2 DEF Flock, NoFile
    <2>2. pc' \in [Procs -> LockSteps] /\ fd' \in [Procs -> Nat]
      BY <2>1 DEF LockInv, LockSteps
    <2>3. \A q \in Procs : pc'[q] \in {"writer", "pruning", "renamed"} => <<fd'[q], q>> \in locks'
      BY <2>1 DEF LockInv
    <2> QED BY <2>1, <2>2, <2>3 DEF LockInv
  <1> QED BY <1>1, <1>2

\* Every step of open, prune_expired and close keeps the lock invariant.
LEMMA LockStepKeeps == LockInv /\ [LockNext]_lockVars => LockInv'
  <1> SUFFICES ASSUME LockInv, [LockNext]_lockVars PROVE LockInv'
    OBVIOUS
  <1>1. CASE UNCHANGED lockVars
    BY <1>1 DEF LockInv, lockVars
  <1>2. ASSUME NEW p \in Procs, OpenFile(p) PROVE LockInv'
    BY <1>2 DEF OpenFile, LockInv, LockSteps
  <1>3. ASSUME NEW p \in Procs, OpenLock(p) PROVE LockInv'
    <2>1. Flock(p, "writer", "closed") /\ pc[p] = "opening" BY <1>3 DEF OpenLock
    <2>2. temp' \in Nat /\ path' \in Nat /\ made' \in Nat
      BY <1>3 DEF OpenLock, LockInv, NoFile, LockSteps
    <2> QED BY <2>1, <2>2, FlockKeepsLockInv DEF LockInv
  <1>4. ASSUME NEW p \in Procs, PruneWrite(p) PROVE LockInv'
    <2>1. made' \in Nat /\ temp' \in Nat
      BY <1>4 DEF PruneWrite, LockInv
    <2>2. pc' \in [Procs -> LockSteps] /\ UNCHANGED <<fd, locks, path>>
      BY <1>4 DEF PruneWrite, LockInv, LockSteps
    <2>3. \A q \in Procs : pc'[q] \in {"writer", "pruning", "renamed"} => <<fd[q], q>> \in locks
      BY <1>4 DEF PruneWrite, LockInv
    <2> QED BY <2>1, <2>2, <2>3 DEF LockInv
  <1>5. ASSUME NEW p \in Procs, PruneRename(p) PROVE LockInv'
    BY <1>5 DEF PruneRename, LockInv, NoFile, LockSteps
  <1>6. ASSUME NEW p \in Procs, NEW next \in {"dropped", "closed"}, DropHandle(p),
               pc' = [pc EXCEPT ![p] = next], UNCHANGED <<path, temp, made>>
        PROVE LockInv'
    <2>1. \A q \in Procs : pc'[q] \in {"writer", "pruning", "renamed"} => <<fd'[q], q>> \in locks'
      BY <1>6 DEF DropHandle, LockInv
    <2> QED BY <1>6, <2>1 DEF DropHandle, LockInv, NoFile, LockSteps
  <1>7. ASSUME NEW p \in Procs, PruneDrop(p) PROVE LockInv'
    BY <1>6, <1>7 DEF PruneDrop
  <1>8. ASSUME NEW p \in Procs, PruneReopen(p) PROVE LockInv'
    BY <1>8 DEF PruneReopen, LockInv, LockSteps
  <1>9. ASSUME NEW p \in Procs, PruneLock(p) PROVE LockInv'
    <2>1. Flock(p, "writer", "shut out") /\ pc[p] = "reopening" BY <1>9 DEF PruneLock
    <2>2. temp' \in Nat /\ path' \in Nat /\ made' \in Nat
      BY <1>9 DEF PruneLock, LockInv
    <2> QED BY <2>1, <2>2, FlockKeepsLockInv DEF LockInv
  <1>10. ASSUME NEW p \in Procs, Close(p) PROVE LockInv'
    BY <1>6, <1>10 DEF Close
  <1> QED
    BY <1>1, <1>2, <1>3, <1>4, <1>5, <1>7, <1>8, <1>9, <1>10 DEF LockNext

\* For any number of processes and inodes: a handle in the middle of its life holds
\* the lock of its inode, and no inode is locked twice, through every interleaving of
\* open, prune_expired and close.
THEOREM LockInvariant == LockSpec => []LockInv
  <1>1. LockInit => LockInv
    BY DEF LockInit, LockInv, NoFile, LockSteps
  <1> QED BY <1>1, LockStepKeeps, PTL DEF LockSpec

\* MD3 for any number of processes: two handles that append never append to one file.
THEOREM LockWritersDisjoint == LockSpec => []WritersDisjoint
  <1>1. LockInv => WritersDisjoint
    BY DEF LockInv, WritersDisjoint, Writing
  <1> QED BY <1>1, LockInvariant, PTL

-----------------------------------------------------------------------------
(* Start-up.                                                               *)

BootType ==
    /\ bootPc \in Files \cup {"down", "rest", "ledger", "running"}
    /\ drawn \in Nat /\ excused \subseteq Files
    /\ file \in [Files -> Nat \cup {TornFile}]
    /\ keys \in [Files -> Nat] /\ known \in [Files -> Nat]

\* A file in use that nobody removed holds what the node has used.
FileKept(f) == known[f] # Absent /\ f \notin excused => file[f] = known[f]

\* The key files main has been through when it is about to take a step.
Passed(pc0) ==
    CASE pc0 = "pub" -> {"secret"}
      [] pc0 = "sig" -> {"secret", "pub"}
      [] pc0 = "rest" -> KeyFiles
      [] OTHER -> {}

\* What is in memory is what is on disk, for the files main has been through.
KeysOnDisk == \A f \in Passed(bootPc) : keys[f] = file[f]

\* The public key belongs to the secret: in memory, among what the node has used, and
\* on disk unless the secret was removed.
PubOfSecret ==
    /\ "pub" \in Passed(bootPc) \/ (open /\ bootPc = "pub") => keys["pub"] = keys["secret"]
    /\ known["pub"] = known["secret"]
    /\ file["pub"] > 0 /\ "secret" \notin excused => file["pub"] = file["secret"]

\* A file that is being written was missing, unreadable or short.
BeingWritten ==
    open => /\ bootPc \in Files
            /\ file[bootPc] = TornFile
            /\ known[bootPc] # Absent => bootPc \in excused \/ bootPc = "pub"

BootInv ==
    /\ BootType
    /\ \A f \in {"secret", "sig", "token"} : FileKept(f)
    /\ KeysOnDisk /\ PubOfSecret /\ BeingWritten
    /\ bootPc \in {"ledger", "token", "running"} => excused \cap KeyFiles = {}
    /\ outcome = "PubMismatch" => bootPc = "down" /\ "secret" \in excused

\* fatal ends the process: nothing on disk changes.
LEMMA FatalKeepsBootInv ==
    ASSUME BootInv, NEW error, Fatal(error), error = "PubMismatch" => "secret" \in excused
    PROVE  BootInv'
  <1>1. bootPc' = "down" /\ ~open' /\ keys' = NoKeys /\ outcome' = error
        /\ UNCHANGED <<file, drawn, known, excused>>
    BY DEF Fatal
  <1>2. BootType'
    BY <1>1 DEF BootInv, BootType, NoKeys, Absent
  <1>3. (\A f \in {"secret", "sig", "token"} : FileKept(f))'
    BY <1>1 DEF BootInv, FileKept
  <1>4. KeysOnDisk' /\ PubOfSecret' /\ BeingWritten'
    BY <1>1 DEF BootInv, KeysOnDisk, PubOfSecret, BeingWritten, Passed
  <1> QED BY <1>1, <1>2, <1>3, <1>4 DEF BootInv

\* The steps of load_or_generate on one key file.
LEMMA KeyStepKeepsBootInv ==
    ASSUME BootInv, NEW f \in KeyFiles,
           LoadKey(f) \/ DrawKey(f) \/ WriteKey(f)
    PROVE  BootInv'
  <1> USE DEF KeyFiles, Files, Absent, TornFile
  <1>1. CASE LoadKey(f)
    <2>1. /\ bootPc = f /\ ~open /\ keys' = [keys EXCEPT ![f] = file[f]] /\ bootPc' = After(f)
          /\ UNCHANGED <<file, open, drawn, known, excused, outcome>>
          /\ file[f] \in Nat /\ (f = "pub" => file[f] = keys["secret"])
      BY <1>1 DEF LoadKey, ReadKeyFile, Missing, BootInv, BootType
    <2>2. BootType'
      BY <2>1 DEF BootInv, BootType, After
    <2>3. KeysOnDisk' /\ PubOfSecret' /\ BeingWritten'
      BY <2>1 DEF BootInv, BootType, KeysOnDisk, PubOfSecret, BeingWritten, Passed, After
    <2> QED BY <2>1, <2>2, <2>3 DEF BootInv, FileKept, After
  <1>2. CASE DrawKey(f)
    <2>1. /\ bootPc = f /\ ~open /\ open' /\ file[f] = 0 /\ bootPc' = f
          /\ file' = [file EXCEPT ![f] = -1] /\ drawn' \in Nat
          /\ UNCHANGED <<known, excused, outcome>>
      BY <1>2 DEF DrawKey, ReadKeyFile, Missing, BootInv, BootType
    <2>2. keys' = [keys EXCEPT ![f] = IF f = "pub" THEN keys["secret"] ELSE drawn + 1]
      BY <1>2 DEF DrawKey
    <2>3. BootType'
      BY <2>1, <2>2 DEF BootInv, BootType
    <2>4. (\A g \in {"secret", "sig", "token"} : FileKept(g))'
      BY <2>1 DEF BootInv, BootType, FileKept
    <2>5. KeysOnDisk' /\ PubOfSecret' /\ BeingWritten'
      BY <2>1, <2>2 DEF BootInv, BootType, KeysOnDisk, PubOfSecret, BeingWritten, Passed, FileKept
    <2> QED BY <2>1, <2>3, <2>4, <2>5 DEF BootInv
  <1>3. CASE WriteKey(f)
    <2>1. /\ bootPc = f /\ open /\ ~open' /\ bootPc' = After(f)
          /\ file' = [file EXCEPT ![f] = keys[f]]
          /\ UNCHANGED <<keys, drawn, known, excused, outcome>>
      BY <1>3 DEF WriteKey
    <2>2. BootType'
      BY <2>1 DEF BootInv, BootType, After
    <2>3. (\A g \in {"secret", "sig", "token"} : FileKept(g))'
      BY <2>1 DEF BootInv, BootType, FileKept, BeingWritten
    <2>4. KeysOnDisk' /\ PubOfSecret' /\ BeingWritten'
      BY <2>1 DEF BootInv, BootType, KeysOnDisk, PubOfSecret, BeingWritten, Passed, After
    <2> QED BY <2>1, <2>2, <2>3, <2>4 DEF BootInv, After
  <1> QED BY <1>1, <1>2, <1>3

\* A write that fails leaves a file torn that was not whole, or whole with the new key.
LEMMA WriteFailsKeepsBootInv ==
    ASSUME BootInv, NEW f \in Files, WriteFails(f)
    PROVE  BootInv'
  <1> USE DEF KeyFiles, Files, Absent, TornFile
  <1>1. PICK v \in {-1} \cup (IF f = "token" THEN {} ELSE {keys[f]}) : file' = [file EXCEPT ![f] = v]
    BY DEF WriteFails
  <1>2. /\ bootPc = f /\ open /\ bootPc' = "down" /\ ~open' /\ keys' = NoKeys
        /\ outcome' = "DiskError" /\ UNCHANGED <<drawn, known, excused>>
    BY DEF WriteFails
  <1>3. BootType'
    BY <1>1, <1>2 DEF BootInv, BootType, NoKeys
  <1>4. (\A g \in {"secret", "sig", "token"} : FileKept(g))'
    BY <1>1, <1>2 DEF BootInv, BootType, FileKept, BeingWritten
  <1>5. KeysOnDisk' /\ PubOfSecret' /\ BeingWritten'
    BY <1>1, <1>2 DEF BootInv, BootType, KeysOnDisk, PubOfSecret, BeingWritten, Passed
  <1> QED BY <1>2, <1>3, <1>4, <1>5 DEF BootInv

\* The steps of main around the key files, the token's, and the operator's.
LEMMA MainStepKeepsBootInv ==
    ASSUME BootInv,
           \/ Start \/ Announce \/ Attach \/ LoadToken \/ SaveToken
           \/ \E err \in BOOLEAN : DrawToken(err)
           \/ \E f \in Files : RemoveFile(f)
    PROVE  BootInv'
  <1> USE DEF KeyFiles, Files, Absent, TornFile
  <1>1. CASE Start
    <2>1. KeysOnDisk' /\ PubOfSecret' /\ BeingWritten'
      BY <1>1 DEF Start, BootInv, BootType, KeysOnDisk, PubOfSecret, BeingWritten, Passed
    <2> QED BY <1>1, <2>1 DEF Start, BootInv, BootType, FileKept
  <1>2. CASE Announce
    <2>1. /\ bootPc = "rest" /\ bootPc' = "ledger" /\ excused' = excused \ KeyFiles
          /\ known' = [known EXCEPT !["secret"] = keys["secret"], !["pub"] = keys["pub"],
                                    !["sig"] = keys["sig"]]
          /\ UNCHANGED <<file, open, keys, drawn, outcome>>
      BY <1>2 DEF Announce
    <2>2. \A f \in KeyFiles : keys[f] = file[f]
      BY <2>1 DEF BootInv, KeysOnDisk, Passed
    <2>3. keys["pub"] = keys["secret"] /\ ~open
      BY <2>1 DEF BootInv, PubOfSecret, BeingWritten, Passed
    <2>4. BootType'
      BY <2>1 DEF BootInv, BootType
    <2>5. (\A g \in {"secret", "sig", "token"} : FileKept(g))'
      BY <2>1, <2>2 DEF BootInv, BootType, FileKept
    <2>6. KeysOnDisk' /\ PubOfSecret' /\ BeingWritten'
      BY <2>1, <2>2, <2>3 DEF BootInv, BootType, KeysOnDisk, PubOfSecret, BeingWritten, Passed
    <2> QED BY <2>1, <2>4, <2>5, <2>6 DEF BootInv
  <1>3. CASE Attach
    <2>1. KeysOnDisk' /\ PubOfSecret' /\ BeingWritten'
      BY <1>3 DEF Attach, BootInv, BootType, KeysOnDisk, PubOfSecret, BeingWritten, Passed
    <2> QED BY <1>3, <2>1 DEF Attach, BootInv, BootType, FileKept
  <1>4. CASE LoadToken
    <2>1. /\ bootPc = "token" /\ ~open /\ bootPc' = "running" /\ excused' = {}
          /\ keys' = [keys EXCEPT !["token"] = file["token"]]
          /\ known' = [known EXCEPT !["token"] = file["token"]]
          /\ file["token"] \in Nat /\ UNCHANGED <<file, open, drawn, outcome>>
      BY <1>4 DEF LoadToken, BootInv, BootType
    <2>2. BootType'
      BY <2>1 DEF BootInv, BootType
    <2>3. (\A g \in {"secret", "sig", "token"} : FileKept(g))'
      BY <2>1 DEF BootInv, BootType, FileKept
    <2>4. KeysOnDisk' /\ PubOfSecret' /\ BeingWritten'
      BY <2>1 DEF BootInv, BootType, KeysOnDisk, PubOfSecret, BeingWritten, Passed
    <2> QED BY <2>1, <2>2, <2>3, <2>4 DEF BootInv
  <1>5. CASE SaveToken
    <2>1. /\ bootPc = "token" /\ open /\ ~open' /\ bootPc' = "running" /\ excused' = {}
          /\ file' = [file EXCEPT !["token"] = keys["token"]]
          /\ known' = [known EXCEPT !["token"] = keys["token"]]
          /\ UNCHANGED <<keys, drawn, outcome>>
      BY <1>5 DEF SaveToken
    <2>2. BootType'
      BY <2>1 DEF BootInv, BootType
    <2>3. (\A g \in {"secret", "sig", "token"} : FileKept(g))'
      BY <2>1 DEF BootInv, BootType, FileKept
    <2>4. KeysOnDisk' /\ PubOfSecret' /\ BeingWritten'
      BY <2>1 DEF BootInv, BootType, KeysOnDisk, PubOfSecret, BeingWritten, Passed
    <2> QED BY <2>1, <2>2, <2>3, <2>4 DEF BootInv
  <1>6. ASSUME NEW err \in BOOLEAN, DrawToken(err) PROVE BootInv'
    <2>1. /\ bootPc = "token" /\ ~open /\ open' /\ bootPc' = "token" /\ drawn' = drawn + 1
          /\ keys' = [keys EXCEPT !["token"] = drawn + 1]
          /\ file' = [file EXCEPT !["token"] = -1]
          /\ excused' = IF file["token"] > 0 THEN excused \cup {"token"} ELSE excused
          /\ UNCHANGED <<known, outcome>>
      BY <1>6 DEF DrawToken
    <2>2. BootType'
      BY <2>1 DEF BootInv, BootType
    <2>3. known["token"] # 0 => "token" \in excused'
      BY <2>1 DEF BootInv, BootType, FileKept
    <2>4. (\A g \in {"secret", "sig", "token"} : FileKept(g))'
      BY <2>1, <2>3 DEF BootInv, BootType, FileKept
    <2>5. KeysOnDisk' /\ PubOfSecret' /\ BeingWritten'
      BY <2>1, <2>3 DEF BootInv, BootType, KeysOnDisk, PubOfSecret, BeingWritten, Passed
    <2> QED BY <2>1, <2>2, <2>4, <2>5 DEF BootInv
  <1>7. ASSUME NEW f \in Files, RemoveFile(f) PROVE BootInv'
    <2>1. /\ bootPc = "down" /\ ~open /\ file' = [file EXCEPT ![f] = 0]
          /\ excused' = excused \cup {f}
          /\ UNCHANGED <<bootPc, open, keys, drawn, known, outcome>>
      BY <1>7 DEF RemoveFile, BootInv, BeingWritten
    <2>2. BootType'
      BY <2>1 DEF BootInv, BootType
    <2>3. (\A g \in {"secret", "sig", "token"} : FileKept(g))'
      BY <2>1 DEF BootInv, BootType, FileKept
    <2>4. KeysOnDisk' /\ PubOfSecret' /\ BeingWritten'
      BY <2>1 DEF BootInv, BootType, KeysOnDisk, PubOfSecret, BeingWritten, Passed
    <2> QED BY <2>1, <2>2, <2>3, <2>4 DEF BootInv
  <1> QED BY <1>1, <1>2, <1>3, <1>4, <1>5, <1>6, <1>7

\* load_or_generate refuses a public key file only when it does not belong to the
\* secret it has read, and that takes the removal of the secret.
LEMMA RefusalExcused ==
    ASSUME BootInv, NEW f \in KeyFiles, KeyRefused(f)
    PROVE  \E error : Fatal(error) /\ (error = "PubMismatch" => "secret" \in excused)
  <1>1. PICK err \in BOOLEAN : LET read == ReadKeyFile(f, err)
                               IN  /\ bootPc = f /\ read # "Some"
                                   /\ Fatal(IF read = "None" THEN "DiskError" ELSE read)
    BY DEF KeyRefused
  <1> DEFINE read == ReadKeyFile(f, err)
  <1>2. ASSUME read = "PubMismatch" PROVE "secret" \in excused
    <2>1. f = "pub" /\ file["pub"] # keys["secret"] /\ file["pub"] \notin {Absent, TornFile}
      BY <1>2 DEF ReadKeyFile, Missing
    <2>2. keys["secret"] = file["secret"]
      BY <1>1, <2>1 DEF BootInv, KeysOnDisk, Passed
    <2>3. file["pub"] > 0
      BY <2>1 DEF BootInv, BootType, Files, KeyFiles, Absent, TornFile
    <2> QED BY <2>1, <2>2, <2>3 DEF BootInv, PubOfSecret
  <1>3. CASE read = "None"
    BY <1>1, <1>3
  <1>4. CASE read # "None"
    BY <1>1, <1>2, <1>4
  <1> QED BY <1>3, <1>4

\* Every step of a start, a crash or an operator keeps the start-up invariant.
LEMMA BootStepKeeps == BootInv /\ [BootNext]_bootVars => BootInv'
  <1> SUFFICES ASSUME BootInv, [BootNext]_bootVars PROVE BootInv'
    OBVIOUS
  <1>1. CASE UNCHANGED bootVars
    BY <1>1 DEF bootVars, BootInv, BootType, FileKept, KeysOnDisk, PubOfSecret, BeingWritten, Passed
  <1>2. CASE RestRefused \/ AttachFails \/ TokenRefused \/ Crash
    <2>1. \E error : Fatal(error) /\ error # "PubMismatch"
      BY <1>2 DEF RestRefused, AttachFails, TokenRefused, Crash
    <2> QED BY <2>1, FatalKeepsBootInv
  <1>3. ASSUME NEW f \in KeyFiles, KeyRefused(f) PROVE BootInv'
    BY <1>3, RefusalExcused, FatalKeepsBootInv
  <1>4. ASSUME NEW f \in KeyFiles, LoadKey(f) \/ DrawKey(f) \/ WriteKey(f) PROVE BootInv'
    BY <1>4, KeyStepKeepsBootInv
  <1>5. ASSUME NEW f \in Files, WriteFails(f) PROVE BootInv'
    BY <1>5, WriteFailsKeepsBootInv
  <1>6. ASSUME \/ Start \/ Announce \/ Attach \/ LoadToken \/ SaveToken
               \/ \E err \in BOOLEAN : DrawToken(err)
               \/ \E f \in Files : RemoveFile(f)
        PROVE  BootInv'
    BY <1>6, MainStepKeepsBootInv
  <1> QED BY <1>1, <1>2, <1>3, <1>4, <1>5, <1>6 DEF BootNext, Files

\* For any number of starts, whatever fails in them: the files hold what the node has
\* used unless they were removed, memory agrees with the disk, and a file that is being
\* written held nothing of value.
THEOREM BootInvariant == BootSpec => []BootInv
  <1>1. BootInit => BootInv
    BY DEF BootInit, BootInv, BootType, NoKeys, Files, KeyFiles, Absent, TornFile, FileKept,
           KeysOnDisk, PubOfSecret, BeingWritten, Passed
  <1> QED BY <1>1, BootStepKeeps, PTL DEF BootSpec

\* D-018 for any number of starts: no step announces a key other than the one announced
\* before, or another token, unless an operator removed the file or the token could not
\* be read; and PubMismatch is reported only after a removal of the secret.
THEOREM BootIsStable == BootSpec => BootStable
  <1>1. BootInv /\ [BootNext]_bootVars =>
          [/\ \A f \in Files :
                known[f] # Absent /\ known'[f] # known[f] =>
                    (IF f = "pub" THEN "secret" ELSE f) \in excused
           /\ outcome' = "PubMismatch" => "secret" \in excused]_bootVars
    <2> SUFFICES ASSUME BootInv, BootNext
                 PROVE  /\ \A f \in Files : known[f] # Absent /\ known'[f] # known[f] =>
                              (IF f = "pub" THEN "secret" ELSE f) \in excused
                        /\ outcome' = "PubMismatch" => "secret" \in excused
      OBVIOUS
    <2>1. CASE Announce
      <3>1. /\ \A f \in KeyFiles : keys[f] = file[f]
            /\ keys["pub"] = keys["secret"] /\ known["pub"] = known["secret"]
        BY <2>1 DEF Announce, BootInv, KeysOnDisk, PubOfSecret, Passed, KeyFiles
      <3>2. known' = [known EXCEPT !["secret"] = keys["secret"], !["pub"] = keys["pub"],
                                   !["sig"] = keys["sig"]]
        BY <2>1 DEF Announce
      <3>3. outcome' = outcome /\ bootPc = "rest"
        BY <2>1 DEF Announce
      <3> QED BY <3>1, <3>2, <3>3 DEF BootInv, BootType, FileKept, Files, KeyFiles
    <2>2. CASE LoadToken
      BY <2>2 DEF LoadToken, BootInv, BootType, FileKept, Files, KeyFiles
    <2>3. CASE SaveToken
      BY <2>3 DEF SaveToken, BootInv, BootType, BeingWritten, Files, KeyFiles
    <2>4. ASSUME NEW f \in KeyFiles, KeyRefused(f)
          PROVE  known' = known /\ (outcome' = "PubMismatch" => "secret" \in excused)
      BY <2>4, RefusalExcused DEF Fatal
    <2>5. CASE RestRefused \/ AttachFails \/ TokenRefused \/ Crash
      BY <2>5 DEF RestRefused, AttachFails, TokenRefused, Crash, Fatal
    <2>6. ASSUME NEW f \in Files, LoadKey(f) \/ DrawKey(f) \/ WriteKey(f) \/ RemoveFile(f)
          PROVE  known' = known /\ outcome' = outcome
      BY <2>6 DEF LoadKey, DrawKey, WriteKey, RemoveFile
    <2>7. ASSUME NEW f \in Files, WriteFails(f) PROVE known' = known /\ outcome' = "DiskError"
      BY <2>7 DEF WriteFails
    <2>8. CASE Start \/ Attach \/ \E err \in BOOLEAN : DrawToken(err)
      BY <2>8 DEF Start, Attach, DrawToken, BootInv
    <2>9. outcome = "PubMismatch" => "secret" \in excused
      BY DEF BootInv
    <2> QED
      BY <2>1, <2>2, <2>3, <2>4, <2>5, <2>6, <2>7, <2>8, <2>9 DEF BootNext, Files
  <1> QED BY <1>1, BootInvariant, PTL DEF BootSpec, BootStable

-----------------------------------------------------------------------------
(* recover() as a walk over the bytes of the log, and a record at its end. *)

\* r has what recover() has read after each byte of f, up to byte N.
Pass(f, N, r) ==
    r = [n \in 0 .. N |-> IF n = 0 THEN Reader(0, TRUE, NewCaches) ELSE ReadAt(f, n, r[n - 1])]

\* There is such an r.
LEMMA PassExists ==
  ASSUME NEW f, NEW N \in Nat
  PROVE  \E r : Pass(f, N, r)
  <1> DEFINE T == {n \in Nat : ~ \E r : Pass(f, n, r)}
  <1> SUFFICES ASSUME T # {} PROVE FALSE OBVIOUS
  <1>1. PICK m \in T : \A k \in T : m <= k
    <2>1. T \in SUBSET Nat OBVIOUS
    <2> QED BY <2>1, LeastNatural
  <1>2. CASE m = 0
    <2> DEFINE r == [n \in 0 .. 0 |-> Reader(0, TRUE, NewCaches)]
    <2>1. \A n \in 0 .. 0 : n = 0 OBVIOUS
    <2>2. Pass(f, 0, r) BY <2>1 DEF Pass
    <2> QED BY <1>1, <1>2, <2>2
  <1>3. CASE m # 0
    <2>1. m - 1 \in Nat /\ m \in Nat /\ ~(m <= m - 1) BY <1>1, <1>3
    <2>2. PICK q : Pass(f, m - 1, q) BY <1>1, <2>1
    <2> DEFINE r == [n \in 0 .. m |-> IF n = 0 THEN Reader(0, TRUE, NewCaches)
                                      ELSE ReadAt(f, n, q[n - 1])]
    <2>3. \A n \in 0 .. m - 1 : n \in 0 .. m /\ r[n] = q[n]
      <3> SUFFICES ASSUME NEW n \in 0 .. m - 1 PROVE n \in 0 .. m /\ r[n] = q[n] OBVIOUS
      <3>1. n \in 0 .. m BY <2>1
      <3> QED BY <2>2, <3>1, Zenon DEF Pass
    <2>4. \A n \in 0 .. m : n # 0 => n - 1 \in 0 .. m - 1 BY <2>1
    <2>5. \A n \in 0 .. m : r[n] = IF n = 0 THEN Reader(0, TRUE, NewCaches)
                                   ELSE ReadAt(f, n, r[n - 1])
      <3> SUFFICES ASSUME NEW n \in 0 .. m
                   PROVE  r[n] = IF n = 0 THEN Reader(0, TRUE, NewCaches) ELSE ReadAt(f, n, r[n - 1])
        OBVIOUS
      <3>1. r[n] = IF n = 0 THEN Reader(0, TRUE, NewCaches) ELSE ReadAt(f, n, q[n - 1])
        BY Zenon
      <3> HIDE DEF r
      <3> QED BY <2>3, <2>4, <3>1
    <2>6. r = [n \in 0 .. m |-> r[n]] OBVIOUS
    <2> HIDE DEF r
    <2>7. Pass(f, m, r) BY <2>5, <2>6, Zenon DEF Pass
    <2> QED BY <1>1, <2>7
  <1> QED BY <1>2, <1>3

\* The same, step by step.
Goes(f, N, r) == r[0] = Reader(0, TRUE, NewCaches) /\ \A n \in 1 .. N : r[n] = ReadAt(f, n, r[n - 1])

\* A pass goes step by step.
LEMMA PassStep ==
  ASSUME NEW f, NEW N \in Nat, NEW r, Pass(f, N, r)
  PROVE  Goes(f, N, r)
  <1>1. 0 \in 0 .. N /\ \A n \in 1 .. N : n \in 0 .. N /\ n # 0 OBVIOUS
  <1> QED BY <1>1, Zenon DEF Pass, Goes

\* No record starts at a byte after n when off bytes have been read.
Rests(N, n, off) == \A m \in n + 1 .. N : off # m - 1

\* Scan is the end of a pass over the whole file.
LEMMA ScanIsPass ==
  ASSUME NEW f, Len(f) \in Nat
  PROVE  \E r : Pass(f, Len(f), r) /\ Scan(f) = r[Len(f)]
  <1>1. Scan(f) = (CHOOSE r : Pass(f, Len(f), r))[Len(f)]
    BY Zenon DEF Scan, Pass
  <1>2. PICK r : r = CHOOSE q : Pass(f, Len(f), q) OBVIOUS
  <1>3. Pass(f, Len(f), r) BY <1>2, PassExists
  <1> QED BY <1>1, <1>2, <1>3

\* Where no record starts, nothing is read.
LEMMA PassRests ==
  ASSUME NEW f, NEW N \in Nat, NEW r, Pass(f, N, r), NEW n \in 0 .. N,
         Rests(N, n, r[n].off)
  PROVE  r[N] = r[n]
  <1> DEFINE T == {m \in n .. N : r[m] # r[n]}
  <1> SUFFICES ASSUME T # {} PROVE FALSE
    <2>1. N \in n .. N OBVIOUS
    <2> QED BY <2>1
  <1>1. PICK m \in T : \A k \in T : m <= k
    <2>1. T \in SUBSET Nat OBVIOUS
    <2> QED BY <2>1, LeastNatural
  <1>2. m # n BY <1>1
  <1>3. m - 1 \in n .. N /\ ~(m <= m - 1) /\ m \in n + 1 .. N /\ m \in 1 .. N BY <1>2
  <1>4. r[m - 1] = r[n] BY <1>1, <1>3
  <1>5. r[m] = ReadAt(f, m, r[n])
    <2>1. r[m] = ReadAt(f, m, r[m - 1]) BY <1>3, PassStep DEF Goes
    <2> QED BY <1>4, <2>1
  <1>6. r[n].off # m - 1 BY <1>3 DEF Rests
  <1>7. r[m] = r[n] BY <1>5, <1>6, Zenon DEF ReadAt
  <1> QED BY <1>1, <1>7

IsSeq(f) == \E S : f \in Seq(S)

\* A record takes at least its tag, and its lengths are numbers.
LEMMA RecLenType ==
  ASSUME NEW tag
  PROVE  /\ KeyLen(tag) \in Nat \ {0} /\ NumLen(tag) \in Nat /\ RecLen(tag) \in Nat \ {0}
         /\ RecLen(tag) = 1 + KeyLen(tag) + NumLen(tag)
  BY LayoutAssumption DEF KeyLen, NumLen, RecLen

\* b has the bytes of a record.
IsRecord(b, tag, key, num) ==
    /\ IsSeq(b) /\ Len(b) = RecLen(tag) /\ b[1] = <<"tag", tag, 0>>
    /\ \A k \in 1 .. KeyLen(tag) : b[k + 1] = <<"key", key, k>>
    /\ \A k \in 1 .. NumLen(tag) : b[k + 1 + KeyLen(tag)] = <<"num", num, k>>

\* The bytes of a record: its tag, its key and, if it has one, its number.
LEMMA BytesOf ==
  ASSUME NEW tag, NEW key, NEW num, NEW b, b = Bytes(Rec(tag, key, num))
  PROVE  IsRecord(b, tag, key, num)
  <1> DEFINE v(j) == IF j = 1 THEN <<"tag", tag, 0>>
                     ELSE IF j <= 1 + KeyLen(tag) THEN <<"key", key, j - 1>>
                     ELSE <<"num", num, j - 1 - KeyLen(tag)>>
  <1>1. b = [j \in 1 .. RecLen(tag) |-> v(j)] BY DEF Bytes, Rec
  <1>2. RecLen(tag) \in Nat \ {0} /\ KeyLen(tag) \in Nat \ {0} /\ NumLen(tag) \in Nat
        /\ RecLen(tag) = 1 + KeyLen(tag) + NumLen(tag)
    BY RecLenType
  <1>3. IsSeq(b) /\ Len(b) = RecLen(tag)
    <2> DEFINE S == {v(j) : j \in 1 .. RecLen(tag)}
    <2>1. b \in [1 .. RecLen(tag) -> S] BY <1>1
    <2> HIDE DEF S
    <2>2. b \in Seq(S) /\ Len(b) = RecLen(tag) BY <1>2, <2>1
    <2> QED BY <2>2 DEF IsSeq
  <1>4. b[1] = <<"tag", tag, 0>>
    <2>1. 1 \in 1 .. RecLen(tag) BY <1>2
    <2> QED BY <1>1, <2>1
  <1>5. ASSUME NEW k \in 1 .. KeyLen(tag) PROVE b[k + 1] = <<"key", key, k>>
    <2>1. k + 1 \in 1 .. RecLen(tag) /\ k + 1 # 1 /\ k + 1 <= 1 + KeyLen(tag) /\ k + 1 - 1 = k
      BY <1>2
    <2>2. b[k + 1] = v(k + 1) BY <1>1, <2>1
    <2> QED BY <2>1, <2>2
  <1>6. ASSUME NEW k \in 1 .. NumLen(tag) PROVE b[k + 1 + KeyLen(tag)] = <<"num", num, k>>
    <2> DEFINE j == k + 1 + KeyLen(tag)
    <2>1. j \in 1 .. RecLen(tag) /\ j # 1 /\ ~(j <= 1 + KeyLen(tag)) /\ j - 1 - KeyLen(tag) = k
      BY <1>2
    <2>2. b[j] = v(j) BY <1>1, <2>1
    <2> QED BY <2>1, <2>2
  <1> QED BY <1>3, <1>4, <1>5, <1>6 DEF IsRecord

\* Two files are alike in the record that starts at byte n.
LEMMA ReadSame ==
  ASSUME NEW f, NEW h, NEW n \in Nat \ {0}, NEW r, IsSeq(f), IsSeq(h), n <= Len(f), Len(f) <= Len(h),
         \A j \in 1 .. Len(f) : h[j] = f[j],
         r.off = n - 1 /\ f[n][1] = "tag" => n - 1 + RecLen(f[n][2]) <= Len(f)
  PROVE  ReadAt(h, n, r) = ReadAt(f, n, r)
  <1>0. Len(f) \in Nat /\ Len(h) \in Nat BY DEF IsSeq
  <1>1. h[n] = f[n] BY <1>0
  <1>2. CASE r.off # n - 1
    BY <1>2, Zenon DEF ReadAt
  <1>3. CASE r.off = n - 1 /\ f[n][1] # "tag"
    <2>1. ReadAt(h, n, r) = Reader(r.off, FALSE, r.c) BY <1>1, <1>3 DEF ReadAt
    <2>2. ReadAt(f, n, r) = Reader(r.off, FALSE, r.c) BY <1>3 DEF ReadAt
    <2> QED BY <2>1, <2>2
  <1>4. CASE r.off = n - 1 /\ f[n][1] = "tag"
    <2> DEFINE tag == f[n][2]
               key(x) == Field(x, n + 1, KeyLen(tag), "key", Garbled)
               num(x) == IF NumLen(tag) = 0 THEN 0
                         ELSE Field(x, n + 1 + KeyLen(tag), NumLen(tag), "num", GarbledNum)
               read(x) == Reader(r.off + RecLen(tag), r.ok, ApplyRec(r.c, Rec(tag, key(x), num(x))))
    <2>1. /\ KeyLen(tag) \in Nat \ {0} /\ NumLen(tag) \in Nat
          /\ RecLen(tag) = 1 + KeyLen(tag) + NumLen(tag)
      BY RecLenType
    <2>0. n - 1 + RecLen(tag) <= Len(f) BY <1>4
    <2>2. ~(Len(f) - r.off < RecLen(tag)) /\ ~(Len(h) - r.off < RecLen(tag)) BY <1>0, <1>4, <2>1
    <2>3. key(h) = key(f)
      <3>0. n + 1 \in 1 .. Len(f) /\ \A k \in 1 .. KeyLen(tag) : n + 1 + k - 1 \in 1 .. Len(f)
        BY <1>0, <2>0, <2>1
      <3>1. h[n + 1] = f[n + 1] BY <3>0
      <3>2. \A k \in 1 .. KeyLen(tag) : h[n + 1 + k - 1] = f[n + 1 + k - 1] BY <3>0
      <3> QED BY <3>1, <3>2 DEF Field
    <2>4. num(h) = num(f)
      <3>1. CASE NumLen(tag) = 0 BY <3>1
      <3>2. CASE NumLen(tag) # 0
        <4>0. /\ n + 1 + KeyLen(tag) \in 1 .. Len(f)
              /\ \A k \in 1 .. NumLen(tag) : n + 1 + KeyLen(tag) + k - 1 \in 1 .. Len(f)
          <5>1. PICK x \in Nat \ {0} : x = KeyLen(tag) BY <2>1
          <5>2. PICK y \in Nat \ {0} : y = NumLen(tag) BY <2>1, <3>2
          <5>3. n - 1 + 1 + x + y <= Len(f) BY <2>0, <2>1, <5>1, <5>2
          <5>a. PICK z \in Nat : z = Len(f) BY <1>0
          <5>b. n + x + y <= z BY <5>1, <5>2, <5>3, <5>a
          <5>c. n + 1 + x \in 1 .. z BY <5>1, <5>2, <5>b, <5>a
          <5>d. \A k \in 1 .. y : n + 1 + x + k - 1 \in 1 .. z BY <5>1, <5>2, <5>b, <5>a
          <5>4. n + 1 + x \in 1 .. Len(f) /\ \A k \in 1 .. y : n + 1 + x + k - 1 \in 1 .. Len(f)
            BY <5>a, <5>c, <5>d
          <5> QED BY <5>1, <5>2, <5>4
        <4>1. h[n + 1 + KeyLen(tag)] = f[n + 1 + KeyLen(tag)] BY <4>0
        <4>2. \A k \in 1 .. NumLen(tag) : h[n + 1 + KeyLen(tag) + k - 1] = f[n + 1 + KeyLen(tag) + k - 1]
          BY <4>0
        <4> QED BY <3>2, <4>1, <4>2 DEF Field
      <3> QED BY <3>1, <3>2
    <2>5. ReadAt(f, n, r) = read(f)
      BY <1>4, <2>2, Zenon DEF ReadAt
    <2>6. ReadAt(h, n, r) = read(h)
      BY <1>1, <1>4, <2>2, Zenon DEF ReadAt
    <2> HIDE DEF key, num
    <2> QED BY <2>3, <2>4, <2>5, <2>6
  <1> QED BY <1>2, <1>3, <1>4

\* Over a file that is read to its end, a pass goes the same way when more follows.
LEMMA PassExtends ==
  ASSUME NEW f, NEW h, IsSeq(f), IsSeq(h), Len(f) <= Len(h), \A j \in 1 .. Len(f) : h[j] = f[j],
         Scan(f).off = Len(f)
  PROVE  \E r : Pass(h, Len(h), r) /\ Scan(h) = r[Len(h)] /\ r[Len(f)] = Scan(f)
  <1>0. Len(f) \in Nat /\ Len(h) \in Nat BY DEF IsSeq
  <1>1. PICK q : Pass(f, Len(f), q) /\ Scan(f) = q[Len(f)] BY <1>0, ScanIsPass
  <1>2. PICK r : Pass(h, Len(h), r) /\ Scan(h) = r[Len(h)] BY <1>0, ScanIsPass
  <1>a. PICK N \in Nat : N = Len(f) BY <1>0
  <1>b. PICK M \in Nat : M = Len(h) BY <1>0
  <1>c. Pass(f, N, q) /\ Pass(h, M, r) BY <1>1, <1>2, <1>a, <1>b
  <1>d. q[0] = Reader(0, TRUE, NewCaches) /\ \A n \in 1 .. N : q[n] = ReadAt(f, n, q[n - 1])
    <2>1. Goes(f, N, q) BY <1>a, <1>b, <1>c, PassStep
    <2> QED BY <2>1 DEF Goes
  <1>e. r[0] = Reader(0, TRUE, NewCaches) /\ \A n \in 1 .. M : r[n] = ReadAt(h, n, r[n - 1])
    <2>1. Goes(h, M, r) BY <1>a, <1>b, <1>c, PassStep
    <2> QED BY <2>1 DEF Goes
  <1> DEFINE T == {n \in 0 .. Len(f) : r[n] # q[n]}
  <1>3. T = {}
    <2> SUFFICES ASSUME T # {} PROVE FALSE OBVIOUS
    <2>1. PICK n \in T : \A k \in T : n <= k
      <3>1. T \in SUBSET Nat OBVIOUS
      <3> QED BY <3>1, LeastNatural
    <2>2. n # 0 BY <1>d, <1>e, <2>1
    <2>3. n - 1 \in 0 .. Len(f) /\ ~(n <= n - 1) /\ n \in 1 .. Len(f) /\ n \in 1 .. Len(h)
          /\ n \in Nat \ {0}
      BY <1>0, <2>1, <2>2
    <2>4. r[n - 1] = q[n - 1] BY <2>1, <2>3
    <2>5. q[n] = ReadAt(f, n, q[n - 1]) BY <1>a, <1>d, <2>3
    <2>6. r[n] = ReadAt(h, n, r[n - 1]) BY <1>b, <1>e, <2>3
    <2>7. PICK v : v = q[n - 1] OBVIOUS
    <2>8. v.off = n - 1 /\ f[n][1] = "tag" => n - 1 + RecLen(f[n][2]) <= Len(f)
      <3> SUFFICES ASSUME v.off = n - 1, f[n][1] = "tag", ~(n - 1 + RecLen(f[n][2]) <= Len(f))
                   PROVE  FALSE
        OBVIOUS
      <3>1. RecLen(f[n][2]) \in Nat BY RecLenType
      <3>2. Len(f) - v.off < RecLen(f[n][2]) BY <1>0, <2>3, <3>1
      <3>3. q[n] = v BY <2>5, <2>7, <3>2, Zenon DEF ReadAt
      <3>4. \A m \in n + 1 .. Len(f) : q[n].off # m - 1 BY <2>3, <3>3
      <3>5. n \in 0 .. Len(f) BY <2>1
      <3>6. q[Len(f)] = q[n]
        <4>1. Rests(N, n, q[n].off) BY <1>a, <3>4 DEF Rests
        <4>2. n \in 0 .. N BY <1>a, <3>5
        <4>3. Pass(f, N, q) BY <1>c
        <4>4. q[N] = q[n] BY <1>a, <4>1, <4>2, <4>3, PassRests
        <4> QED BY <1>a, <4>4
      <3> QED BY <1>0, <1>1, <2>3, <3>3, <3>6
    <2>9. n <= Len(f) BY <2>3
    <2>10. ReadAt(h, n, v) = ReadAt(f, n, v) BY <2>3, <2>8, <2>9, ReadSame
    <2> QED BY <2>1, <2>4, <2>5, <2>6, <2>7, <2>10
  <1>4. r[Len(f)] = q[Len(f)]
    <2>1. Len(f) \in 0 .. Len(f) BY <1>0
    <2> QED BY <1>3, <2>1
  <1> QED BY <1>1, <1>2, <1>4

\* A file without a byte.
LEMMA ScanEmpty == Scan(<<>>) = Reader(0, TRUE, NewCaches)
  <1>1. Len(<<>>) = 0 OBVIOUS
  <1>2. PICK r : Pass(<<>>, 0, r) /\ Scan(<<>>) = r[0]
    <2>1. \E r : Pass(<<>>, Len(<<>>), r) /\ Scan(<<>>) = r[Len(<<>>)] BY <1>1, ScanIsPass
    <2> QED BY <1>1, <2>1
  <1>3. Goes(<<>>, 0, r) BY <1>2, PassStep
  <1> QED BY <1>2, <1>3 DEF Goes

\* The bytes of a field lie from byte i on.
FieldAt(h, i, len, name, v) == \A j \in 1 .. len : h[i + j - 1] = <<name, v, j>>

\* The bytes of b lie behind byte N.
LiesBehind(h, N, len, b) == \A j \in 1 .. len : h[N + j] = b[j]

\* A field whose bytes belong together is read as its value.
LEMMA FieldReads ==
  ASSUME NEW h, NEW i \in Int, NEW len \in Nat \ {0}, NEW name, NEW v, NEW mixed,
         FieldAt(h, i, len, name, v)
  PROVE  Field(h, i, len, name, mixed) = v
  <1>1. 1 \in 1 .. len /\ i + 1 - 1 = i OBVIOUS
  <1>2. h[i] = <<name, v, 1>> BY <1>1 DEF FieldAt
  <1>3. <<name, v, 1>>[2] = v OBVIOUS
  <1>4. h[i][2] = v BY <1>2, <1>3, Zenon
  <1> QED BY <1>4, Zenon DEF Field, FieldAt

\* Where numbers lie in a file that has a record behind byte N.
LEMMA Places ==
  ASSUME NEW N \in Nat, NEW x \in Nat, NEW y \in Nat, NEW k, k = 1 + x + y
  PROVE  /\ \A j \in 1 .. x : j + 1 \in 1 .. k /\ N + 1 + 1 + j - 1 = N + (j + 1)
         /\ \A j \in 1 .. y : j + 1 + x \in 1 .. k /\ N + 1 + 1 + x + j - 1 = N + (j + 1 + x)
  OBVIOUS

\* A whole record behind byte N is applied.
LEMMA ReadRecord ==
  ASSUME NEW h, NEW N \in Nat, NEW r, r.off = N, NEW tag, NEW key, NEW num, NumLen(tag) = 0 => num = 0,
         NEW b, IsRecord(b, tag, key, num), LiesBehind(h, N, RecLen(tag), b),
         Len(h) = N + RecLen(tag)
  PROVE  ReadAt(h, N + 1, r) = Reader(N + RecLen(tag), r.ok, ApplyRec(r.c, Rec(tag, key, num)))
  <1>1. PICK x \in Nat \ {0} : x = KeyLen(tag) BY RecLenType
  <1>2. PICK y \in Nat : y = NumLen(tag) BY RecLenType
  <1>3. PICK k \in Nat \ {0} : k = RecLen(tag) BY RecLenType
  <1>4. k = 1 + x + y BY <1>1, <1>2, <1>3, RecLenType
  <1>5. /\ \A j \in 1 .. x : j + 1 \in 1 .. k /\ N + 1 + 1 + j - 1 = N + (j + 1)
        /\ \A j \in 1 .. y : j + 1 + x \in 1 .. k /\ N + 1 + 1 + x + j - 1 = N + (j + 1 + x)
    BY <1>4, Places
  <1>6. /\ b[1] = <<"tag", tag, 0>>
        /\ \A j \in 1 .. x : b[j + 1] = <<"key", key, j>>
        /\ \A j \in 1 .. y : b[j + 1 + x] = <<"num", num, j>>
    BY <1>1, <1>2 DEF IsRecord
  <1>7. PICK n \in Nat \ {0} : n = N + 1 OBVIOUS
  <1>8. h[n] = <<"tag", tag, 0>>
    <2>1. 1 \in 1 .. RecLen(tag) BY <1>3
    <2> QED BY <1>6, <1>7, <2>1 DEF LiesBehind
  <1>9. h[n][1] = "tag" /\ h[n][2] = tag
    <2>1. <<"tag", tag, 0>>[1] = "tag" /\ <<"tag", tag, 0>>[2] = tag OBVIOUS
    <2> QED BY <1>8, <2>1, Zenon
  <1>10. Field(h, n + 1, x, "key", Garbled) = key
    <2>1. ASSUME NEW j \in 1 .. x PROVE h[n + 1 + j - 1] = <<"key", key, j>>
      <3>1. n + 1 + j - 1 = N + (j + 1) /\ j + 1 \in 1 .. k BY <1>5, <1>7
      <3>2. h[N + (j + 1)] = b[j + 1] BY <1>3, <3>1 DEF LiesBehind
      <3> QED BY <1>6, <3>1, <3>2
    <2>2. FieldAt(h, n + 1, x, "key", key) BY <2>1 DEF FieldAt
    <2>3. n + 1 \in Int BY <1>7
    <2> QED BY <2>2, <2>3, FieldReads
  <1>11. y # 0 => Field(h, n + 1 + x, y, "num", GarbledNum) = num
    <2> SUFFICES ASSUME y # 0 PROVE Field(h, n + 1 + x, y, "num", GarbledNum) = num OBVIOUS
    <2>1. ASSUME NEW j \in 1 .. y PROVE h[n + 1 + x + j - 1] = <<"num", num, j>>
      <3>1. n + 1 + x + j - 1 = N + (j + 1 + x) /\ j + 1 + x \in 1 .. k BY <1>5, <1>7
      <3>2. h[N + (j + 1 + x)] = b[j + 1 + x] BY <1>3, <3>1 DEF LiesBehind
      <3> QED BY <1>6, <3>1, <3>2
    <2>2. n + 1 + x \in Int /\ y \in Nat \ {0} BY <1>1, <1>2, <1>7
    <2>3. FieldAt(h, n + 1 + x, y, "num", num) BY <2>1 DEF FieldAt
    <2> QED BY <2>2, <2>3, FieldReads
  <1>12. r.off = n - 1 /\ ~(Len(h) - r.off < k) BY <1>3, <1>7
  <1> DEFINE num1(t) == IF NumLen(t) = 0 THEN 0
                        ELSE Field(h, n + 1 + KeyLen(t), NumLen(t), "num", GarbledNum)
             key1(t) == Field(h, n + 1, KeyLen(t), "key", Garbled)
  <1>13. ~(Len(h) - r.off < RecLen(h[n][2])) BY <1>3, <1>9, <1>12
  <1>14. ReadAt(h, n, r) = Reader(r.off + RecLen(h[n][2]), r.ok,
                  ApplyRec(r.c, Rec(h[n][2], key1(h[n][2]), num1(h[n][2]))))
    BY <1>9, <1>12, <1>13, Zenon DEF ReadAt
  <1>15. key1(tag) = key BY <1>1, <1>10
  <1>16. num1(tag) = num BY <1>1, <1>2, <1>11
  <1> HIDE DEF num1, key1
  <1> QED BY <1>7, <1>9, <1>14, <1>15, <1>16

\* What follows a log that is read to its end is read as a record, or not at all as long
\* as it is shorter than one.
LEMMA ScanBehind ==
  ASSUME NEW f, IsSeq(f), NEW N \in Nat, N = Len(f), Scan(f).off = N,
         NEW tag, NEW key, NEW num, NumLen(tag) = 0 => num = 0, NEW b, IsRecord(b, tag, key, num),
         NEW k \in Nat \ {0}, k <= RecLen(tag), NEW h, IsSeq(h), NEW M \in Nat, M = N + k, M = Len(h),
         LiesBehind(h, 0, N, f), LiesBehind(h, N, k, b)
  PROVE  /\ k # RecLen(tag) => Scan(h) = Scan(f)
         /\ k = RecLen(tag) => Scan(h) = Reader(M, Scan(f).ok, ApplyRec(Scan(f).c, Rec(tag, key, num)))
  <1>1. PICK r : Pass(h, M, r) /\ Scan(h) = r[M] /\ r[N] = Scan(f)
    <2>1. \A j \in 1 .. Len(f) : h[j] = f[j] BY DEF LiesBehind
    <2>2. Len(f) <= Len(h) OBVIOUS
    <2>3. \E r : Pass(h, Len(h), r) /\ Scan(h) = r[Len(h)] /\ r[Len(f)] = Scan(f)
      BY <2>1, <2>2, PassExtends
    <2> QED BY <2>3
  <1>2. RecLen(tag) \in Nat \ {0} BY RecLenType
  <1>3. N + 1 \in 1 .. M /\ N + 1 \in 0 .. M OBVIOUS
  <1>4. r[N + 1] = ReadAt(h, N + 1, r[N])
    <2>1. Goes(h, M, r) BY <1>1, PassStep
    <2>2. r[N + 1] = ReadAt(h, N + 1, r[N + 1 - 1]) BY <1>3, <2>1 DEF Goes
    <2> QED BY <2>2
  <1>5. PICK q : q = r[N] OBVIOUS
  <1>6. q.off = N BY <1>1, <1>5
  <1>7. CASE k # RecLen(tag)
    <2>1. h[N + 1] = <<"tag", tag, 0>>
      <3>1. 1 \in 1 .. k OBVIOUS
      <3>2. h[N + 1] = b[1] BY <3>1 DEF LiesBehind
      <3> QED BY <3>2 DEF IsRecord
    <2>2. h[N + 1][1] = "tag" /\ h[N + 1][2] = tag
      <3>1. <<"tag", tag, 0>>[1] = "tag" /\ <<"tag", tag, 0>>[2] = tag OBVIOUS
      <3> QED BY <2>1, <3>1, Zenon
    <2>3. q.off = N + 1 - 1 /\ Len(h) - q.off < RecLen(h[N + 1][2]) BY <1>2, <1>6, <1>7, <2>2
    <2>4. ReadAt(h, N + 1, q) = q BY <2>2, <2>3, Zenon DEF ReadAt
    <2>5. r[N + 1] = q BY <1>4, <1>5, <2>4
    <2>6. Rests(M, N + 1, r[N + 1].off) BY <1>6, <2>5 DEF Rests
    <2>7. r[M] = r[N + 1] BY <1>1, <1>3, <2>6, PassRests
    <2> QED BY <1>1, <1>5, <1>7, <2>5, <2>7
  <1>8. CASE k = RecLen(tag)
    <2>1. LiesBehind(h, N, RecLen(tag), b) BY <1>8
    <2>2. Len(h) = N + RecLen(tag) BY <1>8
    <2>3. ReadAt(h, N + 1, q) = Reader(N + RecLen(tag), q.ok, ApplyRec(q.c, Rec(tag, key, num)))
      BY <1>6, <2>1, <2>2, ReadRecord
    <2>4. r[N + 1] = Reader(M, q.ok, ApplyRec(q.c, Rec(tag, key, num))) BY <1>4, <1>5, <1>8, <2>3
    <2>5. Rests(M, N + 1, r[N + 1].off)
      <3>1. r[N + 1].off = M BY <2>4 DEF Reader
      <3> QED BY <3>1 DEF Rests
    <2>6. r[M] = r[N + 1] BY <1>1, <1>3, <2>5, PassRests
    <2> QED BY <1>1, <1>5, <1>8, <2>4, <2>6
  <1> QED BY <1>7, <1>8

\* h is f with the first k bytes of b behind it.
WithPart(h, f, b, k) == h = f \o SubSeq(b, 1, k)

\* The same of what append leaves behind a log that is read to its end.
LEMMA LogAppend ==
  ASSUME NEW f, IsSeq(f), Scan(f).off = Len(f), NEW tag, NEW key, NEW num,
         NumLen(tag) = 0 => num = 0, NEW b, b = Bytes(Rec(tag, key, num)),
         NEW k \in 1 .. Len(b), NEW h, WithPart(h, f, b, k)
  PROVE  /\ IsSeq(h) /\ Len(h) = Len(f) + k
         /\ k # Len(b) => Scan(h) = Scan(f)
         /\ k = Len(b) => Scan(h) = Reader(Len(h), Scan(f).ok, ApplyRec(Scan(f).c, Rec(tag, key, num)))
  <1>1. IsRecord(b, tag, key, num) BY BytesOf
  <1>2. IsSeq(b) /\ Len(b) = RecLen(tag) BY <1>1 DEF IsRecord
  <1>3. PICK N \in Nat : N = Len(f) BY DEF IsSeq
  <1>4. PICK S : f \in Seq(S) /\ b \in Seq(S)
    <2>1. PICK S1, S2 : f \in Seq(S1) /\ b \in Seq(S2) BY <1>2 DEF IsSeq
    <2>2. f \in Seq(S1 \cup S2) /\ b \in Seq(S1 \cup S2) BY <2>1
    <2> QED BY <2>2
  <1>5. k \in Nat \ {0} /\ k <= RecLen(tag) /\ k \in Int /\ 1 <= k /\ k - 1 + 1 = k
    BY <1>2, RecLenType
  <1>6. \A i \in 1 .. k : b[i] \in S /\ 1 + i - 1 = i
    BY <1>2, <1>4, <1>5, RecLenType
  <1>7. PICK c : c = SubSeq(b, 1, k) OBVIOUS
  <1>8. c \in Seq(S) BY <1>5, <1>6, <1>7, SubSeqProperties
  <1>9. Len(c) = k
    <2>1. Len(c) = IF 1 <= k THEN k - 1 + 1 ELSE 0 BY <1>5, <1>6, <1>7, SubSeqProperties
    <2> QED BY <1>5, <2>1
  <1>10. \A i \in 1 .. k : c[i] = b[i]
    <2>1. \A i \in 1 .. k - 1 + 1 : c[i] = b[1 + i - 1] BY <1>5, <1>6, <1>7, SubSeqProperties
    <2> QED BY <1>5, <1>6, <2>1
  <1>11. h = f \o c BY <1>7 DEF WithPart
  <1>12. h \in Seq(S) BY <1>4, <1>8, <1>11, ConcatProperties
  <1>13. Len(h) = N + k BY <1>3, <1>4, <1>8, <1>9, <1>11, ConcatProperties
  <1>14. \A i \in 1 .. N + k : h[i] = IF i <= N THEN f[i] ELSE c[i - N]
    <2>1. \A i \in 1 .. Len(f) + Len(c) : h[i] = IF i <= Len(f) THEN f[i] ELSE c[i - Len(f)]
      BY <1>4, <1>8, <1>11, ConcatProperties
    <2> QED BY <1>3, <1>9, <2>1, Zenon
  <1>15. LiesBehind(h, 0, N, f) /\ LiesBehind(h, N, k, b)
    <2>1. \A i \in 1 .. N : i \in 1 .. N + k /\ i <= N /\ 0 + i = i BY <1>5
    <2>2. \A i \in 1 .. k : N + i \in 1 .. N + k /\ ~(N + i <= N) /\ N + i - N = i BY <1>5
    <2>3. LiesBehind(h, 0, N, f) BY <1>14, <2>1 DEF LiesBehind
    <2>4. ASSUME NEW i \in 1 .. k PROVE h[N + i] = b[i]
      <3>1. h[N + i] = IF N + i <= N THEN f[N + i] ELSE c[N + i - N] BY <1>14, <2>2
      <3>2. h[N + i] = c[i] BY <2>2, <3>1
      <3> QED BY <1>10, <3>2
    <2> QED BY <2>3, <2>4 DEF LiesBehind
  <1>16. IsSeq(h) BY <1>12 DEF IsSeq
  <1>17. PICK M \in Nat : M = N + k BY <1>5
  <1>18. Scan(f).off = N /\ M = Len(h) BY <1>3, <1>13, <1>17
  <1>19. k # RecLen(tag) => Scan(h) = Scan(f)
    BY <1>1, <1>3, <1>5, <1>15, <1>16, <1>17, <1>18, ScanBehind
  <1>20. k = RecLen(tag) => Scan(h) = Reader(M, Scan(f).ok, ApplyRec(Scan(f).c, Rec(tag, key, num)))
    BY <1>1, <1>3, <1>5, <1>15, <1>16, <1>17, <1>18, ScanBehind
  <1> QED BY <1>2, <1>3, <1>13, <1>16, <1>18, <1>19, <1>20

\* write_all at the end of the file appends; writing nothing changes nothing.
LEMMA WriteAtEnd ==
  ASSUME NEW f, IsSeq(f), NEW b, IsSeq(b)
  PROVE  /\ WriteAt(f, Len(f), b) = f \o b
         /\ \A pos \in 0 .. Len(f) : WriteAt(f, pos, <<>>) = f
  <1>1. PICK S : f \in Seq(S) /\ b \in Seq(S)
    <2>1. PICK S1, S2 : f \in Seq(S1) /\ b \in Seq(S2) BY DEF IsSeq
    <2>2. f \in Seq(S1 \cup S2) /\ b \in Seq(S1 \cup S2) BY <2>1
    <2> QED BY <2>2
  <1>2. \A x, y \in Nat : x <= y => Max({x, y}) = y
    <2> SUFFICES ASSUME NEW x \in Nat, NEW y \in Nat, x <= y PROVE Max({x, y}) = y OBVIOUS
    <2>1. y \in {x, y} /\ \A z \in {x, y} : y >= z OBVIOUS
    <2>2. \A u \in {x, y} : (\A z \in {x, y} : u >= z) => u = y OBVIOUS
    <2> QED BY <2>1, <2>2, Zenon DEF Max
  <1>3. Len(f) \in Nat /\ Len(b) \in Nat BY <1>1
  <1>4. WriteAt(f, Len(f), b) = f \o b
    <2>1. Max({Len(f), Len(f) + Len(b)}) = Len(f) + Len(b) BY <1>2, <1>3
    <2>2. WriteAt(f, Len(f), b) = [j \in 1 .. Len(f) + Len(b) |->
             IF j > Len(f) /\ j <= Len(f) + Len(b) THEN b[j - Len(f)] ELSE f[j]]
      BY <2>1 DEF WriteAt
    <2>3. PICK g : g = f \o b OBVIOUS
    <2>4. g \in Seq(S) BY <1>1, <2>3, ConcatProperties
    <2>5. Len(g) = Len(f) + Len(b) BY <1>1, <2>3, ConcatProperties
    <2>6. \A i \in 1 .. Len(f) + Len(b) : g[i] = IF i <= Len(f) THEN f[i] ELSE b[i - Len(f)]
      BY <1>1, <2>3, ConcatProperties
    <2>7. g = [j \in 1 .. Len(f) + Len(b) |-> g[j]] BY <2>4, <2>5
    <2>8. PICK w : w = WriteAt(f, Len(f), b) OBVIOUS
    <2>9. w = [j \in 1 .. Len(f) + Len(b) |-> w[j]] BY <2>2, <2>8
    <2>10. \A j \in 1 .. Len(f) + Len(b) : w[j] = g[j]
      <3> SUFFICES ASSUME NEW j \in 1 .. Len(f) + Len(b) PROVE w[j] = g[j] OBVIOUS
      <3>1. w[j] = IF j > Len(f) /\ j <= Len(f) + Len(b) THEN b[j - Len(f)] ELSE f[j]
        BY <2>2, <2>8
      <3> QED BY <1>3, <2>6, <3>1
    <2>11. w = g BY <2>7, <2>9, <2>10
    <2> QED BY <2>3, <2>8, <2>11
  <1>5. ASSUME NEW pos \in 0 .. Len(f) PROVE WriteAt(f, pos, <<>>) = f
    <2>1. Len(<<>>) = 0 /\ pos + 0 = pos /\ pos \in Nat /\ pos <= Len(f) BY <1>3
    <2>2. Max({Len(f), pos + Len(<<>>)}) = Len(f)
      <3>1. Max({pos, Len(f)}) = Len(f) BY <1>2, <1>3, <2>1
      <3>2. {Len(f), pos + Len(<<>>)} = {pos, Len(f)} BY <2>1
      <3> QED BY <3>1, <3>2
    <2>3. WriteAt(f, pos, <<>>) = [j \in 1 .. Len(f) |->
             IF j > pos /\ j <= pos + Len(<<>>) THEN <<>>[j - pos] ELSE f[j]]
      BY <2>2, Zenon DEF WriteAt
    <2>4. \A j \in 1 .. Len(f) : ~(j > pos /\ j <= pos + Len(<<>>)) BY <1>3, <2>1
    <2>5. f = [j \in 1 .. Len(f) |-> f[j]] BY <1>1
    <2> QED BY <2>3, <2>4, <2>5
  <1> QED BY <1>4, <1>5

-----------------------------------------------------------------------------
(* What one record does to the caches.                                     *)

\* The caches are a record of these fields.
CachesShape(c) ==
    c = [consumed |-> c.consumed, order |-> c.order, published |-> c.published,
         revoked |-> c.revoked, receipts |-> c.receipts]

\* The commits and their order replaced, one first or the other.
SetCommits(c, a, b) == [c EXCEPT !.consumed = a, !.order = b]
SetOrder(c, b, a) == [c EXCEPT !.order = b, !.consumed = a]

\* What the caches are after their commits, and their commit order, are replaced.
LEMMA CachesExcept ==
    ASSUME NEW c, NEW a, NEW b, CachesShape(c)
    PROVE  LET r == [consumed |-> a, order |-> b, published |-> c.published,
                     revoked |-> c.revoked, receipts |-> c.receipts]
           IN  SetCommits(c, a, b) = r /\ SetOrder(c, b, a) = r
  <1> DEFINE r == [consumed |-> a, order |-> b, published |-> c.published,
                   revoked |-> c.revoked, receipts |-> c.receipts]
             d == [c EXCEPT !.consumed = a]
  <1>1. d = [consumed |-> a, order |-> c.order, published |-> c.published,
             revoked |-> c.revoked, receipts |-> c.receipts]
    BY DEF CachesShape
  <1>2. /\ SetCommits(c, a, b) = [d EXCEPT !.order = b]
        /\ SetOrder(c, b, a) = [d EXCEPT !.order = b]
    BY DEF CachesShape, SetCommits, SetOrder
  <1> HIDE DEF d
  <1>3. CachesShape(d) /\ d.consumed = a /\ d.published = c.published /\ d.revoked = c.revoked
        /\ d.receipts = c.receipts
    BY <1>1 DEF CachesShape
  <1>4. [d EXCEPT !.order = b] = [consumed |-> d.consumed, order |-> b,
           published |-> d.published, revoked |-> d.revoked, receipts |-> d.receipts]
    BY <1>3 DEF CachesShape
  <1>5. [d EXCEPT !.order = b] = r
    BY <1>3, <1>4
  <1> QED BY <1>2, <1>5

(*--------------------------------------------------------------------------*)

\* c1 has these fields.
Has(c1, a, b, p, v, q) ==
    /\ CachesShape(c1)
    /\ c1.consumed = a /\ c1.order = b /\ c1.published = p /\ c1.revoked = v /\ c1.receipts = q

\* The caches after mark_published: its grant goes from the commits to the tombstones.
Published(c, g) == [c EXCEPT !.consumed = Drop(@, {g}), !.published = @ \cup {g}]

\* One field, or two, of the caches are replaced.
LEMMA CachesFields ==
    ASSUME NEW c, CachesShape(c), NEW g, NEW n
    PROVE  /\ Has(Published(c, g), Drop(c.consumed, {g}), c.order, c.published \cup {g}, c.revoked, c.receipts)
           /\ Has([c EXCEPT !.revoked = Put(@, g, n)],
                  c.consumed, c.order, c.published, Put(c.revoked, g, n), c.receipts)
           /\ \A m : Has([c EXCEPT !.receipts = m], c.consumed, c.order, c.published, c.revoked, m)
           /\ \A o, m : Has(SetOrder(c, o, m), m, o, c.published, c.revoked, c.receipts)
           /\ \A o, m : Has(SetCommits(c, m, o), m, o, c.published, c.revoked, c.receipts)
  <1>1. Has(Published(c, g), Drop(c.consumed, {g}), c.order, c.published \cup {g}, c.revoked, c.receipts)
    <2> DEFINE k == [c EXCEPT !.consumed = Drop(c.consumed, {g})]
               e == Published(c, g)
    <2>1. k = [consumed |-> Drop(c.consumed, {g}), order |-> c.order,
               published |-> c.published, revoked |-> c.revoked, receipts |-> c.receipts]
      BY DEF CachesShape
    <2>2. e = [k EXCEPT !.published = c.published \cup {g}]
      BY DEF CachesShape, Published
    <2> HIDE DEF e, k
    <2>3. /\ CachesShape(k) /\ k.consumed = Drop(c.consumed, {g}) /\ k.revoked = c.revoked
          /\ k.receipts = c.receipts /\ k.order = c.order
      BY <2>1 DEF CachesShape
    <2>4. e = [consumed |-> k.consumed, order |-> k.order, published |-> c.published \cup {g},
               revoked |-> k.revoked, receipts |-> k.receipts]
      BY <2>2, <2>3 DEF CachesShape
    <2> QED BY <2>3, <2>4 DEF CachesShape, Has, e
  <1>2. Has([c EXCEPT !.revoked = Put(@, g, n)],
             c.consumed, c.order, c.published, Put(c.revoked, g, n), c.receipts)
    <2>1. PICK m : m = Put(c.revoked, g, n) OBVIOUS
    <2>2. PICK e : e = [c EXCEPT !.revoked = m] OBVIOUS
    <2>3. e = [consumed |-> c.consumed, order |-> c.order, published |-> c.published,
               revoked |-> m, receipts |-> c.receipts]
      BY <2>2 DEF CachesShape
    <2>4. Has(e, c.consumed, c.order, c.published, m, c.receipts)
      BY <2>3 DEF CachesShape, Has
    <2> QED BY <2>1, <2>2, <2>4
  <1>3. ASSUME NEW m
        PROVE  Has([c EXCEPT !.receipts = m], c.consumed, c.order, c.published, c.revoked, m)
    <2>1. PICK e : e = [c EXCEPT !.receipts = m] OBVIOUS
    <2>2. e = [consumed |-> c.consumed, order |-> c.order, published |-> c.published,
               revoked |-> c.revoked, receipts |-> m]
      BY <2>1 DEF CachesShape
    <2>3. Has(e, c.consumed, c.order, c.published, c.revoked, m)
      BY <2>2 DEF CachesShape, Has
    <2> QED BY <2>1, <2>3
  <1>4. ASSUME NEW o, NEW m
        PROVE  /\ Has(SetOrder(c, o, m), m, o, c.published, c.revoked, c.receipts)
               /\ Has(SetCommits(c, m, o), m, o, c.published, c.revoked, c.receipts)
    <2>1. PICK e : e = [consumed |-> m, order |-> o, published |-> c.published,
                        revoked |-> c.revoked, receipts |-> c.receipts]
      OBVIOUS
    <2>2. SetOrder(c, o, m) = e /\ SetCommits(c, m, o) = e BY <2>1, CachesExcept
    <2>3. Has(e, m, o, c.published, c.revoked, c.receipts)
      BY <2>1 DEF CachesShape, Has
    <2> QED BY <2>2, <2>3
  <1> QED BY <1>1, <1>2, <1>3, <1>4

\* The commit order with g behind it unless it is there.
Ordered(c, g) == IF g \in c.published \cup DOMAIN c.consumed THEN c.order ELSE Append(c.order, g)

\* What one record does to the caches.
LEMMA ApplyFields ==
    ASSUME NEW c, CachesShape(c), NEW g, NEW n
    PROVE  /\ Has(ApplyRec(c, Rec("COMMIT", g, n)),
                  Put(c.consumed, g, n), Ordered(c, g), c.published, c.revoked, c.receipts)
           /\ Has(ApplyRec(c, Rec("PUBLISHED", g, n)),
                  Drop(c.consumed, {g}), c.order, c.published \cup {g}, c.revoked, c.receipts)
           /\ Has(ApplyRec(c, Rec("REVOKE", g, n)),
                  c.consumed, c.order, c.published, Put(c.revoked, g, n), c.receipts)
           /\ Has(ApplyRec(c, Rec("FIRST_RECEIPT", g, n)), c.consumed, c.order, c.published, c.revoked,
                  IF g \in DOMAIN c.receipts THEN c.receipts ELSE Put(c.receipts, g, n))
  <1>1. \A t : Rec(t, g, n).tag = t /\ Rec(t, g, n).key = g /\ Rec(t, g, n).num = n BY DEF Rec
  <1>2. ApplyRec(c, Rec("COMMIT", g, n)) = SetOrder(c, Ordered(c, g), Put(c.consumed, g, n))
    <2>1. PICK rec : rec = Rec("COMMIT", g, n) OBVIOUS
    <2>2. rec.tag = "COMMIT" /\ rec.key = g /\ rec.num = n BY <1>1, <2>1
    <2>3. ApplyRec(c, rec) =
            [c EXCEPT !.order = IF rec.key \in c.published \cup DOMAIN c.consumed
                                THEN c.order ELSE Append(c.order, rec.key),
                      !.consumed = Put(c.consumed, rec.key, rec.num)]
      BY <2>2 DEF ApplyRec, CachesShape
    <2> QED BY <2>1, <2>2, <2>3 DEF SetOrder, Ordered
  <1>3. ApplyRec(c, Rec("PUBLISHED", g, n)) = Published(c, g)
    <2>1. PICK rec : rec = Rec("PUBLISHED", g, n) OBVIOUS
    <2>2. rec.tag = "PUBLISHED" /\ rec.key = g BY <1>1, <2>1
    <2>3. ApplyRec(c, rec) = [c EXCEPT !.consumed = Drop(@, {rec.key}), !.published = @ \cup {rec.key}]
      BY <2>2, Zenon DEF ApplyRec
    <2> QED BY <2>1, <2>2, <2>3 DEF Published
  <1>4. ApplyRec(c, Rec("REVOKE", g, n)) = [c EXCEPT !.revoked = Put(@, g, n)]
    BY <1>1, Zenon DEF ApplyRec
  <1>5. PICK m : m = IF g \in DOMAIN c.receipts THEN c.receipts ELSE Put(c.receipts, g, n) OBVIOUS
  <1>6. ApplyRec(c, Rec("FIRST_RECEIPT", g, n)) = [c EXCEPT !.receipts = m]
    BY <1>1, <1>5, Zenon DEF ApplyRec
  <1>7. Has(SetOrder(c, Ordered(c, g), Put(c.consumed, g, n)),
            Put(c.consumed, g, n), Ordered(c, g), c.published, c.revoked, c.receipts)
    BY CachesFields
  <1>8. Has(Published(c, g), Drop(c.consumed, {g}), c.order, c.published \cup {g}, c.revoked, c.receipts)
    BY CachesFields
  <1>9. Has([c EXCEPT !.revoked = Put(@, g, n)],
            c.consumed, c.order, c.published, Put(c.revoked, g, n), c.receipts)
    BY CachesFields
  <1>10. Has([c EXCEPT !.receipts = m], c.consumed, c.order, c.published, c.revoked, m)
    BY CachesFields
  <1> QED BY <1>2, <1>3, <1>4, <1>5, <1>6, <1>7, <1>8, <1>9, <1>10

\* A function on finitely many keys, with numbers for values.
FiniteMap(m) ==
    /\ m = [k \in DOMAIN m |-> m[k]] /\ IsFiniteSet(DOMAIN m)
    /\ \A k \in DOMAIN m : m[k] \in Nat

CachesType(c) == FiniteMap(c.consumed) /\ FiniteMap(c.revoked) /\ FiniteMap(c.receipts)

\* The commit order names each grant once, and only grants that are spent.
OrderOk(c) == IsSeq(c.order) /\ IsInjective(c.order) /\ ToSet(c.order) \subseteq Spent(c)

GoodCaches(c) == CachesShape(c) /\ CachesType(c) /\ OrderOk(c)

\* p is m with n at g; p is m without S.
HasPut(p, m, g, n) ==
    /\ FiniteMap(p) /\ DOMAIN p = DOMAIN m \cup {g} /\ p[g] = n
    /\ \A x \in DOMAIN m \ {g} : p[x] = m[x]

HasDropped(p, m, S) ==
    /\ FiniteMap(p) /\ DOMAIN p = DOMAIN m \ S
    /\ \A x \in DOMAIN m \ S : p[x] = m[x]

\* Put keeps a map finite and its values numbers.
LEMMA PutStaysFinite ==
    ASSUME NEW m, FiniteMap(m), NEW g, NEW n \in Nat, NEW p, p = Put(m, g, n)
    PROVE  HasPut(p, m, g, n)
  <1>1. p = [x \in DOMAIN m \cup {g} |-> IF x = g THEN n ELSE m[x]] BY DEF Put
  <1>2. DOMAIN p = DOMAIN m \cup {g} /\ p = [k \in DOMAIN p |-> p[k]] /\ p[g] = n
        /\ \A x \in DOMAIN m \ {g} : p[x] = m[x]
    BY <1>1
  <1>3. IsFiniteSet(DOMAIN p) BY <1>2, FS_AddElement DEF FiniteMap
  <1>4. \A k \in DOMAIN p : p[k] \in Nat BY <1>1, <1>2 DEF FiniteMap
  <1> QED BY <1>2, <1>3, <1>4 DEF FiniteMap, HasPut

\* Drop does.
LEMMA DropStaysFinite ==
    ASSUME NEW m, FiniteMap(m), NEW S, NEW p, p = Drop(m, S)
    PROVE  HasDropped(p, m, S)
  <1>1. p = [x \in DOMAIN m \ S |-> m[x]] BY DEF Drop
  <1>2. DOMAIN p = DOMAIN m \ S /\ p = [k \in DOMAIN p |-> p[k]]
        /\ \A x \in DOMAIN m \ S : p[x] = m[x]
    BY <1>1
  <1>3. IsFiniteSet(DOMAIN p)
    <2>1. DOMAIN p \in SUBSET DOMAIN m BY <1>2
    <2> QED BY <2>1, FS_Subset DEF FiniteMap
  <1>4. \A k \in DOMAIN p : p[k] \in Nat BY <1>1, <1>2 DEF FiniteMap
  <1> QED BY <1>2, <1>3, <1>4 DEF FiniteMap, HasDropped

\* A grant put behind the commit order is there once.
LEMMA OrderAppends ==
    ASSUME NEW s, IsSeq(s), IsInjective(s), NEW g, g \notin ToSet(s)
    PROVE  /\ IsSeq(Append(s, g)) /\ IsInjective(Append(s, g))
           /\ ToSet(Append(s, g)) = ToSet(s) \cup {g}
  <1>1. PICK S : s \in Seq(S) BY DEF IsSeq
  <1>2. PICK a : a = Append(s, g) OBVIOUS
  <1>3. PICK N \in Nat : N = Len(s) /\ DOMAIN s = 1 .. N BY <1>1
  <1>4. s \in Seq(S \cup {g}) BY <1>1
  <1>5. /\ a \in Seq(S \cup {g}) /\ DOMAIN a = 1 .. N + 1
        /\ \A i \in 1 .. N : a[i] = s[i] /\ a[N + 1] = g
    BY <1>2, <1>3, <1>4
  <1>6. a[N + 1] = g BY <1>2, <1>3, <1>4
  <1>7. \A i \in 1 .. N : s[i] # g BY <1>3 DEF ToSet
  <1>8. IsInjective(a)
    <2> SUFFICES ASSUME NEW i \in 1 .. N + 1, NEW j \in 1 .. N + 1, a[i] = a[j] PROVE i = j
      BY <1>5, Zenon DEF IsInjective
    <2>1. \A k \in 1 .. N + 1 : k \in 1 .. N \/ k = N + 1 OBVIOUS
    <2>2. CASE i \in 1 .. N /\ j \in 1 .. N
      <3>1. s[i] = s[j] BY <1>5, <2>2
      <3> QED BY <1>3, <2>2, <3>1 DEF IsInjective
    <2>3. CASE i = N + 1 /\ j \in 1 .. N BY <1>5, <1>6, <1>7, <2>3
    <2>4. CASE i \in 1 .. N /\ j = N + 1 BY <1>5, <1>6, <1>7, <2>4
    <2> QED BY <2>1, <2>2, <2>3, <2>4
  <1>9. ToSet(a) = ToSet(s) \cup {g}
    <2>1. \A k \in 1 .. N + 1 : k \in 1 .. N \/ k = N + 1 OBVIOUS
    <2>2. \A k \in 1 .. N : k \in 1 .. N + 1 OBVIOUS
    <2>3. N + 1 \in 1 .. N + 1 OBVIOUS
    <2>4. ASSUME NEW x \in ToSet(a) PROVE x \in ToSet(s) \cup {g}
      <3>1. PICK k \in 1 .. N + 1 : x = a[k] BY <1>5 DEF ToSet
      <3> QED BY <1>3, <1>5, <1>6, <2>1, <3>1 DEF ToSet
    <2>5. ASSUME NEW x \in ToSet(s) PROVE x \in ToSet(a)
      <3>1. PICK k \in 1 .. N : x = s[k] BY <1>3 DEF ToSet
      <3> QED BY <1>5, <2>2, <3>1 DEF ToSet
    <2>6. g \in ToSet(a) BY <1>5, <1>6, <2>3 DEF ToSet
    <2> QED BY <2>4, <2>5, <2>6
  <1> QED BY <1>2, <1>5, <1>8, <1>9 DEF IsSeq

\* A record with a number for its number keeps the caches good.
LEMMA ApplyKeepsGood ==
    ASSUME NEW c, GoodCaches(c), NEW tag \in Tags, NEW g, NEW n \in Nat
    PROVE  GoodCaches(ApplyRec(c, Rec(tag, g, n)))
  <1>1. CachesShape(c) /\ FiniteMap(c.consumed) /\ FiniteMap(c.revoked) /\ FiniteMap(c.receipts)
        /\ IsSeq(c.order) /\ IsInjective(c.order) /\ ToSet(c.order) \subseteq DOMAIN c.consumed \cup c.published
    BY DEF GoodCaches, CachesType, OrderOk, Spent
  <1>2. PICK e : e = ApplyRec(c, Rec(tag, g, n)) OBVIOUS
  <1>3. CASE tag = "COMMIT"
    <2>1. Has(e, Put(c.consumed, g, n), Ordered(c, g), c.published, c.revoked, c.receipts)
      BY <1>1, <1>2, <1>3, ApplyFields
    <2>2. FiniteMap(Put(c.consumed, g, n)) /\ DOMAIN Put(c.consumed, g, n) = DOMAIN c.consumed \cup {g}
      <3>1. HasPut(Put(c.consumed, g, n), c.consumed, g, n) BY <1>1, PutStaysFinite
      <3> QED BY <3>1 DEF HasPut
    <2>3. IsSeq(Ordered(c, g)) /\ IsInjective(Ordered(c, g))
          /\ ToSet(Ordered(c, g)) \subseteq DOMAIN c.consumed \cup {g} \cup c.published
      <3>1. CASE g \in c.published \cup DOMAIN c.consumed
        <4>1. Ordered(c, g) = c.order BY <3>1 DEF Ordered
        <4> QED BY <1>1, <4>1
      <3>2. CASE g \notin c.published \cup DOMAIN c.consumed
        <4>1. Ordered(c, g) = Append(c.order, g) BY <3>2 DEF Ordered
        <4>2. g \notin ToSet(c.order) BY <1>1, <3>2
        <4>3. /\ IsSeq(Append(c.order, g)) /\ IsInjective(Append(c.order, g))
              /\ ToSet(Append(c.order, g)) = ToSet(c.order) \cup {g}
          BY <1>1, <4>2, OrderAppends
        <4> QED BY <1>1, <4>1, <4>3
      <3> QED BY <3>1, <3>2
    <2>4. CachesShape(e) /\ CachesType(e) BY <1>1, <2>1, <2>2 DEF Has, CachesType
    <2>5. OrderOk(e) BY <2>1, <2>2, <2>3 DEF Has, OrderOk, Spent
    <2> QED BY <1>2, <2>4, <2>5 DEF GoodCaches
  <1>4. CASE tag = "PUBLISHED"
    <2>1. Has(e, Drop(c.consumed, {g}), c.order, c.published \cup {g}, c.revoked, c.receipts)
      BY <1>1, <1>2, <1>4, ApplyFields
    <2>2. FiniteMap(Drop(c.consumed, {g})) /\ DOMAIN Drop(c.consumed, {g}) = DOMAIN c.consumed \ {g}
      <3>1. HasDropped(Drop(c.consumed, {g}), c.consumed, {g}) BY <1>1, DropStaysFinite
      <3> QED BY <3>1 DEF HasDropped
    <2>3. CachesShape(e) /\ CachesType(e) BY <1>1, <2>1, <2>2 DEF Has, CachesType
    <2>4. OrderOk(e) BY <1>1, <2>1, <2>2 DEF Has, OrderOk, Spent
    <2> QED BY <1>2, <2>3, <2>4 DEF GoodCaches
  <1>5. CASE tag = "REVOKE"
    <2>1. Has(e, c.consumed, c.order, c.published, Put(c.revoked, g, n), c.receipts)
      BY <1>1, <1>2, <1>5, ApplyFields
    <2>2. FiniteMap(Put(c.revoked, g, n))
      <3>1. HasPut(Put(c.revoked, g, n), c.revoked, g, n) BY <1>1, PutStaysFinite
      <3> QED BY <3>1 DEF HasPut
    <2>3. CachesShape(e) /\ CachesType(e) BY <1>1, <2>1, <2>2 DEF Has, CachesType
    <2>4. OrderOk(e) BY <1>1, <2>1 DEF Has, OrderOk, Spent
    <2> QED BY <1>2, <2>3, <2>4 DEF GoodCaches
  <1>6. CASE tag = "FIRST_RECEIPT"
    <2>0. PICK m : m = IF g \in DOMAIN c.receipts THEN c.receipts ELSE Put(c.receipts, g, n) OBVIOUS
    <2>1. Has(e, c.consumed, c.order, c.published, c.revoked, m)
      BY <1>1, <1>2, <1>6, <2>0, ApplyFields
    <2>2. FiniteMap(m)
      <3>1. FiniteMap(Put(c.receipts, g, n))
        <4>1. HasPut(Put(c.receipts, g, n), c.receipts, g, n) BY <1>1, PutStaysFinite
        <4> QED BY <4>1 DEF HasPut
      <3> QED BY <1>1, <2>0, <3>1
    <2>3. CachesShape(e) /\ CachesType(e) BY <1>1, <2>1, <2>2 DEF Has, CachesType
    <2>4. OrderOk(e) BY <1>1, <2>1 DEF Has, OrderOk, Spent
    <2> QED BY <1>2, <2>3, <2>4 DEF GoodCaches
  <1> QED BY <1>3, <1>4, <1>5, <1>6 DEF Tags

-----------------------------------------------------------------------------
(* What the log and the caches hold of what was acknowledged.              *)

\* Every later recover() finds in R what history A has acknowledged at time t: the
\* commits that are neither published nor expired, the revocations and the receipts.
DiskHolds(R, A, t) ==
    /\ \A g \in DOMAIN A.commits \ A.published :
         A.commits[g] > t => g \in DOMAIN R.consumed /\ R.consumed[g] = A.commits[g]
    /\ A.revoked \subseteq DOMAIN R.revoked
    /\ \A g \in DOMAIN A.receipts : g \in DOMAIN R.receipts /\ R.receipts[g] <= A.receipts[g]
    /\ R.published \subseteq A.published
    /\ \A g \in DOMAIN R.receipts : R.receipts[g] <= t
    /\ \A g \in R.published \ A.unsettled : g \notin DOMAIN R.consumed

\* The caches c are in step with what is on disk, R.
Synced(R, c, A, t) ==
    /\ \A g \in DOMAIN c.consumed \ A.published :
         g \in DOMAIN R.consumed /\ R.consumed[g] = c.consumed[g]
    /\ \A g \in DOMAIN A.commits \ A.published :
         A.commits[g] > t => g \in DOMAIN c.consumed /\ c.consumed[g] = A.commits[g]
    /\ A.revoked \subseteq DOMAIN c.revoked /\ DOMAIN c.revoked \subseteq DOMAIN R.revoked
    /\ \A g \in DOMAIN A.receipts : g \in DOMAIN c.receipts /\ c.receipts[g] <= A.receipts[g]
    /\ \A g \in DOMAIN c.receipts :
         g \in DOMAIN R.receipts /\ R.receipts[g] <= c.receipts[g] /\ c.receipts[g] <= t
    /\ R.published \ A.unsettled \subseteq c.published
    /\ c.published \subseteq A.published
    /\ \A g \in c.published \ A.unsettled : g \notin DOMAIN R.consumed /\ g \notin DOMAIN c.consumed

\* recover() would rebuild the caches c from R, but for tombstones a prune has dropped.
Exact(R, c) ==
    /\ R.consumed = c.consumed /\ R.revoked = c.revoked /\ R.receipts = c.receipts
    /\ R.published \subseteq c.published

\* The times in a history are numbers.
AckTimes(A) ==
    /\ \A g \in DOMAIN A.commits : A.commits[g] \in Nat
    /\ \A g \in DOMAIN A.receipts : A.receipts[g] \in Nat

\* History A1 has these commits, revocations and receipts, and what A has of the rest.
Acks(A, A1, m, v, q) ==
    /\ A1.commits = m /\ A1.revoked = v /\ A1.receipts = q
    /\ A.published \subseteq A1.published /\ A.unsettled \subseteq A1.unsettled

\* A1 is A with more grants to be published, or unsettled.
AcksNoLess(A, A1) == Acks(A, A1, A.commits, A.revoked, A.receipts)

\* The more grants are to be published, the less is promised.
LEMMA AcksWeaken ==
    ASSUME NEW R, NEW c, NEW A, NEW A1, NEW t, AcksNoLess(A, A1)
    PROVE  /\ DiskHolds(R, A, t) => DiskHolds(R, A1, t)
           /\ Synced(R, c, A, t) => Synced(R, c, A1, t)
  <1>1. /\ A1.commits = A.commits /\ A1.revoked = A.revoked /\ A1.receipts = A.receipts
        /\ A.published \subseteq A1.published /\ A.unsettled \subseteq A1.unsettled
    BY DEF AcksNoLess, Acks
  <1> QED BY <1>1 DEF DiskHolds, Synced

\* A rebuild brings the caches in step, and time only weakens what is promised.
LEMMA RebuildSyncs ==
    ASSUME NEW R, NEW A, NEW t \in Nat, DiskHolds(R, A, t), CachesType(R), AckTimes(A)
    PROVE  Synced(R, R, A, t) /\ Exact(R, R)
  <1>1. \A g \in DOMAIN R.receipts : R.receipts[g] \in Nat BY DEF CachesType, FiniteMap
  <1> QED BY <1>1 DEF DiskHolds, Synced, Exact

\* As time passes, a log holds no less of what is asked of it.
LEMMA TimePasses ==
    ASSUME NEW R, NEW c, NEW A, NEW t \in Nat, CachesType(R), CachesType(c), AckTimes(A)
    PROVE  /\ DiskHolds(R, A, t) => DiskHolds(R, A, t + 1)
           /\ Synced(R, c, A, t) => Synced(R, c, A, t + 1)
  <1>1. /\ \A g \in DOMAIN R.receipts : R.receipts[g] \in Nat
        /\ \A g \in DOMAIN c.receipts : c.receipts[g] \in Nat
    BY DEF CachesType, FiniteMap
  <1>2. \A g \in DOMAIN A.commits : A.commits[g] > t + 1 => A.commits[g] > t BY DEF AckTimes
  <1>3. ASSUME DiskHolds(R, A, t) PROVE DiskHolds(R, A, t + 1)
    <2>1. \A g \in DOMAIN R.receipts : R.receipts[g] <= t + 1 BY <1>1, <1>3 DEF DiskHolds
    <2> QED BY <1>2, <1>3, <2>1 DEF DiskHolds
  <1>4. ASSUME Synced(R, c, A, t) PROVE Synced(R, c, A, t + 1)
    <2>1. \A g \in DOMAIN c.receipts : c.receipts[g] <= t + 1 BY <1>1, <1>4 DEF Synced
    <2> QED BY <1>2, <1>4, <2>1 DEF Synced
  <1> QED BY <1>3, <1>4

\* Without a byte in the file, nothing is promised but to caches that are empty too.
LEMMA EmptySyncs ==
    ASSUME NEW A, NEW t, DiskHolds(NewCaches, A, t)
    PROVE  Synced(NewCaches, NewCaches, A, t)
  <1>1. /\ DOMAIN NewCaches.consumed = {} /\ DOMAIN NewCaches.revoked = {}
        /\ DOMAIN NewCaches.receipts = {} /\ NewCaches.published = {}
    BY DEF NewCaches, EmptyMap
  <1> QED BY <1>1 DEF DiskHolds, Synced

-----------------------------------------------------------------------------
(* What a record that is behind the log does to all this: R and c are what  *)
(* is on disk and in the caches, R1 what is on disk with the record, c1 the *)
(* caches of the mutator that has ended with Ok.  Of the histories, AC is   *)
(* the one after a crash, AF after an error and AO after Ok.                *)

Fits(R, R1, c, c1, AC, AF, AO, t) ==
    /\ DiskHolds(R1, AC, t)
    /\ DiskHolds(R1, AF, t) /\ Synced(R1, c, AF, t)
    /\ DiskHolds(R1, AO, t) /\ Synced(R1, c1, AO, t)
    /\ Exact(R, c) => Exact(R1, c1)

\* commit_consumed of a grant that the caches do not know.
LEMMA CommitFits ==
    ASSUME NEW R, NEW c, NEW A, NEW t \in Nat, DiskHolds(R, A, t), Synced(R, c, A, t),
           GoodCaches(R), CachesShape(c), CachesType(c), AckTimes(A),
           NEW g, NEW n \in Nat, g \notin DOMAIN c.consumed \cup c.published,
           NEW R1, R1 = ApplyRec(R, Rec("COMMIT", g, n)), NEW c1, c1 = CommitCached(c, g, n),
           NEW AC, NEW AF, NEW AO, AcksNoLess(A, AC), AcksNoLess(A, AF),
           Acks(A, AO, Put(A.commits, g, n), A.revoked, A.receipts)
    PROVE  Fits(R, R1, c, c1, AC, AF, AO, t)
  <1>1. /\ R1.published = R.published /\ R1.revoked = R.revoked /\ R1.receipts = R.receipts
        /\ R1.consumed = Put(R.consumed, g, n)
    <2>1. CachesShape(R) BY DEF GoodCaches
    <2>2. Has(R1, Put(R.consumed, g, n), Ordered(R, g), R.published, R.revoked, R.receipts)
      BY <2>1, ApplyFields
    <2> QED BY <2>2 DEF Has
  <1>2. /\ c1.published = c.published /\ c1.revoked = c.revoked /\ c1.receipts = c.receipts
        /\ c1.consumed = Put(c.consumed, g, n)
    <2>1. c1 = SetOrder(c, Append(c.order, g), Put(c.consumed, g, n)) BY DEF CommitCached, SetOrder
    <2>2. Has(c1, Put(c.consumed, g, n), Append(c.order, g), c.published, c.revoked, c.receipts)
      BY <2>1, CachesFields
    <2> QED BY <2>2 DEF Has
  <1>3. /\ DOMAIN R1.consumed = DOMAIN R.consumed \cup {g} /\ R1.consumed[g] = n
        /\ \A x \in DOMAIN R.consumed \ {g} : R1.consumed[x] = R.consumed[x]
    <2>1. FiniteMap(R.consumed) BY DEF GoodCaches, CachesType
    <2>2. HasPut(Put(R.consumed, g, n), R.consumed, g, n) BY <2>1, PutStaysFinite
    <2> QED BY <1>1, <2>2 DEF HasPut
  <1>4. /\ DOMAIN c1.consumed = DOMAIN c.consumed \cup {g} /\ c1.consumed[g] = n
        /\ \A x \in DOMAIN c.consumed \ {g} : c1.consumed[x] = c.consumed[x]
    <2>1. FiniteMap(c.consumed) BY DEF GoodCaches, CachesType
    <2>2. HasPut(Put(c.consumed, g, n), c.consumed, g, n) BY <2>1, PutStaysFinite
    <2> QED BY <1>2, <2>2 DEF HasPut
  <1>5. /\ DOMAIN AO.commits = DOMAIN A.commits \cup {g} /\ AO.commits[g] = n
        /\ \A x \in DOMAIN A.commits \ {g} : AO.commits[x] = A.commits[x]
    BY DEF Acks, Put
  <1>6. /\ AO.revoked = A.revoked /\ AO.receipts = A.receipts
        /\ A.published \subseteq AO.published /\ A.unsettled \subseteq AO.unsettled
    BY DEF Acks
  <1>7. Exact(R, c) => Exact(R1, c1) BY <1>1, <1>2 DEF Exact
  <1>8. DiskHolds(R1, A, t)
    <2>1. \A x \in DOMAIN A.commits \ A.published :
            A.commits[x] > t => x \in DOMAIN R1.consumed /\ R1.consumed[x] = A.commits[x]
      BY <1>3 DEF DiskHolds, Synced
    <2>2. \A x \in R1.published \ A.unsettled : x \notin DOMAIN R1.consumed
      BY <1>1, <1>3 DEF DiskHolds, Synced
    <2> QED BY <1>1, <2>1, <2>2 DEF DiskHolds
  <1>9. Synced(R1, c, A, t)
    <2>1. \A x \in DOMAIN c.consumed \ A.published :
            x \in DOMAIN R1.consumed /\ R1.consumed[x] = c.consumed[x]
      BY <1>3 DEF Synced
    <2>2. \A x \in c.published \ A.unsettled : x \notin DOMAIN R1.consumed /\ x \notin DOMAIN c.consumed
      BY <1>1, <1>3 DEF Synced
    <2> QED BY <1>1, <2>1, <2>2 DEF Synced
  <1>10. DiskHolds(R1, AO, t)
    <2>1. \A x \in DOMAIN AO.commits \ AO.published :
            AO.commits[x] > t => x \in DOMAIN R1.consumed /\ R1.consumed[x] = AO.commits[x]
      BY <1>3, <1>5, <1>6, <1>8 DEF DiskHolds
    <2> QED BY <1>6, <1>8, <2>1 DEF DiskHolds
  <1>11. Synced(R1, c1, AO, t)
    <2>1. \A x \in DOMAIN c1.consumed \ AO.published :
            x \in DOMAIN R1.consumed /\ R1.consumed[x] = c1.consumed[x]
      BY <1>3, <1>4, <1>6, <1>9 DEF Synced
    <2>2. \A x \in DOMAIN AO.commits \ AO.published :
            AO.commits[x] > t => x \in DOMAIN c1.consumed /\ c1.consumed[x] = AO.commits[x]
      BY <1>4, <1>5, <1>6, <1>9 DEF Synced
    <2>3. \A x \in c1.published \ AO.unsettled : x \notin DOMAIN R1.consumed /\ x \notin DOMAIN c1.consumed
      BY <1>2, <1>4, <1>6, <1>9 DEF Synced
    <2> QED BY <1>2, <1>6, <1>9, <2>1, <2>2, <2>3 DEF Synced
  <1> QED BY <1>7, <1>8, <1>9, <1>10, <1>11, AcksWeaken DEF Fits

\* mark_published of a grant that has no tombstone in the caches.
LEMMA PublishFits ==
    ASSUME NEW R, NEW c, NEW A, NEW t \in Nat, DiskHolds(R, A, t), Synced(R, c, A, t),
           GoodCaches(R), CachesShape(c), CachesType(c), AckTimes(A), NEW g, g \notin c.published,
           NEW R1, R1 = ApplyRec(R, Rec("PUBLISHED", g, 0)), NEW c1, c1 = Published(c, g),
           NEW AC, NEW AF, NEW AO, AcksNoLess(A, AC), AcksNoLess(A, AF), AcksNoLess(A, AO),
           g \in AC.published, g \in AF.published \cap AF.unsettled, g \in AO.published
    PROVE  Fits(R, R1, c, c1, AC, AF, AO, t)
  <1>1. /\ R1.published = R.published \cup {g} /\ R1.revoked = R.revoked /\ R1.receipts = R.receipts
        /\ R1.consumed = Drop(R.consumed, {g})
    <2>1. CachesShape(R) BY DEF GoodCaches
    <2>2. Has(R1, Drop(R.consumed, {g}), R.order, R.published \cup {g}, R.revoked, R.receipts)
      BY <2>1, ApplyFields
    <2> QED BY <2>2 DEF Has
  <1>2. /\ c1.published = c.published \cup {g} /\ c1.revoked = c.revoked /\ c1.receipts = c.receipts
        /\ c1.consumed = Drop(c.consumed, {g})
    <2>1. Has(c1, Drop(c.consumed, {g}), c.order, c.published \cup {g}, c.revoked, c.receipts)
      BY CachesFields
    <2> QED BY <2>1 DEF Has
  <1>3. /\ DOMAIN R1.consumed = DOMAIN R.consumed \ {g}
        /\ \A x \in DOMAIN R.consumed \ {g} : R1.consumed[x] = R.consumed[x]
    <2>1. FiniteMap(R.consumed) BY DEF GoodCaches, CachesType
    <2>2. HasDropped(Drop(R.consumed, {g}), R.consumed, {g}) BY <2>1, DropStaysFinite
    <2> QED BY <1>1, <2>2 DEF HasDropped
  <1>4. /\ DOMAIN c1.consumed = DOMAIN c.consumed \ {g}
        /\ \A x \in DOMAIN c.consumed \ {g} : c1.consumed[x] = c.consumed[x]
    <2>1. FiniteMap(c.consumed) BY DEF GoodCaches, CachesType
    <2>2. HasDropped(Drop(c.consumed, {g}), c.consumed, {g}) BY <2>1, DropStaysFinite
    <2> QED BY <1>2, <2>2 DEF HasDropped
  <1>5. Exact(R, c) => Exact(R1, c1) BY <1>1, <1>2 DEF Exact
  <1>6. ASSUME NEW A1, AcksNoLess(A, A1), g \in A1.published PROVE DiskHolds(R1, A1, t)
    <2>1. DiskHolds(R, A1, t) BY <1>6, AcksWeaken
    <2>2. \A x \in DOMAIN A1.commits \ A1.published :
            A1.commits[x] > t => x \in DOMAIN R1.consumed /\ R1.consumed[x] = A1.commits[x]
      BY <1>3, <1>6, <2>1 DEF DiskHolds
    <2>3. \A x \in R1.published \ A1.unsettled : x \notin DOMAIN R1.consumed
      BY <1>1, <1>3, <2>1 DEF DiskHolds
    <2> QED BY <1>1, <1>6, <2>1, <2>2, <2>3 DEF DiskHolds
  <1>7. Synced(R1, c, AF, t)
    <2>1. Synced(R, c, AF, t) BY AcksWeaken
    <2>2. \A x \in DOMAIN c.consumed \ AF.published :
            x \in DOMAIN R1.consumed /\ R1.consumed[x] = c.consumed[x]
      BY <1>3, <2>1 DEF Synced
    <2>3. \A x \in c.published \ AF.unsettled : x \notin DOMAIN R1.consumed /\ x \notin DOMAIN c.consumed
      BY <1>3, <2>1 DEF Synced
    <2> QED BY <1>1, <2>1, <2>2, <2>3 DEF Synced
  <1>8. Synced(R1, c1, AO, t)
    <2>1. Synced(R, c, AO, t) BY AcksWeaken
    <2>2. \A x \in DOMAIN c1.consumed \ AO.published :
            x \in DOMAIN R1.consumed /\ R1.consumed[x] = c1.consumed[x]
      BY <1>3, <1>4, <2>1 DEF Synced
    <2>3. \A x \in DOMAIN AO.commits \ AO.published :
            AO.commits[x] > t => x \in DOMAIN c1.consumed /\ c1.consumed[x] = AO.commits[x]
      BY <1>4, <2>1 DEF Synced
    <2>4. \A x \in c1.published \ AO.unsettled : x \notin DOMAIN R1.consumed /\ x \notin DOMAIN c1.consumed
      BY <1>2, <1>3, <1>4, <2>1 DEF Synced
    <2> QED BY <1>1, <1>2, <2>1, <2>2, <2>3, <2>4 DEF Synced
  <1> QED BY <1>5, <1>6, <1>7, <1>8 DEF Fits

\* commit_revocation of a key that the caches do not know.
LEMMA RevokeFits ==
    ASSUME NEW R, NEW c, NEW A, NEW t \in Nat, DiskHolds(R, A, t), Synced(R, c, A, t),
           GoodCaches(R), CachesShape(c), CachesType(c), AckTimes(A), NEW s, NEW n \in Nat,
           NEW R1, R1 = ApplyRec(R, Rec("REVOKE", s, n)),
           NEW c1, c1 = [c EXCEPT !.revoked = Put(@, s, n)],
           NEW AC, NEW AF, NEW AO, AcksNoLess(A, AC), AcksNoLess(A, AF),
           Acks(A, AO, A.commits, A.revoked \cup {s}, A.receipts)
    PROVE  Fits(R, R1, c, c1, AC, AF, AO, t)
  <1>1. /\ R1.published = R.published /\ R1.consumed = R.consumed /\ R1.receipts = R.receipts
        /\ R1.revoked = Put(R.revoked, s, n)
    <2>1. CachesShape(R) BY DEF GoodCaches
    <2>2. Has(R1, R.consumed, R.order, R.published, Put(R.revoked, s, n), R.receipts)
      BY <2>1, ApplyFields
    <2> QED BY <2>2 DEF Has
  <1>2. /\ c1.published = c.published /\ c1.consumed = c.consumed /\ c1.receipts = c.receipts
        /\ c1.revoked = Put(c.revoked, s, n)
    BY CachesFields DEF Has
  <1>3. DOMAIN R1.revoked = DOMAIN R.revoked \cup {s} /\ DOMAIN c1.revoked = DOMAIN c.revoked \cup {s}
    BY <1>1, <1>2 DEF Put
  <1>4. Exact(R, c) => Exact(R1, c1) BY <1>1, <1>2 DEF Exact
  <1>5. DiskHolds(R1, A, t) BY <1>1, <1>3 DEF DiskHolds
  <1>6. Synced(R1, c, A, t) BY <1>1, <1>3 DEF Synced
  <1>7. /\ AO.commits = A.commits /\ AO.revoked = A.revoked \cup {s} /\ AO.receipts = A.receipts
        /\ A.published \subseteq AO.published /\ A.unsettled \subseteq AO.unsettled
    BY DEF Acks
  <1>8. DiskHolds(R1, AO, t) BY <1>3, <1>5, <1>7 DEF DiskHolds
  <1>9. Synced(R1, c1, AO, t) BY <1>2, <1>3, <1>6, <1>7 DEF Synced
  <1> QED BY <1>4, <1>5, <1>6, <1>8, <1>9, AcksWeaken DEF Fits

\* record_first_receipt of a grant without one in the caches, at the time t.
LEMMA ReceiptFits ==
    ASSUME NEW R, NEW c, NEW A, NEW t \in Nat, DiskHolds(R, A, t), Synced(R, c, A, t),
           GoodCaches(R), CachesShape(c), CachesType(c), AckTimes(A),
           NEW g, g \notin DOMAIN c.receipts,
           NEW R1, R1 = ApplyRec(R, Rec("FIRST_RECEIPT", g, t)),
           NEW c1, c1 = [c EXCEPT !.receipts = Put(@, g, t)],
           NEW AC, NEW AF, NEW AO, AcksNoLess(A, AC), AcksNoLess(A, AF),
           Acks(A, AO, A.commits, A.revoked, Put(A.receipts, g, t))
    PROVE  Fits(R, R1, c, c1, AC, AF, AO, t)
  <1>1. /\ R1.published = R.published /\ R1.consumed = R.consumed /\ R1.revoked = R.revoked
        /\ R1.receipts = IF g \in DOMAIN R.receipts THEN R.receipts ELSE Put(R.receipts, g, t)
    <2>1. CachesShape(R) BY DEF GoodCaches
    <2>2. Has(R1, R.consumed, R.order, R.published, R.revoked,
              IF g \in DOMAIN R.receipts THEN R.receipts ELSE Put(R.receipts, g, t))
      BY <2>1, ApplyFields
    <2> QED BY <2>2 DEF Has
  <1>2. /\ c1.published = c.published /\ c1.consumed = c.consumed /\ c1.revoked = c.revoked
        /\ c1.receipts = Put(c.receipts, g, t)
    BY CachesFields DEF Has
  <1>3. /\ \A x \in DOMAIN R.receipts : x \in DOMAIN R1.receipts /\ R1.receipts[x] = R.receipts[x]
        /\ DOMAIN R1.receipts = DOMAIN R.receipts \cup {g} /\ R1.receipts[g] <= t
        /\ \A x \in DOMAIN R1.receipts : R1.receipts[x] <= t
    <2>1. CASE g \in DOMAIN R.receipts BY <1>1, <2>1 DEF DiskHolds
    <2>2. CASE g \notin DOMAIN R.receipts
      <3>1. /\ DOMAIN R1.receipts = DOMAIN R.receipts \cup {g} /\ R1.receipts[g] = t
            /\ \A x \in DOMAIN R.receipts \ {g} : R1.receipts[x] = R.receipts[x]
        <4>1. FiniteMap(R.receipts) BY DEF GoodCaches, CachesType
        <4>2. HasPut(Put(R.receipts, g, t), R.receipts, g, t) BY <4>1, PutStaysFinite
        <4> QED BY <1>1, <2>2, <4>2 DEF HasPut
      <3> QED BY <2>2, <3>1 DEF DiskHolds
    <2> QED BY <2>1, <2>2
  <1>4. /\ DOMAIN c1.receipts = DOMAIN c.receipts \cup {g} /\ c1.receipts[g] = t
        /\ \A x \in DOMAIN c.receipts : c1.receipts[x] = c.receipts[x]
    <2>1. FiniteMap(c.receipts) BY DEF GoodCaches, CachesType
    <2>2. HasPut(Put(c.receipts, g, t), c.receipts, g, t) BY <2>1, PutStaysFinite
    <2> QED BY <1>2, <2>2 DEF HasPut
  <1>5. Exact(R, c) => Exact(R1, c1) BY <1>1, <1>2 DEF Exact
  <1>6. DiskHolds(R1, A, t)
    <2>1. \A x \in DOMAIN A.receipts : x \in DOMAIN R1.receipts /\ R1.receipts[x] <= A.receipts[x]
      BY <1>3 DEF DiskHolds
    <2> QED BY <1>1, <1>3, <2>1 DEF DiskHolds
  <1>7. Synced(R1, c, A, t)
    <2>1. \A x \in DOMAIN c.receipts :
            x \in DOMAIN R1.receipts /\ R1.receipts[x] <= c.receipts[x] /\ c.receipts[x] <= t
      BY <1>3 DEF Synced
    <2> QED BY <1>1, <2>1 DEF Synced
  <1>8. /\ AO.commits = A.commits /\ AO.revoked = A.revoked /\ AO.receipts = Put(A.receipts, g, t)
        /\ A.published \subseteq AO.published /\ A.unsettled \subseteq AO.unsettled
    BY DEF Acks
  <1>9. /\ DOMAIN AO.receipts = DOMAIN A.receipts \cup {g} /\ AO.receipts[g] = t
        /\ \A x \in DOMAIN A.receipts \ {g} : AO.receipts[x] = A.receipts[x]
    BY <1>8 DEF Put
  <1>10. DiskHolds(R1, AO, t)
    <2>1. \A x \in DOMAIN AO.receipts : x \in DOMAIN R1.receipts /\ R1.receipts[x] <= AO.receipts[x]
      BY <1>3, <1>6, <1>9 DEF DiskHolds
    <2> QED BY <1>6, <1>8, <2>1 DEF DiskHolds
  <1>11. Synced(R1, c1, AO, t)
    <2>1. \A x \in DOMAIN AO.receipts : x \in DOMAIN c1.receipts /\ c1.receipts[x] <= AO.receipts[x]
      BY <1>4, <1>7, <1>9 DEF Synced
    <2>2. \A x \in DOMAIN c1.receipts :
            x \in DOMAIN R1.receipts /\ R1.receipts[x] <= c1.receipts[x] /\ c1.receipts[x] <= t
      BY <1>3, <1>4, <1>7 DEF Synced
    <2> QED BY <1>2, <1>7, <1>8, <2>1, <2>2 DEF Synced
  <1> QED BY <1>5, <1>6, <1>7, <1>10, <1>11, AcksWeaken DEF Fits

-----------------------------------------------------------------------------
(* The same of prune_expired.                                              *)

\* The caches c1 hold no more commits than c, and the same tombstones.
Fewer(c1, c) == DOMAIN c1.consumed \subseteq DOMAIN c.consumed /\ c1.published = c.published

\* The caches without their expired commits stay in step with what is on disk, and would
\* with a file R2 that is written from them.
LEMMA PruneFits ==
    ASSUME NEW R, NEW c, NEW A, NEW t \in Nat, Synced(R, c, A, t), CachesType(c), CachesShape(c),
           NEW c1, c1 = PruneCached(c, Expired(c, t)),
           NEW R2, Exact(R2, c1), R2.published = {}
    PROVE  /\ CachesShape(c1) /\ CachesType(c1) /\ Fewer(c1, c)
           /\ Synced(R, c1, A, t) /\ DiskHolds(R2, A, t) /\ Synced(R2, c1, A, t)
  <1> DEFINE dead == Expired(c, t)
  <1>1. Has(c1, Drop(c.consumed, dead), c1.order, c.published, c.revoked, c.receipts)
    <2>1. PICK o : o = Retain(c.order, DOMAIN c.consumed \ dead) OBVIOUS
    <2>2. c1 = SetCommits(c, Drop(c.consumed, dead), o)
      BY <2>1 DEF PruneCached, SetCommits
    <2>3. Has(SetCommits(c, Drop(c.consumed, dead), o), Drop(c.consumed, dead), o,
              c.published, c.revoked, c.receipts)
      BY CachesFields
    <2> QED BY <2>2, <2>3 DEF Has
  <1>2. /\ FiniteMap(c1.consumed) /\ DOMAIN c1.consumed = DOMAIN c.consumed \ dead
        /\ \A g \in DOMAIN c.consumed \ dead : c1.consumed[g] = c.consumed[g]
    <2>1. FiniteMap(c.consumed) BY DEF GoodCaches, CachesType
    <2>2. HasDropped(Drop(c.consumed, dead), c.consumed, dead) BY <2>1, DropStaysFinite
    <2>3. c1.consumed = Drop(c.consumed, dead) BY <1>1 DEF Has
    <2> QED BY <2>2, <2>3 DEF HasDropped
  <1>3. /\ \A g \in DOMAIN c.consumed : c.consumed[g] \in Nat
        /\ \A g \in DOMAIN c.receipts : c.receipts[g] \in Nat
    BY DEF CachesType, FiniteMap
  <1>4. \A g \in DOMAIN c.consumed : c.consumed[g] > t => g \notin dead BY <1>3 DEF Expired
  <1>5. c1.published = c.published /\ c1.revoked = c.revoked /\ c1.receipts = c.receipts
    BY <1>1 DEF Has
  <1>6. CachesShape(c1) /\ CachesType(c1)
    BY <1>1, <1>2, <1>5 DEF Has, CachesType
  <1> HIDE DEF dead
  <1>7. Synced(R, c1, A, t)
    <2>1. \A g \in DOMAIN c1.consumed \ A.published :
            g \in DOMAIN R.consumed /\ R.consumed[g] = c1.consumed[g]
      BY <1>2 DEF Synced
    <2>2. \A g \in DOMAIN A.commits \ A.published :
            A.commits[g] > t => g \in DOMAIN c1.consumed /\ c1.consumed[g] = A.commits[g]
      BY <1>2, <1>4 DEF Synced
    <2> QED BY <1>2, <1>5, <2>1, <2>2 DEF Synced
  <1>8. R2.consumed = c1.consumed /\ R2.revoked = c.revoked /\ R2.receipts = c.receipts
    BY <1>5 DEF Exact
  <1>9. DiskHolds(R2, A, t)
    <2>1. \A g \in DOMAIN A.commits \ A.published :
            A.commits[g] > t => g \in DOMAIN R2.consumed /\ R2.consumed[g] = A.commits[g]
      BY <1>7, <1>8 DEF Synced
    <2>2. \A g \in DOMAIN A.receipts : g \in DOMAIN R2.receipts /\ R2.receipts[g] <= A.receipts[g]
      BY <1>8 DEF Synced
    <2> QED BY <1>8, <2>1, <2>2 DEF Synced, DiskHolds
  <1>10. Synced(R2, c1, A, t)
    <2>1. \A g \in DOMAIN c1.receipts :
            g \in DOMAIN R2.receipts /\ R2.receipts[g] <= c1.receipts[g] /\ c1.receipts[g] <= t
      BY <1>3, <1>5, <1>8 DEF Synced
    <2>2. \A g \in c1.published \ A.unsettled : g \notin DOMAIN R2.consumed /\ g \notin DOMAIN c1.consumed
      BY <1>7, <1>8 DEF Synced
    <2> QED BY <1>5, <1>7, <1>8, <2>1, <2>2 DEF Synced
  <1>11. Fewer(c1, c) BY <1>2, <1>5 DEF Fewer
  <1> QED BY <1>6, <1>7, <1>9, <1>10, <1>11

-----------------------------------------------------------------------------
(* What prune_expired writes.                                              *)

\* Every value of S is in s.
Covers(s, S) == \A e \in S : \E i \in 1 .. Len(s) : s[i] = e

\* A sequence of a set holds all of it.
LEMMA SeqOfSet ==
    ASSUME NEW S, IsFiniteSet(S), NEW s \in SetToSeqs(S)
    PROVE  s \in Seq(S) /\ Covers(s, S)
  <1>1. PICK n \in Nat : n = Cardinality(S) BY FS_CardinalityType
  <1>2. s \in [1 .. n -> S] /\ \A i, j \in 1 .. n : i # j => s[i] # s[j]
    BY <1>1, Zenon DEF SetToSeqs
  <1>3. s \in Seq(S) /\ Len(s) = n /\ DOMAIN s = 1 .. n BY <1>2
  <1>4. \A i, j \in 1 .. n : s[i] = s[j] => i = j BY <1>2
  <1>5. Cardinality(Range(s)) = n BY <1>3, <1>4, CountDistinct
  <1>6. Range(s) \in SUBSET S BY <1>2 DEF Range
  <1>7. Range(s) = S BY <1>1, <1>5, <1>6, FS_Subset
  <1>8. Covers(s, S) BY <1>3, <1>7 DEF Range, Covers
  <1> QED BY <1>3, <1>8

\* Two sequences behind each other hold what they held.
LEMMA CoversBoth ==
    ASSUME NEW S, NEW T, NEW s \in Seq(S), NEW u \in Seq(T), Covers(s, S), Covers(u, T)
    PROVE  s \o u \in Seq(S \cup T) /\ Covers(s \o u, S \cup T)
  <1>1. PICK M \in Nat : M = Len(s) OBVIOUS
  <1>2. PICK N \in Nat : N = Len(u) OBVIOUS
  <1>3. s \in Seq(S \cup T) /\ u \in Seq(S \cup T) OBVIOUS
  <1>4. PICK v : v = s \o u OBVIOUS
  <1>5. v \in Seq(S \cup T) /\ Len(v) = M + N BY <1>1, <1>2, <1>3, <1>4, ConcatProperties
  <1>6. \A i \in 1 .. M + N : v[i] = IF i <= M THEN s[i] ELSE u[i - M]
    <2>1. \A i \in 1 .. Len(s) + Len(u) : v[i] = IF i <= Len(s) THEN s[i] ELSE u[i - Len(s)]
      BY <1>3, <1>4, ConcatProperties
    <2> QED BY <1>1, <1>2, <2>1
  <1>7. ASSUME NEW e \in S PROVE \E i \in 1 .. M + N : v[i] = e
    <2>1. PICK i \in 1 .. M : s[i] = e BY <1>1 DEF Covers
    <2>2. i \in 1 .. M + N /\ i <= M BY <2>1
    <2> QED BY <1>6, <2>1, <2>2
  <1>8. ASSUME NEW e \in T PROVE \E i \in 1 .. M + N : v[i] = e
    <2>1. PICK i \in 1 .. N : u[i] = e BY <1>2 DEF Covers
    <2>2. M + i \in 1 .. M + N /\ ~(M + i <= M) /\ M + i - M = i BY <2>1
    <2>3. v[M + i] = IF M + i <= M THEN s[M + i] ELSE u[M + i - M] BY <1>6, <2>2
    <2>4. v[M + i] = u[i] BY <2>2, <2>3
    <2> QED BY <2>1, <2>2, <2>4
  <1>9. Covers(v, S \cup T) BY <1>5, <1>7, <1>8 DEF Covers
  <1> QED BY <1>4, <1>5, <1>9

\* The records of the caches that a prune writes.
Live(c) == RecsOf("COMMIT", c.consumed) \cup RecsOf("REVOKE", c.revoked)
              \cup RecsOf("FIRST_RECEIPT", c.receipts)

\* One record for each key of a finite map.
LEMMA RecsFinite ==
    ASSUME NEW m, FiniteMap(m), NEW tag
    PROVE  IsFiniteSet(RecsOf(tag, m))
  <1> DEFINE T == RecsOf(tag, m)
             f == [g \in DOMAIN m |-> Rec(tag, g, m[g])]
  <1>1. f \in Surjection(DOMAIN m, T)
    <2>1. f \in [DOMAIN m -> T] BY DEF RecsOf
    <2>2. \A t \in T : \E g \in DOMAIN m : f[g] = t BY DEF RecsOf
    <2> QED BY <2>1, <2>2 DEF Surjection
  <1> QED BY <1>1, FS_Surjection DEF FiniteMap

\* The records of an image, in their order.
Written(a, c) == a \in Seq(Live(c)) /\ Covers(a, Live(c))

\* Three sets of records, each in an order of its own.
LEMMA CoversThree ==
    ASSUME NEW S, NEW T, NEW U, IsFiniteSet(S), IsFiniteSet(T), IsFiniteSet(U),
           NEW x \in SetToSeqs(S), NEW y \in SetToSeqs(T), NEW z \in SetToSeqs(U)
    PROVE  x \o y \o z \in Seq(S \cup T \cup U) /\ Covers(x \o y \o z, S \cup T \cup U)
  <1>1. x \in Seq(S) /\ Covers(x, S) BY SeqOfSet
  <1>2. y \in Seq(T) /\ Covers(y, T) BY SeqOfSet
  <1>3. z \in Seq(U) /\ Covers(z, U) BY SeqOfSet
  <1>4. PICK V : V = S \cup T OBVIOUS
  <1>5. PICK b : b = x \o y OBVIOUS
  <1>6. b \in Seq(V) /\ Covers(b, V) BY <1>1, <1>2, <1>4, <1>5, CoversBoth
  <1>7. b \o z \in Seq(V \cup U) /\ Covers(b \o z, V \cup U) BY <1>3, <1>6, CoversBoth
  <1> QED BY <1>4, <1>5, <1>7

\* An image is made of the bytes of the live records, one after the other.
LEMMA ImageRecords ==
    ASSUME NEW c, CachesType(c), NEW img \in Images(c)
    PROVE  \E a : Written(a, c) /\ img = Image(a)
  <1>1. PICK S, T, U : S = RecsOf("COMMIT", c.consumed) /\ T = RecsOf("REVOKE", c.revoked)
                       /\ U = RecsOf("FIRST_RECEIPT", c.receipts)
    OBVIOUS
  <1>2. PICK x \in SetToSeqs(S), y \in SetToSeqs(T), z \in SetToSeqs(U) : img = Image(x \o y \o z)
    BY <1>1 DEF Images
  <1>3. IsFiniteSet(S) /\ IsFiniteSet(T) /\ IsFiniteSet(U)
    BY <1>1, RecsFinite DEF CachesType
  <1>4. x \o y \o z \in Seq(S \cup T \cup U) /\ Covers(x \o y \o z, S \cup T \cup U)
    BY <1>2, <1>3, CoversThree
  <1>5. Written(x \o y \o z, c) BY <1>1, <1>4 DEF Written, Live
  <1> QED BY <1>2, <1>5

-----------------------------------------------------------------------------
(* Reading it back.                                                        *)

\* m has nothing but entries of full, those of the first j records of a among them.
HasFirst(m, full, a, j, tag) ==
    /\ FiniteMap(m)
    /\ \A g \in DOMAIN m : g \in DOMAIN full /\ m[g] = full[g]
    /\ \A i \in 1 .. j : a[i].tag = tag => a[i].key \in DOMAIN m

\* The caches e have what the first j records of a say.
CachesFirst(e, c, a, j) ==
    /\ GoodCaches(e) /\ e.published = {}
    /\ HasFirst(e.consumed, c.consumed, a, j, "COMMIT")
    /\ HasFirst(e.revoked, c.revoked, a, j, "REVOKE")
    /\ HasFirst(e.receipts, c.receipts, a, j, "FIRST_RECEIPT")

\* Record j adds its entry.
LEMMA HasNext ==
    ASSUME NEW m, NEW full, NEW a, NEW j \in Nat \ {0}, NEW tag, HasFirst(m, full, a, j - 1, tag),
           NEW g \in DOMAIN full, full[g] \in Nat, NEW p, a[j].key = g,
           HasPut(p, m, g, full[g]) \/ (p = m /\ g \in DOMAIN m)
    PROVE  HasFirst(p, full, a, j, tag)
  <1>1. \A i \in 1 .. j : i \in 1 .. j - 1 \/ i = j OBVIOUS
  <1>2. CASE HasPut(p, m, g, full[g])
    <2>1. FiniteMap(p) /\ DOMAIN p = DOMAIN m \cup {g} /\ p[g] = full[g]
          /\ \A x \in DOMAIN m \ {g} : p[x] = m[x]
      BY <1>2 DEF HasPut
    <2>2. \A x \in DOMAIN p : x \in DOMAIN full /\ p[x] = full[x] BY <2>1 DEF HasFirst
    <2>3. \A i \in 1 .. j : a[i].tag = tag => a[i].key \in DOMAIN p
      BY <1>1, <2>1 DEF HasFirst
    <2> QED BY <2>1, <2>2, <2>3 DEF HasFirst
  <1>3. CASE p = m /\ g \in DOMAIN m
    BY <1>1, <1>3 DEF HasFirst
  <1> QED BY <1>2, <1>3

\* A record with another tag does not concern it.
LEMMA HasStill ==
    ASSUME NEW m, NEW full, NEW a, NEW j \in Nat \ {0}, NEW tag, HasFirst(m, full, a, j - 1, tag),
           a[j].tag # tag
    PROVE  HasFirst(m, full, a, j, tag)
  <1>1. \A i \in 1 .. j : i \in 1 .. j - 1 \/ i = j OBVIOUS
  <1> QED BY <1>1 DEF HasFirst

\* Reading record j of an image.
LEMMA ReadNext ==
    ASSUME NEW c, CachesType(c), NEW a, NEW j \in Nat \ {0}, NEW rec \in Live(c), a[j] = rec,
           NEW e, CachesFirst(e, c, a, j - 1)
    PROVE  CachesFirst(ApplyRec(e, rec), c, a, j)
  <1>1. PICK e1 : e1 = ApplyRec(e, rec) OBVIOUS
  <1>2. \A t, g, n : Rec(t, g, n).tag = t /\ Rec(t, g, n).key = g BY DEF Rec
  <1>3. GoodCaches(e) /\ CachesShape(e) /\ FiniteMap(e.consumed) /\ FiniteMap(e.revoked)
        /\ FiniteMap(e.receipts) /\ e.published = {}
    BY DEF CachesFirst, GoodCaches, CachesType
  <1>4. /\ HasFirst(e.consumed, c.consumed, a, j - 1, "COMMIT")
        /\ HasFirst(e.revoked, c.revoked, a, j - 1, "REVOKE")
        /\ HasFirst(e.receipts, c.receipts, a, j - 1, "FIRST_RECEIPT")
    BY DEF CachesFirst
  <1>5. ASSUME NEW g \in DOMAIN c.consumed, rec = Rec("COMMIT", g, c.consumed[g])
        PROVE  CachesFirst(e1, c, a, j)
    <2>1. PICK n \in Nat : n = c.consumed[g] BY DEF CachesType, FiniteMap
    <2>2. a[j].tag = "COMMIT" /\ a[j].key = g BY <1>2, <1>5
    <2>3. e1 = ApplyRec(e, Rec("COMMIT", g, n)) BY <1>1, <1>5, <2>1
    <2>4. Has(e1, Put(e.consumed, g, n), Ordered(e, g), e.published, e.revoked, e.receipts)
      BY <1>3, <2>3, ApplyFields
    <2>5. GoodCaches(e1) BY <1>3, <2>3, ApplyKeepsGood DEF Tags
    <2>6. HasPut(Put(e.consumed, g, n), e.consumed, g, n) BY <1>3, PutStaysFinite
    <2>7. /\ e1.consumed = Put(e.consumed, g, n) /\ e1.published = {} /\ e1.revoked = e.revoked
          /\ e1.receipts = e.receipts
      BY <1>3, <2>4 DEF Has
    <2>8. HasFirst(e1.consumed, c.consumed, a, j, "COMMIT") BY <1>4, <2>1, <2>2, <2>6, <2>7, HasNext
    <2>9. HasFirst(e1.revoked, c.revoked, a, j, "REVOKE") BY <1>4, <2>2, <2>7, HasStill
    <2>10. HasFirst(e1.receipts, c.receipts, a, j, "FIRST_RECEIPT") BY <1>4, <2>2, <2>7, HasStill
    <2> QED BY <2>5, <2>7, <2>8, <2>9, <2>10 DEF CachesFirst
  <1>6. ASSUME NEW g \in DOMAIN c.revoked, rec = Rec("REVOKE", g, c.revoked[g])
        PROVE  CachesFirst(e1, c, a, j)
    <2>1. PICK n \in Nat : n = c.revoked[g] BY DEF CachesType, FiniteMap
    <2>2. a[j].tag = "REVOKE" /\ a[j].key = g BY <1>2, <1>6
    <2>3. e1 = ApplyRec(e, Rec("REVOKE", g, n)) BY <1>1, <1>6, <2>1
    <2>4. Has(e1, e.consumed, e.order, e.published, Put(e.revoked, g, n), e.receipts)
      BY <1>3, <2>3, ApplyFields
    <2>5. GoodCaches(e1) BY <1>3, <2>3, ApplyKeepsGood DEF Tags
    <2>6. HasPut(Put(e.revoked, g, n), e.revoked, g, n) BY <1>3, PutStaysFinite
    <2>7. /\ e1.revoked = Put(e.revoked, g, n) /\ e1.published = {} /\ e1.consumed = e.consumed
          /\ e1.receipts = e.receipts
      BY <1>3, <2>4 DEF Has
    <2>8. HasFirst(e1.revoked, c.revoked, a, j, "REVOKE") BY <1>4, <2>1, <2>2, <2>6, <2>7, HasNext
    <2>9. HasFirst(e1.consumed, c.consumed, a, j, "COMMIT") BY <1>4, <2>2, <2>7, HasStill
    <2>10. HasFirst(e1.receipts, c.receipts, a, j, "FIRST_RECEIPT") BY <1>4, <2>2, <2>7, HasStill
    <2> QED BY <2>5, <2>7, <2>8, <2>9, <2>10 DEF CachesFirst
  <1>7. ASSUME NEW g \in DOMAIN c.receipts, rec = Rec("FIRST_RECEIPT", g, c.receipts[g])
        PROVE  CachesFirst(e1, c, a, j)
    <2>1. PICK n \in Nat : n = c.receipts[g] BY DEF CachesType, FiniteMap
    <2>2. a[j].tag = "FIRST_RECEIPT" /\ a[j].key = g BY <1>2, <1>7
    <2>3. e1 = ApplyRec(e, Rec("FIRST_RECEIPT", g, n)) BY <1>1, <1>7, <2>1
    <2>4. PICK p : p = IF g \in DOMAIN e.receipts THEN e.receipts ELSE Put(e.receipts, g, n) OBVIOUS
    <2>5. Has(e1, e.consumed, e.order, e.published, e.revoked, p) BY <1>3, <2>3, <2>4, ApplyFields
    <2>6. GoodCaches(e1) BY <1>3, <2>3, ApplyKeepsGood DEF Tags
    <2>7. HasPut(p, e.receipts, g, n) \/ (p = e.receipts /\ g \in DOMAIN e.receipts)
      <3>1. HasPut(Put(e.receipts, g, n), e.receipts, g, n) BY <1>3, PutStaysFinite
      <3> QED BY <2>4, <3>1
    <2>8. /\ e1.receipts = p /\ e1.published = {} /\ e1.consumed = e.consumed
          /\ e1.revoked = e.revoked
      BY <1>3, <2>5 DEF Has
    <2>9. HasFirst(e1.receipts, c.receipts, a, j, "FIRST_RECEIPT") BY <1>4, <2>1, <2>2, <2>7, <2>8, HasNext
    <2>10. HasFirst(e1.consumed, c.consumed, a, j, "COMMIT") BY <1>4, <2>2, <2>8, HasStill
    <2>11. HasFirst(e1.revoked, c.revoked, a, j, "REVOKE") BY <1>4, <2>2, <2>8, HasStill
    <2> QED BY <2>6, <2>8, <2>9, <2>10, <2>11 DEF CachesFirst
  <1> QED BY <1>1, <1>5, <1>6, <1>7 DEF Live, RecsOf

\* All records of an image are read: the caches are the ones it was written from.
LEMMA ReadAll ==
    ASSUME NEW c, CachesType(c), NEW a, Written(a, c), NEW e, CachesFirst(e, c, a, Len(a))
    PROVE  GoodCaches(e) /\ Exact(e, c) /\ e.published = {}
  <1>1. \A t, g, n : Rec(t, g, n).tag = t /\ Rec(t, g, n).key = g BY DEF Rec
  <1>2. ASSUME NEW m, NEW full, FiniteMap(full), NEW tag, HasFirst(m, full, a, Len(a), tag),
               \A g \in DOMAIN full : Rec(tag, g, full[g]) \in Live(c)
        PROVE  m = full
    <2>1. ASSUME NEW g \in DOMAIN full PROVE g \in DOMAIN m
      <3>1. PICK i \in 1 .. Len(a) : a[i] = Rec(tag, g, full[g]) BY <1>2 DEF Written, Covers
      <3>2. a[i].tag = tag /\ a[i].key = g BY <1>1, <3>1
      <3> QED BY <1>2, <3>2 DEF HasFirst
    <2>2. m = [k \in DOMAIN m |-> m[k]] /\ full = [k \in DOMAIN full |-> full[k]]
      BY <1>2 DEF HasFirst, FiniteMap
    <2>3. \A k \in DOMAIN m : k \in DOMAIN full /\ m[k] = full[k] BY <1>2 DEF HasFirst
    <2>4. DOMAIN m = DOMAIN full BY <2>1, <2>3
    <2> QED BY <2>2, <2>3, <2>4
  <1>3. e.consumed = c.consumed
    <2>1. \A g \in DOMAIN c.consumed : Rec("COMMIT", g, c.consumed[g]) \in Live(c) BY DEF Live, RecsOf
    <2>2. FiniteMap(c.consumed) /\ HasFirst(e.consumed, c.consumed, a, Len(a), "COMMIT")
      BY DEF CachesType, CachesFirst
    <2> QED BY <1>2, <2>1, <2>2
  <1>4. e.revoked = c.revoked
    <2>1. \A g \in DOMAIN c.revoked : Rec("REVOKE", g, c.revoked[g]) \in Live(c) BY DEF Live, RecsOf
    <2>2. FiniteMap(c.revoked) /\ HasFirst(e.revoked, c.revoked, a, Len(a), "REVOKE")
      BY DEF CachesType, CachesFirst
    <2> QED BY <1>2, <2>1, <2>2
  <1>5. e.receipts = c.receipts
    <2>1. \A g \in DOMAIN c.receipts : Rec("FIRST_RECEIPT", g, c.receipts[g]) \in Live(c)
      BY DEF Live, RecsOf
    <2>2. FiniteMap(c.receipts) /\ HasFirst(e.receipts, c.receipts, a, Len(a), "FIRST_RECEIPT")
      BY DEF CachesType, CachesFirst
    <2> QED BY <1>2, <2>1, <2>2
  <1> QED BY <1>3, <1>4, <1>5 DEF Exact, CachesFirst

-----------------------------------------------------------------------------
(* A log written record by record, and the image of a prune.               *)

\* f is read to its end and says what the first j records of a say.
LogHolds(f, c, a, j) ==
    /\ IsSeq(f) /\ Scan(f).off = Len(f) /\ Scan(f).ok
    /\ CachesFirst(Scan(f).c, c, a, j)

\* The parts of what a reader has.
LEMMA ReaderParts ==
    ASSUME NEW off, NEW ok, NEW c, NEW r, r = Reader(off, ok, c)
    PROVE  r.off = off /\ r.ok = ok /\ r.c = c
  BY DEF Reader

\* A live record.
LEMMA LiveRecord ==
    ASSUME NEW c, NEW rec \in Live(c)
    PROVE  \E tag \in {"COMMIT", "REVOKE", "FIRST_RECEIPT"} : \E g, n : rec = Rec(tag, g, n)
  BY DEF Live, RecsOf

\* Without a record, the log says nothing.
LEMMA LogStarts ==
    ASSUME NEW c, NEW a
    PROVE  LogHolds(<<>>, c, a, 0)
  <1>1. Scan(<<>>) = Reader(0, TRUE, NewCaches) BY ScanEmpty
  <1>2. Scan(<<>>).off = 0 /\ Scan(<<>>).ok /\ Scan(<<>>).c = NewCaches
    <2>1. PICK r : r = Scan(<<>>) OBVIOUS
    <2>2. r = Reader(0, TRUE, NewCaches) BY <1>1, <2>1
    <2>3. r.off = 0 /\ r.c = NewCaches BY <2>2 DEF Reader
    <2>4. r.ok = TRUE BY <2>2 DEF Reader
    <2> QED BY <2>1, <2>3, <2>4
  <1>3. FiniteMap(EmptyMap)
    <2>1. DOMAIN EmptyMap = {} BY DEF EmptyMap
    <2>2. IsFiniteSet(DOMAIN EmptyMap) BY <2>1, FS_EmptySet
    <2>3. EmptyMap = [k \in DOMAIN EmptyMap |-> EmptyMap[k]] BY DEF EmptyMap
    <2> QED BY <2>1, <2>2, <2>3 DEF FiniteMap
  <1>4. /\ NewCaches.consumed = EmptyMap /\ NewCaches.revoked = EmptyMap
        /\ NewCaches.receipts = EmptyMap /\ NewCaches.order = <<>> /\ NewCaches.published = {}
        /\ CachesShape(NewCaches)
    BY DEF NewCaches, CachesShape
  <1>5. OrderOk(NewCaches)
    <2>1. <<>> \in Seq({}) /\ DOMAIN <<>> = {} OBVIOUS
    <2>2. IsSeq(<<>>) BY <2>1 DEF IsSeq
    <2>3. ToSet(<<>>) = {} /\ IsInjective(<<>>) BY <2>1 DEF ToSet, IsInjective
    <2> QED BY <1>4, <2>2, <2>3 DEF OrderOk
  <1>6. GoodCaches(NewCaches) BY <1>3, <1>4, <1>5 DEF GoodCaches, CachesType
  <1>7. \A full, tag : HasFirst(EmptyMap, full, a, 0, tag)
    <2>1. DOMAIN EmptyMap = {} BY DEF EmptyMap
    <2>2. \A i \in 1 .. 0 : FALSE OBVIOUS
    <2> QED BY <1>3, <2>1, <2>2 DEF HasFirst
  <1>8. CachesFirst(NewCaches, c, a, 0) BY <1>4, <1>6, <1>7 DEF CachesFirst
  <1>9. IsSeq(<<>>) /\ Len(<<>>) = 0
    <2>1. <<>> \in Seq({}) /\ Len(<<>>) = 0 OBVIOUS
    <2> QED BY <2>1 DEF IsSeq
  <1> QED BY <1>2, <1>8, <1>9 DEF LogHolds

\* h is f with b behind it.
IsBehind(h, f, b) == h = f \o b

\* The whole of a record behind a log that is read to its end.
LEMMA LogAppendWhole ==
    ASSUME NEW f, IsSeq(f), Scan(f).off = Len(f), NEW tag, NEW key, NEW num,
           NumLen(tag) = 0 => num = 0, NEW b, b = Bytes(Rec(tag, key, num)), NEW h, IsBehind(h, f, b)
    PROVE  /\ IsSeq(h)
           /\ Scan(h) = Reader(Len(h), Scan(f).ok, ApplyRec(Scan(f).c, Rec(tag, key, num)))
  <1>1. IsRecord(b, tag, key, num) BY BytesOf
  <1>2. PICK S : b \in Seq(S) BY <1>1 DEF IsRecord, IsSeq
  <1>3. PICK k : k = Len(b) OBVIOUS
  <1>4. SubSeq(b, 1, k) = b BY <1>2, <1>3, SubSeqFull
  <1>5. WithPart(h, f, b, k) BY <1>4 DEF WithPart, IsBehind
  <1>6. k \in 1 .. Len(b)
    <2>1. RecLen(tag) \in Nat \ {0} BY RecLenType
    <2>2. k = RecLen(tag) BY <1>1, <1>3 DEF IsRecord
    <2> QED BY <1>3, <2>1, <2>2
  <1>7. IsSeq(h) BY <1>5, <1>6, LogAppend
  <1>8. k = Len(b) =>
          Scan(h) = Reader(Len(h), Scan(f).ok, ApplyRec(Scan(f).c, Rec(tag, key, num)))
    BY <1>5, <1>6, LogAppend
  <1> QED BY <1>3, <1>7, <1>8

\* The next record of an image.
LEMMA LogNext ==
    ASSUME NEW c, CachesType(c), NEW a, Written(a, c), NEW j \in 1 .. Len(a),
           NEW f, LogHolds(f, c, a, j - 1), NEW h, IsBehind(h, f, Bytes(a[j]))
    PROVE  LogHolds(h, c, a, j)
  <1>1. a[j] \in Live(c) BY DEF Written
  <1>2. PICK tag \in {"COMMIT", "REVOKE", "FIRST_RECEIPT"} : \E g, n : a[j] = Rec(tag, g, n)
    BY <1>1, LiveRecord
  <1>3. PICK g, n : a[j] = Rec(tag, g, n) BY <1>2
  <1>4. NumLen(tag) # 0 BY LayoutAssumption DEF NumLen
  <1>5. IsSeq(f) /\ Scan(f).off = Len(f) /\ Scan(f).ok /\ CachesFirst(Scan(f).c, c, a, j - 1)
    BY DEF LogHolds
  <1>b. PICK b : b = Bytes(a[j]) OBVIOUS
  <1>c. b = Bytes(Rec(tag, g, n)) /\ IsBehind(h, f, b) BY <1>3, <1>b
  <1>6. IsSeq(h) BY <1>4, <1>5, <1>c, LogAppendWhole
  <1>d. IsSeq(f) /\ Scan(f).off = Len(f) BY <1>5
  <1>a. Scan(h) = Reader(Len(h), Scan(f).ok, ApplyRec(Scan(f).c, Rec(tag, g, n)))
    BY <1>4, <1>c, <1>d, LogAppendWhole
  <1>7. Scan(h).off = Len(h) /\ Scan(h).ok /\ Scan(h).c = ApplyRec(Scan(f).c, a[j])
    <2>1. Scan(h).off = Len(h) /\ Scan(h).c = ApplyRec(Scan(f).c, Rec(tag, g, n)) BY <1>a, ReaderParts
    <2>2. Scan(h).ok = Scan(f).ok BY <1>a, ReaderParts
    <2> QED BY <1>3, <1>5, <2>1, <2>2
  <1>8. j \in Nat \ {0} BY DEF Written
  <1>9. CachesFirst(ApplyRec(Scan(f).c, a[j]), c, a, j)
    BY <1>1, <1>5, <1>8, ReadNext
  <1> QED BY <1>6, <1>7, <1>9 DEF LogHolds

\* A rebuild from what a prune has written gives the caches it was written from.
LEMMA ImageReads ==
    ASSUME NEW c, CachesType(c), NEW img \in Images(c)
    PROVE  /\ IsSeq(img) /\ Scan(img).off = Len(img) /\ Scan(img).ok
           /\ GoodCaches(Scan(img).c) /\ Exact(Scan(img).c, c) /\ Scan(img).c.published = {}
  <1>1. PICK a : Written(a, c) /\ img = Image(a) BY ImageRecords
  <1>2. PICK N \in Nat : N = Len(a) BY <1>1 DEF Written
  <1>3. PICK bs : bs = [j \in 1 .. N |-> Bytes(a[j])] OBVIOUS
  <1>4. img = FlattenSeq(bs) BY <1>1, <1>2, <1>3 DEF Image
  <1>5. Len(bs) = N /\ \A j \in 1 .. N : bs[j] = Bytes(a[j])
    <2>1. bs \in Seq({Bytes(a[j]) : j \in 1 .. N}) BY <1>3
    <2> QED BY <1>3, <2>1
  <1>6. LogHolds(img, c, a, N)
    <2>1. CASE N = 0
      <3>1. bs = <<>> BY <1>3, <2>1
      <3>2. img = <<>> BY <1>4, <3>1 DEF FlattenSeq
      <3> QED BY <2>1, <3>2, LogStarts
    <2>2. CASE N # 0
      <3>0. PICK l : img = l[N] /\ LaysOut(bs, N, l)
        BY <1>4, <1>5, <2>2, FlattenIsLaid
      <3>1. /\ img = l[N] /\ l[1] = bs[1]
            /\ \A i \in 2 .. N : l[i] = l[i - 1] \o bs[i]
        BY <3>0 DEF LaysOut
      <3> DEFINE T == {n \in 1 .. N : ~LogHolds(l[n], c, a, n)}
      <3> SUFFICES ASSUME T # {} PROVE FALSE
        <4>1. N \in 1 .. N BY <2>2
        <4> QED BY <3>1, <4>1
      <3>2. PICK n \in T : \A k \in T : n <= k
        <4>1. T \in SUBSET Nat OBVIOUS
        <4> QED BY <4>1, LeastNatural
      <3>3. n \in 1 .. N /\ n \in 1 .. Len(a) BY <1>2
      <3>4. CASE n = 1
        <4>1. IsBehind(l[1], <<>>, Bytes(a[1]))
          <5>1. l[1] = Bytes(a[1]) BY <1>5, <3>1, <3>3, <3>4
          <5>2. a[1] \in Live(c) BY <1>1, <3>3, <3>4 DEF Written
          <5>3. PICK tag, g, num : a[1] = Rec(tag, g, num) BY <5>2, LiveRecord
          <5>4. IsSeq(Bytes(a[1])) BY <5>3, BytesOf DEF IsRecord
          <5>5. \A b : IsSeq(b) => <<>> \o b = b BY ConcatEmptySeq DEF IsSeq
          <5> QED BY <5>1, <5>4, <5>5 DEF IsBehind
        <4>2. LogHolds(<<>>, c, a, 1 - 1) BY LogStarts
        <4>3. LogHolds(l[1], c, a, 1) BY <1>1, <3>3, <3>4, <4>1, <4>2, LogNext
        <4> QED BY <3>2, <3>4, <4>3
      <3>5. CASE n # 1
        <4>1. n \in 2 .. N /\ n - 1 \in 1 .. N /\ ~(n <= n - 1) BY <3>3, <3>5
        <4>2. LogHolds(l[n - 1], c, a, n - 1) BY <3>2, <4>1
        <4>3. IsBehind(l[n], l[n - 1], Bytes(a[n])) BY <1>5, <3>1, <3>3, <4>1 DEF IsBehind
        <4>4. LogHolds(l[n], c, a, n) BY <1>1, <3>3, <4>2, <4>3, LogNext
        <4> QED BY <3>2, <4>4
      <3> QED BY <3>4, <3>5
    <2> QED BY <2>1, <2>2
  <1>7. CachesFirst(Scan(img).c, c, a, Len(a)) BY <1>2, <1>6 DEF LogHolds
  <1>8. GoodCaches(Scan(img).c) /\ Exact(Scan(img).c, c) /\ Scan(img).c.published = {}
    BY <1>1, <1>7, ReadAll
  <1> QED BY <1>6, <1>8 DEF LogHolds

-----------------------------------------------------------------------------
(* A write, wherever the handle stands.                                    *)

\* The ledger value is a record of these fields.
MemShape(m) ==
    /\ m = [phase |-> m.phase, handle |-> m.handle, pos |-> m.pos, c |-> m.c]
    /\ CachesShape(m.c)

\* So is the disk.
DiskShape(d) ==
    /\ d = [file |-> d.file, temp |-> d.temp, spoiled |-> d.spoiled]
    /\ d.spoiled \in BOOLEAN

\* recover() reads all of the file without an error.
FileOk(f) == IsSeq(f) /\ Scan(f).ok /\ GoodCaches(Scan(f).c)

\* h is f with the first k bytes of b written at pos.
Writes(h, f, pos, b, k) == h = WriteAt(f, pos, SubSeq(b, 1, k))

\* What recover() makes of a file that a write has left in place at its end, whole or not,
\* or that it did not touch.
Reads(h, f, pos, rec, k, len) ==
    /\ FileOk(h) /\ pos + k \in 0 .. Len(h)
    /\ k = 0 => h = f
    /\ Scan(h).c \in {Scan(f).c, ApplyRec(Scan(f).c, rec)}
    /\ k = len => Scan(h).c = ApplyRec(Scan(f).c, rec)

\* A write of the first k bytes of a record, wherever the handle stands on a whole
\* log, leaves a whole log, or is misplaced.
LEMMA WriteReads ==
    ASSUME NEW f, FileOk(f), NEW pos \in 0 .. Len(f), NEW tag \in Tags, NEW key, NEW num \in Nat,
           NumLen(tag) = 0 => num = 0, NEW b, b = Bytes(Rec(tag, key, num)), NEW k \in 0 .. Len(b),
           k > 0 => pos = Len(f) /\ ~Torn(f), NEW h, Writes(h, f, pos, b, k)
    PROVE  Reads(h, f, pos, Rec(tag, key, num), k, Len(b))
  <1>1. IsSeq(f) /\ GoodCaches(Scan(f).c) BY DEF FileOk
  <1>2. IsRecord(b, tag, key, num) BY BytesOf
  <1>3. PICK S : b \in Seq(S) BY <1>2 DEF IsRecord, IsSeq
  <1>4. Len(b) \in Nat \ {0} /\ Len(f) \in Nat
    <2>1. Len(b) = RecLen(tag) BY <1>2 DEF IsRecord
    <2> QED BY <1>1, <2>1, RecLenType DEF IsSeq
  <1>5. CASE k = 0
    <2>1. SubSeq(b, 1, 0) = <<>> BY SubSeqEmpty
    <2>2. h = WriteAt(f, pos, <<>>) BY <1>5, <2>1 DEF Writes
    <2>3. IsSeq(b) BY <1>3 DEF IsSeq
    <2>4. h = f BY <1>1, <2>2, <2>3, WriteAtEnd
    <2>5. pos + k \in 0 .. Len(h) /\ k # Len(b) BY <1>4, <1>5, <2>4
    <2> QED BY <2>4, <2>5 DEF Reads
  <1>6. CASE k # 0
    <2>1. k \in 1 .. Len(b) /\ k > 0 BY <1>4, <1>6
    <2>2. pos = Len(f) /\ Scan(f).off = Len(f) BY <2>1 DEF Torn
    <2>3. PICK p : p = SubSeq(b, 1, k) OBVIOUS
    <2>4. IsSeq(p)
      <3>1. \A i \in 1 .. k : b[i] \in S BY <1>3, <2>1
      <3>2. k \in Int BY <2>1
      <3>3. p \in Seq(S) BY <2>3, <3>1, <3>2, SubSeqProperties
      <3> QED BY <3>3 DEF IsSeq
    <2>5. h = f \o p
      <3>1. h = WriteAt(f, Len(f), p) BY <2>2, <2>3 DEF Writes
      <3> QED BY <1>1, <2>4, <3>1, WriteAtEnd
    <2>6. WithPart(h, f, b, k) BY <2>3, <2>5 DEF WithPart
    <2>7. IsSeq(h) /\ Len(h) = Len(f) + k BY <1>1, <2>1, <2>2, <2>6, LogAppend
    <2>8. k # Len(b) => Scan(h) = Scan(f) BY <1>1, <2>1, <2>2, <2>6, LogAppend
    <2>9. k = Len(b) =>
            Scan(h) = Reader(Len(h), Scan(f).ok, ApplyRec(Scan(f).c, Rec(tag, key, num)))
      BY <1>1, <2>1, <2>2, <2>6, LogAppend
    <2>10. pos + k \in 0 .. Len(h) BY <1>4, <2>1, <2>2, <2>7
    <2>11. CASE k # Len(b)
      BY <1>6, <2>7, <2>8, <2>10, <2>11 DEF Reads, FileOk
    <2>12. CASE k = Len(b)
      <3>1. Scan(h).c = ApplyRec(Scan(f).c, Rec(tag, key, num)) BY <2>9, <2>12, ReaderParts
      <3>2. Scan(h).ok = Scan(f).ok BY <2>9, <2>12, ReaderParts
      <3>3. GoodCaches(Scan(h).c) BY <1>1, <3>1, ApplyKeepsGood
      <3>4. FileOk(h) BY <2>7, <3>2, <3>3 DEF FileOk
      <3> QED BY <1>6, <2>10, <3>1, <3>4 DEF Reads
    <2> QED BY <2>11, <2>12
  <1> QED BY <1>5, <1>6

\* Whether a byte is written elsewhere than at the end of a whole log.
Misplaced(d, pos, k) == k > 0 /\ (pos # Len(d.file) \/ Torn(d.file))

\* The parts of a disk.
LEMMA DiskParts ==
    ASSUME NEW x, NEW t, NEW s, NEW w, w = [file |-> x, temp |-> t, spoiled |-> s]
    PROVE  w.file = x /\ w.temp = t /\ w.spoiled = s
  OBVIOUS

\* The disk after a write.
Wrote(d, pos, p, k) ==
    [d EXCEPT !.file = WriteAt(@, pos, p),
              !.spoiled = @ \/ (k > 0 /\ (pos # Len(d.file) \/ Torn(d.file)))]

\* The parts of the disk after a write.
LEMMA DiskWritten ==
    ASSUME NEW d, DiskShape(d), ~d.spoiled, NEW pos, NEW p, NEW k, NEW w, w = Wrote(d, pos, p, k)
    PROVE  DiskShape(w) /\ w.file = WriteAt(d.file, pos, p) /\ (~w.spoiled => ~Misplaced(d, pos, k))
  <1>1. d.spoiled = FALSE BY DEF DiskShape
  <1>2. PICK s : s = Misplaced(d, pos, k) OBVIOUS
  <1>3. s \in BOOLEAN BY <1>2 DEF Misplaced
  <1>4. PICK x : x = WriteAt(d.file, pos, p) OBVIOUS
  <1>5. w = [d EXCEPT !.file = x, !.spoiled = d.spoiled \/ Misplaced(d, pos, k)]
    BY <1>4 DEF DiskShape, Misplaced, Wrote
  <1>6. (d.spoiled \/ Misplaced(d, pos, k)) = s BY <1>1, <1>2, <1>3
  <1>7. w = [d EXCEPT !.file = x, !.spoiled = s] BY <1>5, <1>6
  <1>8. w = [file |-> x, temp |-> d.temp, spoiled |-> s]
    BY <1>7 DEF DiskShape
  <1>9. w.file = x /\ w.temp = d.temp BY <1>8, DiskParts
  <1>10. w.spoiled = s BY <1>8, DiskParts
  <1>11. DiskShape(w) BY <1>3, <1>8, <1>9, <1>10 DEF DiskShape
  <1> QED BY <1>2, <1>3, <1>4, <1>9, <1>10, <1>11

-----------------------------------------------------------------------------
(* append().                                                               *)

\* The parts of an outcome.
LEMMA OutcomeParts ==
    \A r, d, m : Outcome(r, d, m).res = r /\ Outcome(r, d, m).disk = d /\ Outcome(r, d, m).mem = m
  BY DEF Outcome

\* The memory with the file position moved.
Moved(m, k) == [m EXCEPT !.pos = @ + k]

\* The memory after a write of k bytes.
LEMMA MemMoved ==
    ASSUME NEW m, MemShape(m), NEW k, NEW n, n = Moved(m, k)
    PROVE  MemShape(n) /\ n.c = m.c /\ n.phase = m.phase /\ n.handle = m.handle /\ n.pos = m.pos + k
  BY DEF MemShape, Moved

\* A write of the first k bytes of rec ends with res.
Wrought(o, d, m, rec, k) ==
    /\ o.disk = Wrote(d, m.pos, SubSeq(Bytes(rec), 1, k), k)
    /\ o.res \in {"Ok", "crash", "DiskError"}
    /\ o.res = "Ok" => k = Len(Bytes(rec))
    /\ IF o.res = "crash" THEN o.mem = Down ELSE o.mem = Moved(m, k)

\* append fails for want of a handle, or has written some of the record.
LEMMA AppendWrites ==
    ASSUME NEW d, NEW m, NEW rec, Len(Bytes(rec)) \in Nat, NEW o \in AppendOutcomes(d, m, rec)
    PROVE  \/ ~m.handle /\ o = Outcome("DiskError", d, m)
           \/ m.handle /\ \E k \in 0 .. Len(Bytes(rec)) : Wrought(o, d, m, rec, k)
  <1> DEFINE bs == Bytes(rec)
             wrote(k) == Wrote(d, m.pos, SubSeq(bs, 1, k), k)
             cut == IF Faults THEN 0 .. Len(bs) ELSE {}
  <1>1. CASE ~m.handle
    BY <1>1 DEF AppendOutcomes
  <1>2. CASE m.handle
    <2>1. o \in {Outcome("Ok", wrote(Len(bs)), Moved(m, Len(bs)))}
                \cup {Outcome("crash", wrote(k), Down) : k \in {0, Len(bs)} \cup cut}
                \cup {Outcome("DiskError", wrote(k), Moved(m, k)) : k \in cut}
      BY <1>2, Zenon DEF AppendOutcomes, Wrote, Moved
    <2>2. 0 \in 0 .. Len(bs) /\ Len(bs) \in 0 .. Len(bs) /\ cut \subseteq 0 .. Len(bs)
      OBVIOUS
    <2> HIDE DEF wrote, cut, bs
    <2>3. CASE o = Outcome("Ok", wrote(Len(bs)), Moved(m, Len(bs)))
      <3>1. Wrought(o, d, m, rec, Len(bs)) BY <2>3, OutcomeParts DEF Wrought, wrote, bs
      <3> QED BY <1>2, <2>2, <3>1 DEF bs
    <2>4. CASE o \in {Outcome("crash", wrote(k), Down) : k \in {0, Len(bs)} \cup cut}
      <3>1. PICK k \in 0 .. Len(bs) : o = Outcome("crash", wrote(k), Down) BY <2>2, <2>4
      <3>2. Wrought(o, d, m, rec, k) BY <3>1, OutcomeParts DEF Wrought, wrote, bs
      <3> QED BY <1>2, <3>1, <3>2 DEF bs
    <2>5. CASE o \in {Outcome("DiskError", wrote(k), Moved(m, k)) : k \in cut}
      <3>1. PICK k \in 0 .. Len(bs) : o = Outcome("DiskError", wrote(k), Moved(m, k)) BY <2>2, <2>5
      <3>2. Wrought(o, d, m, rec, k) BY <3>1, OutcomeParts DEF Wrought, wrote, bs
      <3> QED BY <1>2, <3>1, <3>2 DEF bs
    <2> QED BY <2>1, <2>3, <2>4, <2>5
  <1> QED BY <1>1, <1>2

\* The file and the memory an operation leaves, unless a record was misplaced.
Left(o, m) ==
    /\ FileOk(o.disk.file)
    /\ o.res = "crash" => o.mem = Down
    /\ o.res # "crash" => /\ MemShape(o.mem) /\ o.mem.c = m.c /\ o.mem.phase = m.phase
                          /\ o.mem.handle => o.mem.pos \in 0 .. Len(o.disk.file)

\* It has written nothing, and not ended with Ok.
Idle(o, d, m) ==
    o.res # "Ok" /\ o.disk.file = d.file /\ (o.res # "crash" => o.mem.pos = m.pos)

\* It has written rec, or part of it, behind the log.
Appended(o, d, m, rec) ==
    /\ m.pos = Len(d.file)
    /\ Scan(o.disk.file).c \in {Scan(d.file).c, ApplyRec(Scan(d.file).c, rec)}
    /\ o.res = "Ok" => Scan(o.disk.file).c = ApplyRec(Scan(d.file).c, rec)

\* What append leaves.
LEMMA AppendLeaves ==
    ASSUME NEW d, DiskShape(d), ~d.spoiled, FileOk(d.file),
           NEW m, MemShape(m), m.handle => m.pos \in 0 .. Len(d.file),
           NEW tag \in Tags, NEW key, NEW num \in Nat, NumLen(tag) = 0 => num = 0,
           NEW rec, rec = Rec(tag, key, num), NEW o \in AppendOutcomes(d, m, rec)
    PROVE  /\ DiskShape(o.disk)
           /\ ~o.disk.spoiled => Left(o, m) /\ (Idle(o, d, m) \/ Appended(o, d, m, rec))
           /\ o.res \in {"Ok", "crash", "DiskError"}
  <1>1. PICK b : b = Bytes(rec) OBVIOUS
  <1>2. Len(b) \in Nat \ {0}
    <2>1. Len(b) = RecLen(tag) BY <1>1, BytesOf DEF IsRecord
    <2> QED BY <2>1, RecLenType
  <1>3. CASE ~m.handle /\ o = Outcome("DiskError", d, m)
    <2>1. o.res = "DiskError" /\ o.disk = d /\ o.mem = m BY <1>3, OutcomeParts
    <2>2. Left(o, m) BY <1>3, <2>1 DEF Left
    <2>3. Idle(o, d, m) BY <2>1 DEF Idle
    <2> QED BY <2>1, <2>2, <2>3
  <1>4. ASSUME m.handle, NEW k \in 0 .. Len(b), Wrought(o, d, m, rec, k)
        PROVE  /\ DiskShape(o.disk)
               /\ ~o.disk.spoiled => Left(o, m) /\ (Idle(o, d, m) \/ Appended(o, d, m, rec))
               /\ o.res \in {"Ok", "crash", "DiskError"}
    <2>1. PICK p : p = SubSeq(b, 1, k) OBVIOUS
    <2>2. o.disk = Wrote(d, m.pos, p, k) BY <1>1, <1>4, <2>1 DEF Wrought
    <2>3. DiskShape(o.disk) BY <2>2, DiskWritten
    <2>4. o.disk.file = WriteAt(d.file, m.pos, p) BY <2>2, DiskWritten
    <2>5. ~o.disk.spoiled => ~Misplaced(d, m.pos, k) BY <2>2, DiskWritten
    <2>6. o.res \in {"Ok", "crash", "DiskError"} BY <1>4 DEF Wrought
    <2>7. ASSUME ~o.disk.spoiled PROVE Left(o, m) /\ (Idle(o, d, m) \/ Appended(o, d, m, rec))
      <3>1. k > 0 => m.pos = Len(d.file) /\ ~Torn(d.file) BY <2>5, <2>7 DEF Misplaced
      <3>2. PICK h : h = o.disk.file OBVIOUS
      <3>3. Writes(h, d.file, m.pos, b, k) BY <2>1, <2>4, <3>2 DEF Writes
      <3>4. m.pos \in 0 .. Len(d.file) BY <1>4
      <3>5. b = Bytes(Rec(tag, key, num)) BY <1>1
      <3>6. Reads(h, d.file, m.pos, Rec(tag, key, num), k, Len(b))
        BY <3>1, <3>3, <3>4, <3>5, WriteReads
      <3>7. /\ FileOk(h) /\ m.pos + k \in 0 .. Len(h)
            /\ k = 0 => h = d.file
            /\ Scan(h).c \in {Scan(d.file).c, ApplyRec(Scan(d.file).c, rec)}
            /\ k = Len(b) => Scan(h).c = ApplyRec(Scan(d.file).c, rec)
        BY <3>6 DEF Reads
      <3>8. o.res # "crash" => o.mem = Moved(m, k) BY <1>4 DEF Wrought
      <3>9. o.res # "crash" =>
              /\ MemShape(o.mem) /\ o.mem.c = m.c /\ o.mem.phase = m.phase
              /\ o.mem.handle = m.handle /\ o.mem.pos = m.pos + k
        BY <3>8, MemMoved
      <3>10. o.res = "crash" => o.mem = Down BY <1>4 DEF Wrought
      <3>11. Left(o, m) BY <3>2, <3>7, <3>9, <3>10 DEF Left
      <3>12. o.res = "Ok" => k = Len(b) BY <1>1, <1>4 DEF Wrought
      <3>13. CASE k = 0
        <4>1. o.res # "crash" => o.mem.pos = m.pos BY <3>4, <3>9, <3>13
        <4>2. Idle(o, d, m) BY <1>2, <3>2, <3>7, <3>12, <3>13, <4>1 DEF Idle
        <4> QED BY <3>11, <4>2
      <3>14. CASE k # 0
        <4>1. m.pos = Len(d.file) BY <1>4, <3>1, <3>14
        <4>2. Appended(o, d, m, rec) BY <3>2, <3>7, <3>12, <4>1 DEF Appended
        <4> QED BY <3>11, <4>2
      <3> QED BY <3>13, <3>14
    <2> QED BY <2>3, <2>6, <2>7
  <1>5. \/ ~m.handle /\ o = Outcome("DiskError", d, m)
        \/ m.handle /\ \E k \in 0 .. Len(b) : Wrought(o, d, m, rec, k)
    BY <1>1, <1>2, AppendWrites
  <1> QED BY <1>3, <1>4, <1>5

-----------------------------------------------------------------------------
(* A mutator that appends, from beginning to end.                          *)

\* open() has just made the memory.
Blank(m) == m.c = NewCaches /\ m.pos = 0 /\ m.phase = "opened"

\* The file is whole and holds what A has acknowledged by t.
OnDiskOk(f, A, t) == FileOk(f) /\ DiskHolds(Scan(f).c, A, t) /\ AckTimes(A)

\* The caches are new, or in step with the file.
InMemOk(f, m, A, t) ==
    /\ MemShape(m) /\ CachesType(m.c)
    /\ m.handle => m.pos \in 0 .. Len(f)
    /\ Blank(m) \/ Synced(Scan(f).c, m.c, A, t)

\* An operation that began with disk d and memory m ends with outcome o and history A1.
Settles(o, d, m, A1, t) ==
    /\ DiskShape(o.disk)
    /\ \/ o.disk.spoiled
       \/ /\ OnDiskOk(o.disk.file, A1, t)
          /\ o.res = "crash" => o.mem = Down
          /\ o.res # "crash" => o.mem.phase = m.phase /\ InMemOk(o.disk.file, o.mem, A1, t)
          /\ o.res = "Ok" /\ Exact(Scan(d.file).c, m.c) => Exact(Scan(o.disk.file).c, o.mem.c)

\* The history after outcome res, of those after Ok, a crash and an error.
AfterEnd(res, AO, AC, AF) ==
    CASE res = "Ok" -> AO
      [] res = "crash" -> AC
      [] OTHER -> AF

\* A history that promises no more has times as well.
LEMMA AckTimesKept ==
    ASSUME NEW A, NEW A1, AckTimes(A), AcksNoLess(A, A1) PROVE AckTimes(A1)
  BY DEF AckTimes, AcksNoLess, Acks

\* Where a record goes to the end of the log, the caches are in step with it.
LEMMA AppendsInStep ==
    ASSUME NEW f, NEW m, NEW A, NEW t, OnDiskOk(f, A, t), InMemOk(f, m, A, t), m.pos = Len(f)
    PROVE  Synced(Scan(f).c, m.c, A, t)
  <1>1. CASE Blank(m)
    <2>1. m.c = NewCaches /\ Len(f) = 0 BY <1>1 DEF Blank
    <2>2. f = <<>> BY <2>1 DEF OnDiskOk, FileOk, IsSeq
    <2>3. PICK r : r = Scan(f) OBVIOUS
    <2>4. r = Reader(0, TRUE, NewCaches) BY <2>2, <2>3, ScanEmpty
    <2>4a. r.c = NewCaches BY <2>4 DEF Reader
    <2>5. Scan(f).c = NewCaches BY <2>3, <2>4a
    <2>6. DiskHolds(NewCaches, A, t) BY <2>5 DEF OnDiskOk
    <2> QED BY <2>1, <2>5, <2>6, EmptySyncs
  <1>2. CASE ~Blank(m)
    BY <1>2 DEF InMemOk
  <1> QED BY <1>1, <1>2

\* What a mutator that appends a record promises once that is behind the log.
FitsBehind(f, rec, m, c, A, AO, AC, AF, t) ==
    Synced(Scan(f).c, m.c, A, t) =>
        Fits(Scan(f).c, ApplyRec(Scan(f).c, rec), m.c, c, AC, AF, AO, t)

\* A mutator that appends a record and then has the caches c, ended with `a` as far as
\* the file goes.
Applied(o, a, c) ==
    /\ o.res = a.res /\ o.disk = a.disk
    /\ o.res # "Ok" => o.mem = a.mem
    /\ o.res = "Ok" => o.mem = [a.mem EXCEPT !.c = c]

\* Every outcome of such a mutator is of that form.
LEMMA AppliedOf ==
    ASSUME NEW d, NEW m, NEW rec, NEW c, NEW o \in AppendThen(d, m, rec, c), MemShape(m)
    PROVE  \E a \in AppendOutcomes(d, m, rec) : Applied(o, a, c)
  <1>1. PICK a \in AppendOutcomes(d, m, rec) : o = IF a.res = "Ok" THEN [a EXCEPT !.mem.c = c] ELSE a
    BY DEF AppendThen
  <1>2. \E r, x, y : a = Outcome(r, x, y)
    BY DEF AppendOutcomes
  <1>3. PICK r, x, y : a = Outcome(r, x, y) BY <1>2
  <1>4. a.res = r /\ a.disk = x /\ a.mem = y /\ a = [res |-> r, disk |-> x, mem |-> y]
    BY <1>3, OutcomeParts DEF Outcome
  <1>5. CASE r = "Ok"
    <2>1. o = [a EXCEPT !.mem.c = c] BY <1>1, <1>4, <1>5
    <2>2. o.res = r /\ o.disk = x /\ o.mem = [y EXCEPT !.c = c] BY <1>4, <2>1
    <2> QED BY <1>4, <1>5, <2>2 DEF Applied
  <1>6. CASE r # "Ok"
    BY <1>1, <1>4, <1>6 DEF Applied
  <1> QED BY <1>5, <1>6

\* A mutator that appends.
LEMMA AppendSettles ==
    ASSUME NEW d, DiskShape(d), ~d.spoiled, NEW m, NEW A, NEW t \in Nat,
           OnDiskOk(d.file, A, t), InMemOk(d.file, m, A, t),
           NEW tag \in Tags, NEW key, NEW num \in Nat, NumLen(tag) = 0 => num = 0,
           NEW rec, rec = Rec(tag, key, num), NEW c, CachesShape(c), CachesType(c),
           NEW AO, NEW AC, NEW AF, AckTimes(AO), AcksNoLess(A, AC), AcksNoLess(A, AF),
           FitsBehind(d.file, rec, m, c, A, AO, AC, AF, t),
           NEW o \in AppendThen(d, m, rec, c), NEW A1, A1 = AfterEnd(o.res, AO, AC, AF)
    PROVE  Settles(o, d, m, A1, t)
  <1>0. FileOk(d.file) /\ MemShape(m) /\ (m.handle => m.pos \in 0 .. Len(d.file))
        /\ DiskHolds(Scan(d.file).c, A, t) /\ AckTimes(A) /\ CachesType(m.c)
    BY DEF OnDiskOk, InMemOk
  <1>1. PICK a \in AppendOutcomes(d, m, rec) : Applied(o, a, c) BY <1>0, AppliedOf
  <1>2. DiskShape(a.disk) /\ a.res \in {"Ok", "crash", "DiskError"} BY <1>0, AppendLeaves
  <1>3. ~a.disk.spoiled => Left(a, m) /\ (Idle(a, d, m) \/ Appended(a, d, m, rec))
    BY <1>0, AppendLeaves
  <1>4. o.res = a.res /\ o.disk = a.disk /\ (o.res # "Ok" => o.mem = a.mem) BY <1>1 DEF Applied
  <1>5. SUFFICES ASSUME ~o.disk.spoiled
        PROVE  /\ OnDiskOk(o.disk.file, A1, t)
               /\ o.res = "crash" => o.mem = Down
               /\ o.res # "crash" => o.mem.phase = m.phase /\ InMemOk(o.disk.file, o.mem, A1, t)
               /\ o.res = "Ok" /\ Exact(Scan(d.file).c, m.c) => Exact(Scan(o.disk.file).c, o.mem.c)
    BY <1>2, <1>4 DEF Settles
  <1>6. Left(a, m) BY <1>3, <1>4, <1>5
  <1>7. PICK f : f = d.file OBVIOUS
  <1>8. PICK h : h = o.disk.file OBVIOUS
  <1>9. FileOk(h) /\ (o.res = "crash" => o.mem = Down) BY <1>4, <1>6, <1>8 DEF Left
  <1>10. o.res = "crash" => A1 = AC BY DEF AfterEnd
  <1>11. o.res = "DiskError" => A1 = AF BY DEF AfterEnd
  <1>12. o.res = "Ok" => A1 = AO BY DEF AfterEnd
  <1>13. AckTimes(A1)
    <2>1. AckTimes(AC) /\ AckTimes(AF) BY <1>0, AckTimesKept
    <2> QED BY <1>2, <1>4, <1>10, <1>11, <1>12, <2>1
  <1>14. o.res = "DiskError" =>
           /\ MemShape(o.mem) /\ o.mem.c = m.c /\ o.mem.phase = m.phase
           /\ o.mem.handle => o.mem.pos \in 0 .. Len(h)
    BY <1>4, <1>6, <1>8 DEF Left
  <1>15. CASE Idle(a, d, m)
    <2>1. o.res # "Ok" /\ h = f /\ (o.res # "crash" => o.mem.pos = m.pos)
      BY <1>4, <1>7, <1>8, <1>15 DEF Idle
    <2>2. CASE o.res = "crash"
      <3>1. DiskHolds(Scan(f).c, AC, t) BY <1>0, <1>7, AcksWeaken
      <3> QED BY <1>8, <1>9, <1>10, <1>13, <2>1, <2>2, <3>1 DEF OnDiskOk
    <2>3. CASE o.res = "DiskError"
      <3>1. DiskHolds(Scan(f).c, AF, t) BY <1>0, <1>7, AcksWeaken
      <3>2. Blank(m) => Blank(o.mem) BY <1>14, <2>1, <2>3 DEF Blank
      <3>3. Synced(Scan(f).c, m.c, A, t) => Synced(Scan(f).c, m.c, AF, t) BY AcksWeaken
      <3>4. Blank(m) \/ Synced(Scan(f).c, m.c, A, t) BY <1>7 DEF InMemOk
      <3>5. InMemOk(h, o.mem, AF, t) BY <1>0, <1>14, <2>1, <2>3, <3>2, <3>3, <3>4 DEF InMemOk
      <3>6. OnDiskOk(h, AF, t) BY <1>9, <1>11, <1>13, <2>1, <2>3, <3>1 DEF OnDiskOk
      <3> QED BY <1>8, <1>11, <1>14, <2>3, <3>5, <3>6
    <2> QED BY <1>2, <1>4, <2>1, <2>2, <2>3
  <1>16. CASE Appended(a, d, m, rec)
    <2>1. m.pos = Len(f) /\ Scan(h).c \in {Scan(f).c, ApplyRec(Scan(f).c, rec)}
          /\ (o.res = "Ok" => Scan(h).c = ApplyRec(Scan(f).c, rec))
      BY <1>4, <1>7, <1>8, <1>16 DEF Appended
    <2>2. Synced(Scan(f).c, m.c, A, t)
      <3>1. OnDiskOk(f, A, t) /\ InMemOk(f, m, A, t) BY <1>7
      <3> QED BY <2>1, <3>1, AppendsInStep
    <2>3. PICK R : R = Scan(f).c OBVIOUS
    <2>4. PICK R1 : R1 = ApplyRec(R, rec) OBVIOUS
    <2>5. Fits(R, R1, m.c, c, AC, AF, AO, t) BY <1>7, <2>2, <2>3, <2>4 DEF FitsBehind
    <2>6. DiskHolds(R, AC, t) /\ DiskHolds(R, AF, t) BY <1>0, <1>7, <2>3, AcksWeaken
    <2>7. Synced(R, m.c, AF, t) BY <2>2, <2>3, AcksWeaken
    <2>8. CASE o.res = "crash"
      <3>1. DiskHolds(Scan(h).c, AC, t) BY <2>1, <2>3, <2>4, <2>5, <2>6 DEF Fits
      <3> QED BY <1>8, <1>9, <1>10, <1>13, <2>8, <3>1 DEF OnDiskOk
    <2>9. CASE o.res = "DiskError"
      <3>1. DiskHolds(Scan(h).c, AF, t) BY <2>1, <2>3, <2>4, <2>5, <2>6 DEF Fits
      <3>2. Synced(Scan(h).c, m.c, AF, t) BY <2>1, <2>3, <2>4, <2>5, <2>7 DEF Fits
      <3>3. InMemOk(h, o.mem, AF, t) BY <1>0, <1>14, <2>9, <3>2 DEF InMemOk
      <3>4. OnDiskOk(h, AF, t) BY <1>9, <1>11, <1>13, <2>9, <3>1 DEF OnDiskOk
      <3> QED BY <1>8, <1>11, <1>14, <2>9, <3>3, <3>4
    <2>10. CASE o.res = "Ok"
      <3>1. Scan(h).c = R1 BY <2>1, <2>3, <2>4, <2>10
      <3>2. DiskHolds(R1, AO, t) /\ Synced(R1, c, AO, t) /\ (Exact(R, m.c) => Exact(R1, c))
        BY <2>5 DEF Fits
      <3>3. /\ MemShape(a.mem) /\ a.mem.c = m.c /\ a.mem.phase = m.phase
            /\ a.mem.handle => a.mem.pos \in 0 .. Len(h)
        BY <1>4, <1>6, <1>8, <2>10 DEF Left
      <3>4. o.mem = [a.mem EXCEPT !.c = c] BY <1>1, <2>10 DEF Applied
      <3>5. MemShape(o.mem) /\ o.mem.c = c /\ o.mem.phase = a.mem.phase
            /\ o.mem.handle = a.mem.handle /\ o.mem.pos = a.mem.pos
        <4>1. PICK y : y = a.mem OBVIOUS
        <4>2. PICK n : n = [y EXCEPT !.c = c] OBVIOUS
        <4>3. MemShape(y) BY <3>3, <4>1
        <4>4. MemShape(n) /\ n.c = c /\ n.phase = y.phase /\ n.handle = y.handle /\ n.pos = y.pos
          BY <4>2, <4>3 DEF MemShape
        <4> QED BY <3>4, <4>1, <4>2, <4>4
      <3>6. InMemOk(h, o.mem, AO, t) BY <3>1, <3>2, <3>3, <3>5 DEF InMemOk
      <3>7. OnDiskOk(h, AO, t) BY <1>9, <1>12, <1>13, <2>10, <3>1, <3>2 DEF OnDiskOk
      <3>8. Exact(Scan(d.file).c, m.c) => Exact(Scan(o.disk.file).c, o.mem.c)
        BY <1>7, <1>8, <2>3, <3>1, <3>2, <3>5
      <3> QED BY <1>8, <1>12, <2>10, <3>3, <3>5, <3>6, <3>7, <3>8
    <2> QED BY <1>2, <1>4, <2>8, <2>9, <2>10
  <1> QED BY <1>3, <1>4, <1>5, <1>15, <1>16

\* A history is a record of these fields.
AckShape(A) ==
    A = [commits |-> A.commits, published |-> A.published, revoked |-> A.revoked,
         receipts |-> A.receipts, failed |-> A.failed, unsettled |-> A.unsettled]

\* History A has these fields.
Tells(A, m, p, v, q, u) ==
    /\ AckShape(A)
    /\ A.commits = m /\ A.published = p /\ A.revoked = v /\ A.receipts = q /\ A.unsettled = u

\* One field of a history is replaced.
LEMMA HistoryFields ==
    ASSUME NEW A, AckShape(A), NEW x
    PROVE  /\ Tells([A EXCEPT !.commits = x], x, A.published, A.revoked, A.receipts, A.unsettled)
           /\ Tells([A EXCEPT !.published = x], A.commits, x, A.revoked, A.receipts, A.unsettled)
           /\ Tells([A EXCEPT !.revoked = x], A.commits, A.published, x, A.receipts, A.unsettled)
           /\ Tells([A EXCEPT !.receipts = x], A.commits, A.published, A.revoked, x, A.unsettled)
           /\ Tells([A EXCEPT !.unsettled = x], A.commits, A.published, A.revoked, A.receipts, x)
  <1>1. Tells([A EXCEPT !.commits = x], x, A.published, A.revoked, A.receipts, A.unsettled)
    BY DEF AckShape, Tells
  <1>2. Tells([A EXCEPT !.published = x], A.commits, x, A.revoked, A.receipts, A.unsettled)
    BY DEF AckShape, Tells
  <1>3. Tells([A EXCEPT !.revoked = x], A.commits, A.published, x, A.receipts, A.unsettled)
    BY DEF AckShape, Tells
  <1>4. Tells([A EXCEPT !.receipts = x], A.commits, A.published, A.revoked, x, A.unsettled)
    BY DEF AckShape, Tells
  <1>5. Tells([A EXCEPT !.unsettled = x], A.commits, A.published, A.revoked, A.receipts, x)
    BY DEF AckShape, Tells
  <1> QED BY <1>1, <1>2, <1>3, <1>4, <1>5

\* The history with the grants that the mutator was asked to publish, and once it failed.
Asked(A, e) == [A EXCEPT !.published = @ \cup e]
Failing(h, e) == [h EXCEPT !.unsettled = @ \cup e]

\* What they say.
LEMMA HistoryEnds ==
    ASSUME NEW A, AckShape(A), NEW e, NEW h, h = Asked(A, e), NEW f, f = Failing(h, e)
    PROVE  /\ Tells(h, A.commits, A.published \cup e, A.revoked, A.receipts, A.unsettled)
           /\ Tells(f, A.commits, A.published \cup e, A.revoked, A.receipts, A.unsettled \cup e)
           /\ AcksNoLess(A, h) /\ AcksNoLess(A, f)
  <1>1. Tells(h, A.commits, A.published \cup e, A.revoked, A.receipts, A.unsettled)
    <2>1. PICK x : x = A.published \cup e OBVIOUS
    <2>2. h = [A EXCEPT !.published = x] BY <2>1 DEF Asked, AckShape
    <2>3. Tells([A EXCEPT !.published = x], A.commits, x, A.revoked, A.receipts, A.unsettled)
      BY HistoryFields
    <2> QED BY <2>1, <2>2, <2>3
  <1>2. /\ AckShape(h) /\ h.commits = A.commits /\ h.published = A.published \cup e
        /\ h.revoked = A.revoked /\ h.receipts = A.receipts /\ h.unsettled = A.unsettled
    BY <1>1 DEF Tells
  <1>3. Tells(f, A.commits, A.published \cup e, A.revoked, A.receipts, A.unsettled \cup e)
    <2>1. PICK x : x = h.unsettled \cup e OBVIOUS
    <2>2. f = [h EXCEPT !.unsettled = x] BY <1>2, <2>1 DEF Failing, AckShape
    <2>3. Tells([h EXCEPT !.unsettled = x], h.commits, h.published, h.revoked, h.receipts, x)
      BY <1>2, HistoryFields
    <2> QED BY <1>2, <2>1, <2>2, <2>3
  <1>4. AcksNoLess(A, h) BY <1>1 DEF Tells, AcksNoLess, Acks
  <1>5. AcksNoLess(A, f) BY <1>3 DEF Tells, AcksNoLess, Acks
  <1> QED BY <1>1, <1>3, <1>4, <1>5

\* Where a mutator begins.
Begins(d, m, A, t) ==
    /\ t \in Nat /\ AckShape(A) /\ DiskShape(d) /\ ~d.spoiled
    /\ OnDiskOk(d.file, A, t) /\ InMemOk(d.file, m, A, t)

\* What the file holds as it begins, and the memory.
LEMMA BeginsWith ==
    ASSUME NEW d, NEW m, NEW A, NEW t, Begins(d, m, A, t)
    PROVE  /\ FileOk(d.file) /\ GoodCaches(Scan(d.file).c) /\ DiskHolds(Scan(d.file).c, A, t)
           /\ AckTimes(A) /\ AckShape(A) /\ MemShape(m) /\ CachesShape(m.c) /\ CachesType(m.c)
           /\ Blank(m) \/ Synced(Scan(d.file).c, m.c, A, t)
  <1>1. OnDiskOk(d.file, A, t) /\ InMemOk(d.file, m, A, t) /\ AckShape(A) BY DEF Begins
  <1>2. FileOk(d.file) BY <1>1 DEF OnDiskOk
  <1>3. MemShape(m) BY <1>1 DEF InMemOk
  <1>4. CachesShape(m.c) BY <1>3 DEF MemShape
  <1>5. GoodCaches(Scan(d.file).c) BY <1>2 DEF FileOk
  <1> QED BY <1>1, <1>2, <1>3, <1>4, <1>5 DEF OnDiskOk, InMemOk

\* A mutator that neither writes nor changes the caches, if the history that it ends with
\* has promised nothing new.
LEMMA NothingDone ==
    ASSUME NEW d, NEW m, NEW A, NEW t, Begins(d, m, A, t),
           NEW o, o.disk = d, o.mem = m, o.res # "crash",
           NEW A1, AckTimes(A1), DiskHolds(Scan(d.file).c, A1, t),
           Blank(m) \/ Synced(Scan(d.file).c, m.c, A1, t)
    PROVE  Settles(o, d, m, A1, t)
  <1>1. /\ DiskShape(d) /\ OnDiskOk(d.file, A, t) /\ InMemOk(d.file, m, A, t)
    BY DEF Begins
  <1>2. OnDiskOk(d.file, A1, t) BY <1>1 DEF OnDiskOk
  <1>3. InMemOk(d.file, m, A1, t) BY <1>1 DEF InMemOk
  <1> QED BY <1>1, <1>2, <1>3 DEF Settles

\* It has, if that is the history as before but for grants to be published.
LEMMA NothingPromised ==
    ASSUME NEW d, NEW m, NEW A, NEW t, Begins(d, m, A, t),
           NEW o, o.disk = d, o.mem = m, o.res # "crash", NEW A1, AcksNoLess(A, A1)
    PROVE  Settles(o, d, m, A1, t)
  <1>1. AckTimes(A1) BY BeginsWith, AckTimesKept
  <1>2. DiskHolds(Scan(d.file).c, A1, t) BY BeginsWith, AcksWeaken
  <1>3. Synced(Scan(d.file).c, m.c, A, t) => Synced(Scan(d.file).c, m.c, A1, t) BY AcksWeaken
  <1>4. Blank(m) \/ Synced(Scan(d.file).c, m.c, A1, t) BY <1>3, BeginsWith
  <1> QED BY <1>1, <1>2, <1>4, NothingDone

\* The caches once a mutator has applied its record.
LEMMA CachesStay ==
    ASSUME NEW c, CachesShape(c), CachesType(c), NEW g, NEW n \in Nat,
           NEW c1 \in {CommitCached(c, g, n), Published(c, g), [c EXCEPT !.revoked = Put(@, g, n)],
                       [c EXCEPT !.receipts = Put(@, g, n)]}
    PROVE  CachesShape(c1) /\ CachesType(c1)
  <1>1. FiniteMap(c.consumed) /\ FiniteMap(c.revoked) /\ FiniteMap(c.receipts) BY DEF CachesType
  <1>2. ASSUME NEW x, FiniteMap(x) PROVE FiniteMap(Put(x, g, n)) /\ FiniteMap(Drop(x, {g}))
    <2>1. HasPut(Put(x, g, n), x, g, n) BY <1>2, PutStaysFinite
    <2>2. HasDropped(Drop(x, {g}), x, {g}) BY <1>2, DropStaysFinite
    <2> QED BY <2>1, <2>2 DEF HasPut, HasDropped
  <1>3. CASE c1 = CommitCached(c, g, n)
    <2>1. c1 = SetOrder(c, Append(c.order, g), Put(c.consumed, g, n))
      BY <1>3 DEF CommitCached, SetOrder
    <2>2. Has(c1, Put(c.consumed, g, n), Append(c.order, g), c.published, c.revoked, c.receipts)
      BY <2>1, CachesFields
    <2> QED BY <1>1, <1>2, <2>2 DEF Has, CachesType
  <1>4. CASE c1 = Published(c, g)
    <2>1. Has(c1, Drop(c.consumed, {g}), c.order, c.published \cup {g}, c.revoked, c.receipts)
      BY <1>4, CachesFields
    <2> QED BY <1>1, <1>2, <2>1 DEF Has, CachesType
  <1>5. CASE c1 = [c EXCEPT !.revoked = Put(@, g, n)]
    <2>1. Has(c1, c.consumed, c.order, c.published, Put(c.revoked, g, n), c.receipts)
      BY <1>5, CachesFields
    <2> QED BY <1>1, <1>2, <2>1 DEF Has, CachesType
  <1>6. CASE c1 = [c EXCEPT !.receipts = Put(@, g, n)]
    <2>1. PICK x : x = Put(c.receipts, g, n) OBVIOUS
    <2>2. c1 = [c EXCEPT !.receipts = x] BY <1>6, <2>1 DEF CachesShape
    <2>3. Has(c1, c.consumed, c.order, c.published, c.revoked, x)
      BY <2>2, CachesFields
    <2> QED BY <1>1, <1>2, <2>1, <2>3 DEF Has, CachesType
  <1> QED BY <1>3, <1>4, <1>5, <1>6

-----------------------------------------------------------------------------
(* The mutators.                                                           *)

\* The caches of a mutator that has ended with Ok.
LEMMA AppendCaches ==
    ASSUME NEW d, NEW m, NEW rec, NEW c, NEW o \in AppendThen(d, m, rec, c),
           MemShape(m), IsRecord(Bytes(rec), rec.tag, rec.key, rec.num), rec.tag \in Tags, o.res = "Ok"
    PROVE  o.mem.c = c
  <1>1. PICK a \in AppendOutcomes(d, m, rec) : Applied(o, a, c) BY AppliedOf
  <1>2. a.res = "Ok" /\ o.mem = [a.mem EXCEPT !.c = c] BY <1>1 DEF Applied
  <1>3. PICK N : N = Len(Bytes(rec)) OBVIOUS
  <1>4. N \in Nat
    <2>1. N = RecLen(rec.tag) BY <1>3 DEF IsRecord
    <2> QED BY <2>1, RecLenType
  <1>5. \/ ~m.handle /\ a = Outcome("DiskError", d, m)
        \/ m.handle /\ \E k \in 0 .. N : Wrought(a, d, m, rec, k)
    BY <1>3, <1>4, AppendWrites
  <1>6. ~(~m.handle /\ a = Outcome("DiskError", d, m)) BY <1>2, OutcomeParts
  <1>7. PICK k \in 0 .. N : Wrought(a, d, m, rec, k) BY <1>5, <1>6
  <1>8. a.mem = Moved(m, k) BY <1>2, <1>7 DEF Wrought
  <1>9. MemShape(a.mem) BY <1>8, MemMoved
  <1>10. PICK y : y = a.mem OBVIOUS
  <1>11. MemShape(y) /\ o.mem = [y EXCEPT !.c = c] BY <1>2, <1>9, <1>10
  <1> QED BY <1>11 DEF MemShape

\* A mutator that appends a record and acknowledges it with history AO.
LEMMA RecordSettles ==
    ASSUME NEW d, NEW m, NEW A, NEW t, Begins(d, m, A, t),
           NEW tag \in Tags, NEW key, NEW num \in Nat, NumLen(tag) = 0 => num = 0,
           NEW c, CachesShape(c), CachesType(c), NEW e, NEW h, h = Asked(A, e),
           NEW AO, AckTimes(AO),
           FitsBehind(d.file, Rec(tag, key, num), m, c, A, AO, h, Failing(h, e), t),
           NEW o \in AppendThen(d, m, Rec(tag, key, num), c),
           NEW A1, A1 = AfterEnd(o.res, AO, h, Failing(h, e))
    PROVE  Settles(o, d, m, A1, t)
  <1>1. /\ t \in Nat /\ AckShape(A) /\ DiskShape(d) /\ ~d.spoiled
        /\ OnDiskOk(d.file, A, t) /\ InMemOk(d.file, m, A, t)
    BY DEF Begins
  <1>2. PICK f : f = Failing(h, e) OBVIOUS
  <1>3. AcksNoLess(A, h) /\ AcksNoLess(A, f) BY <1>1, <1>2, HistoryEnds
  <1>4. PICK rec : rec = Rec(tag, key, num) OBVIOUS
  <1>5. FitsBehind(d.file, rec, m, c, A, AO, h, f, t) BY <1>2, <1>4
  <1>6. o \in AppendThen(d, m, rec, c) BY <1>4
  <1>7. A1 = AfterEnd(o.res, AO, h, f) BY <1>2
  <1> QED BY <1>1, <1>3, <1>4, <1>5, <1>6, <1>7, AppendSettles

\* mark_published.
LEMMA PublishSettles ==
    ASSUME NEW d, NEW m, NEW A, NEW t, Begins(d, m, A, t), NEW g,
           NEW o \in PublishOutcomes(d, m, g), NEW h, h = Asked(A, {g}),
           NEW A1, A1 = AfterEnd(o.res, [h EXCEPT !.published = @ \cup {g}], h, Failing(h, {g}))
    PROVE  Settles(o, d, m, A1, t)
  <1>1. /\ GoodCaches(Scan(d.file).c) /\ DiskHolds(Scan(d.file).c, A, t)
        /\ AckTimes(A) /\ AckShape(A) /\ CachesShape(m.c) /\ CachesType(m.c)
    BY BeginsWith
  <1>2. t \in Nat BY DEF Begins
  <1>3. PICK f : f = Failing(h, {g}) OBVIOUS
  <1>4. PICK AO : AO = [h EXCEPT !.published = @ \cup {g}] OBVIOUS
  <1>5. /\ Tells(h, A.commits, A.published \cup {g}, A.revoked, A.receipts, A.unsettled)
        /\ Tells(f, A.commits, A.published \cup {g}, A.revoked, A.receipts, A.unsettled \cup {g})
        /\ AcksNoLess(A, h) /\ AcksNoLess(A, f)
    BY <1>1, <1>3, HistoryEnds
  <1>6. Tells(AO, A.commits, A.published \cup {g}, A.revoked, A.receipts, A.unsettled)
    <2>1. PICK x : x = h.published \cup {g} OBVIOUS
    <2>2. AO = [h EXCEPT !.published = x] BY <1>4, <1>5, <2>1 DEF Tells, AckShape
    <2>3. AckShape(h) BY <1>5 DEF Tells
    <2>4. Tells(AO, h.commits, x, h.revoked, h.receipts, h.unsettled) BY <2>2, <2>3, HistoryFields
    <2>5. x = A.published \cup {g} BY <1>5, <2>1 DEF Tells
    <2> QED BY <1>5, <2>4, <2>5 DEF Tells
  <1>7. AcksNoLess(A, AO) BY <1>6 DEF Tells, AcksNoLess, Acks
  <1>8. A1 = AfterEnd(o.res, AO, h, f) BY <1>3, <1>4
  <1>9. CASE g \in m.c.published
    <2>1. o = Outcome("Ok", d, m) BY <1>9 DEF PublishOutcomes
    <2>2. o.res = "Ok" /\ o.disk = d /\ o.mem = m BY <2>1, OutcomeParts
    <2>3. A1 = AO BY <1>8, <2>2 DEF AfterEnd
    <2> QED BY <1>7, <2>2, <2>3, NothingPromised
  <1>10. CASE g \notin m.c.published
    <2>1. PICK c : c = Published(m.c, g) OBVIOUS
    <2>2. o \in AppendThen(d, m, Rec("PUBLISHED", g, 0), c)
      BY <1>10, <2>1 DEF PublishOutcomes, Published
    <2>3. CachesShape(c) /\ CachesType(c)
      <3>1. 0 \in Nat OBVIOUS
      <3> QED BY <1>1, <2>1, <3>1, CachesStay
    <2>4. AckTimes(AO) BY <1>1, <1>7, AckTimesKept
    <2>5. g \in h.published /\ g \in f.published \cap f.unsettled /\ g \in AO.published
      BY <1>5, <1>6 DEF Tells
    <2>6. ASSUME Synced(Scan(d.file).c, m.c, A, t)
          PROVE  Fits(Scan(d.file).c, ApplyRec(Scan(d.file).c, Rec("PUBLISHED", g, 0)), m.c, c,
                      h, f, AO, t)
      BY <1>1, <1>2, <1>5, <1>7, <1>10, <2>1, <2>5, <2>6, PublishFits
    <2>7. FitsBehind(d.file, Rec("PUBLISHED", g, 0), m, c, A, AO, h, f, t)
      BY <2>6 DEF FitsBehind
    <2>8. "PUBLISHED" \in Tags /\ 0 \in Nat BY DEF Tags
    <2> QED BY <1>3, <1>8, <2>2, <2>3, <2>4, <2>7, <2>8, RecordSettles
  <1> QED BY <1>9, <1>10

\* commit_revocation.
LEMMA RevokeSettles ==
    ASSUME NEW d, NEW m, NEW A, NEW t, Begins(d, m, A, t), NEW s, NEW n \in Nat,
           NEW o \in RevokeOutcomes(d, m, s, n), NEW h, h = Asked(A, {}),
           NEW A1, A1 = AfterEnd(o.res, [h EXCEPT !.revoked = @ \cup {s}], h, Failing(h, {}))
    PROVE  Settles(o, d, m, A1, t)
  <1>1. /\ GoodCaches(Scan(d.file).c) /\ DiskHolds(Scan(d.file).c, A, t)
        /\ AckTimes(A) /\ AckShape(A) /\ CachesShape(m.c) /\ CachesType(m.c)
        /\ Blank(m) \/ Synced(Scan(d.file).c, m.c, A, t)
    BY BeginsWith
  <1>2. t \in Nat BY DEF Begins
  <1>3. PICK f : f = Failing(h, {}) OBVIOUS
  <1>4. PICK AO : AO = [h EXCEPT !.revoked = @ \cup {s}] OBVIOUS
  <1>5. /\ Tells(h, A.commits, A.published \cup {}, A.revoked, A.receipts, A.unsettled)
        /\ AcksNoLess(A, h) /\ AcksNoLess(A, f)
    BY <1>1, <1>3, HistoryEnds
  <1>6. Acks(A, AO, A.commits, A.revoked \cup {s}, A.receipts)
    <2>1. PICK x : x = h.revoked \cup {s} OBVIOUS
    <2>2. AO = [h EXCEPT !.revoked = x] BY <1>4, <1>5, <2>1 DEF Tells, AckShape
    <2>3. AckShape(h) BY <1>5 DEF Tells
    <2>4. Tells(AO, h.commits, h.published, x, h.receipts, h.unsettled) BY <2>2, <2>3, HistoryFields
    <2> QED BY <1>5, <2>1, <2>4 DEF Tells, Acks
  <1>7. AckTimes(AO) BY <1>1, <1>6 DEF AckTimes, Acks
  <1>8. A1 = AfterEnd(o.res, AO, h, f) BY <1>3, <1>4
  <1>9. CASE s \in DOMAIN m.c.revoked
    <2>1. o = Outcome("Ok", d, m) BY <1>9 DEF RevokeOutcomes
    <2>2. o.res = "Ok" /\ o.disk = d /\ o.mem = m BY <2>1, OutcomeParts
    <2>3. A1 = AO BY <1>8, <2>2 DEF AfterEnd
    <2>4. Synced(Scan(d.file).c, m.c, A, t)
      BY <1>1, <1>9 DEF Blank, NewCaches, EmptyMap
    <2>5. DiskHolds(Scan(d.file).c, AO, t) BY <1>1, <1>6, <1>9, <2>4 DEF DiskHolds, Synced, Acks
    <2>6. Synced(Scan(d.file).c, m.c, AO, t) BY <1>6, <1>9, <2>4 DEF Synced, Acks
    <2> QED BY <1>7, <2>2, <2>3, <2>5, <2>6, NothingDone
  <1>10. CASE s \notin DOMAIN m.c.revoked /\ Cardinality(DOMAIN m.c.revoked) >= MAX_LIVE
    <2>1. o = Outcome("ResourceExhausted", d, m) BY <1>10 DEF RevokeOutcomes
    <2>2. o.res = "ResourceExhausted" /\ o.disk = d /\ o.mem = m BY <2>1, OutcomeParts
    <2>3. A1 = f BY <1>8, <2>2 DEF AfterEnd
    <2> QED BY <1>5, <2>2, <2>3, NothingPromised
  <1>11. CASE s \notin DOMAIN m.c.revoked /\ ~(Cardinality(DOMAIN m.c.revoked) >= MAX_LIVE)
    <2>1. PICK c : c = [m.c EXCEPT !.revoked = Put(@, s, n)] OBVIOUS
    <2>2. o \in AppendThen(d, m, Rec("REVOKE", s, n), c) BY <1>11, <2>1 DEF RevokeOutcomes
    <2>3. CachesShape(c) /\ CachesType(c) BY <1>1, <2>1, CachesStay
    <2>6. ASSUME Synced(Scan(d.file).c, m.c, A, t)
          PROVE  Fits(Scan(d.file).c, ApplyRec(Scan(d.file).c, Rec("REVOKE", s, n)), m.c, c, h, f, AO, t)
      BY <1>1, <1>2, <1>5, <1>6, <2>1, <2>6, RevokeFits
    <2>7. FitsBehind(d.file, Rec("REVOKE", s, n), m, c, A, AO, h, f, t)
      BY <2>6 DEF FitsBehind
    <2>8. "REVOKE" \in Tags /\ (NumLen("REVOKE") = 0 => n = 0)
      <3>1. NumLen("REVOKE") = U64_LEN BY DEF NumLen
      <3> QED BY <3>1, LayoutAssumption DEF Tags
    <2> QED BY <1>3, <1>7, <1>8, <2>2, <2>3, <2>7, <2>8, RecordSettles
  <1> QED BY <1>9, <1>10, <1>11

\* The receipts of a history with one that has been acknowledged.
Receipted(q, g, n) == IF g \in DOMAIN q THEN q ELSE Put(q, g, n)

\* record_first_receipt.
LEMMA ReceiptSettles ==
    ASSUME NEW d, NEW m, NEW A, NEW t, Begins(d, m, A, t), NEW g,
           NEW o \in ReceiptOutcomes(d, m, g, t), NEW h, h = Asked(A, {}),
           NEW A1, A1 = AfterEnd(o.res, [h EXCEPT !.receipts = Receipted(@, g, o.mem.c.receipts[g])],
                                 h, Failing(h, {}))
    PROVE  Settles(o, d, m, A1, t)
  <1>1. /\ GoodCaches(Scan(d.file).c) /\ DiskHolds(Scan(d.file).c, A, t)
        /\ AckTimes(A) /\ AckShape(A) /\ CachesShape(m.c) /\ CachesType(m.c)
        /\ Blank(m) \/ Synced(Scan(d.file).c, m.c, A, t)
    BY BeginsWith
  <1>2. t \in Nat BY DEF Begins
  <1>3. PICK f : f = Failing(h, {}) OBVIOUS
  <1>4. /\ Tells(h, A.commits, A.published \cup {}, A.revoked, A.receipts, A.unsettled)
        /\ AcksNoLess(A, h) /\ AcksNoLess(A, f)
    BY <1>1, <1>3, HistoryEnds
  <1>5. ASSUME NEW n \in Nat, NEW AO, AO = [h EXCEPT !.receipts = Receipted(@, g, n)]
        PROVE  AckTimes(AO) /\ Acks(A, AO, A.commits, A.revoked, Receipted(A.receipts, g, n))
    <2>1. PICK x : x = Receipted(h.receipts, g, n) OBVIOUS
    <2>2. AO = [h EXCEPT !.receipts = x] BY <1>4, <1>5, <2>1 DEF Tells, AckShape
    <2>3. AckShape(h) BY <1>4 DEF Tells
    <2>4. Tells(AO, h.commits, h.published, h.revoked, x, h.unsettled) BY <2>2, <2>3, HistoryFields
    <2>5. Acks(A, AO, A.commits, A.revoked, Receipted(A.receipts, g, n))
      BY <1>4, <2>1, <2>4 DEF Tells, Acks
    <2>6. AckTimes(AO) BY <1>1, <1>5, <2>5 DEF AckTimes, Acks, Receipted, Put
    <2> QED BY <2>5, <2>6
  <1>6. CASE g \in DOMAIN m.c.receipts
    <2>1. o = Outcome("Ok", d, m) BY <1>6 DEF ReceiptOutcomes
    <2>2. o.res = "Ok" /\ o.disk = d /\ o.mem = m BY <2>1, OutcomeParts
    <2>3. PICK n : n = m.c.receipts[g] OBVIOUS
    <2>4. n \in Nat BY <1>1, <1>6, <2>3 DEF CachesType, FiniteMap
    <2>5. A1 = [h EXCEPT !.receipts = Receipted(@, g, n)] BY <2>2, <2>3 DEF AfterEnd
    <2>6. AckTimes(A1) BY <1>5, <2>4, <2>5
    <2>7. Acks(A, A1, A.commits, A.revoked, Receipted(A.receipts, g, n)) BY <1>5, <2>4, <2>5
    <2>8. Synced(Scan(d.file).c, m.c, A, t)
      BY <1>1, <1>6 DEF Blank, NewCaches, EmptyMap
    <2>9. \A x \in DOMAIN A1.receipts :
            \/ x \in DOMAIN A.receipts /\ A1.receipts[x] = A.receipts[x]
            \/ x = g /\ A1.receipts[x] = n
      BY <2>7 DEF Acks, Receipted, Put
    <2>10. DiskHolds(Scan(d.file).c, A1, t)
      <3>1. \A x \in DOMAIN A1.receipts :
              x \in DOMAIN Scan(d.file).c.receipts /\ Scan(d.file).c.receipts[x] <= A1.receipts[x]
        BY <1>1, <1>6, <2>3, <2>8, <2>9 DEF DiskHolds, Synced
      <3> QED BY <1>1, <2>7, <3>1 DEF DiskHolds, Acks
    <2>11. Synced(Scan(d.file).c, m.c, A1, t)
      <3>1. \A x \in DOMAIN A1.receipts : x \in DOMAIN m.c.receipts /\ m.c.receipts[x] <= A1.receipts[x]
        <4>1. \A x \in DOMAIN A.receipts : x \in DOMAIN m.c.receipts /\ m.c.receipts[x] <= A.receipts[x]
          BY <2>8 DEF Synced
        <4>2. m.c.receipts[g] <= n BY <2>3, <2>4
        <4>3. ASSUME NEW x \in DOMAIN A1.receipts
              PROVE  x \in DOMAIN m.c.receipts /\ m.c.receipts[x] <= A1.receipts[x]
          <5>1. CASE x \in DOMAIN A.receipts /\ A1.receipts[x] = A.receipts[x]
            BY <4>1, <5>1
          <5>2. CASE x = g /\ A1.receipts[x] = n
            BY <1>6, <4>2, <5>2
          <5> QED BY <2>9, <5>1, <5>2
        <4> QED BY <4>3
      <3>2. /\ A1.commits = A.commits /\ A1.revoked = A.revoked
            /\ A.published \subseteq A1.published /\ A.unsettled \subseteq A1.unsettled
        BY <2>7 DEF Acks
      <3>3. PICK R : R = Scan(d.file).c OBVIOUS
      <3>4. PICK c : c = m.c OBVIOUS
      <3>5. Synced(R, c, A, t) BY <2>8, <3>3, <3>4
      <3>6. \A x \in DOMAIN A1.receipts : x \in DOMAIN c.receipts /\ c.receipts[x] <= A1.receipts[x]
        BY <3>1, <3>4
      <3>7. Synced(R, c, A1, t) BY <3>2, <3>5, <3>6 DEF Synced
      <3> QED BY <3>3, <3>4, <3>7
    <2> QED BY <2>2, <2>6, <2>10, <2>11, NothingDone
  <1>7. CASE g \notin DOMAIN m.c.receipts
    <2>1. PICK c : c = [m.c EXCEPT !.receipts = Put(@, g, t)] OBVIOUS
    <2>2. o \in AppendThen(d, m, Rec("FIRST_RECEIPT", g, t), c) BY <1>7, <2>1 DEF ReceiptOutcomes
    <2>3. CachesShape(c) /\ CachesType(c) BY <1>1, <1>2, <2>1, CachesStay
    <2>4. PICK AO : AO = [h EXCEPT !.receipts = Receipted(@, g, t)] OBVIOUS
    <2>5. AckTimes(AO) BY <1>2, <1>5, <2>4
    <2>6. Acks(A, AO, A.commits, A.revoked, Receipted(A.receipts, g, t)) BY <1>2, <1>5, <2>4
    <2>7. ASSUME Synced(Scan(d.file).c, m.c, A, t)
          PROVE  Fits(Scan(d.file).c, ApplyRec(Scan(d.file).c, Rec("FIRST_RECEIPT", g, t)), m.c, c,
                      h, f, AO, t)
      <3>1. g \notin DOMAIN A.receipts BY <1>7, <2>7 DEF Synced
      <3>2. Acks(A, AO, A.commits, A.revoked, Put(A.receipts, g, t)) BY <2>6, <3>1 DEF Receipted
      <3> QED BY <1>1, <1>2, <1>4, <1>7, <2>1, <2>7, <3>2, ReceiptFits
    <2>8. FitsBehind(d.file, Rec("FIRST_RECEIPT", g, t), m, c, A, AO, h, f, t)
      BY <2>7 DEF FitsBehind
    <2>9. "FIRST_RECEIPT" \in Tags /\ (NumLen("FIRST_RECEIPT") = 0 => t = 0)
      <3>1. NumLen("FIRST_RECEIPT") = U64_LEN BY DEF NumLen
      <3> QED BY <3>1, LayoutAssumption DEF Tags
    <2>10. o.res = "Ok" => o.mem.c.receipts[g] = t
      <3>1. MemShape(m) BY BeginsWith
      <3>2. PICK rec : rec = Rec("FIRST_RECEIPT", g, t) OBVIOUS
      <3>3. o \in AppendThen(d, m, rec, c) BY <2>2, <3>2
      <3>3a. IsRecord(Bytes(rec), rec.tag, rec.key, rec.num) /\ rec.tag \in Tags
        <4>1. rec.tag = "FIRST_RECEIPT" /\ rec.key = g /\ rec.num = t BY <3>2 DEF Rec
        <4>2. Bytes(rec) = Bytes(Rec("FIRST_RECEIPT", g, t)) BY <3>2
        <4> QED BY <2>9, <4>1, <4>2, BytesOf
      <3>4. o.res = "Ok" => o.mem.c = c BY <3>1, <3>3, <3>3a, AppendCaches
      <3>5. PICK x : x = Put(m.c.receipts, g, t) OBVIOUS
      <3>6. c = [m.c EXCEPT !.receipts = x] BY <1>1, <2>1, <3>5 DEF CachesShape
      <3>7. c.receipts = x BY <1>1, <3>6, CachesFields DEF Has
      <3>8. x[g] = t BY <3>5 DEF Put
      <3> QED BY <3>4, <3>7, <3>8
    <2>11. A1 = AfterEnd(o.res, AO, h, f) BY <1>3, <2>4, <2>10 DEF AfterEnd
    <2> QED BY <1>2, <1>3, <2>2, <2>3, <2>5, <2>8, <2>9, <2>11, RecordSettles
  <1> QED BY <1>6, <1>7

-----------------------------------------------------------------------------
(* prune_expired.                                                          *)

\* The memory with other caches.
LEMMA MemCached ==
    ASSUME NEW m, MemShape(m), NEW c, CachesShape(c), NEW n, n = [m EXCEPT !.c = c]
    PROVE  MemShape(n) /\ n.c = c /\ n.phase = m.phase /\ n.handle = m.handle /\ n.pos = m.pos
  BY DEF MemShape

\* The memory after the reopen, and without it.
LEMMA MemReopened ==
    ASSUME NEW m, MemShape(m), NEW r, r = Reopened(m), NEW s, s = ShutOut(m)
    PROVE  /\ MemShape(r) /\ r.c = m.c /\ r.phase = m.phase /\ r.pos = 0
           /\ MemShape(s) /\ s.c = m.c /\ s.phase = m.phase /\ s.handle = FALSE
  BY DEF MemShape, Reopened, ShutOut

\* The disk after the rename.
Renamed(d, img) == [d EXCEPT !.file = img, !.temp = FALSE]

\* It is one, with that file.
LEMMA DiskRenamed ==
    ASSUME NEW d, DiskShape(d), NEW x, NEW w, w = Renamed(d, x)
    PROVE  DiskShape(w) /\ w.file = x /\ w.spoiled = d.spoiled
  <1>1. PICK s : s = d.spoiled OBVIOUS
  <1>2. PICK b : b = FALSE OBVIOUS
  <1>3. w = [file |-> x, temp |-> b, spoiled |-> s] BY <1>1, <1>2 DEF DiskShape, Renamed
  <1>4. w.file = x /\ w.temp = b /\ w.spoiled = s BY <1>3, DiskParts
  <1> QED BY <1>1, <1>3, <1>4 DEF DiskShape

\* The disk with a temp file, or without.
LEMMA DiskTemp ==
    ASSUME NEW d, DiskShape(d), NEW b \in BOOLEAN, NEW v, v = [d EXCEPT !.temp = b]
    PROVE  DiskShape(v) /\ v.file = d.file /\ v.spoiled = d.spoiled
  <1>1. v = [file |-> d.file, temp |-> b, spoiled |-> d.spoiled] BY DEF DiskShape
  <1>2. v.file = d.file /\ v.temp = b /\ v.spoiled = d.spoiled BY <1>1, DiskParts
  <1> QED BY <1>1, <1>2 DEF DiskShape

\* What the rest of prune_expired leaves: the file as it was or written anew, and
\* the memory p with its caches pruned, or none.
Rewrites(o, d, p) ==
    /\ DiskShape(o.disk) /\ o.disk.spoiled = d.spoiled
    /\ o.res \in {"Ok", "crash", "DiskError", "Locked"}
    /\ o.disk.file \in Images(p.c) \/ (o.res # "Ok" /\ o.disk.file = d.file)
    /\ o.res = "crash" => o.mem = Down
    /\ o.res # "crash" =>
         /\ MemShape(o.mem) /\ o.mem.c = p.c /\ o.mem.phase = p.phase
         /\ o.mem.handle => o.mem.pos = 0 \/ (o.mem = p /\ o.disk.file = d.file)

\* The rest of prune_expired leaves no other.
LEMMA RewriteLeaves ==
    ASSUME NEW d, DiskShape(d), NEW p, MemShape(p), NEW o \in RewriteOutcomes(d, p)
    PROVE  Rewrites(o, d, p)
  <1> DEFINE tmp == [d EXCEPT !.temp = TRUE]
             renamed(img) == Renamed(d, img)
  <1>1. \/ \E i \in Images(p.c) : o = Outcome("Ok", renamed(i), Reopened(p))
        \/ o \in {Outcome("crash", d, Down), Outcome("crash", tmp, Down)}
        \/ \E i \in Images(p.c) : o = Outcome("crash", renamed(i), Down)
        \/ o \in {Outcome("DiskError", d, p), Outcome("DiskError", tmp, p)}
        \/ \E i \in Images(p.c) : o = Outcome("DiskError", renamed(i), ShutOut(p))
        \/ \E i \in Images(p.c) : o = Outcome("Locked", renamed(i), ShutOut(p))
    BY Zenon DEF RewriteOutcomes, Renamed
  <1>2. DiskShape(tmp) /\ tmp.file = d.file /\ tmp.spoiled = d.spoiled BY DiskTemp
  <1>3. \A i : DiskShape(renamed(i)) /\ renamed(i).file = i /\ renamed(i).spoiled = d.spoiled
    <2> SUFFICES ASSUME NEW i
                 PROVE  DiskShape(renamed(i)) /\ renamed(i).file = i /\ renamed(i).spoiled = d.spoiled
      OBVIOUS
    <2>1. PICK w : w = Renamed(d, i) OBVIOUS
    <2>3. DiskShape(w) /\ w.file = i /\ w.spoiled = d.spoiled BY <2>1, DiskRenamed
    <2> QED BY <2>1, <2>3
  <1>4. /\ MemShape(Reopened(p)) /\ Reopened(p).c = p.c /\ Reopened(p).phase = p.phase
        /\ Reopened(p).pos = 0
        /\ MemShape(ShutOut(p)) /\ ShutOut(p).c = p.c /\ ShutOut(p).phase = p.phase
        /\ ShutOut(p).handle = FALSE
    BY MemReopened
  <1> HIDE DEF tmp, renamed
  <1>5. ASSUME NEW i \in Images(p.c), NEW res \in {"Ok", "crash", "DiskError", "Locked"},
               NEW n, o = Outcome(res, renamed(i), n),
               \/ res = "Ok" /\ n = Reopened(p)
               \/ res = "crash" /\ n = Down
               \/ res \in {"DiskError", "Locked"} /\ n = ShutOut(p)
        PROVE  Rewrites(o, d, p)
    <2>1. o.res = res /\ o.disk = renamed(i) /\ o.mem = n BY <1>5, OutcomeParts
    <2>2. DiskShape(o.disk) /\ o.disk.spoiled = d.spoiled /\ o.disk.file \in Images(p.c)
      BY <1>3, <2>1
    <2>3. o.res = "crash" => o.mem = Down BY <1>5, <2>1
    <2>4. o.res # "crash" =>
            /\ MemShape(o.mem) /\ o.mem.c = p.c /\ o.mem.phase = p.phase
            /\ o.mem.handle => o.mem.pos = 0
      BY <1>4, <1>5, <2>1
    <2> QED BY <1>5, <2>1, <2>2, <2>3, <2>4 DEF Rewrites
  <1>6. ASSUME NEW w \in {d, tmp}, NEW res \in {"crash", "DiskError"}, NEW n, o = Outcome(res, w, n),
               IF res = "crash" THEN n = Down ELSE n = p
        PROVE  Rewrites(o, d, p)
    <2>1. o.res = res /\ o.disk = w /\ o.mem = n BY <1>6, OutcomeParts
    <2>2. DiskShape(o.disk) /\ o.disk.spoiled = d.spoiled /\ o.disk.file = d.file
      BY <1>2, <1>6, <2>1
    <2> QED BY <1>6, <2>1, <2>2 DEF Rewrites
  <1>7. CASE \E i \in Images(p.c) : o = Outcome("Ok", renamed(i), Reopened(p))
    BY <1>5, <1>7
  <1>8. CASE o \in {Outcome("crash", d, Down), Outcome("crash", tmp, Down)}
    BY <1>6, <1>8
  <1>9. CASE \E i \in Images(p.c) : o = Outcome("crash", renamed(i), Down)
    BY <1>5, <1>9
  <1>10. CASE o \in {Outcome("DiskError", d, p), Outcome("DiskError", tmp, p)}
    BY <1>6, <1>10
  <1>11. CASE \E i \in Images(p.c) : o = Outcome("DiskError", renamed(i), ShutOut(p))
    BY <1>5, <1>11
  <1>12. CASE \E i \in Images(p.c) : o = Outcome("Locked", renamed(i), ShutOut(p))
    BY <1>5, <1>12
  <1> QED BY <1>1, <1>7, <1>8, <1>9, <1>10, <1>11, <1>12 DEF tmp, renamed

\* What prune_expired leaves to the mutator that called it.
Pruned(o, m) ==
    /\ ~o.disk.spoiled /\ o.res # "ResourceExhausted"
    /\ o.res = "Ok" => Fewer(o.mem.c, m.c)

\* prune_expired.
LEMMA PruneSettles ==
    ASSUME NEW d, NEW m, NEW A, NEW t, Begins(d, m, A, t), NEW o \in PruneOutcomes(d, m, t),
           NEW A1, AcksNoLess(A, A1)
    PROVE  Settles(o, d, m, A1, t) /\ Pruned(o, m)
  <1>1. /\ DiskHolds(Scan(d.file).c, A, t) /\ FileOk(d.file)
        /\ AckTimes(A) /\ MemShape(m) /\ CachesShape(m.c) /\ CachesType(m.c)
        /\ Blank(m) \/ Synced(Scan(d.file).c, m.c, A, t)
    BY BeginsWith
  <1>2. t \in Nat /\ DiskShape(d) /\ ~d.spoiled /\ (m.handle => m.pos \in 0 .. Len(d.file))
    BY DEF Begins, InMemOk
  <1>3. AckTimes(A1) BY <1>1, AckTimesKept
  <1>4. CASE Expired(m.c, t) = {}
    <2>1. o = Outcome("Ok", d, m) BY <1>4 DEF PruneOutcomes
    <2>2. o.res = "Ok" /\ o.disk = d /\ o.mem = m BY <2>1, OutcomeParts
    <2>3. Settles(o, d, m, A1, t) BY <2>2, NothingPromised
    <2>4. Pruned(o, m) BY <1>2, <2>2 DEF Pruned, Fewer
    <2> QED BY <2>3, <2>4
  <1>5. CASE Expired(m.c, t) # {}
    <2>1. PICK c : c = PruneCached(m.c, Expired(m.c, t)) OBVIOUS
    <2>2. PICK p : p = [m EXCEPT !.c = c] OBVIOUS
    <2>3. o \in RewriteOutcomes(d, p) BY <1>5, <2>1, <2>2 DEF PruneOutcomes
    <2>4. Synced(Scan(d.file).c, m.c, A, t)
      <3>1. ~Blank(m) BY <1>5 DEF Blank, NewCaches, EmptyMap, Expired
      <3> QED BY <1>1, <3>1
    <2>5. PICK R : R = Scan(d.file).c OBVIOUS
    <2>6. ASSUME NEW R2, Exact(R2, c), R2.published = {}
          PROVE  /\ CachesShape(c) /\ CachesType(c) /\ Fewer(c, m.c)
                 /\ Synced(R, c, A, t) /\ DiskHolds(R2, A, t) /\ Synced(R2, c, A, t)
      <3>1. PICK k : k = m.c OBVIOUS
      <3>2. CachesShape(k) /\ CachesType(k) BY <1>1, <3>1
      <3>3. c = PruneCached(k, Expired(k, t)) BY <2>1, <3>1
      <3>4. Synced(R, k, A, t) BY <2>4, <2>5, <3>1
      <3>5. CachesShape(c) /\ CachesType(c) BY <1>2, <2>6, <3>2, <3>3, <3>4, PruneFits
      <3>6. Fewer(c, k) BY <1>2, <2>6, <3>2, <3>3, <3>4, PruneFits
      <3>7. Synced(R, c, A, t) /\ DiskHolds(R2, A, t) /\ Synced(R2, c, A, t)
        BY <1>2, <2>6, <3>2, <3>3, <3>4, PruneFits
      <3> QED BY <3>1, <3>5, <3>6, <3>7
    <2>7. /\ CachesShape(c) /\ CachesType(c) /\ Fewer(c, m.c) /\ Synced(R, c, A, t)
      <3>1. PICK R2 : R2 = [consumed |-> c.consumed, revoked |-> c.revoked, receipts |-> c.receipts,
                            published |-> {}]
        OBVIOUS
      <3>2. Exact(R2, c) /\ R2.published = {} BY <3>1 DEF Exact
      <3> QED BY <2>6, <3>2
    <2>8. MemShape(p) /\ p.c = c /\ p.phase = m.phase /\ p.handle = m.handle /\ p.pos = m.pos
      BY <1>1, <2>2, <2>7, MemCached
    <2>9. Rewrites(o, d, p) BY <1>2, <2>3, <2>8, RewriteLeaves
    <2>10. PICK h : h = o.disk.file OBVIOUS
    <2>11. /\ DiskShape(o.disk) /\ ~o.disk.spoiled /\ o.res \in {"Ok", "crash", "DiskError", "Locked"}
           /\ h \in Images(c) \/ (o.res # "Ok" /\ h = d.file)
           /\ o.res = "crash" => o.mem = Down
           /\ o.res # "crash" =>
                /\ MemShape(o.mem) /\ o.mem.c = c /\ o.mem.phase = m.phase
                /\ o.mem.handle => o.mem.pos = 0 \/ (o.mem = p /\ h = d.file)
      BY <1>2, <2>8, <2>9, <2>10 DEF Rewrites
    <2>12. FileOk(h) /\ DiskHolds(Scan(h).c, A, t) /\ Synced(Scan(h).c, c, A, t)
           /\ (o.res = "Ok" => Exact(Scan(h).c, c))
      <3>1. CASE h \in Images(c)
        <4>1. PICK R2 : R2 = Scan(h).c OBVIOUS
        <4>2. FileOk(h) BY <2>7, <3>1, ImageReads DEF FileOk
        <4>3. Exact(R2, c) /\ R2.published = {} BY <2>7, <3>1, <4>1, ImageReads
        <4>4. DiskHolds(R2, A, t) /\ Synced(R2, c, A, t) BY <2>6, <4>3
        <4> QED BY <4>1, <4>2, <4>3, <4>4
      <3>2. CASE o.res # "Ok" /\ h = d.file
        BY <1>1, <2>5, <2>7, <3>2
      <3> QED BY <2>11, <3>1, <3>2
    <2>13. DiskHolds(Scan(h).c, A1, t) /\ Synced(Scan(h).c, c, A1, t) BY <2>12, AcksWeaken
    <2>14. OnDiskOk(h, A1, t) BY <1>3, <2>12, <2>13 DEF OnDiskOk
    <2>15. o.res # "crash" => o.mem.phase = m.phase /\ InMemOk(h, o.mem, A1, t)
      <3> SUFFICES ASSUME o.res # "crash" PROVE o.mem.phase = m.phase /\ InMemOk(h, o.mem, A1, t)
        OBVIOUS
      <3>1. Len(h) \in Nat BY <2>12 DEF FileOk, IsSeq
      <3>2. o.mem.handle => o.mem.pos \in 0 .. Len(h) BY <1>2, <2>8, <2>11, <3>1
      <3> QED BY <2>7, <2>11, <2>13, <3>2 DEF InMemOk
    <2>16. Settles(o, d, m, A1, t) BY <2>10, <2>11, <2>12, <2>14, <2>15 DEF Settles
    <2>17. Pruned(o, m)
      <3>1. o.res = "Ok" => o.mem.c = c BY <2>11
      <3> QED BY <2>7, <2>11, <3>1 DEF Pruned
    <2> QED BY <2>16, <2>17
  <1> QED BY <1>4, <1>5

-----------------------------------------------------------------------------
(* commit_consumed, which may prune first.                                 *)

\* What the Ok of a commit_consumed that left caches c adds to history h.
Committed(h, c, g) ==
    IF g \notin DOMAIN c.consumed THEN h ELSE [h EXCEPT !.commits = Put(@, g, c.consumed[g])]

\* It has the commit.
LEMMA CommittedTells ==
    ASSUME NEW A, AckShape(A), AckTimes(A), NEW h, h = Asked(A, {}), NEW g, NEW n \in Nat, NEW AO,
           AO = [h EXCEPT !.commits = Put(@, g, n)]
    PROVE  AckTimes(AO) /\ Acks(A, AO, Put(A.commits, g, n), A.revoked, A.receipts)
  <1>1. Tells(h, A.commits, A.published \cup {}, A.revoked, A.receipts, A.unsettled)
    <2>1. PICK f : f = Failing(h, {}) OBVIOUS
    <2> QED BY <2>1, HistoryEnds
  <1>2. PICK x : x = Put(h.commits, g, n) OBVIOUS
  <1>3. AO = [h EXCEPT !.commits = x] BY <1>1, <1>2 DEF Tells, AckShape
  <1>4. AckShape(h) BY <1>1 DEF Tells
  <1>5. Tells(AO, x, h.published, h.revoked, h.receipts, h.unsettled)
    <2>1. Tells([h EXCEPT !.commits = x], x, h.published, h.revoked, h.receipts, h.unsettled)
      BY <1>4, HistoryFields
    <2> QED BY <1>3, <2>1
  <1>6. Acks(A, AO, Put(A.commits, g, n), A.revoked, A.receipts) BY <1>1, <1>2, <1>5 DEF Tells, Acks
  <1>7. AckTimes(AO) BY <1>6 DEF AckTimes, Acks, Put
  <1> QED BY <1>6, <1>7

\* commit_consumed has room for the grant, which the caches do not know.
LEMMA CommitWrites ==
    ASSUME NEW d, NEW m, NEW A, NEW t, Begins(d, m, A, t), NEW g, NEW n \in Nat,
           g \notin DOMAIN m.c.consumed \cup m.c.published,
           NEW o \in AppendThen(d, m, Rec("COMMIT", g, n), CommitCached(m.c, g, n)),
           NEW h, h = Asked(A, {}),
           NEW A1, A1 = AfterEnd(o.res, Committed(h, o.mem.c, g), h, Failing(h, {}))
    PROVE  Settles(o, d, m, A1, t)
  <1>1. /\ GoodCaches(Scan(d.file).c) /\ DiskHolds(Scan(d.file).c, A, t)
        /\ AckTimes(A) /\ AckShape(A) /\ MemShape(m) /\ CachesShape(m.c) /\ CachesType(m.c)
    BY BeginsWith
  <1>2. t \in Nat BY DEF Begins
  <1>3. PICK f : f = Failing(h, {}) OBVIOUS
  <1>4. AcksNoLess(A, h) /\ AcksNoLess(A, f) BY <1>1, <1>3, HistoryEnds
  <1>5. PICK c : c = CommitCached(m.c, g, n) OBVIOUS
  <1>6. PICK AO : AO = [h EXCEPT !.commits = Put(@, g, n)] OBVIOUS
  <1>7. AckTimes(AO) /\ Acks(A, AO, Put(A.commits, g, n), A.revoked, A.receipts)
    BY <1>1, <1>6, CommittedTells
  <1>8. o \in AppendThen(d, m, Rec("COMMIT", g, n), c) BY <1>5
  <1>9. CachesShape(c) /\ CachesType(c) BY <1>1, <1>5, CachesStay
  <1>10. ASSUME Synced(Scan(d.file).c, m.c, A, t)
         PROVE  Fits(Scan(d.file).c, ApplyRec(Scan(d.file).c, Rec("COMMIT", g, n)), m.c, c, h, f, AO, t)
    BY <1>1, <1>2, <1>4, <1>5, <1>7, <1>10, CommitFits
  <1>11. FitsBehind(d.file, Rec("COMMIT", g, n), m, c, A, AO, h, f, t)
    BY <1>10 DEF FitsBehind
  <1>12. "COMMIT" \in Tags /\ (NumLen("COMMIT") = 0 => n = 0)
    <2>1. NumLen("COMMIT") = U64_LEN BY DEF NumLen
    <2> QED BY <2>1, LayoutAssumption DEF Tags
  <1>13. o.res = "Ok" => o.mem.c.consumed = Put(m.c.consumed, g, n)
    <2>1. PICK rec : rec = Rec("COMMIT", g, n) OBVIOUS
    <2>2. o \in AppendThen(d, m, rec, c) BY <1>8, <2>1
    <2>3. IsRecord(Bytes(rec), rec.tag, rec.key, rec.num) /\ rec.tag \in Tags
      <3>1. rec.tag = "COMMIT" /\ rec.key = g /\ rec.num = n BY <2>1 DEF Rec
      <3>2. Bytes(rec) = Bytes(Rec("COMMIT", g, n)) BY <2>1
      <3> QED BY <1>12, <3>1, <3>2, BytesOf
    <2>4. o.res = "Ok" => o.mem.c = c BY <1>1, <2>2, <2>3, AppendCaches
    <2>5. c = SetOrder(m.c, Append(m.c.order, g), Put(m.c.consumed, g, n))
      BY <1>5 DEF CommitCached, SetOrder
    <2>6. Has(c, Put(m.c.consumed, g, n), Append(m.c.order, g), m.c.published, m.c.revoked, m.c.receipts)
      BY <1>1, <2>5, CachesFields
    <2>7. c.consumed = Put(m.c.consumed, g, n) BY <2>6 DEF Has
    <2> QED BY <2>4, <2>7
  <1>14. o.res = "Ok" => Committed(h, o.mem.c, g) = AO
    <2> SUFFICES ASSUME o.res = "Ok" PROVE Committed(h, o.mem.c, g) = AO OBVIOUS
    <2>1. g \in DOMAIN o.mem.c.consumed /\ o.mem.c.consumed[g] = n BY <1>13 DEF Put
    <2> QED BY <1>6, <2>1 DEF Committed
  <1>15. A1 = AfterEnd(o.res, AO, h, f) BY <1>3, <1>14 DEF AfterEnd
  <1> QED BY <1>3, <1>7, <1>8, <1>9, <1>11, <1>12, <1>15, RecordSettles

\* An operation that goes on where another has ended with Ok.
LEMMA SettlesOn ==
    ASSUME NEW d, NEW m, NEW A, NEW t, Begins(d, m, A, t),
           NEW a, a.res = "Ok", Settles(a, d, m, A, t), ~a.disk.spoiled
    PROVE  /\ Begins(a.disk, a.mem, A, t)
           /\ \A o, A1 : Settles(o, a.disk, a.mem, A1, t) => Settles(o, d, m, A1, t)
  <1>1. /\ DiskShape(a.disk) /\ OnDiskOk(a.disk.file, A, t) /\ a.mem.phase = m.phase
        /\ InMemOk(a.disk.file, a.mem, A, t)
        /\ Exact(Scan(d.file).c, m.c) => Exact(Scan(a.disk.file).c, a.mem.c)
    BY DEF Settles
  <1>2. Begins(a.disk, a.mem, A, t) BY <1>1 DEF Begins
  <1>3. ASSUME NEW o, NEW A1, Settles(o, a.disk, a.mem, A1, t) PROVE Settles(o, d, m, A1, t)
    BY <1>1, <1>3 DEF Settles
  <1> QED BY <1>2, <1>3

\* Every outcome of prune_expired is one.
LEMMA PruneForm ==
    ASSUME NEW d, NEW m, NEW t, NEW o \in PruneOutcomes(d, m, t)
    PROVE  \E r, x, y : o = Outcome(r, x, y)
  BY DEF PruneOutcomes, RewriteOutcomes

\* commit_consumed.
LEMMA CommitSettles ==
    ASSUME NEW d, NEW m, NEW A, NEW t, Begins(d, m, A, t), NEW g, NEW n \in Nat,
           NEW o \in CommitOutcomes(d, m, g, n, t), NEW h, h = Asked(A, {}),
           NEW A1, A1 = AfterEnd(o.res, Committed(h, o.mem.c, g), h, Failing(h, {}))
    PROVE  Settles(o, d, m, A1, t)
  <1>1. /\ GoodCaches(Scan(d.file).c) /\ DiskHolds(Scan(d.file).c, A, t)
        /\ AckTimes(A) /\ AckShape(A) /\ MemShape(m) /\ CachesShape(m.c) /\ CachesType(m.c)
        /\ Blank(m) \/ Synced(Scan(d.file).c, m.c, A, t)
    BY BeginsWith
  <1>2. t \in Nat BY DEF Begins
  <1>3. PICK f : f = Failing(h, {}) OBVIOUS
  <1>4. AcksNoLess(A, h) /\ AcksNoLess(A, f) BY <1>1, <1>3, HistoryEnds
  <1>5. A1 = AfterEnd(o.res, Committed(h, o.mem.c, g), h, f) BY <1>3
  <1> DEFINE full(x) == Cardinality(DOMAIN x.c.consumed) >= MAX_LIVE
             write(d1, m1) == AppendThen(d1, m1, Rec("COMMIT", g, n), CommitCached(m1.c, g, n))
             after(a) == IF a.res # "Ok" THEN {a}
                         ELSE IF full(a.mem) THEN {[a EXCEPT !.res = "ResourceExhausted"]}
                         ELSE write(a.disk, a.mem)
  <1>6. CASE g \in DOMAIN m.c.consumed \cup m.c.published
    <2>1. o = Outcome("Ok", d, m) BY <1>6 DEF CommitOutcomes
    <2>2. o.res = "Ok" /\ o.disk = d /\ o.mem = m BY <2>1, OutcomeParts
    <2>3. A1 = Committed(h, m.c, g) BY <1>5, <2>2 DEF AfterEnd
    <2>4. CASE g \notin DOMAIN m.c.consumed
      <3>1. A1 = h BY <2>3, <2>4 DEF Committed
      <3> QED BY <1>4, <2>2, <3>1, NothingPromised
    <2>5. CASE g \in DOMAIN m.c.consumed
      <3>1. PICK n1 : n1 = m.c.consumed[g] OBVIOUS
      <3>2. n1 \in Nat BY <1>1, <2>5, <3>1 DEF CachesType, FiniteMap
      <3>3. A1 = [h EXCEPT !.commits = Put(@, g, n1)] BY <2>3, <2>5, <3>1 DEF Committed
      <3>4. AckTimes(A1) /\ Acks(A, A1, Put(A.commits, g, n1), A.revoked, A.receipts)
        BY <1>1, <3>2, <3>3, CommittedTells
      <3>5. Synced(Scan(d.file).c, m.c, A, t) BY <1>1, <2>5 DEF Blank, NewCaches, EmptyMap
      <3>6. \A x \in DOMAIN A1.commits :
              (x \in DOMAIN A.commits /\ A1.commits[x] = A.commits[x]) \/ (x = g /\ A1.commits[x] = n1)
        BY <3>4 DEF Acks, Put
      <3>7. PICK R : R = Scan(d.file).c OBVIOUS
      <3>8. DiskHolds(R, A, t) /\ Synced(R, m.c, A, t) BY <1>1, <3>5, <3>7
      <3>9. /\ A1.revoked = A.revoked /\ A1.receipts = A.receipts
            /\ A.published \subseteq A1.published /\ A.unsettled \subseteq A1.unsettled
        BY <3>4 DEF Acks
      <3>10. DiskHolds(R, A1, t)
        <4>1. \A x \in DOMAIN A1.commits \ A1.published :
                A1.commits[x] > t => x \in DOMAIN R.consumed /\ R.consumed[x] = A1.commits[x]
          BY <2>5, <3>1, <3>6, <3>8, <3>9 DEF DiskHolds, Synced
        <4> QED BY <3>8, <3>9, <4>1 DEF DiskHolds
      <3>11. Synced(R, m.c, A1, t)
        <4>1. \A x \in DOMAIN A1.commits \ A1.published :
                A1.commits[x] > t => x \in DOMAIN m.c.consumed /\ m.c.consumed[x] = A1.commits[x]
          BY <2>5, <3>1, <3>6, <3>8, <3>9 DEF Synced
        <4> QED BY <3>8, <3>9, <4>1 DEF Synced
      <3> QED BY <2>2, <3>4, <3>7, <3>10, <3>11, NothingDone
    <2> QED BY <2>4, <2>5
  <1>7. CASE g \notin DOMAIN m.c.consumed \cup m.c.published /\ ~full(m)
    <2>1. o \in write(d, m) BY <1>7 DEF CommitOutcomes
    <2> QED BY <1>7, <2>1, CommitWrites
  <1>8. CASE g \notin DOMAIN m.c.consumed \cup m.c.published /\ full(m)
    <2>1. o \in UNION {after(a) : a \in PruneOutcomes(d, m, t)}
      BY <1>8, Zenon DEF CommitOutcomes
    <2> HIDE DEF after, write, full
    <2>2. PICK a \in PruneOutcomes(d, m, t) : o \in after(a) BY <2>1
    <2>3. AcksNoLess(A, A) BY DEF AcksNoLess, Acks
    <2>4. Settles(a, d, m, A, t) /\ Settles(a, d, m, h, t) /\ Settles(a, d, m, f, t) /\ Pruned(a, m)
      BY <1>4, <2>2, <2>3, PruneSettles
    <2>5. CASE a.res # "Ok"
      <3>1. o = a BY <2>2, <2>5 DEF after
      <3>2. A1 \in {h, f} BY <1>5, <2>5, <3>1 DEF AfterEnd
      <3> QED BY <2>4, <3>1, <3>2
    <2>6. CASE a.res = "Ok" /\ full(a.mem)
      <3>1. o = [a EXCEPT !.res = "ResourceExhausted"] BY <2>2, <2>6 DEF after
      <3>2. \E r, x, y : a = Outcome(r, x, y) BY <2>2, PruneForm
      <3>3. o.res = "ResourceExhausted" /\ o.disk = a.disk /\ o.mem = a.mem
        BY <3>1, <3>2 DEF Outcome
      <3>4. A1 = f BY <1>5, <3>3 DEF AfterEnd
      <3> QED BY <2>4, <2>6, <3>3, <3>4 DEF Settles
    <2>7. CASE a.res = "Ok" /\ ~full(a.mem)
      <3>1. o \in write(a.disk, a.mem) BY <2>2, <2>7 DEF after
      <3>2. ~a.disk.spoiled /\ Fewer(a.mem.c, m.c) BY <2>4, <2>7 DEF Pruned
      <3>3. Begins(a.disk, a.mem, A, t) BY <2>4, <2>7, <3>2, SettlesOn
      <3>4. g \notin DOMAIN a.mem.c.consumed \cup a.mem.c.published BY <1>8, <3>2 DEF Fewer
      <3>5. o \in AppendThen(a.disk, a.mem, Rec("COMMIT", g, n), CommitCached(a.mem.c, g, n))
        BY <3>1 DEF write
      <3>6. Settles(o, a.disk, a.mem, A1, t) BY <3>3, <3>4, <3>5, CommitWrites
      <3> QED BY <2>4, <2>7, <3>2, <3>6, SettlesOn
    <2> QED BY <2>5, <2>6, <2>7
  <1> QED BY <1>6, <1>7, <1>8

-----------------------------------------------------------------------------
(* The invariant.                                                          *)

\* Unless a record was misplaced, the file is whole and holds what was acknowledged, the
\* memory is in step with it, and exactly so once the caches were rebuilt and until a
\* mutator fails.
DurInv ==
    /\ DiskShape(disk) /\ AckShape(acked) /\ AckShape(life) /\ now \in Nat
    /\ \/ disk.spoiled
       \/ /\ OnDiskOk(disk.file, acked, now)
          /\ IF mem.phase = "down" THEN mem = Down ELSE InMemOk(disk.file, mem, acked, now)
          /\ mem.phase = "ready" /\ ~life.failed => Exact(Replay(disk.file), mem.c)

\* History h with x for what it says of one kind of record.
Amended(h, x) == {h, [h EXCEPT !.commits = x], [h EXCEPT !.published = x],
                  [h EXCEPT !.revoked = x], [h EXCEPT !.receipts = x]}

\* A history after an Ok is one, and says no more of failures.
LEMMA HistoryAcks ==
    ASSUME NEW h, AckShape(h), NEW x, NEW a \in Amended(h, x)
    PROVE  AckShape(a) /\ a.failed = h.failed
  <1>1. CASE a = h BY <1>1
  <1>2. CASE a = [h EXCEPT !.commits = x] BY <1>2 DEF AckShape
  <1>3. CASE a = [h EXCEPT !.published = x] BY <1>3 DEF AckShape
  <1>4. CASE a = [h EXCEPT !.revoked = x] BY <1>4 DEF AckShape
  <1>5. CASE a = [h EXCEPT !.receipts = x] BY <1>5 DEF AckShape
  <1> QED BY <1>1, <1>2, <1>3, <1>4, <1>5 DEF Amended

\* A history after a failure says so.
LEMMA HistoryFails ==
    ASSUME NEW h, AckShape(h), NEW a, a = [h EXCEPT !.failed = TRUE]
    PROVE  AckShape(a) /\ a.failed
  BY DEF AckShape

\* Histories x and y become x1 and y1 at the end of a mutator with outcome res, if its Ok
\* makes them ax and ay.
Told(res, e, x, ax, x1, y, ay, y1) ==
    /\ x1 = AfterEnd(res, ax, Asked(x, e), Failing(Asked(x, e), e))
    /\ y1 = AfterEnd(res, ay, NoAcks, [y EXCEPT !.failed = TRUE])

\* They stay histories.
LEMMA ToldShapes ==
    ASSUME NEW res, NEW e, NEW x, AckShape(x), NEW ax, AckShape(ax), NEW x1,
           NEW y, AckShape(y), NEW ay, AckShape(ay), ay.failed = y.failed, NEW y1,
           Told(res, e, x, ax, x1, y, ay, y1)
    PROVE  /\ AckShape(x1) /\ AckShape(y1)
           /\ res = "Ok" => y1.failed = y.failed
           /\ res \notin {"Ok", "crash"} => y1.failed
  <1>1. AckShape(Asked(x, e)) /\ AckShape(Failing(Asked(x, e), e))
    <2>1. PICK h : h = Asked(x, e) OBVIOUS
    <2>2. PICK f : f = Failing(h, e) OBVIOUS
    <2>3. Tells(h, x.commits, x.published \cup e, x.revoked, x.receipts, x.unsettled)
      BY <2>1, <2>2, HistoryEnds
    <2>4. Tells(f, x.commits, x.published \cup e, x.revoked, x.receipts, x.unsettled \cup e)
      BY <2>1, <2>2, HistoryEnds
    <2> QED BY <2>1, <2>2, <2>3, <2>4 DEF Tells
  <1>2. AckShape(NoAcks) BY DEF NoAcks, AckShape
  <1>3. PICK z : z = [y EXCEPT !.failed = TRUE] OBVIOUS
  <1>4. AckShape(z) /\ z.failed BY <1>3, HistoryFails
  <1>5. y1 = AfterEnd(res, ay, NoAcks, z) BY <1>3 DEF Told
  <1>6. x1 \in {ax, Asked(x, e), Failing(Asked(x, e), e)} BY DEF Told, AfterEnd
  <1>7. /\ res = "Ok" => y1 = ay
        /\ res = "crash" => y1 = NoAcks
        /\ res \notin {"Ok", "crash"} => y1 = z
    BY <1>5 DEF AfterEnd
  <1>8. AckShape(x1) BY <1>1, <1>6
  <1>9. AckShape(y1) BY <1>2, <1>4, <1>7
  <1> QED BY <1>4, <1>7, <1>8, <1>9

\* Where a mutator begins in the specification.
LEMMA UsableBegins ==
    ASSUME DurInv, Usable PROVE Begins(disk, mem, acked, now) /\ mem.phase # "down"
  BY DEF DurInv, Usable, Begins

\* A mutator that settles keeps the invariant.
LEMMA SettledKeeps ==
    ASSUME DurInv, Usable, NEW o, Settles(o, disk, mem, acked', now),
           disk' = o.disk, mem' = o.mem, now' = now, NEW e, NEW aa, NEW al, AckShape(aa),
           AckShape(al), al.failed = life.failed,
           Told(o.res, e, acked, aa, acked', life, al, life')
    PROVE  DurInv'
  <1>1. DiskShape(disk') /\ now' \in Nat BY DEF Settles, DurInv
  <1>2. AckShape(acked) /\ AckShape(life) BY DEF DurInv
  <1>3. /\ AckShape(acked') /\ AckShape(life')
        /\ o.res = "Ok" => life'.failed = life.failed
        /\ o.res \notin {"Ok", "crash"} => life'.failed
    BY <1>2, ToldShapes
  <1>4. CASE disk'.spoiled
    BY <1>1, <1>3, <1>4 DEF DurInv
  <1>5. CASE ~disk'.spoiled
    <2>1. /\ OnDiskOk(disk'.file, acked', now)
          /\ o.res = "crash" => mem' = Down
          /\ o.res # "crash" => mem'.phase = mem.phase /\ InMemOk(disk'.file, mem', acked', now)
          /\ o.res = "Ok" /\ Exact(Scan(disk.file).c, mem.c) => Exact(Scan(disk'.file).c, mem'.c)
      BY <1>5 DEF Settles
    <2>2. mem.phase # "down" /\ Down.phase = "down" BY DEF Usable, Down
    <2>3. IF mem'.phase = "down" THEN mem' = Down ELSE InMemOk(disk'.file, mem', acked', now)
      BY <2>1, <2>2
    <2>4. mem'.phase = "ready" /\ ~life'.failed => Exact(Replay(disk'.file), mem'.c)
      <3> SUFFICES ASSUME mem'.phase = "ready", ~life'.failed PROVE Exact(Replay(disk'.file), mem'.c)
        OBVIOUS
      <3>1. o.res = "Ok" BY <1>3, <2>1, <2>2
      <3>2. mem.phase = "ready" /\ ~life.failed BY <1>3, <2>1, <3>1
      <3>3. ~disk.spoiled BY DEF Usable
      <3>4. Exact(Replay(disk.file), mem.c) BY <3>2, <3>3 DEF DurInv
      <3> QED BY <2>1, <3>1, <3>4 DEF Replay
    <2> QED BY <1>1, <1>3, <2>1, <2>3, <2>4 DEF DurInv
  <1> QED BY <1>4, <1>5

\* An empty log is whole, and holds all that nothing has promised.
LEMMA DurStarts == Init => DurInv
  <1> SUFFICES ASSUME Init PROVE DurInv OBVIOUS
  <1>1. PICK d : d = disk OBVIOUS
  <1>2. d = [file |-> <<>>, temp |-> FALSE, spoiled |-> FALSE] BY <1>1 DEF Init
  <1>3. d.file = <<>> /\ d.spoiled = FALSE
    <2>1. PICK b : b = FALSE OBVIOUS
    <2>2. d = [file |-> <<>>, temp |-> b, spoiled |-> b] BY <1>2, <2>1
    <2>3. d.file = <<>> /\ d.spoiled = b BY <2>2
    <2> QED BY <2>1, <2>3
  <1>4. DiskShape(d)
    BY <1>2 DEF DiskShape
  <1>5. LogHolds(<<>>, NewCaches, <<>>, 0) BY LogStarts
  <1>6. Scan(<<>>).ok /\ GoodCaches(Scan(<<>>).c) /\ IsSeq(<<>>)
    BY <1>5 DEF LogHolds, CachesFirst
  <1>7. FileOk(<<>>) BY <1>6 DEF FileOk
  <1>8. Scan(<<>>).c = NewCaches
    <2>1. PICK r : r = Scan(<<>>) OBVIOUS
    <2>2. r = Reader(0, TRUE, NewCaches) BY <2>1, ScanEmpty
    <2>3. r.c = NewCaches BY <2>2 DEF Reader
    <2> QED BY <2>1, <2>3
  <1>9. AckShape(NoAcks) BY DEF NoAcks, AckShape
  <1>10. DiskHolds(NewCaches, NoAcks, 0)
    <2>1. /\ DOMAIN NoAcks.commits = {} /\ NoAcks.revoked = {} /\ DOMAIN NoAcks.receipts = {}
      BY DEF NoAcks, EmptyMap
    <2>2. DOMAIN NewCaches.receipts = {} /\ NewCaches.published = {}
      BY DEF NewCaches, EmptyMap
    <2> QED BY <2>1, <2>2 DEF DiskHolds
  <1>11. AckTimes(NoAcks)
    <2>1. DOMAIN NoAcks.commits = {} /\ DOMAIN NoAcks.receipts = {} BY DEF NoAcks, EmptyMap
    <2> QED BY <2>1 DEF AckTimes
  <1>12. OnDiskOk(<<>>, NoAcks, 0) BY <1>7, <1>8, <1>10, <1>11 DEF OnDiskOk
  <1>13. mem = Down /\ mem.phase = "down" BY DEF Init, Down
  <1>14. now = 0 /\ acked = NoAcks /\ life = NoAcks BY DEF Init
  <1> QED BY <1>1, <1>3, <1>4, <1>9, <1>12, <1>13, <1>14 DEF DurInv

\* The calls that rebuild the caches or end the process, and the clock.
LEMMA OthersKeepDur ==
    ASSUME DurInv, Open \/ Recover \/ Stop \/ Tick PROVE DurInv'
  <1>1. AckShape(NoAcks) BY DEF NoAcks, AckShape
  <1>2. DiskShape(disk) /\ AckShape(acked) /\ AckShape(life) /\ now \in Nat BY DEF DurInv
  <1>3. ~disk.spoiled =>
          /\ OnDiskOk(disk.file, acked, now)
          /\ IF mem.phase = "down" THEN mem = Down ELSE InMemOk(disk.file, mem, acked, now)
          /\ mem.phase = "ready" /\ ~life.failed => Exact(Replay(disk.file), mem.c)
    BY DEF DurInv
  <1>4. ~disk.spoiled =>
          /\ FileOk(disk.file) /\ CachesType(Replay(disk.file)) /\ CachesShape(Replay(disk.file))
          /\ DiskHolds(Replay(disk.file), acked, now) /\ AckTimes(acked)
    BY <1>3 DEF OnDiskOk, FileOk, GoodCaches, Replay
  <1>5. ~disk.spoiled => Len(disk.file) \in Nat BY <1>4 DEF FileOk, IsSeq
  <1>6. CASE Open
    <2>1. PICK d : d = disk' OBVIOUS
    <2>2. d = [disk EXCEPT !.temp = FALSE] BY <1>6, <2>1 DEF Open
    <2>3. PICK b \in BOOLEAN : b = FALSE OBVIOUS
    <2>4. d = [disk EXCEPT !.temp = b] BY <2>2, <2>3
    <2>5. DiskShape(d) /\ d.file = disk.file /\ d.spoiled = disk.spoiled BY <1>2, <2>4, DiskTemp
    <2>6. PICK m : m = mem' OBVIOUS
    <2>7. m = [phase |-> "opened", handle |-> TRUE, pos |-> 0, c |-> NewCaches]
      BY <1>6, <2>6 DEF Open
    <2>8. m.phase = "opened" /\ m.pos = 0 /\ m.c = NewCaches BY <2>7
    <2>9. CachesShape(NewCaches) BY DEF NewCaches, CachesShape
    <2>10. MemShape(m) BY <2>7, <2>9 DEF MemShape
    <2>11. LogHolds(<<>>, NewCaches, <<>>, 0) BY LogStarts
    <2>12. CachesType(NewCaches)
      <3>1. Scan(<<>>).c = NewCaches
        <4>1. PICK r : r = Scan(<<>>) OBVIOUS
        <4>2. r = Reader(0, TRUE, NewCaches) BY <4>1, ScanEmpty
        <4>3. r.c = NewCaches BY <4>2 DEF Reader
        <4> QED BY <4>1, <4>3
      <3>2. GoodCaches(Scan(<<>>).c) BY <2>11 DEF LogHolds, CachesFirst
      <3> QED BY <3>1, <3>2 DEF GoodCaches
    <2>13. ~disk.spoiled => InMemOk(disk.file, m, acked, now)
      BY <1>5, <2>8, <2>10, <2>12 DEF InMemOk, Blank
    <2>14. acked' = acked /\ now' = now /\ life' = NoAcks BY <1>6 DEF Open
    <2>15. ~d.spoiled => OnDiskOk(d.file, acked', now') /\ InMemOk(d.file, m, acked', now')
      BY <1>3, <2>5, <2>13, <2>14
    <2> QED BY <1>1, <1>2, <2>1, <2>5, <2>6, <2>8, <2>14, <2>15 DEF DurInv
  <1>7. CASE Recover
    <2>1. disk' = disk /\ acked' = acked /\ now' = now /\ life' = NoAcks BY <1>7 DEF Recover
    <2>2. CASE disk.spoiled
      BY <1>1, <1>2, <2>1, <2>2 DEF DurInv
    <2>3. CASE ~disk.spoiled
      <3>1. InMemOk(disk.file, mem, acked, now) BY <1>3, <1>7, <2>3 DEF Recover
      <3>2. MemShape(mem) BY <3>1 DEF InMemOk
      <3>3. PICK p : p = IF Scan(disk.file).ok THEN "ready" ELSE "opened" OBVIOUS
      <3>4. PICK n : n = Len(disk.file) OBVIOUS
      <3>5. PICK c : c = Replay(disk.file) OBVIOUS
      <3>6. mem' = [mem EXCEPT !.phase = p, !.pos = n, !.c = c] BY <1>7, <3>3, <3>4, <3>5 DEF Recover
      <3>7. PICK m : m = mem' OBVIOUS
      <3>8. m = [phase |-> p, handle |-> mem.handle, pos |-> n, c |-> c]
        BY <3>2, <3>6, <3>7 DEF MemShape
      <3>9. m.phase = p /\ m.pos = n /\ m.c = c BY <3>8
      <3>10. CachesShape(c) /\ CachesType(c) /\ DiskHolds(c, acked, now) /\ AckTimes(acked)
        BY <1>4, <2>3, <3>5
      <3>11. MemShape(m) BY <3>8, <3>9, <3>10 DEF MemShape
      <3>12. p = "ready" BY <1>4, <2>3, <3>3 DEF FileOk
      <3>13. Synced(c, c, acked, now) /\ Exact(c, c) BY <1>2, <3>10, RebuildSyncs
      <3>14. n \in 0 .. Len(disk.file) BY <1>5, <2>3, <3>4
      <3>15. Scan(disk.file).c = c BY <3>5 DEF Replay
      <3>16. InMemOk(disk.file, m, acked, now)
        BY <3>9, <3>10, <3>11, <3>13, <3>14, <3>15 DEF InMemOk
      <3>17. Exact(Replay(disk.file), m.c) BY <3>5, <3>9, <3>13
      <3> QED BY <1>1, <1>2, <1>3, <2>1, <2>3, <3>7, <3>9, <3>12, <3>16, <3>17 DEF DurInv
    <2> QED BY <2>2, <2>3
  <1>8. CASE Stop
    <2>1. disk' = disk /\ acked' = acked /\ now' = now /\ life' = NoAcks /\ mem' = Down
      BY <1>8 DEF Stop
    <2>2. Down.phase = "down" BY DEF Down
    <2> QED BY <1>1, <1>2, <1>3, <2>1, <2>2 DEF DurInv
  <1>9. CASE Tick
    <2>1. disk' = disk /\ acked' = acked /\ now' = now + 1 /\ life' = life /\ mem' = mem
      BY <1>9 DEF Tick
    <2>2. CASE disk.spoiled
      BY <1>2, <2>1, <2>2 DEF DurInv
    <2>3. CASE ~disk.spoiled
      <3>1. PICK R : R = Replay(disk.file) OBVIOUS
      <3>2. CachesType(R) /\ DiskHolds(R, acked, now) /\ AckTimes(acked) BY <1>4, <2>3, <3>1
      <3>3. DiskHolds(R, acked, now + 1) BY <1>2, <3>2, TimePasses
      <3>4. OnDiskOk(disk.file, acked, now + 1)
        BY <1>4, <2>3, <3>1, <3>3 DEF OnDiskOk, Replay
      <3>5. mem.phase # "down" => InMemOk(disk.file, mem, acked, now + 1)
        <4> SUFFICES ASSUME mem.phase # "down" PROVE InMemOk(disk.file, mem, acked, now + 1)
          OBVIOUS
        <4>1. InMemOk(disk.file, mem, acked, now) BY <1>3, <2>3
        <4>2. CachesType(mem.c) BY <4>1 DEF InMemOk
        <4>3. Synced(R, mem.c, acked, now) => Synced(R, mem.c, acked, now + 1)
          BY <1>2, <3>2, <4>2, TimePasses
        <4>4. Scan(disk.file).c = R BY <3>1 DEF Replay
        <4> QED BY <4>1, <4>3, <4>4 DEF InMemOk
      <3> QED BY <1>2, <1>3, <2>1, <2>3, <3>4, <3>5 DEF DurInv
    <2> QED BY <2>2, <2>3
  <1> QED BY <1>6, <1>7, <1>8, <1>9

\* commit_consumed.
LEMMA CommitKeepsDur ==
    ASSUME DurInv, NEW g \in GrantIds, NEW exp \in Expiries, CommitConsumed(g, exp) PROVE DurInv'
  <1>1. PICK h : h = Asked(acked, {}) OBVIOUS
  <1>2. Usable /\ Begins(disk, mem, acked, now) BY UsableBegins DEF CommitConsumed
  <1>3. AckShape(acked) /\ AckShape(life) BY DEF DurInv
  <1>4. AckShape(h)
    <2>1. PICK f : f = Failing(h, {}) OBVIOUS
    <2>2. Tells(h, acked.commits, acked.published \cup {}, acked.revoked, acked.receipts, acked.unsettled)
      BY <1>1, <1>3, <2>1, HistoryEnds
    <2> QED BY <2>2 DEF Tells
  <1>5. PICK o \in CommitOutcomes(disk, mem, g, exp, now) :
          Ends(o, {}, LAMBDA x : IF g \notin DOMAIN o.mem.c.consumed THEN x
                                 ELSE [x EXCEPT !.commits = Put(@, g, o.mem.c.consumed[g])])
    BY DEF CommitConsumed
  <1>6. PICK aa : aa = Committed(h, o.mem.c, g) OBVIOUS
  <1>7. PICK al : al = Committed(life, o.mem.c, g) OBVIOUS
  <1>8. disk' = o.disk /\ mem' = o.mem /\ now' = now BY <1>5 DEF Ends
  <1>9. acked' = AfterEnd(o.res, Committed(h, o.mem.c, g), h, Failing(h, {}))
    BY <1>1, <1>5, Zenon DEF Ends, AfterEnd, Committed, Asked, Failing
  <1>10. life' = AfterEnd(o.res, Committed(life, o.mem.c, g), NoAcks, [life EXCEPT !.failed = TRUE])
    BY <1>5, Zenon DEF Ends, AfterEnd, Committed
  <1>11. Told(o.res, {}, acked, aa, acked', life, al, life')
    BY <1>1, <1>6, <1>7, <1>9, <1>10 DEF Told
  <1>12. ASSUME NEW x, AckShape(x), NEW a, a = Committed(x, o.mem.c, g)
         PROVE  AckShape(a) /\ a.failed = x.failed
    <2>1. PICK z : z = Put(x.commits, g, o.mem.c.consumed[g]) OBVIOUS
    <2>2. a = x \/ a = [x EXCEPT !.commits = z] BY <1>12, <2>1 DEF Committed, AckShape
    <2>3. a \in Amended(x, z) BY <2>2 DEF Amended
    <2> QED BY <1>12, <2>3, HistoryAcks
  <1>13. AckShape(aa) /\ AckShape(al) /\ al.failed = life.failed BY <1>3, <1>4, <1>6, <1>7, <1>12
  <1>14. exp \in Nat BY LedgerAssumption
  <1>15. Settles(o, disk, mem, acked', now) BY <1>1, <1>2, <1>9, <1>14, CommitSettles
  <1> QED BY <1>2, <1>8, <1>11, <1>13, <1>15, SettledKeeps

\* mark_published.
LEMMA PublishKeepsDur ==
    ASSUME DurInv, NEW g \in GrantIds, MarkPublished(g) PROVE DurInv'
  <1>1. PICK h : h = Asked(acked, {g}) OBVIOUS
  <1>2. Usable /\ Begins(disk, mem, acked, now) BY UsableBegins DEF MarkPublished
  <1>3. AckShape(acked) /\ AckShape(life) BY DEF DurInv
  <1>4. AckShape(h)
    <2>1. PICK f : f = Failing(h, {g}) OBVIOUS
    <2>2. Tells(h, acked.commits, acked.published \cup {g}, acked.revoked, acked.receipts, acked.unsettled)
      BY <1>1, <1>3, <2>1, HistoryEnds
    <2> QED BY <2>2 DEF Tells
  <1>5. PICK o \in PublishOutcomes(disk, mem, g) :
          Ends(o, {g}, LAMBDA x : [x EXCEPT !.published = @ \cup {g}])
    BY DEF MarkPublished
  <1>6. PICK aa : aa = [h EXCEPT !.published = @ \cup {g}] OBVIOUS
  <1>7. PICK al : al = [life EXCEPT !.published = @ \cup {g}] OBVIOUS
  <1>8. disk' = o.disk /\ mem' = o.mem /\ now' = now BY <1>5 DEF Ends
  <1>9. acked' = AfterEnd(o.res, [h EXCEPT !.published = @ \cup {g}], h, Failing(h, {g}))
    BY <1>1, <1>5, Zenon DEF Ends, AfterEnd, Asked, Failing
  <1>10. life' = AfterEnd(o.res, [life EXCEPT !.published = @ \cup {g}], NoAcks, [life EXCEPT !.failed = TRUE])
    BY <1>5, Zenon DEF Ends, AfterEnd
  <1>11. Told(o.res, {g}, acked, aa, acked', life, al, life')
    BY <1>1, <1>6, <1>7, <1>9, <1>10 DEF Told
  <1>12. ASSUME NEW x, AckShape(x), NEW a, a = [x EXCEPT !.published = @ \cup {g}]
         PROVE  AckShape(a) /\ a.failed = x.failed
    <2>1. PICK z : z = x.published \cup {g} OBVIOUS
    <2>2. a = [x EXCEPT !.published = z] BY <1>12, <2>1 DEF AckShape
    <2>3. a \in Amended(x, z) BY <2>2 DEF Amended
    <2> QED BY <1>12, <2>3, HistoryAcks
  <1>13. AckShape(aa) /\ AckShape(al) /\ al.failed = life.failed BY <1>3, <1>4, <1>6, <1>7, <1>12
  <1>14. Settles(o, disk, mem, acked', now) BY <1>1, <1>2, <1>9, PublishSettles
  <1> QED BY <1>2, <1>8, <1>11, <1>13, <1>14, SettledKeeps

\* commit_revocation.
LEMMA RevokeKeepsDur ==
    ASSUME DurInv, NEW s \in Signers, CommitRevocation(s, MaxTime) PROVE DurInv'
  <1>1. PICK h : h = Asked(acked, {}) OBVIOUS
  <1>2. Usable /\ Begins(disk, mem, acked, now) BY UsableBegins DEF CommitRevocation
  <1>3. AckShape(acked) /\ AckShape(life) BY DEF DurInv
  <1>4. AckShape(h)
    <2>1. PICK f : f = Failing(h, {}) OBVIOUS
    <2>2. Tells(h, acked.commits, acked.published \cup {}, acked.revoked, acked.receipts, acked.unsettled)
      BY <1>1, <1>3, <2>1, HistoryEnds
    <2> QED BY <2>2 DEF Tells
  <1>5. PICK o \in RevokeOutcomes(disk, mem, s, MaxTime) :
          Ends(o, {}, LAMBDA x : [x EXCEPT !.revoked = @ \cup {s}])
    BY DEF CommitRevocation
  <1>6. PICK aa : aa = [h EXCEPT !.revoked = @ \cup {s}] OBVIOUS
  <1>7. PICK al : al = [life EXCEPT !.revoked = @ \cup {s}] OBVIOUS
  <1>8. disk' = o.disk /\ mem' = o.mem /\ now' = now BY <1>5 DEF Ends
  <1>9. acked' = AfterEnd(o.res, [h EXCEPT !.revoked = @ \cup {s}], h, Failing(h, {}))
    BY <1>1, <1>5, Zenon DEF Ends, AfterEnd, Asked, Failing
  <1>10. life' = AfterEnd(o.res, [life EXCEPT !.revoked = @ \cup {s}], NoAcks, [life EXCEPT !.failed = TRUE])
    BY <1>5, Zenon DEF Ends, AfterEnd
  <1>11. Told(o.res, {}, acked, aa, acked', life, al, life')
    BY <1>1, <1>6, <1>7, <1>9, <1>10 DEF Told
  <1>12. ASSUME NEW x, AckShape(x), NEW a, a = [x EXCEPT !.revoked = @ \cup {s}]
         PROVE  AckShape(a) /\ a.failed = x.failed
    <2>1. PICK z : z = x.revoked \cup {s} OBVIOUS
    <2>2. a = [x EXCEPT !.revoked = z] BY <1>12, <2>1 DEF AckShape
    <2>3. a \in Amended(x, z) BY <2>2 DEF Amended
    <2> QED BY <1>12, <2>3, HistoryAcks
  <1>13. AckShape(aa) /\ AckShape(al) /\ al.failed = life.failed BY <1>3, <1>4, <1>6, <1>7, <1>12
  <1>14. MaxTime \in Nat BY LedgerAssumption
  <1>15. Settles(o, disk, mem, acked', now) BY <1>1, <1>2, <1>9, <1>14, RevokeSettles
  <1> QED BY <1>2, <1>8, <1>11, <1>13, <1>15, SettledKeeps

\* record_first_receipt.
LEMMA ReceiptKeepsDur ==
    ASSUME DurInv, NEW g \in GrantIds, RecordFirstReceipt(g) PROVE DurInv'
  <1>1. PICK h : h = Asked(acked, {}) OBVIOUS
  <1>2. Usable /\ Begins(disk, mem, acked, now) BY UsableBegins DEF RecordFirstReceipt
  <1>3. AckShape(acked) /\ AckShape(life) BY DEF DurInv
  <1>4. AckShape(h)
    <2>1. PICK f : f = Failing(h, {}) OBVIOUS
    <2>2. Tells(h, acked.commits, acked.published \cup {}, acked.revoked, acked.receipts, acked.unsettled)
      BY <1>1, <1>3, <2>1, HistoryEnds
    <2> QED BY <2>2 DEF Tells
  <1>5. PICK o \in ReceiptOutcomes(disk, mem, g, now) :
          Ends(o, {}, LAMBDA x : [x EXCEPT !.receipts = IF g \in DOMAIN @ THEN @
                                                        ELSE Put(@, g, o.mem.c.receipts[g])])
    BY DEF RecordFirstReceipt
  <1>6. PICK aa : aa = [h EXCEPT !.receipts = Receipted(@, g, o.mem.c.receipts[g])] OBVIOUS
  <1>7. PICK al : al = [life EXCEPT !.receipts = Receipted(@, g, o.mem.c.receipts[g])] OBVIOUS
  <1>8. disk' = o.disk /\ mem' = o.mem /\ now' = now BY <1>5 DEF Ends
  <1>9. acked' = AfterEnd(o.res, [h EXCEPT !.receipts = Receipted(@, g, o.mem.c.receipts[g])],
                          h, Failing(h, {}))
    BY <1>1, <1>5, Zenon DEF Ends, AfterEnd, Asked, Failing, Receipted
  <1>10. life' = AfterEnd(o.res, [life EXCEPT !.receipts = Receipted(@, g, o.mem.c.receipts[g])],
                          NoAcks, [life EXCEPT !.failed = TRUE])
    BY <1>5, Zenon DEF Ends, AfterEnd, Receipted
  <1>11. Told(o.res, {}, acked, aa, acked', life, al, life')
    BY <1>1, <1>6, <1>7, <1>9, <1>10 DEF Told
  <1>12. ASSUME NEW x, AckShape(x), NEW n, NEW a, a = [x EXCEPT !.receipts = Receipted(@, g, n)]
         PROVE  AckShape(a) /\ a.failed = x.failed
    <2>1. PICK z : z = Receipted(x.receipts, g, n) OBVIOUS
    <2>2. a = [x EXCEPT !.receipts = z] BY <1>12, <2>1 DEF AckShape
    <2>3. a \in Amended(x, z) BY <2>2 DEF Amended
    <2> QED BY <1>12, <2>3, HistoryAcks
  <1>13. AckShape(aa) /\ AckShape(al) /\ al.failed = life.failed BY <1>3, <1>4, <1>6, <1>7, <1>12
  <1>14. Settles(o, disk, mem, acked', now) BY <1>1, <1>2, <1>9, ReceiptSettles
  <1> QED BY <1>2, <1>8, <1>11, <1>13, <1>14, SettledKeeps

\* prune_expired.
LEMMA PruneKeepsDur ==
    ASSUME DurInv, PruneExpired PROVE DurInv'
  <1>1. PICK h : h = Asked(acked, {}) OBVIOUS
  <1>2. Usable /\ Begins(disk, mem, acked, now) BY UsableBegins DEF PruneExpired
  <1>3. AckShape(acked) /\ AckShape(life) BY DEF DurInv
  <1>4. PICK f : f = Failing(h, {}) OBVIOUS
  <1>5. AckShape(h)
    <2>1. Tells(h, acked.commits, acked.published \cup {}, acked.revoked, acked.receipts, acked.unsettled)
      BY <1>1, <1>3, <1>4, HistoryEnds
    <2> QED BY <2>1 DEF Tells
  <1>6. AcksNoLess(acked, h) /\ AcksNoLess(acked, f) BY <1>1, <1>3, <1>4, HistoryEnds
  <1>7. PICK o \in PruneOutcomes(disk, mem, now) : Ends(o, {}, LAMBDA x : x) BY DEF PruneExpired
  <1>8. disk' = o.disk /\ mem' = o.mem /\ now' = now BY <1>7 DEF Ends
  <1>9. acked' = AfterEnd(o.res, h, h, Failing(h, {}))
    BY <1>1, <1>7, Zenon DEF Ends, AfterEnd, Asked, Failing
  <1>10. life' = AfterEnd(o.res, life, NoAcks, [life EXCEPT !.failed = TRUE])
    BY <1>7, Zenon DEF Ends, AfterEnd
  <1>11. Told(o.res, {}, acked, h, acked', life, life, life') BY <1>1, <1>9, <1>10 DEF Told
  <1>12. AcksNoLess(acked, acked') BY <1>4, <1>6, <1>9 DEF AfterEnd
  <1>13. Settles(o, disk, mem, acked', now) BY <1>2, <1>12, PruneSettles
  <1> QED BY <1>2, <1>3, <1>5, <1>8, <1>11, <1>13, SettledKeeps

\* Every step keeps the file and the caches in step.
LEMMA DurStepKeeps == DurInv /\ [Next]_vars => DurInv'
  <1> SUFFICES ASSUME DurInv, [Next]_vars PROVE DurInv' OBVIOUS
  <1>1. CASE UNCHANGED vars BY <1>1 DEF DurInv, vars
  <1>2. CASE Open \/ Recover \/ Stop \/ Tick BY <1>2, OthersKeepDur
  <1>3. ASSUME NEW g \in GrantIds, NEW exp \in Expiries, CommitConsumed(g, exp) PROVE DurInv'
    BY <1>3, CommitKeepsDur
  <1>4. ASSUME NEW g \in GrantIds, MarkPublished(g) \/ RecordFirstReceipt(g) PROVE DurInv'
    BY <1>4, PublishKeepsDur, ReceiptKeepsDur
  <1>5. ASSUME NEW s \in Signers, CommitRevocation(s, MaxTime) PROVE DurInv'
    BY <1>5, RevokeKeepsDur
  <1>6. CASE PruneExpired BY <1>6, PruneKeepsDur
  <1> QED BY <1>1, <1>2, <1>3, <1>4, <1>5, <1>6 DEF Next

\* For any grants, signers, lengths of their fields, cache size, clock and file length.
THEOREM DurInvariant == Spec => []DurInv
  <1> QED BY DurStarts, DurStepKeeps, PTL DEF Spec

\* T2.
THEOREM LedgerRestartExact == Spec => []RestartExact
  <1>1. DurInv => RestartExact
    BY DEF DurInv, RestartExact, OnDiskOk, FileOk, Exact, OnDisk
  <1> QED BY <1>1, DurInvariant, PTL

\* T1, T4, T10.
THEOREM LedgerAckedDurable == Spec => []AckedDurable
  <1>1. DurInv => AckedDurable
    <2> SUFFICES ASSUME DurInv, ~disk.spoiled PROVE AckedDurable BY DEF AckedDurable
    <2>1. DiskHolds(OnDisk, acked, now) BY DEF DurInv, OnDiskOk, OnDisk, Replay
    <2> QED BY <2>1 DEF DiskHolds, AckedDurable
  <1> QED BY <1>1, DurInvariant, PTL

-----------------------------------------------------------------------------
(* Orphans.                                                                *)

\* The orphans among the first N of a commit order, N by N.
Picked(order, S, N, l) ==
    l = [n \in 0 .. N |-> IF n = 0 THEN <<>>
                          ELSE IF order[n] \in S THEN Append(l[n - 1], order[n]) ELSE l[n - 1]]

\* There is such a list.
LEMMA PickedExists ==
  ASSUME NEW order, NEW S, NEW N \in Nat
  PROVE  \E l : Picked(order, S, N, l)
  <1> DEFINE T == {n \in Nat : ~ \E l : Picked(order, S, n, l)}
  <1> SUFFICES ASSUME T # {} PROVE FALSE OBVIOUS
  <1>1. PICK m \in T : \A k \in T : m <= k
    <2>1. T \in SUBSET Nat OBVIOUS
    <2> QED BY <2>1, LeastNatural
  <1>2. CASE m = 0
    <2> DEFINE l == [n \in 0 .. 0 |-> <<>>]
    <2>1. \A n \in 0 .. 0 : n = 0 OBVIOUS
    <2>2. l = [n \in 0 .. 0 |-> IF n = 0 THEN <<>>
                 ELSE IF order[n] \in S THEN Append(l[n - 1], order[n]) ELSE l[n - 1]]
      BY <2>1
    <2>3. Picked(order, S, 0, l) BY <2>2, Zenon DEF Picked
    <2> QED BY <1>1, <1>2, <2>3
  <1>3. CASE m # 0
    <2>1. m - 1 \in Nat /\ m \in Nat /\ ~(m <= m - 1) BY <1>1, <1>3
    <2>2. PICK q : Picked(order, S, m - 1, q) BY <1>1, <2>1
    <2> DEFINE v(f, n) == IF n = 0 THEN <<>>
                          ELSE IF order[n] \in S THEN Append(f[n - 1], order[n]) ELSE f[n - 1]
               l == [n \in 0 .. m |-> v(q, n)]
    <2>3. \A n \in 0 .. m - 1 : n \in 0 .. m /\ l[n] = q[n]
      <3> SUFFICES ASSUME NEW n \in 0 .. m - 1 PROVE n \in 0 .. m /\ l[n] = q[n] OBVIOUS
      <3>1. n \in 0 .. m BY <2>1
      <3> QED BY <2>2, <3>1, Zenon DEF Picked
    <2>4. \A n \in 0 .. m : n # 0 => n - 1 \in 0 .. m - 1 BY <2>1
    <2>5. \A n \in 0 .. m : l[n] = v(l, n)
      <3> SUFFICES ASSUME NEW n \in 0 .. m PROVE l[n] = v(l, n) OBVIOUS
      <3>1. l[n] = v(q, n) BY Zenon
      <3> HIDE DEF l
      <3>2. CASE n = 0 BY <3>1, <3>2
      <3>3. CASE n # 0
        <4>1. l[n - 1] = q[n - 1] BY <2>3, <2>4, <3>3
        <4> QED BY <3>1, <4>1
      <3> QED BY <3>2, <3>3
    <2>6. l = [n \in 0 .. m |-> l[n]] OBVIOUS
    <2> HIDE DEF l
    <2>7. Picked(order, S, m, l) BY <2>5, <2>6, Zenon DEF Picked
    <2> QED BY <1>1, <2>7
  <1> QED BY <1>2, <1>3

\* The orphans in l are some of S, in the order, each once.
Picks(order, S, n, l) ==
    IsSeq(l) /\ IsInjective(l) /\ ToSet(l) \subseteq S /\ ToSet(l) \subseteq {order[i] : i \in 1 .. n}

\* One more grant of the order.
LEMMA PicksNext ==
  ASSUME NEW order, IsInjective(order), NEW S, NEW n \in Nat \ {0}, 1 .. n \subseteq DOMAIN order,
         NEW l, Picks(order, S, n - 1, l), NEW k,
         k = IF order[n] \in S THEN Append(l, order[n]) ELSE l
  PROVE  Picks(order, S, n, k)
  <1>1. \A i \in 1 .. n - 1 : i \in 1 .. n /\ i # n OBVIOUS
  <1>2. {order[i] : i \in 1 .. n - 1} \subseteq {order[i] : i \in 1 .. n} BY <1>1
  <1>3. IsSeq(l) /\ IsInjective(l) /\ ToSet(l) \subseteq S /\ ToSet(l) \subseteq {order[i] : i \in 1 .. n - 1}
    BY DEF Picks
  <1>4. CASE order[n] \notin S BY <1>2, <1>3, <1>4 DEF Picks
  <1>5. CASE order[n] \in S
    <2>1. order[n] \notin ToSet(l)
      <3>1. ASSUME NEW i \in 1 .. n - 1, order[i] = order[n] PROVE FALSE
        <4>1. i \in DOMAIN order /\ n \in DOMAIN order /\ i # n BY <1>1
        <4> QED BY <3>1, <4>1 DEF IsInjective
      <3> QED BY <1>3, <3>1
    <2>2. /\ IsSeq(Append(l, order[n])) /\ IsInjective(Append(l, order[n]))
          /\ ToSet(Append(l, order[n])) = ToSet(l) \cup {order[n]}
      BY <1>3, <2>1, OrderAppends
    <2>3. order[n] \in {order[i] : i \in 1 .. n} OBVIOUS
    <2>4. k = Append(l, order[n]) BY <1>5
    <2> QED BY <1>2, <1>3, <1>5, <2>2, <2>3, <2>4 DEF Picks
  <1> QED BY <1>4, <1>5

\* recover() reports committed grants only, none twice.
LEMMA OrphansFound ==
  ASSUME NEW c, IsSeq(c.order), IsInjective(c.order)
  PROVE  IsInjective(Orphans(c)) /\ ToSet(Orphans(c)) \subseteq DOMAIN c.consumed
  <1>1. PICK N : N = Len(c.order) OBVIOUS
  <1>2. N \in Nat /\ DOMAIN c.order = 1 .. N BY <1>1 DEF IsSeq
  <1>3. PICK order : order = c.order OBVIOUS
  <1>4. PICK S : S = DOMAIN c.consumed OBVIOUS
  <1>5. Orphans(c) = (CHOOSE l : Picked(order, S, N, l))[N]
    BY <1>1, <1>3, <1>4, Zenon DEF Orphans, Picked
  <1>6. PICK l : l = CHOOSE q : Picked(order, S, N, q) OBVIOUS
  <1>7. Picked(order, S, N, l) BY <1>2, <1>6, PickedExists
  <1>8. l[0] = <<>>
    <2>1. 0 \in 0 .. N BY <1>2
    <2> QED BY <1>7, <2>1, Zenon DEF Picked
  <1>9. ASSUME NEW n \in 1 .. N PROVE l[n] = IF order[n] \in S THEN Append(l[n - 1], order[n]) ELSE l[n - 1]
    <2>1. n \in 0 .. N /\ n # 0 BY <1>2
    <2> QED BY <1>7, <2>1, Zenon DEF Picked
  <1> DEFINE T == {n \in 0 .. N : ~Picks(order, S, n, l[n])}
  <1>10. T = {}
    <2> SUFFICES ASSUME T # {} PROVE FALSE OBVIOUS
    <2>1. PICK n \in T : \A k \in T : n <= k
      <3>1. T \in SUBSET Nat BY <1>2
      <3> QED BY <3>1, LeastNatural
    <2>2. CASE n = 0
      <3>1. <<>> \in Seq({}) /\ DOMAIN <<>> = {} OBVIOUS
      <3>2. IsSeq(<<>>) BY <3>1 DEF IsSeq
      <3>3. ToSet(<<>>) = {} /\ IsInjective(<<>>) BY <3>1 DEF ToSet, IsInjective
      <3>4. Picks(order, S, 0, <<>>) BY <3>2, <3>3 DEF Picks
      <3> QED BY <1>8, <2>1, <2>2, <3>4
    <2>3. CASE n # 0
      <3>1. n \in 1 .. N /\ n - 1 \in 0 .. N /\ ~(n <= n - 1) /\ n \in Nat \ {0} /\ 1 .. n \subseteq 1 .. N
        BY <1>2, <2>1, <2>3
      <3>2. Picks(order, S, n - 1, l[n - 1]) BY <2>1, <3>1
      <3>3. l[n] = IF order[n] \in S THEN Append(l[n - 1], order[n]) ELSE l[n - 1] BY <1>9, <3>1
      <3>4. IsInjective(order) /\ 1 .. n \subseteq DOMAIN order BY <1>2, <1>3, <3>1
      <3>5. PICK k : k = l[n] OBVIOUS
      <3>6. PICK p : p = l[n - 1] OBVIOUS
      <3>7. Picks(order, S, n, k) BY <3>1, <3>2, <3>3, <3>4, <3>5, <3>6, PicksNext
      <3> QED BY <2>1, <3>5, <3>7
    <2> QED BY <2>2, <2>3
  <1>11. Picks(order, S, N, l[N])
    <2>1. N \in 0 .. N BY <1>2
    <2> QED BY <1>10, <2>1
  <1> QED BY <1>4, <1>5, <1>6, <1>11 DEF Picks

\* What OrphansExact asks of the file, in terms of the caches.
LEMMA DurOrphans ==
  ASSUME DurInv, ~disk.spoiled
  PROVE  /\ IsInjective(Orphans(OnDisk))
         /\ mem.phase = "down" => mem = Down
         /\ mem.c.published \cap ToSet(Orphans(OnDisk)) \subseteq acked.unsettled
  <1>1. OnDiskOk(disk.file, acked, now) BY DEF DurInv
  <1>2. GoodCaches(OnDisk) BY <1>1 DEF OnDiskOk, FileOk, OnDisk, Replay
  <1>3. PICK R : R = OnDisk OBVIOUS
  <1>4. IsSeq(R.order) /\ IsInjective(R.order) BY <1>2, <1>3 DEF GoodCaches, OrderOk
  <1>5. IsInjective(Orphans(R)) /\ ToSet(Orphans(R)) \subseteq DOMAIN R.consumed BY <1>4, OrphansFound
  <1>6. mem.phase = "down" => mem = Down BY DEF DurInv
  <1>7. NewCaches.published = {} BY DEF NewCaches
  <1>8. CASE mem.phase = "down" \/ Blank(mem)
    <2>1. mem.c = NewCaches BY <1>6, <1>8 DEF Blank, Down
    <2> QED BY <1>3, <1>5, <1>6, <1>7, <2>1
  <1>9. CASE ~(mem.phase = "down" \/ Blank(mem))
    <2>1. Synced(R, mem.c, acked, now)
      BY <1>3, <1>9 DEF DurInv, InMemOk, OnDisk, Replay
    <2>2. \A g \in mem.c.published \ acked.unsettled : g \notin DOMAIN R.consumed BY <2>1 DEF Synced
    <2> QED BY <1>3, <1>5, <1>6, <2>2
  <1> QED BY <1>8, <1>9

-----------------------------------------------------------------------------
(* The caches of the ledger between two rebuilds.                          *)

\* c1 has everything of c but commits that have expired by t or are published.
Keeps(c, c1, t) ==
    /\ CachesShape(c1)
    /\ \A g \in DOMAIN c.consumed :
         \/ g \in DOMAIN c1.consumed /\ c1.consumed[g] = c.consumed[g]
         \/ g \in c1.published
         \/ c.consumed[g] <= t
    /\ c.published \subseteq c1.published
    /\ DOMAIN c.revoked \subseteq DOMAIN c1.revoked
    /\ \A g \in DOMAIN c.receipts : g \in DOMAIN c1.receipts /\ c1.receipts[g] = c.receipts[g]

\* What history h acknowledges is in the caches c, with the expiry acknowledged, or was
\* published, or had expired by some time up to t.
Acknowledges(h, c, t) ==
    /\ \A g \in DOMAIN h.commits :
         \/ g \in DOMAIN c.consumed /\ c.consumed[g] = h.commits[g]
         \/ g \in c.published
         \/ \E u \in 0 .. t : h.commits[g] <= u
    /\ h.published \subseteq c.published
    /\ h.revoked \subseteq DOMAIN c.revoked
    /\ \A g \in DOMAIN h.receipts : g \in DOMAIN c.receipts /\ c.receipts[g] = h.receipts[g]

LifeInv == Acknowledges(life, mem.c, now)

\* An outcome that is not the end of the process: its memory is whole and keeps
\* what the caches had.
Survives(o, m, t) == MemShape(o.mem) /\ Keeps(m.c, o.mem.c, t)

\* Keeping the caches keeps them.
LEMMA KeepsReflexive ==
    ASSUME NEW c, NEW t, CachesShape(c) PROVE Keeps(c, c, t)
  BY DEF Keeps

\* What two operations keep one after the other, they keep together.
LEMMA KeepsTransitive ==
    ASSUME NEW a, NEW b, NEW c, NEW t, Keeps(a, b, t), Keeps(b, c, t) PROVE Keeps(a, c, t)
  <1>1. \A g \in DOMAIN a.consumed :
          \/ g \in DOMAIN c.consumed /\ c.consumed[g] = a.consumed[g]
          \/ g \in c.published
          \/ a.consumed[g] <= t
    BY DEF Keeps
  <1> QED BY <1>1 DEF Keeps

\* append keeps the caches as they are, whatever it leaves on disk.
LEMMA AppendKeepsCaches ==
    ASSUME NEW d, NEW m, NEW rec, MemShape(m), NEW o \in AppendOutcomes(d, m, rec)
    PROVE  /\ o = [res |-> o.res, disk |-> o.disk, mem |-> o.mem]
           /\ o.res \in {"Ok", "DiskError", "crash"}
           /\ o.res = "crash" => o.mem = Down
           /\ o.res # "crash" => MemShape(o.mem) /\ o.mem.c = m.c
  <1>1. \/ o = Outcome("DiskError", d, m)
        \/ \E f : o = Outcome("Ok", f, [m EXCEPT !.pos = @ + Len(Bytes(rec))])
        \/ \E f : o = Outcome("crash", f, Down)
        \/ \E f, k : o = Outcome("DiskError", f, [m EXCEPT !.pos = @ + k])
    BY DEF AppendOutcomes
  <1>2. \A x : [m EXCEPT !.pos = x].c = m.c /\ MemShape([m EXCEPT !.pos = x])
    BY DEF MemShape
  <1>3. \A r, f, x : /\ Outcome(r, f, x) = [res |-> r, disk |-> f, mem |-> x]
                     /\ Outcome(r, f, x).res = r /\ Outcome(r, f, x).disk = f
                     /\ Outcome(r, f, x).mem = x
    BY DEF Outcome
  <1>4. CASE o = Outcome("DiskError", d, m)
    BY <1>3, <1>4
  <1>5. CASE \E f : o = Outcome("Ok", f, [m EXCEPT !.pos = @ + Len(Bytes(rec))])
    <2>1. PICK f : o = Outcome("Ok", f, [m EXCEPT !.pos = m.pos + Len(Bytes(rec))])
      BY <1>5
    <2> QED BY <1>2, <1>3, <2>1
  <1>6. CASE \E f : o = Outcome("crash", f, Down)
    BY <1>3, <1>6
  <1>7. CASE \E f, k : o = Outcome("DiskError", f, [m EXCEPT !.pos = @ + k])
    <2>1. PICK f, k : o = Outcome("DiskError", f, [m EXCEPT !.pos = m.pos + k])
      BY <1>7
    <2> QED BY <1>2, <1>3, <2>1
  <1> QED BY <1>1, <1>4, <1>5, <1>6, <1>7

\* A mutator that appends and then applies its record either leaves the caches alone or
\* has the ones it was to have.
LEMMA AppendThenKeeps ==
    ASSUME NEW d, NEW m, NEW rec, NEW c, NEW t, MemShape(m), Keeps(m.c, c, t),
           NEW o \in AppendThen(d, m, rec, c)
    PROVE  /\ o.res \in {"Ok", "DiskError", "crash"}
           /\ o.res = "crash" => o.mem = Down
           /\ o.res # "crash" => Survives(o, m, t)
           /\ o.res = "Ok" => o.mem.c = c
  <1>1. PICK a \in AppendOutcomes(d, m, rec) : o = IF a.res = "Ok" THEN [a EXCEPT !.mem.c = c] ELSE a
    BY DEF AppendThen
  <1>2. /\ a = [res |-> a.res, disk |-> a.disk, mem |-> a.mem]
        /\ a.res \in {"Ok", "DiskError", "crash"}
        /\ a.res = "crash" => a.mem = Down
        /\ a.res # "crash" => MemShape(a.mem) /\ a.mem.c = m.c
    BY AppendKeepsCaches
  <1>3. CASE a.res = "Ok"
    <2>1. o.res = "Ok" /\ o.mem = [a.mem EXCEPT !.c = c]
      BY <1>1, <1>2, <1>3
    <2>2. MemShape(o.mem) /\ o.mem.c = c
      BY <2>1, <1>2, <1>3 DEF MemShape, Keeps
    <2> QED BY <2>1, <2>2 DEF Survives
  <1>4. CASE a.res # "Ok"
    <2>1. Keeps(m.c, m.c, t) BY KeepsReflexive DEF MemShape
    <2> QED BY <1>1, <1>2, <1>4, <2>1 DEF Survives
  <1> QED BY <1>3, <1>4

SetCaches(m, c) == [m EXCEPT !.c = c]

\* What the memory is after its caches are replaced, or its handle.
LEMMA MemExcept ==
    ASSUME NEW m, NEW c, MemShape(m), CachesShape(c)
    PROVE  /\ MemShape(SetCaches(m, c)) /\ SetCaches(m, c).c = c
           /\ MemShape(ShutOut(m)) /\ ShutOut(m).c = m.c
           /\ MemShape(Reopened(m)) /\ Reopened(m).c = m.c
  <1>1. PICK n : n = [m EXCEPT !.c = c] OBVIOUS
  <1>2. MemShape(n) /\ n.c = c BY <1>1, MemCached
  <1>3. SetCaches(m, c) = n BY <1>1 DEF SetCaches
  <1> QED BY <1>2, <1>3, MemReopened

\* prune_expired takes nothing but expired commits out of the caches.
LEMMA PruneCachedKeeps ==
    ASSUME NEW c, NEW t, CachesShape(c)
    PROVE  /\ Keeps(c, PruneCached(c, Expired(c, t)), t)
           /\ DOMAIN PruneCached(c, Expired(c, t)).consumed \subseteq DOMAIN c.consumed
  <1> DEFINE dead == Expired(c, t)
             p == PruneCached(c, dead)
  <1>1. /\ p = [consumed |-> Drop(c.consumed, dead), order |-> p.order,
                published |-> c.published, revoked |-> c.revoked, receipts |-> c.receipts]
    <2>1. p = SetCommits(c, Drop(c.consumed, dead), Retain(c.order, DOMAIN c.consumed \ dead))
      BY DEF PruneCached, SetCommits
    <2> HIDE DEF p, dead
    <2> QED BY <2>1, CachesExcept
  <1>2. /\ DOMAIN p.consumed = DOMAIN c.consumed \ dead
        /\ \A g \in DOMAIN c.consumed \ dead : p.consumed[g] = c.consumed[g]
    BY <1>1 DEF Drop
  <1>3. \A g \in DOMAIN c.consumed : g \in dead => c.consumed[g] <= t
    BY DEF Expired
  <1>4. /\ CachesShape(p) /\ p.published = c.published /\ p.revoked = c.revoked
        /\ p.receipts = c.receipts
    BY <1>1 DEF CachesShape
  <1> HIDE DEF p, dead
  <1>5. Keeps(c, p, t)
    BY <1>2, <1>3, <1>4 DEF Keeps
  <1> QED BY <1>2, <1>5 DEF p, dead

\* The file is rewritten, at whatever step it fails, without a change to the caches.
LEMMA RewriteKeeps ==
    ASSUME NEW d, NEW m, MemShape(m), NEW o \in RewriteOutcomes(d, m)
    PROVE  /\ o = Outcome(o.res, o.disk, o.mem)
           /\ o.res = "crash" => o.mem = Down
           /\ o.res # "crash" => MemShape(o.mem) /\ o.mem.c = m.c
  <1>1. \/ \E f : o = Outcome("Ok", f, Reopened(m))
        \/ \E f : o = Outcome("crash", f, Down)
        \/ \E f : o = Outcome("DiskError", f, m)
        \/ \E e \in {"DiskError", "Locked"} : \E f : o = Outcome(e, f, ShutOut(m))
    <2> DEFINE tmp == [d EXCEPT !.temp = TRUE]
               renamed(img) == [d EXCEPT !.file = img, !.temp = FALSE]
    <2>1. CASE o \in {Outcome("Ok", renamed(i), Reopened(m)) : i \in Images(m.c)}
      BY <2>1
    <2>2. CASE o \in {Outcome("crash", d, Down), Outcome("crash", tmp, Down)}
      BY <2>2
    <2>3. CASE o \in {Outcome("crash", renamed(i), Down) : i \in Images(m.c)}
      BY <2>3
    <2>4. CASE o \in {Outcome("DiskError", d, m), Outcome("DiskError", tmp, m)}
      BY <2>4
    <2>5. CASE o \in {Outcome("DiskError", renamed(i), ShutOut(m)) : i \in Images(m.c)}
      BY <2>5
    <2>6. CASE o \in {Outcome("Locked", renamed(i), ShutOut(m)) : i \in Images(m.c)}
      BY <2>6
    <2> QED BY <2>1, <2>2, <2>3, <2>4, <2>5, <2>6 DEF RewriteOutcomes
  <1>2. /\ MemShape(ShutOut(m)) /\ ShutOut(m).c = m.c
        /\ MemShape(Reopened(m)) /\ Reopened(m).c = m.c
    BY MemExcept DEF MemShape
  <1> QED BY <1>1, <1>2, OutcomeParts

\* prune_expired, at whatever step it fails, forgets nothing but expired commits.
LEMMA PruneKeeps ==
    ASSUME NEW d, NEW m, NEW t, MemShape(m), NEW o \in PruneOutcomes(d, m, t)
    PROVE  /\ o = Outcome(o.res, o.disk, o.mem)
           /\ o.res = "crash" => o.mem = Down
           /\ o.res # "crash" => /\ Survives(o, m, t)
                                 /\ DOMAIN o.mem.c.consumed \subseteq DOMAIN m.c.consumed
  <1> DEFINE c == PruneCached(m.c, Expired(m.c, t))
  <1>1. Keeps(m.c, c, t) /\ DOMAIN c.consumed \subseteq DOMAIN m.c.consumed /\ CachesShape(c)
    BY PruneCachedKeeps DEF MemShape, Keeps
  <1>2. Keeps(m.c, m.c, t)
    BY KeepsReflexive DEF MemShape
  <1>3. CASE Expired(m.c, t) = {}
    <2>1. o = Outcome("Ok", d, m) BY <1>3 DEF PruneOutcomes
    <2> QED BY <1>2, <2>1, OutcomeParts DEF Survives
  <1>4. CASE Expired(m.c, t) # {}
    <2>1. o \in RewriteOutcomes(d, SetCaches(m, c)) BY <1>4 DEF PruneOutcomes, SetCaches
    <2> HIDE DEF c
    <2>2. MemShape(SetCaches(m, c)) /\ SetCaches(m, c).c = c BY <1>1, MemExcept
    <2>3. /\ o = Outcome(o.res, o.disk, o.mem)
          /\ o.res = "crash" => o.mem = Down
          /\ o.res # "crash" => MemShape(o.mem) /\ o.mem.c = c
      BY <2>1, <2>2, RewriteKeeps
    <2> QED BY <1>1, <2>3 DEF Survives
  <1> QED BY <1>3, <1>4

\* commit_consumed adds its grant to the caches, after a prune when they are full.
LEMMA CommitKeeps ==
    ASSUME NEW d, NEW m, NEW g, NEW exp, NEW t, MemShape(m),
           NEW o \in CommitOutcomes(d, m, g, exp, t)
    PROVE  /\ o.res = "crash" => o.mem = Down
           /\ o.res # "crash" => Survives(o, m, t)
  <1> DEFINE write(d1, m1) == AppendThen(d1, m1, Rec("COMMIT", g, exp), CommitCached(m1.c, g, exp))
             full(x) == Cardinality(DOMAIN x.c.consumed) >= MAX_LIVE
  <1>1. ASSUME NEW d1, NEW m1, MemShape(m1), g \notin DOMAIN m1.c.consumed, NEW a \in write(d1, m1)
        PROVE  /\ a.res = "crash" => a.mem = Down
               /\ a.res # "crash" => Survives(a, m1, t)
    <2> DEFINE c == CommitCached(m1.c, g, exp)
    <2>1. c = [consumed |-> Put(m1.c.consumed, g, exp), order |-> c.order,
               published |-> m1.c.published, revoked |-> m1.c.revoked, receipts |-> m1.c.receipts]
      <3>1. c = SetOrder(m1.c, Append(m1.c.order, g), Put(m1.c.consumed, g, exp))
        BY DEF CommitCached, SetOrder
      <3> HIDE DEF c
      <3> QED BY <1>1, <3>1, CachesExcept DEF MemShape
    <2>2. \A x \in DOMAIN m1.c.consumed :
            x \in DOMAIN Put(m1.c.consumed, g, exp) /\ Put(m1.c.consumed, g, exp)[x] = m1.c.consumed[x]
      BY <1>1 DEF Put
    <2> HIDE DEF c
    <2>3. Keeps(m1.c, c, t)
      BY <2>1, <2>2 DEF Keeps, CachesShape
    <2> QED BY <1>1, <2>3, AppendThenKeeps DEF c
  <1>2. CASE g \in DOMAIN m.c.consumed \cup m.c.published
    <2>1. o = Outcome("Ok", d, m) BY <1>2 DEF CommitOutcomes
    <2> QED BY <2>1, KeepsReflexive, OutcomeParts DEF Survives, MemShape
  <1>3. CASE g \notin DOMAIN m.c.consumed \cup m.c.published /\ ~full(m)
    <2>1. o \in write(d, m) BY <1>3 DEF CommitOutcomes
    <2> QED BY <1>1, <1>3, <2>1
  <1>4. CASE g \notin DOMAIN m.c.consumed \cup m.c.published /\ full(m)
    <2>1. PICK a \in PruneOutcomes(d, m, t) :
            o \in IF a.res # "Ok" THEN {a}
                  ELSE IF full(a.mem) THEN {[a EXCEPT !.res = "ResourceExhausted"]}
                  ELSE write(a.disk, a.mem)
      BY <1>4 DEF CommitOutcomes
    <2>2. /\ a = Outcome(a.res, a.disk, a.mem)
          /\ a.res = "crash" => a.mem = Down
          /\ a.res # "crash" => /\ Survives(a, m, t)
                                /\ DOMAIN a.mem.c.consumed \subseteq DOMAIN m.c.consumed
      BY PruneKeeps
    <2>3. CASE a.res # "Ok"
      BY <2>1, <2>2, <2>3
    <2>4. CASE a.res = "Ok" /\ full(a.mem)
      <3>1. o = [a EXCEPT !.res = "ResourceExhausted"] BY <2>1, <2>4
      <3>2. o.res = "ResourceExhausted" /\ o.mem = a.mem BY <2>2, <3>1 DEF Outcome
      <3> QED BY <2>2, <2>4, <3>2 DEF Survives
    <2>5. CASE a.res = "Ok" /\ ~full(a.mem)
      <3>1. o \in write(a.disk, a.mem) BY <2>1, <2>5
      <3>2. MemShape(a.mem) /\ Keeps(m.c, a.mem.c, t) /\ g \notin DOMAIN a.mem.c.consumed
        BY <1>4, <2>2, <2>5 DEF Survives
      <3> HIDE DEF write
      <3>3. /\ o.res = "crash" => o.mem = Down
            /\ o.res # "crash" => Survives(o, a.mem, t)
        BY <1>1, <3>1, <3>2
      <3> QED BY <3>2, <3>3, KeepsTransitive DEF Survives
    <2> QED BY <2>3, <2>4, <2>5
  <1> QED BY <1>2, <1>3, <1>4

\* mark_published moves its grant from the commits to the tombstones.
LEMMA PublishKeeps ==
    ASSUME NEW d, NEW m, NEW g, NEW t, MemShape(m), NEW o \in PublishOutcomes(d, m, g)
    PROVE  /\ o.res = "crash" => o.mem = Down
           /\ o.res # "crash" => Survives(o, m, t)
           /\ o.res = "Ok" => g \in o.mem.c.published
  <1> DEFINE c == [m.c EXCEPT !.consumed = Drop(@, {g}), !.published = @ \cup {g}]
             k == [m.c EXCEPT !.consumed = Drop(m.c.consumed, {g})]
  <1>1. Keeps(m.c, m.c, t) /\ CachesShape(m.c)
    BY KeepsReflexive DEF MemShape
  <1>2. CASE g \in m.c.published
    <2>1. o = Outcome("Ok", d, m) BY <1>2 DEF PublishOutcomes
    <2> QED BY <1>1, <1>2, <2>1, OutcomeParts DEF Survives
  <1>3. CASE g \notin m.c.published
    <2>1. o \in AppendThen(d, m, Rec("PUBLISHED", g, 0), c) BY <1>3 DEF PublishOutcomes
    <2>2. k = [consumed |-> Drop(m.c.consumed, {g}), order |-> m.c.order,
               published |-> m.c.published, revoked |-> m.c.revoked, receipts |-> m.c.receipts]
      BY <1>1 DEF CachesShape
    <2>3. c = [k EXCEPT !.published = m.c.published \cup {g}]
      BY <1>1 DEF CachesShape
    <2> HIDE DEF c, k
    <2>4. /\ CachesShape(k) /\ k.consumed = Drop(m.c.consumed, {g}) /\ k.revoked = m.c.revoked
          /\ k.receipts = m.c.receipts
      BY <2>2 DEF CachesShape
    <2>5. c = [consumed |-> k.consumed, order |-> k.order, published |-> m.c.published \cup {g},
               revoked |-> k.revoked, receipts |-> k.receipts]
      BY <2>3, <2>4 DEF CachesShape
    <2>6. /\ CachesShape(c) /\ c.consumed = Drop(m.c.consumed, {g}) /\ c.revoked = m.c.revoked
          /\ c.receipts = m.c.receipts /\ c.published = m.c.published \cup {g}
      BY <2>4, <2>5 DEF CachesShape
    <2>7. Keeps(m.c, c, t)
      BY <2>6 DEF Keeps, Drop
    <2> QED BY <2>1, <2>6, <2>7, AppendThenKeeps
  <1> QED BY <1>2, <1>3

\* commit_revocation adds its key and takes nothing away.
LEMMA RevokeKeeps ==
    ASSUME NEW d, NEW m, NEW s, NEW exp, NEW t, MemShape(m), NEW o \in RevokeOutcomes(d, m, s, exp)
    PROVE  /\ o.res = "crash" => o.mem = Down
           /\ o.res # "crash" => Survives(o, m, t)
           /\ o.res = "Ok" => s \in DOMAIN o.mem.c.revoked
  <1> DEFINE c == [m.c EXCEPT !.revoked = Put(@, s, exp)]
  <1>1. Keeps(m.c, m.c, t) /\ CachesShape(m.c)
    BY KeepsReflexive DEF MemShape
  <1>2. CASE s \in DOMAIN m.c.revoked
    <2>1. o = Outcome("Ok", d, m) BY <1>2 DEF RevokeOutcomes
    <2> QED BY <1>1, <1>2, <2>1, OutcomeParts DEF Survives
  <1>3. CASE o = Outcome("ResourceExhausted", d, m)
    BY <1>1, <1>3, OutcomeParts DEF Survives
  <1>4. CASE s \notin DOMAIN m.c.revoked /\ o \in AppendThen(d, m, Rec("REVOKE", s, exp), c)
    <2>1. c = [consumed |-> m.c.consumed, order |-> m.c.order, published |-> m.c.published,
               revoked |-> Put(m.c.revoked, s, exp), receipts |-> m.c.receipts]
      BY <1>1 DEF CachesShape
    <2> HIDE DEF c
    <2>2. /\ CachesShape(c) /\ c.consumed = m.c.consumed /\ c.receipts = m.c.receipts
          /\ c.published = m.c.published /\ c.revoked = Put(m.c.revoked, s, exp)
      BY <2>1 DEF CachesShape
    <2>3. Keeps(m.c, c, t) /\ s \in DOMAIN c.revoked
      BY <2>2 DEF Keeps, Put
    <2> QED BY <1>4, <2>3, AppendThenKeeps
  <1> QED BY <1>2, <1>3, <1>4 DEF RevokeOutcomes

\* record_first_receipt adds its grant's time and changes none that is there.
LEMMA ReceiptKeeps ==
    ASSUME NEW d, NEW m, NEW g, NEW t, MemShape(m), NEW o \in ReceiptOutcomes(d, m, g, t)
    PROVE  /\ o.res = "crash" => o.mem = Down
           /\ o.res # "crash" => Survives(o, m, t)
           /\ o.res = "Ok" => g \in DOMAIN o.mem.c.receipts
  <1> DEFINE c == [m.c EXCEPT !.receipts = Put(@, g, t)]
  <1>1. Keeps(m.c, m.c, t) /\ CachesShape(m.c)
    BY KeepsReflexive DEF MemShape
  <1>2. CASE g \in DOMAIN m.c.receipts
    <2>1. o = Outcome("Ok", d, m) BY <1>2 DEF ReceiptOutcomes
    <2> QED BY <1>1, <1>2, <2>1, OutcomeParts DEF Survives
  <1>3. CASE g \notin DOMAIN m.c.receipts
    <2>1. c = [consumed |-> m.c.consumed, order |-> m.c.order, published |-> m.c.published,
               revoked |-> m.c.revoked, receipts |-> Put(m.c.receipts, g, t)]
      BY <1>1 DEF CachesShape
    <2>2. o \in AppendThen(d, m, Rec("FIRST_RECEIPT", g, t), c) BY <1>3 DEF ReceiptOutcomes
    <2> HIDE DEF c
    <2>3. /\ CachesShape(c) /\ c.consumed = m.c.consumed /\ c.revoked = m.c.revoked
          /\ c.published = m.c.published /\ c.receipts = Put(m.c.receipts, g, t)
      BY <2>1 DEF CachesShape
    <2>4. Keeps(m.c, c, t) /\ g \in DOMAIN c.receipts
      BY <1>3, <2>3 DEF Keeps, Put
    <2> QED BY <2>2, <2>4, AppendThenKeeps
  <1> QED BY <1>2, <1>3

\* What an operation keeps stays acknowledged.
LEMMA KeepsAcknowledged ==
    ASSUME NEW h, NEW c, NEW c1, NEW t \in Nat, Acknowledges(h, c, t), Keeps(c, c1, t)
    PROVE  Acknowledges(h, c1, t)
  <1>1. ASSUME NEW g \in DOMAIN h.commits
        PROVE  \/ g \in DOMAIN c1.consumed /\ c1.consumed[g] = h.commits[g]
               \/ g \in c1.published
               \/ \E u \in 0 .. t : h.commits[g] <= u
    <2>1. t \in 0 .. t OBVIOUS
    <2> QED BY <2>1 DEF Acknowledges, Keeps
  <1> QED BY <1>1 DEF Acknowledges, Keeps

\* The end of a mutator: h is the history with what its Ok acknowledges.
LEMMA EndsKeepsLife ==
    ASSUME LifeInv, AckShape(life), now \in Nat, NEW o, NEW h, mem' = o.mem, UNCHANGED now,
           o.res # "crash" => Survives(o, mem, now),
           o.res = "Ok" => Acknowledges(h, o.mem.c, now),
           life' = CASE o.res = "Ok" -> h
                     [] o.res = "crash" -> NoAcks
                     [] OTHER -> [life EXCEPT !.failed = TRUE]
    PROVE  LifeInv'
  <1>1. CASE o.res = "Ok"
    BY <1>1 DEF LifeInv
  <1>2. CASE o.res = "crash"
    <2>1. life' = NoAcks BY <1>2
    <2>2. \A c : Acknowledges(NoAcks, c, now)
      BY DEF NoAcks, EmptyMap, Acknowledges
    <2> QED BY <2>1, <2>2 DEF LifeInv
  <1>3. CASE o.res \notin {"Ok", "crash"}
    <2>1. PICK f : f = TRUE OBVIOUS
    <2>2. life' = [life EXCEPT !.failed = f] BY <1>3, <2>1
    <2>3. /\ life'.commits = life.commits /\ life'.published = life.published
          /\ life'.revoked = life.revoked /\ life'.receipts = life.receipts
      BY <2>2 DEF AckShape
    <2>4. Acknowledges(life, o.mem.c, now)
      BY <1>3, KeepsAcknowledged DEF LifeInv, Survives
    <2>5. Acknowledges(life', o.mem.c, now)
      BY <2>3, <2>4 DEF Acknowledges
    <2> QED BY <2>5 DEF LifeInv
  <1> QED BY <1>1, <1>2, <1>3

\* Every step of the ledger, its failures and its end keeps what it has acknowledged.
LEMMA LifeStepKeeps == DurInv /\ LifeInv /\ [Next]_vars => LifeInv'
  <1> SUFFICES ASSUME DurInv, LifeInv, [Next]_vars PROVE LifeInv'
    OBVIOUS
  <1>1. CASE UNCHANGED vars
    BY <1>1 DEF vars, LifeInv, Acknowledges
  <1>2. \A c, t : Acknowledges(NoAcks, c, t)
    BY DEF NoAcks, EmptyMap, Acknowledges
  <1>3. CASE Open \/ Recover \/ Stop
    <2>1. life' = NoAcks BY <1>3 DEF Open, Recover, Stop
    <2> QED BY <1>2, <2>1 DEF LifeInv
  <1>4. AckShape(life) /\ now \in Nat
    BY DEF DurInv
  <1>5. CASE Tick
    <2>1. 0 .. now \subseteq 0 .. now' BY <1>4, <1>5 DEF Tick
    <2>2. Acknowledges(life, mem.c, now') BY <2>1 DEF Acknowledges, LifeInv
    <2> QED BY <1>5, <2>2 DEF Tick, LifeInv
  <1>6. Usable => MemShape(mem)
    BY UsableBegins DEF Begins, InMemOk
  <1>7. ASSUME NEW g \in GrantIds, NEW exp \in Expiries, CommitConsumed(g, exp) PROVE LifeInv'
    <2>1. PICK o \in CommitOutcomes(disk, mem, g, exp, now) :
            Ends(o, {}, LAMBDA h : IF g \notin DOMAIN o.mem.c.consumed THEN h
                            ELSE [h EXCEPT !.commits = Put(@, g, o.mem.c.consumed[g])])
      BY <1>7 DEF CommitConsumed
    <2> DEFINE h == IF g \notin DOMAIN o.mem.c.consumed THEN life
                    ELSE [life EXCEPT !.commits = Put(life.commits, g, o.mem.c.consumed[g])]
    <2>2. /\ mem' = o.mem /\ UNCHANGED now
          /\ life' = CASE o.res = "Ok" -> h
                       [] o.res = "crash" -> NoAcks
                       [] OTHER -> [life EXCEPT !.failed = TRUE]
      BY <2>1 DEF Ends
    <2>3. o.res # "crash" => Survives(o, mem, now)
      BY <1>6, <1>7, CommitKeeps DEF CommitConsumed
    <2>4. ASSUME o.res = "Ok" PROVE Acknowledges(h, o.mem.c, now)
      <3>1. Acknowledges(life, o.mem.c, now)
        BY <1>4, <2>3, <2>4, KeepsAcknowledged DEF Survives, LifeInv
      <3>2. CASE g \notin DOMAIN o.mem.c.consumed
        BY <3>1, <3>2
      <3>3. CASE g \in DOMAIN o.mem.c.consumed
        <4>1. PICK x : x = Put(life.commits, g, o.mem.c.consumed[g]) OBVIOUS
        <4>2. h = [life EXCEPT !.commits = x] BY <3>3, <4>1
        <4> HIDE DEF h
        <4>3. /\ h.commits = x /\ h.published = life.published
              /\ h.revoked = life.revoked /\ h.receipts = life.receipts
          BY <1>4, <4>2 DEF AckShape
        <4> QED BY <3>1, <3>3, <4>1, <4>3 DEF Acknowledges, Put
      <3> QED BY <3>2, <3>3
    <2> HIDE DEF h
    <2> QED BY <1>4, <2>2, <2>3, <2>4, EndsKeepsLife
  <1>8. ASSUME NEW g \in GrantIds, MarkPublished(g) PROVE LifeInv'
    <2>1. PICK o \in PublishOutcomes(disk, mem, g) :
            Ends(o, {g}, LAMBDA h : [h EXCEPT !.published = @ \cup {g}])
      BY <1>8 DEF MarkPublished
    <2> DEFINE h == [life EXCEPT !.published = life.published \cup {g}]
    <2>2. /\ mem' = o.mem /\ UNCHANGED now
          /\ life' = CASE o.res = "Ok" -> h
                       [] o.res = "crash" -> NoAcks
                       [] OTHER -> [life EXCEPT !.failed = TRUE]
      BY <2>1 DEF Ends
    <2>3. /\ o.res # "crash" => Survives(o, mem, now)
          /\ o.res = "Ok" => g \in o.mem.c.published
      BY <1>6, <1>8, PublishKeeps DEF MarkPublished
    <2>4. ASSUME o.res = "Ok" PROVE Acknowledges(h, o.mem.c, now)
      <3>1. Acknowledges(life, o.mem.c, now)
        BY <1>4, <2>3, <2>4, KeepsAcknowledged DEF Survives, LifeInv
      <3>2. /\ h.commits = life.commits /\ h.published = life.published \cup {g}
            /\ h.revoked = life.revoked /\ h.receipts = life.receipts
        BY <1>4 DEF AckShape
      <3> QED BY <2>3, <2>4, <3>1, <3>2 DEF Acknowledges
    <2> HIDE DEF h
    <2> QED BY <1>4, <2>2, <2>3, <2>4, EndsKeepsLife
  <1>9. ASSUME NEW s \in Signers, CommitRevocation(s, MaxTime) PROVE LifeInv'
    <2>1. PICK o \in RevokeOutcomes(disk, mem, s, MaxTime) :
            Ends(o, {}, LAMBDA h : [h EXCEPT !.revoked = @ \cup {s}])
      BY <1>9 DEF CommitRevocation
    <2> DEFINE h == [life EXCEPT !.revoked = life.revoked \cup {s}]
    <2>2. /\ mem' = o.mem /\ UNCHANGED now
          /\ life' = CASE o.res = "Ok" -> h
                       [] o.res = "crash" -> NoAcks
                       [] OTHER -> [life EXCEPT !.failed = TRUE]
      BY <2>1 DEF Ends
    <2>3. /\ o.res # "crash" => Survives(o, mem, now)
          /\ o.res = "Ok" => s \in DOMAIN o.mem.c.revoked
      BY <1>6, <1>9, RevokeKeeps DEF CommitRevocation
    <2>4. ASSUME o.res = "Ok" PROVE Acknowledges(h, o.mem.c, now)
      <3>1. Acknowledges(life, o.mem.c, now)
        BY <1>4, <2>3, <2>4, KeepsAcknowledged DEF Survives, LifeInv
      <3>2. /\ h.commits = life.commits /\ h.published = life.published
            /\ h.revoked = life.revoked \cup {s} /\ h.receipts = life.receipts
        BY <1>4 DEF AckShape
      <3> QED BY <2>3, <2>4, <3>1, <3>2 DEF Acknowledges
    <2> HIDE DEF h
    <2> QED BY <1>4, <2>2, <2>3, <2>4, EndsKeepsLife
  <1>10. ASSUME NEW g \in GrantIds, RecordFirstReceipt(g) PROVE LifeInv'
    <2>1. PICK o \in ReceiptOutcomes(disk, mem, g, now) :
            Ends(o, {}, LAMBDA h : [h EXCEPT !.receipts = IF g \in DOMAIN @ THEN @
                                                   ELSE Put(@, g, o.mem.c.receipts[g])])
      BY <1>10 DEF RecordFirstReceipt
    <2> DEFINE r == IF g \in DOMAIN life.receipts THEN life.receipts
                    ELSE Put(life.receipts, g, o.mem.c.receipts[g])
               h == [life EXCEPT !.receipts = r]
    <2>2. /\ mem' = o.mem /\ UNCHANGED now
          /\ life' = CASE o.res = "Ok" -> h
                       [] o.res = "crash" -> NoAcks
                       [] OTHER -> [life EXCEPT !.failed = TRUE]
      BY <2>1 DEF Ends
    <2>3. /\ o.res # "crash" => Survives(o, mem, now)
          /\ o.res = "Ok" => g \in DOMAIN o.mem.c.receipts
      BY <1>6, <1>10, ReceiptKeeps DEF RecordFirstReceipt
    <2>4. ASSUME o.res = "Ok" PROVE Acknowledges(h, o.mem.c, now)
      <3>1. Acknowledges(life, o.mem.c, now)
        BY <1>4, <2>3, <2>4, KeepsAcknowledged DEF Survives, LifeInv
      <3>2. \A x \in DOMAIN r : x \in DOMAIN o.mem.c.receipts /\ o.mem.c.receipts[x] = r[x]
        BY <2>3, <2>4, <3>1 DEF Acknowledges, Put
      <3> HIDE DEF r
      <3>3. /\ h.commits = life.commits /\ h.published = life.published
            /\ h.revoked = life.revoked /\ h.receipts = r
        BY <1>4 DEF AckShape
      <3> QED BY <3>1, <3>2, <3>3 DEF Acknowledges
    <2> HIDE DEF h
    <2> QED BY <1>4, <2>2, <2>3, <2>4, EndsKeepsLife
  <1>11. CASE PruneExpired
    <2>1. PICK o \in PruneOutcomes(disk, mem, now) : Ends(o, {}, LAMBDA h : h)
      BY <1>11 DEF PruneExpired
    <2>2. /\ mem' = o.mem /\ UNCHANGED now
          /\ life' = CASE o.res = "Ok" -> life
                       [] o.res = "crash" -> NoAcks
                       [] OTHER -> [life EXCEPT !.failed = TRUE]
      BY <2>1 DEF Ends
    <2>3. o.res # "crash" => Survives(o, mem, now)
      BY <1>6, <1>11, PruneKeeps DEF PruneExpired
    <2>4. ASSUME o.res = "Ok" PROVE Acknowledges(life, o.mem.c, now)
      BY <1>4, <2>3, <2>4, KeepsAcknowledged DEF Survives, LifeInv
    <2> QED BY <1>4, <2>2, <2>3, <2>4, EndsKeepsLife
  <1> QED
    BY <1>1, <1>3, <1>5, <1>7, <1>8, <1>9, <1>10, <1>11 DEF Next

\* For any set of grants, expiries and signers: what the ledger has acknowledged since
\* its caches were last rebuilt is in them, was published or had expired.
THEOREM LifeInvariant == Spec => []LifeInv
  <1>1. Init => LifeInv
    BY DEF Init, LifeInv, NoAcks, EmptyMap, Acknowledges
  <1>2. Spec => []DurInv
    BY DurInvariant
  <1> QED BY <1>1, <1>2, LifeStepKeeps, PTL DEF Spec

\* The same of the property the runs check: through torn writes, failed syncs, failed
\* reopens and prunes at any step, the ledger forgets no acknowledged grant before it
\* expires, and no tombstone, revocation or first receipt time at all.
THEOREM LedgerLifeFaithful == Spec => []LifeFaithful
  <1>1. LifeInv => LifeFaithful
    BY DEF LifeInv, Acknowledges, LifeFaithful, Spent
  <1> QED BY <1>1, LifeInvariant, PTL

\* For any log and any history: recover() on a log without a misplaced record reports no
\* grant twice, and none that this process has published unless a mark_published of it
\* had failed before.
THEOREM LedgerOrphansExact == Spec => []OrphansExact
  <1>1. DurInv /\ LifeInv => OrphansExact
    <2> SUFFICES ASSUME DurInv, LifeInv, ~disk.spoiled
                 PROVE  /\ life.published \cap ToSet(Orphans(OnDisk)) \subseteq acked.unsettled
                        /\ IsInjective(Orphans(OnDisk))
      BY DEF OrphansExact
    <2>1. IsInjective(Orphans(OnDisk))
      BY DurOrphans
    <2>2. mem.c.published \cap ToSet(Orphans(OnDisk)) \subseteq acked.unsettled
      BY DurOrphans
    <2>3. life.published \subseteq mem.c.published
      BY DEF LifeInv, Acknowledges
    <2> QED BY <2>1, <2>2, <2>3
  <1> QED BY <1>1, DurInvariant, LifeInvariant, PTL
=============================================================================
