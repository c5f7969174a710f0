---------------------------- MODULE MCGrantLedger ----------------------------
(***************************************************************************)
(* What a node keeps on disk: the durable ledger, its lock, and the key    *)
(* and token files of start-up.  The three models share no variable (the   *)
(* ledger writes through the lock's one handle, the lock moves handles and *)
(* looks at no byte, start-up ends before the ledger is written), so that  *)
(* a step of one is taken with the others in their initial states and      *)
(* nothing is gained by interleaving them.                                 *)
(***************************************************************************)
EXTENDS GrantLedger, LedgerLock, NodeBoot

\* ca/ with all its labels, with one missing in between, and with a short key.
MCCaDirs == {<<KEY_LEN, KEY_LEN>>, <<KEY_LEN, 0, 1>>, <<1, KEY_LEN>>}

LedgerStep == LockInit /\ BootInit /\ Next /\ UNCHANGED <<lockVars, bootVars>>

LockStep == Init /\ BootInit /\ LockNext /\ UNCHANGED <<vars, bootVars>>

BootStep == Init /\ LockInit /\ BootNext /\ UNCHANGED <<vars, lockVars>>

AllInit == Init /\ LockInit /\ BootInit

DiskSpec ==
    AllInit /\ [][LedgerStep \/ LockStep \/ BootStep]_<<vars, lockVars, bootVars>>

\* Grant ids are interchangeable, and so are processes.
Symmetry == Permutations(GrantIds) \cup Permutations(Procs)
=============================================================================
