------------------------------ MODULE BackupJob ------------------------------
(***************************************************************************)
(* What a nandroid backup promises its caller (spec.md 1, 2 and 7), with   *)
(* no threads, archivers or key queue: a job archives the partitions it    *)
(* visits one at a time in order, and ends exactly once, in one of three   *)
(* ways the caller can tell apart:                                          *)
(*   done       every visited partition archived;                           *)
(*   failed     the archives made so far are left as they are;              *)
(*   cancelled  the backup directory is gone.                               *)
(***************************************************************************)
EXTENDS Naturals

CONSTANT Parts   \* the partitions, numbered in the order they are visited

VARIABLES
  status,  \* "running", "done", "failed" or "cancelled"
  todo,    \* the partitions this job visits
  done     \* the partitions with a complete archive in the directory

vars == <<status, todo, done>>

Outcomes == {"done", "failed", "cancelled"}

Init ==
  /\ status = "running"
  /\ todo \in SUBSET Parts
  /\ done = {}

(* The next partition in order is archived.                                *)
Archive(j) ==
  /\ status = "running"
  /\ j \in todo \ done
  /\ \A k \in todo : k < j => k \in done
  /\ done' = done \cup {j}
  /\ UNCHANGED <<status, todo>>

Succeed ==
  /\ status = "running" /\ done = todo
  /\ status' = "done"
  /\ UNCHANGED <<todo, done>>

Fail ==
  /\ status = "running"
  /\ status' = "failed"
  /\ UNCHANGED <<todo, done>>

Cancel ==
  /\ status = "running"
  /\ status' = "cancelled" /\ done' = {}
  /\ UNCHANGED todo

Next == (\E j \in Parts : Archive(j)) \/ Succeed \/ Fail \/ Cancel

(* The steps a job may take, without the promise that it ends.            *)
SafetySpec == Init /\ [][Next]_vars

(* A job never stays running: some way of ending is always enabled.        *)
Spec == Init /\ [][Next]_vars /\ WF_vars(Next)
=============================================================================
