------------------------------ MODULE WorkQueue ------------------------------
(***************************************************************************)
(* Labs/L8/lab8.c: main cancels the items of a work queue in random order, *)
(* a worker thread takes them off the queue and puts those that are not    *)
(* cancelled back.  Item i is the one malloc'd for array[i]; both threads  *)
(* read active without the lock.                                           *)
(***************************************************************************)
EXTENDS Integers, Sequences, FiniteSets

CONSTANTS MaxItems   \* most items a run may be asked for (1000 in the code)

VARIABLES
  N,          \* the items of this run
  workQ,
  array,      \* the indexes that are not NULL
  cancelled, freed, active,
  lockQ,      \* who holds the mutex
  worker, item,    \* where the worker is; what it dequeued
  main, index      \* where main is; the item it chose

Items == 1..N
wqvars == <<N, workQ, array, cancelled, freed, active, lockQ, worker, item, main, index>>
workervars == <<worker, item>>
mainvars == <<main, index>>

\* main up to pthread_create: N from the command line, one item each.  With no
\* item, or a negative number, both loops are skipped.
WQInit ==
  /\ N \in 0..MaxItems
  /\ workQ = [i \in 1..N |-> i] /\ array = 1..N /\ active = N
  /\ cancelled = {} /\ freed = {} /\ lockQ = "nobody"
  /\ worker = "test" /\ item = 0 /\ main = "test" /\ index = 0

WorkerTest ==
  /\ worker = "test"
  /\ worker' = IF active > 0 THEN "lock" ELSE "done"
  /\ UNCHANGED <<N, workQ, array, cancelled, freed, active, lockQ, item, mainvars>>
WorkerLock ==
  /\ worker = "lock" /\ lockQ = "nobody" /\ lockQ' = "worker" /\ worker' = "dequeue"
  /\ UNCHANGED <<N, workQ, array, cancelled, freed, active, item, mainvars>>
Dequeue ==
  /\ worker = "dequeue"
  /\ IF workQ = <<>>
     THEN worker' = "unlock" /\ UNCHANGED <<workQ, item>>
     ELSE worker' = "item" /\ item' = Head(workQ) /\ workQ' = Tail(workQ)
  /\ UNCHANGED <<N, array, cancelled, freed, active, lockQ, mainvars>>
(* Mutant: a processed item is not put back. *)
ProcessDropped ==
  /\ worker = "item" /\ worker' = "unlock"
  /\ IF item \in cancelled
     THEN freed' = freed \union {item} /\ active' = active - 1 /\ UNCHANGED workQ
     ELSE UNCHANGED <<freed, active, workQ>>
  /\ UNCHANGED <<N, array, cancelled, lockQ, item, mainvars>>
\* A cancelled item is freed, another goes back to the end of the queue.
Process ==
  /\ worker = "item" /\ worker' = "unlock"
  /\ IF item \in cancelled
     THEN freed' = freed \union {item} /\ active' = active - 1 /\ UNCHANGED workQ
     ELSE workQ' = Append(workQ, item) /\ UNCHANGED <<freed, active>>
  /\ UNCHANGED <<N, array, cancelled, lockQ, item, mainvars>>
WorkerUnlock ==
  /\ worker = "unlock" /\ lockQ' = "nobody" /\ worker' = "test"
  /\ UNCHANGED <<N, workQ, array, cancelled, freed, active, item, mainvars>>

\* random() % N, chosen before the sleep and the lock.
Pick(i) ==
  /\ main = "test" /\ active > 0 /\ i \in Items
  /\ index' = i /\ main' = "lock"
  /\ UNCHANGED <<N, workQ, array, cancelled, freed, active, lockQ, workervars>>
Leave ==
  /\ main = "test" /\ active <= 0 /\ main' = "join"
  /\ UNCHANGED <<N, workQ, array, cancelled, freed, active, lockQ, workervars, index>>
(* Mutant: main does not take the lock. *)
MainLockForgotten ==
  /\ main = "lock" /\ main' = "cancel"
  /\ UNCHANGED <<N, workQ, array, cancelled, freed, active, lockQ, workervars, index>>
MainLock ==
  /\ main = "lock" /\ lockQ = "nobody" /\ lockQ' = "main" /\ main' = "cancel"
  /\ UNCHANGED <<N, workQ, array, cancelled, freed, active, workervars, index>>
Cancel ==
  /\ main = "cancel"
  /\ IF index \in array
     THEN cancelled' = cancelled \union {index} /\ main' = "clear"
     ELSE main' = "unlock" /\ UNCHANGED cancelled
  /\ UNCHANGED <<N, workQ, array, freed, active, lockQ, workervars, index>>
Clear ==
  /\ main = "clear" /\ array' = array \ {index} /\ main' = "unlock"
  /\ UNCHANGED <<N, workQ, cancelled, freed, active, lockQ, workervars, index>>
MainUnlock ==
  /\ main = "unlock" /\ lockQ' = "nobody" /\ main' = "test"
  /\ UNCHANGED <<N, workQ, array, cancelled, freed, active, workervars, index>>
Join ==
  /\ main = "join" /\ worker = "done" /\ main' = "ended"
  /\ UNCHANGED <<N, workQ, array, cancelled, freed, active, lockQ, workervars, index>>

Worker == WorkerTest \/ WorkerLock \/ Dequeue \/ Process \/ WorkerUnlock
Main == (\E i \in Items : Pick(i)) \/ Leave \/ MainLock \/ Cancel \/ Clear \/ MainUnlock \/ Join
WQOver == main = "ended" /\ UNCHANGED wqvars

WQNext == Worker \/ Main \/ WQOver

WQSpec == WQInit /\ [][WQNext]_wqvars

-----------------------------------------------------------------------------
(* What the program must get right. *)

\* array[i] is the only way main reaches an item: while it is there the item has
\* not been freed, and what has been freed is off the queue.
NoDangling == array \cap freed = {} /\ {workQ[i] : i \in DOMAIN workQ} \cap freed = {}

Finished == main = "ended" /\ freed = Items
=============================================================================
