------------------------------ MODULE LabProofs ------------------------------
(***************************************************************************)
(* Small programs of the labs, for any number of items, children, threads  *)
(* and tickets.                                                            *)
(*                                                                         *)
(* lab8.c's main never reaches an item the worker has freed, and both      *)
(* threads leave their loops only when all are freed, although they read   *)
(* active without the lock.  chldhandler.c's main does not end before its  *)
(* children, although its increments and the handler's decrements of       *)
(* nprocesses overlap.  freelist.c and boundedfreelist.c conserve their    *)
(* tickets and are the pool of TicketPool; the count of the second is the  *)
(* length of its list.                                                     *)
(***************************************************************************)
EXTENDS BoundedFreeList, WorkQueue, ChildHandler, FiniteSetTheorems, SequenceTheorems, TLAPS

-----------------------------------------------------------------------------
(* The inductive invariant. *)

QueueTypes ==
  /\ N \in Nat /\ workQ \in Seq(Items)
  /\ array \subseteq Items /\ cancelled \subseteq Items /\ freed \subseteq Items
  /\ active \in Int
  /\ lockQ \in {"nobody", "worker", "main"}
  /\ worker \in {"test", "lock", "dequeue", "item", "unlock", "done"}
  /\ main \in {"test", "lock", "cancel", "clear", "unlock", "join", "ended"}
  /\ (worker = "item" => item \in Items)
  /\ (main \in {"lock", "cancel", "clear"} => index \in Items)

\* A thread in its critical section has the mutex.
QueueLock ==
  /\ worker \in {"dequeue", "item", "unlock"} => lockQ = "worker"
  /\ main \in {"cancel", "clear", "unlock"} => lockQ = "main"

Queued == {workQ[i] : i \in 1..Len(workQ)}
InHand == IF worker = "item" THEN {item} ELSE {}

\* An item is on the queue once, with the worker, or freed.
ItemsPlaced ==
  /\ \A i, j \in 1..Len(workQ) : workQ[i] = workQ[j] => i = j
  /\ Queued \cap InHand = {} /\ Queued \cap freed = {} /\ InHand \cap freed = {}
  /\ Queued \union InHand \union freed = Items

\* Only a cancelled item is freed, and main has cleared the slot of a cancelled
\* item by the time it gives up the mutex.
FreedCancelled ==
  /\ freed \subseteq cancelled
  /\ \A i \in array \cap cancelled : main = "clear" /\ i = index
  /\ main = "clear" => index \notin freed

\* The unlocked tests of active: it counts the items that are left.
ActiveCounts ==
  /\ active = N - Cardinality(freed)
  /\ worker = "done" \/ main \in {"join", "ended"} => freed = Items

QueueInv == QueueTypes /\ QueueLock /\ ItemsPlaced /\ FreedCancelled /\ ActiveCounts

-----------------------------------------------------------------------------

LEMMA ItemsFinite ==
  ASSUME N \in Nat
  PROVE  IsFiniteSet(Items) /\ Cardinality(Items) = N
BY FS_Interval DEF Items

LEMMA AllFreed ==
  ASSUME QueueTypes, ActiveCounts, active <= 0
  PROVE  freed = Items
<1>1. IsFiniteSet(Items) /\ Cardinality(Items) = N /\ freed \subseteq Items /\ N \in Nat
  BY ItemsFinite DEF QueueTypes
<1>2. Cardinality(freed) \in Nat /\ Cardinality(freed) >= Cardinality(Items)
  BY <1>1, FS_Subset, FS_CardinalityType DEF ActiveCounts
<1> QED BY <1>1, <1>2, FS_Subset

LEMMA WQInitInv == ASSUME MaxItems \in Nat, WQInit PROVE QueueInv
<1>1. N \in Nat /\ Items = 1..N
  BY DEF WQInit, Items
<1>2. workQ \in Seq(Items) /\ Len(workQ) = N /\ \A i \in 1..N : workQ[i] = i
  BY <1>1 DEF WQInit
<1>3. QueueTypes
  BY <1>1, <1>2 DEF WQInit, QueueTypes
<1>4. Queued = Items
  BY <1>1, <1>2 DEF Queued
<1>5. ItemsPlaced
  BY <1>1, <1>2, <1>4 DEF WQInit, ItemsPlaced, InHand
<1>6. ActiveCounts
  BY <1>1, FS_EmptySet DEF WQInit, ActiveCounts
<1> QED BY <1>3, <1>5, <1>6 DEF WQInit, QueueInv, QueueLock, FreedCancelled

LEMMA StepKeepsType == ASSUME QueueInv, [WQNext]_wqvars PROVE QueueTypes'
<1> USE DEF QueueInv, QueueTypes, workervars, mainvars
<1>1. Items' = Items /\ N' = N
  BY DEF Items, WQNext, Worker, Main, WQOver, WorkerTest, WorkerLock, Dequeue, Process, WorkerUnlock,
         Pick, Leave, MainLock, Cancel, Clear, MainUnlock, Join, wqvars
<1>2. CASE Dequeue
  <2>1. CASE workQ = <<>>
    BY <1>1, <1>2, <2>1 DEF Dequeue
  <2>2. CASE workQ # <<>>
    <3>1. Tail(workQ) \in Seq(Items) /\ Head(workQ) \in Items
      BY <2>2, HeadTailProperties
    <3> QED BY <1>1, <1>2, <2>2, <3>1 DEF Dequeue
  <2> QED BY <2>1, <2>2
<1>3. CASE Process
  <2>1. CASE item \in cancelled
    BY <1>1, <1>3, <2>1 DEF Process
  <2>2. CASE item \notin cancelled
    <3>1. Append(workQ, item) \in Seq(Items)
      BY <1>3, AppendProperties DEF Process
    <3> QED BY <1>1, <1>3, <2>2, <3>1 DEF Process
  <2> QED BY <2>1, <2>2
<1>4. CASE WorkerTest \/ WorkerLock \/ WorkerUnlock
  BY <1>1, <1>4 DEF WorkerTest, WorkerLock, WorkerUnlock
<1>5. CASE \E i \in Items : Pick(i)
  BY <1>1, <1>5 DEF Pick
<1>7. CASE Leave \/ MainLock \/ MainUnlock \/ Join
  BY <1>1, <1>7 DEF Leave, MainLock, MainUnlock, Join
<1>9. CASE Clear
  BY <1>1, <1>9 DEF Clear
<1>8. CASE Cancel
  BY <1>1, <1>8 DEF Cancel
<1>6. CASE UNCHANGED wqvars
  BY <1>1, <1>6 DEF wqvars
<1> QED BY <1>2, <1>3, <1>4, <1>5, <1>6, <1>7, <1>8, <1>9 DEF WQNext, Worker, Main, WQOver

LEMMA StepKeepsLock == ASSUME QueueInv, [WQNext]_wqvars PROVE QueueLock'
BY DEF QueueInv, QueueTypes, QueueLock, WQNext, Worker, Main, WQOver, WorkerTest, WorkerLock, Dequeue, Process,
       WorkerUnlock, Pick, Leave, MainLock, Cancel, Clear, MainUnlock, Join, wqvars, workervars, mainvars

\* A step that leaves the queue, the freed items and the worker's item alone.
LEMMA PlacedKept ==
  ASSUME ItemsPlaced, UNCHANGED <<N, workQ, freed>>, InHand' = InHand
  PROVE  ItemsPlaced'
BY DEF ItemsPlaced, Queued, Items

LEMMA DequeuePlaced == ASSUME QueueInv, Dequeue PROVE ItemsPlaced'
<1> USE DEF QueueInv, QueueTypes
<1>1. CASE workQ = <<>>
  BY <1>1, PlacedKept DEF Dequeue, InHand
<1>2. CASE workQ # <<>>
  <2> DEFINE n == Len(workQ)
  <2>1. /\ worker = "dequeue" /\ worker' = "item" /\ item' = Head(workQ) /\ workQ' = Tail(workQ)
        /\ UNCHANGED <<N, freed>>
    BY <1>2 DEF Dequeue
  <2>2. /\ n \in Nat /\ n >= 1 /\ item' = workQ[1] /\ Len(workQ') = n - 1
        /\ \A i \in 1..n - 1 : workQ'[i] = workQ[i + 1]
    BY <1>2, <2>1, HeadTailProperties
  <2>3. \A i \in 1..n - 1 : i + 1 \in 1..n /\ i + 1 # 1
    BY <2>2
  <2>4. \A i, j \in 1..n : workQ[i] = workQ[j] => i = j
    BY DEF ItemsPlaced
  <2>5. 1 \in 1..n
    BY <2>2
  <2> HIDE DEF n
  <2>6. ASSUME NEW i \in 1..n - 1, NEW j \in 1..n - 1, workQ'[i] = workQ'[j] PROVE i = j
    <3>1. i + 1 = j + 1
      BY <2>2, <2>3, <2>4, <2>6
    <3> QED BY <3>1
  <2>7. Queued' = Queued \ {workQ[1]} /\ workQ[1] \in Queued
    <3>1. Queued' = {workQ[i + 1] : i \in 1..n - 1}
      BY <2>2 DEF Queued
    <3>2. Queued = {workQ[i] : i \in 1..n}
      BY DEF Queued, n
    <3>3. ASSUME NEW i \in 1..n, i # 1 PROVE \E j \in 1..n - 1 : workQ[i] = workQ[j + 1]
      <4>1. i - 1 \in 1..n - 1 /\ (i - 1) + 1 = i
        BY <2>2, <3>3
      <4> QED BY <4>1
    <3>4. \A i \in 1..n - 1 : workQ[i + 1] # workQ[1]
      BY <2>3, <2>4, <2>5
    <3>5. ASSUME NEW x \in Queued PROVE x \in Queued' \/ x = workQ[1]
      <4>1. PICK i \in 1..n : x = workQ[i]
        BY <3>2, <3>5
      <4> QED BY <3>1, <3>3, <4>1
    <3>7. Queued' \subseteq Queued /\ workQ[1] \in Queued
      BY <2>3, <2>5, <3>1, <3>2
    <3>6. workQ[1] \notin Queued'
      BY <3>1, <3>4
    <3> QED BY <3>5, <3>6, <3>7
  <2>8. InHand' = {workQ[1]} /\ InHand = {}
    BY <2>1, <2>2 DEF InHand
  <2>9. Items' = Items /\ freed' = freed
    BY <2>1 DEF Items
  <2> QED BY <2>2, <2>6, <2>7, <2>8, <2>9 DEF ItemsPlaced
<1> QED BY <1>1, <1>2

LEMMA ProcessPlaced == ASSUME QueueInv, Process PROVE ItemsPlaced'
<1> USE DEF QueueInv, QueueTypes
<1>1. /\ worker = "item" /\ worker' = "unlock" /\ N' = N /\ Items' = Items
      /\ InHand = {item} /\ InHand' = {} /\ item \in Items
  BY DEF Process, InHand, Items
<1>2. CASE item \in cancelled
  <2>1. freed' = freed \union {item} /\ workQ' = workQ /\ Queued' = Queued
    BY <1>2 DEF Process, Queued
  <2> QED BY <1>1, <2>1 DEF ItemsPlaced
<1>3. CASE item \notin cancelled
  <2> DEFINE n == Len(workQ)
  <2>1. freed' = freed /\ workQ' = Append(workQ, item)
    BY <1>3 DEF Process
  <2>2. /\ n \in Nat /\ Len(workQ') = n + 1 /\ workQ'[n + 1] = item
        /\ \A i \in 1..n : workQ'[i] = workQ[i]
    BY <1>1, <2>1, AppendProperties
  <2>3. \A i \in 1..n + 1 : i \in 1..n \/ i = n + 1
    BY <2>2
  <2>4. /\ \A i, j \in 1..n : workQ[i] = workQ[j] => i = j
        /\ \A i \in 1..n : workQ[i] # item
    BY <1>1 DEF ItemsPlaced, Queued
  <2>5. n + 1 \in 1..n + 1 /\ \A i \in 1..n : i \in 1..n + 1
    BY <2>2
  <2>6. Queued = {workQ[i] : i \in 1..n}
    BY DEF Queued
  <2> HIDE DEF n
  <2>7. ASSUME NEW i \in 1..n + 1, NEW j \in 1..n + 1, workQ'[i] = workQ'[j] PROVE i = j
    BY <2>2, <2>3, <2>4, <2>7
  <2>8. Queued' = Queued \union {item}
    <3>1. Queued' = {workQ'[i] : i \in 1..n + 1}
      BY <2>2 DEF Queued
    <3> QED BY <2>2, <2>3, <2>5, <2>6, <3>1
  <2> QED BY <1>1, <2>1, <2>2, <2>7, <2>8 DEF ItemsPlaced
<1> QED BY <1>2, <1>3

LEMMA StepKeepsPlaced == ASSUME QueueInv, [WQNext]_wqvars PROVE ItemsPlaced'
<1>1. CASE WorkerTest \/ WorkerLock \/ WorkerUnlock \/ Main \/ UNCHANGED wqvars
  <2>1. UNCHANGED <<N, workQ, freed>> /\ InHand' = InHand
    BY <1>1 DEF InHand, WorkerTest, WorkerLock, WorkerUnlock, Main, Pick, Leave, MainLock, Cancel,
                Clear, MainUnlock, Join, wqvars, workervars
  <2> QED BY <2>1, PlacedKept DEF QueueInv
<1> QED BY <1>1, DequeuePlaced, ProcessPlaced DEF WQNext, Worker, WQOver

LEMMA StepKeepsCancelled == ASSUME QueueInv, [WQNext]_wqvars PROVE FreedCancelled'
<1> USE DEF QueueInv, FreedCancelled
<1>1. CASE Process
  <2>1. main # "clear"
    BY <1>1 DEF Process, QueueLock
  <2>2. freed' \subseteq cancelled /\ UNCHANGED <<array, cancelled, main, index>>
    BY <1>1 DEF Process, mainvars
  <2> QED BY <2>1, <2>2
<1>2. CASE Cancel
  <2>1. CASE index \in array
    <3>1. index \notin freed
      BY <1>2, <2>1 DEF Cancel
    <3> QED BY <1>2, <2>1, <3>1 DEF Cancel
  <2>2. CASE index \notin array
    BY <1>2, <2>2 DEF Cancel
  <2> QED BY <2>1, <2>2
<1>3. CASE Clear
  BY <1>3 DEF Clear
<1>4. CASE WorkerTest \/ WorkerLock \/ Dequeue \/ WorkerUnlock \/ UNCHANGED wqvars
  BY <1>4 DEF WorkerTest, WorkerLock, Dequeue, WorkerUnlock, wqvars, mainvars
<1>5. CASE (\E i \in Items : Pick(i)) \/ Leave \/ MainLock \/ MainUnlock \/ Join
  BY <1>5 DEF Pick, Leave, MainLock, MainUnlock, Join
<1> QED BY <1>1, <1>2, <1>3, <1>4, <1>5 DEF WQNext, Worker, Main, WQOver

LEMMA StepKeepsActive == ASSUME QueueInv, [WQNext]_wqvars PROVE ActiveCounts'
<1> USE DEF QueueInv, ActiveCounts
<1>1. CASE Process
  <2>1. /\ worker = "item" /\ worker' = "unlock" /\ UNCHANGED <<N, main>> /\ Items' = Items
        /\ item \in Items /\ item \notin freed
    BY <1>1 DEF Process, QueueTypes, ItemsPlaced, InHand, mainvars, Items
  <2>2. main \notin {"join", "ended"}
    BY <2>1
  <2>3. CASE item \in cancelled
    <3>1. freed' = freed \union {item} /\ active' = active - 1
      BY <1>1, <2>3 DEF Process
    <3>2. IsFiniteSet(freed)
      BY ItemsFinite, FS_Subset DEF QueueTypes
    <3>3. Cardinality(freed') = Cardinality(freed) + 1 /\ Cardinality(freed) \in Nat
      BY <2>1, <3>1, <3>2, FS_AddElement, FS_CardinalityType
    <3> QED BY <2>1, <2>2, <3>1, <3>3 DEF QueueTypes
  <2>4. CASE item \notin cancelled
    BY <1>1, <2>1, <2>2, <2>4 DEF Process
  <2> QED BY <2>3, <2>4
<1>2. CASE WorkerTest
  BY <1>2, AllFreed DEF WorkerTest, QueueTypes, mainvars, Items
<1>3. CASE Leave
  BY <1>3, AllFreed DEF Leave, workervars, Items
<1>4. CASE WorkerLock \/ Dequeue \/ WorkerUnlock \/ UNCHANGED wqvars
  BY <1>4 DEF WorkerLock, Dequeue, WorkerUnlock, wqvars, mainvars, Items
<1>5. CASE (\E i \in Items : Pick(i)) \/ MainLock \/ Cancel \/ Clear \/ MainUnlock \/ Join
  BY <1>5 DEF Pick, MainLock, Cancel, Clear, MainUnlock, Join, workervars, Items
<1> QED BY <1>1, <1>2, <1>3, <1>4, <1>5 DEF WQNext, Worker, Main, WQOver

LEMMA WQStepKeepsInv == QueueInv /\ [WQNext]_wqvars => QueueInv'
BY StepKeepsType, StepKeepsLock, StepKeepsPlaced, StepKeepsCancelled, StepKeepsActive DEF QueueInv

-----------------------------------------------------------------------------
(* The theorems. *)

\* The inductive invariant of lab8.c's two threads holds throughout.
THEOREM QueueInvariance == ASSUME MaxItems \in Nat PROVE WQSpec => []QueueInv
<1>1. WQInit => QueueInv
  BY WQInitInv
<1> QED BY <1>1, WQStepKeepsInv, PTL DEF WQSpec

\* main of lab8.c reaches no item the worker has freed, and no freed item is on the
\* queue: the slot is cleared in the critical section that cancels the item.
THEOREM NothingDangles == ASSUME MaxItems \in Nat PROVE WQSpec => []NoDangling
<1>1. QueueInv => NoDangling
  <2> SUFFICES ASSUME QueueInv PROVE NoDangling
    OBVIOUS
  <2>1. array \cap freed = {}
    BY DEF QueueInv, FreedCancelled
  <2>2. {workQ[i] : i \in DOMAIN workQ} = Queued
    BY DEF QueueInv, QueueTypes, Queued
  <2> QED BY <2>1, <2>2 DEF QueueInv, ItemsPlaced, NoDangling
<1> QED BY <1>1, QueueInvariance, PTL

\* A thread of lab8.c that leaves its loop on active, read without the mutex, leaves
\* no item behind: none is lost between the queue and the worker, or freed twice.
THEOREM LeavesNothing ==
  ASSUME MaxItems \in Nat
  PROVE  WQSpec => [](worker = "done" \/ main \in {"join", "ended"} => freed = Items)
<1>1. QueueInv => (worker = "done" \/ main \in {"join", "ended"} => freed = Items)
  BY DEF QueueInv, ActiveCounts
<1> QED BY <1>1, QueueInvariance, PTL

-----------------------------------------------------------------------------
(* The children of chldhandler.c. *)

\* What main goes by, or will once it has stored its increment, covers the children
\* that run or wait to be reaped.
Owed == running + zombies
Covered ==
  CASE chmain = "load"  -> Owed <= nprocesses + 1
    [] chmain = "store" -> Owed <= tmp + 1
    [] chmain = "ended" -> Owed <= 0
    [] OTHER          -> Owed <= nprocesses

CHInv ==
  /\ running \in Nat /\ zombies \in Nat /\ nprocesses \in Int /\ tmp \in Int
  /\ chmain \in {"fork", "load", "store", "test", "pause", "asleep", "ended"}
  /\ Covered

LEMMA CHStepKeepsInv == CHInv /\ [CHNext]_chvars => CHInv'
<1> SUFFICES ASSUME CHInv, [CHNext]_chvars PROVE CHInv'
  OBVIOUS
<1> USE DEF CHInv, Covered, Owed, MainAt
<1>1. CASE Fork
  BY <1>1 DEF Fork
<1>2. CASE Load
  BY <1>2 DEF Load
<1>3. CASE Store
  BY <1>3 DEF Store
<1>4. CASE Test
  BY <1>4 DEF Test
<1>5. CASE Pause
  BY <1>5 DEF Pause
<1>6. CASE Exit
  BY <1>6 DEF Exit
<1>7. CASE Deliver
  BY <1>7 DEF Deliver
<1>8. CASE onchld
  <2>1. CASE zombies > 0
    BY <1>8, <2>1 DEF onchld
  <2>2. CASE ~(zombies > 0)
    BY <1>8, <2>2 DEF onchld
  <2> QED BY <2>1, <2>2
<1>9. CASE UNCHANGED chvars
  BY <1>9 DEF chvars
<1> QED BY <1>1, <1>2, <1>3, <1>4, <1>5, <1>6, <1>7, <1>8, <1>9 DEF CHNext, CHOver

\* The count of chldhandler.c, as main holds it, is never below the children owed.
THEOREM Counting == CHSpec => []CHInv
<1>1. CHInit => CHInv
  BY DEF CHInit, CHInv, Covered, Owed
<1> QED BY <1>1, CHStepKeepsInv, PTL DEF CHSpec

\* main of chldhandler.c ends only after every child was reaped: an increment that
\* overwrites a decrement of the handler makes the count too high, never too low.
THEOREM EndsAfterChildren == CHSpec => []EndsReaped
<1>1. CHInv => EndsReaped
  BY DEF CHInv, Covered, Owed, EndsReaped
<1> QED BY <1>1, Counting, PTL

-----------------------------------------------------------------------------
(* The ticket lists. *)

USE FreeListAssumption, BoundedAssumption

-----------------------------------------------------------------------------
(* What taking the head and pushing a new one do to a sequence. *)

LEMMA TailFacts ==
  ASSUME NEW S, NEW s \in Seq(S), s # <<>>
  PROVE  /\ Tail(s) \in Seq(S) /\ Len(Tail(s)) = Len(s) - 1 /\ Len(s) \in Nat \ {0}
         /\ Head(s) = s[1] /\ s[1] \in S
         /\ \A i \in 1..Len(s) - 1 : Tail(s)[i] = s[i + 1]
OBVIOUS

LEMMA PushFacts ==
  ASSUME NEW S, NEW s \in Seq(S), NEW x \in S
  PROVE  /\ <<x>> \o s \in Seq(S) /\ Len(<<x>> \o s) = Len(s) + 1 /\ Len(s) \in Nat
         /\ (<<x>> \o s)[1] = x
         /\ \A i \in 1..Len(s) : (<<x>> \o s)[i + 1] = s[i]
OBVIOUS

LEMMA EmptyFacts ==
  ASSUME NEW S, NEW s \in Seq(S)
  PROVE  /\ Len(s) \in Nat /\ (s = <<>> <=> Len(s) = 0)
         /\ DOMAIN s = 1..Len(s)
         /\ \A i \in 1..Len(s) : s[i] \in S
OBVIOUS

-----------------------------------------------------------------------------
(* The inductive invariant. *)

LEMMA ListInitInv == ListInit => ListInv /\ Len(freeList) = NTICKETS
<1> SUFFICES ASSUME ListInit PROVE ListInv /\ Len(freeList) = NTICKETS
  OBVIOUS
<1> USE DEF ListInit, initializeFreeList, Tickets
<1>1. freeList \in Seq(Tickets) /\ Len(freeList) = NTICKETS
  OBVIOUS
<1>2. \A i \in 1..NTICKETS : freeList[i] = NTICKETS + 1 - i
  OBVIOUS
<1>3. ListTypes
  <2>1. pc \in [Threads -> Places]
    BY DEF Places
  <2>2. ticket \in [Threads -> 0..NTICKETS]
    OBVIOUS
  <2> HIDE DEF initializeFreeList
  <2> QED BY <1>1, <2>1, <2>2 DEF ListTypes
<1>4. LockOwner /\ HoldsWhileUsing /\ PutsATicket /\ HoldersDistinct
  BY DEF LockOwner, HoldsWhileUsing, PutsATicket, HoldersDistinct
<1>5. ListDistinct /\ ListNotHeld
  BY <1>1, <1>2 DEF ListDistinct, ListNotHeld
<1>6. NoneMissing
  <2> SUFFICES ASSUME NEW t \in Tickets PROVE \E i \in 1..Len(freeList) : freeList[i] = t
    BY DEF NoneMissing
  <2>1. NTICKETS + 1 - t \in 1..Len(freeList) /\ freeList[NTICKETS + 1 - t] = t
    BY <1>1, <1>2
  <2> QED BY <2>1
<1> QED BY <1>1, <1>3, <1>4, <1>5, <1>6 DEF ListInv

(* A step that leaves the list and the tickets alone. *)
LEMMA KeepsTickets ==
  ASSUME ListInv, UNCHANGED <<freeList, ticket>>
  PROVE  ListDistinct' /\ ListNotHeld' /\ HoldersDistinct' /\ NoneMissing'
BY DEF ListInv, ListDistinct, ListNotHeld, HoldersDistinct, NoneMissing, Tickets

(* The critical section of a get, of either kind. *)
LEMMA GetKeepsList ==
  ASSUME ListInv, NEW th \in Threads, getTicket(th)
  PROVE  /\ ListInv'
         /\ Len(freeList') = IF freeList = <<>> THEN Len(freeList) ELSE Len(freeList) - 1
<1> USE DEF getTicket, Goto
<1>1. ListTypes /\ LockOwner /\ HoldsWhileUsing /\ PutsATicket
  BY DEF ListInv
<1>2. ticket[th] = 0 /\ lock = th /\ pc[th] = "in_get"
  BY <1>1 DEF HoldsWhileUsing, LockOwner, ListTypes
<1>3. LockOwner'
  BY <1>1, <1>2 DEF LockOwner, ListTypes
<1>4. CASE freeList = <<>>
  <2>1. UNCHANGED <<freeList, ticket>>
    BY <1>4
  <2>2. ListTypes' /\ HoldsWhileUsing' /\ PutsATicket'
    BY <1>1, <1>2, <2>1 DEF ListTypes, Places, HoldsWhileUsing, PutsATicket
  <2> QED BY <1>3, <2>1, <2>2, KeepsTickets DEF ListInv
<1>5. CASE freeList # <<>>
  <2>0. freeList \in Seq(Tickets)
    BY <1>1 DEF ListTypes
  <2>a. freeList' = Tail(freeList)
    BY <1>5
  <2>1. /\ freeList' \in Seq(Tickets) /\ Len(freeList') = Len(freeList) - 1
        /\ Len(freeList) \in Nat \ {0} /\ freeList[1] \in Tickets
        /\ \A i \in 1..Len(freeList) - 1 : freeList'[i] = freeList[i + 1]
    BY ONLY <1>5, <2>0, <2>a, TailFacts
  <2>2. ticket' = [ticket EXCEPT ![th] = freeList[1]] /\ freeList[1] # 0
    BY <1>5, <2>0, <2>1, TailFacts DEF Tickets
  <2>3. ListTypes'
    BY <1>1, <1>2, <1>5, <2>1, <2>2 DEF ListTypes, Places, Tickets
  <2>4. HoldsWhileUsing' /\ PutsATicket'
    BY <1>1, <1>2, <2>2 DEF ListTypes, HoldsWhileUsing, PutsATicket
  <2>5. ListDistinct'
    BY <2>1 DEF ListInv, ListDistinct
  <2>6. ListNotHeld'
    BY <1>1, <2>1, <2>2 DEF ListInv, ListDistinct, ListNotHeld, ListTypes
  <2>7. HoldersDistinct'
    BY <1>1, <2>1, <2>2 DEF ListInv, HoldersDistinct, ListNotHeld, ListTypes
  <2>8. NoneMissing'
    <3> SUFFICES ASSUME NEW t \in Tickets
                 PROVE  \/ \E i \in 1..Len(freeList') : freeList'[i] = t
                        \/ \E u \in Threads : ticket'[u] = t
      BY DEF NoneMissing, Tickets
    <3>1. CASE \E u \in Threads : ticket[u] = t
      BY <1>1, <1>2, <2>2, <3>1 DEF ListTypes, Tickets
    <3>2. CASE \E i \in 1..Len(freeList) : freeList[i] = t
      <4>1. PICK i \in 1..Len(freeList) : freeList[i] = t
        BY <3>2
      <4>2. CASE i = 1
        BY <1>1, <2>2, <4>1, <4>2 DEF ListTypes
      <4>3. CASE i # 1
        <5>1. i - 1 \in 1..Len(freeList') /\ freeList'[i - 1] = t
          BY <2>1, <4>1, <4>3
        <5> QED BY <5>1
      <4> QED BY <4>2, <4>3
    <3> QED BY <3>1, <3>2 DEF ListInv, NoneMissing
  <2> QED BY <1>3, <2>1, <2>3, <2>4, <2>5, <2>6, <2>7, <2>8 DEF ListInv
<1> QED BY <1>4, <1>5

(* The critical section of a put. *)
LEMMA PutKeepsList ==
  ASSUME ListInv, NEW th \in Threads, putTicket(th)
  PROVE  ListInv' /\ Len(freeList') = Len(freeList) + 1
<1> USE DEF putTicket, Goto
<1>1. ListTypes /\ LockOwner /\ HoldsWhileUsing /\ PutsATicket
  BY DEF ListInv
<1>2. ticket[th] \in Tickets /\ lock = th /\ pc[th] = "in_put"
  BY <1>1 DEF PutsATicket, LockOwner, ListTypes, Tickets
<1>3. LockOwner'
  BY <1>1, <1>2 DEF LockOwner, ListTypes
<1>4. /\ freeList' \in Seq(Tickets) /\ Len(freeList') = Len(freeList) + 1 /\ Len(freeList) \in Nat
      /\ freeList'[1] = ticket[th]
      /\ \A i \in 1..Len(freeList) : freeList'[i + 1] = freeList[i]
  BY <1>1, <1>2, PushFacts DEF ListTypes
<1>5. \A i \in 2..Len(freeList') : i - 1 \in 1..Len(freeList) /\ freeList'[i] = freeList[i - 1]
  <2> TAKE i \in 2..Len(freeList')
  <2>1. i - 1 \in 1..Len(freeList) /\ (i - 1) + 1 = i
    BY <1>4
  <2> QED BY <1>4, <2>1
<1>6. ticket' = [ticket EXCEPT ![th] = 0]
  OBVIOUS
<1>7. ListTypes'
  BY <1>1, <1>4, <1>6 DEF ListTypes, Places, Tickets
<1>8. HoldsWhileUsing' /\ PutsATicket'
  BY <1>1, <1>2, <1>6 DEF ListTypes, HoldsWhileUsing, PutsATicket
<1>9. ListDistinct'
  <2> SUFFICES ASSUME NEW i \in 1..Len(freeList'), NEW j \in 1..Len(freeList'),
                      freeList'[i] = freeList'[j], i # j
               PROVE  FALSE
    BY DEF ListDistinct
  <2>1. CASE i = 1
    <3>1. j \in 2..Len(freeList')
      BY <1>4, <2>1
    <3> QED BY <1>4, <1>5, <2>1, <3>1 DEF ListInv, ListNotHeld
  <2>2. CASE j = 1
    <3>1. i \in 2..Len(freeList')
      BY <1>4, <2>2
    <3> QED BY <1>4, <1>5, <2>2, <3>1 DEF ListInv, ListNotHeld
  <2>3. CASE i # 1 /\ j # 1
    <3>1. i \in 2..Len(freeList') /\ j \in 2..Len(freeList')
      BY <1>4, <2>3
    <3>2. i - 1 = j - 1
      BY <1>5, <3>1 DEF ListInv, ListDistinct
    <3> QED BY <3>1, <3>2
  <2> QED BY <2>1, <2>2, <2>3
<1>10. ListNotHeld'
  <2> SUFFICES ASSUME NEW u \in Threads, NEW i \in 1..Len(freeList'), ticket'[u] = freeList'[i]
               PROVE  FALSE
    BY DEF ListNotHeld
  <2>1. freeList'[i] # 0
    BY <1>4, EmptyFacts DEF Tickets
  <2>2. u # th /\ ticket'[u] = ticket[u]
    BY <1>1, <1>6, <2>1 DEF ListTypes
  <2>3. CASE i = 1
    BY <1>2, <1>4, <2>2, <2>3 DEF ListInv, HoldersDistinct, Tickets
  <2>4. CASE i # 1
    <3>1. i \in 2..Len(freeList')
      BY <1>4, <2>4
    <3> QED BY <1>5, <2>2, <3>1 DEF ListInv, ListNotHeld
  <2> QED BY <2>3, <2>4
<1>11. HoldersDistinct'
  BY <1>1, <1>6 DEF ListInv, HoldersDistinct, ListTypes
<1>12. NoneMissing'
  <2> SUFFICES ASSUME NEW t \in Tickets
               PROVE  \/ \E i \in 1..Len(freeList') : freeList'[i] = t
                      \/ \E u \in Threads : ticket'[u] = t
    BY DEF NoneMissing, Tickets
  <2>1. CASE t = ticket[th]
    <3>1. 1 \in 1..Len(freeList') /\ freeList'[1] = t
      BY <1>4, <2>1
    <3> QED BY <3>1
  <2>2. CASE \E i \in 1..Len(freeList) : freeList[i] = t
    <3>1. PICK i \in 1..Len(freeList) : freeList[i] = t
      BY <2>2
    <3>2. i + 1 \in 1..Len(freeList') /\ freeList'[i + 1] = t
      BY <1>4, <3>1
    <3> QED BY <3>2
  <2>3. CASE t # ticket[th] /\ \E u \in Threads : ticket[u] = t
    BY <1>1, <1>6, <2>3 DEF ListTypes
  <2> QED BY <2>1, <2>2, <2>3 DEF ListInv, NoneMissing
<1> QED BY <1>3, <1>4, <1>7, <1>8, <1>9, <1>10, <1>11, <1>12 DEF ListInv

LEMMA ListStepKeepsInv == ListInv /\ [ListNext]_listvars => ListInv'
<1> SUFFICES ASSUME ListInv, [ListNext]_listvars PROVE ListInv'
  OBVIOUS
<1>1. ListTypes /\ LockOwner /\ HoldsWhileUsing /\ PutsATicket
  BY DEF ListInv
<1>2. ASSUME NEW th \in Threads, Loop(th) \/ Use(th) PROVE ListInv'
  <2> USE <1>2 DEF Loop, Use, Goto
  <2>1. UNCHANGED <<freeList, ticket, lock, shutdown>>
    BY <1>2
  <2>2. ListTypes' /\ LockOwner'
    BY <1>1, <2>1 DEF ListTypes, Places, LockOwner
  <2>3. HoldsWhileUsing' /\ PutsATicket'
    BY <1>1, <2>1 DEF ListTypes, HoldsWhileUsing, PutsATicket
  <2> QED BY <2>1, <2>2, <2>3, KeepsTickets DEF ListInv
<1>3. ASSUME NEW th \in Threads, Lock(th) PROVE ListInv'
  <2> USE <1>3 DEF Lock, Goto
  <2>1. UNCHANGED <<freeList, ticket, shutdown>>
    BY <1>3
  <2>2. ListTypes'
    BY <1>1, <2>1 DEF ListTypes, Places
  <2>3. LockOwner'
    BY <1>1, <1>3 DEF ListTypes, LockOwner
  <2>4. HoldsWhileUsing' /\ PutsATicket'
    BY <1>1, <2>1 DEF ListTypes, HoldsWhileUsing, PutsATicket
  <2> QED BY <2>1, <2>2, <2>3, <2>4, KeepsTickets DEF ListInv
<1>4. ASSUME NEW th \in Threads, getTicket(th) \/ putTicket(th) PROVE ListInv'
  BY <1>4, GetKeepsList, PutKeepsList
<1>5. ASSUME onint \/ UNCHANGED listvars PROVE ListInv'
  <2>1. UNCHANGED <<freeList, ticket, lock, pc>> /\ shutdown' \in BOOLEAN
    BY <1>1, <1>5 DEF onint, listvars, ListTypes
  <2>2. ListTypes' /\ LockOwner' /\ HoldsWhileUsing' /\ PutsATicket'
    BY <1>1, <2>1 DEF ListTypes, LockOwner, HoldsWhileUsing, PutsATicket, Tickets
  <2> QED BY <2>1, <2>2, KeepsTickets DEF ListInv
<1> QED BY <1>2, <1>3, <1>4, <1>5 DEF ListNext, th_fxn

-----------------------------------------------------------------------------
(* The count and the waiters of boundedfreelist.c. *)

LEMMA InitInv == Init => Inv
BY ListInitInv DEF Init, Inv, CountIsLength

LEMMA StepKeepsInv == Inv /\ [Next]_vars => Inv'
<1> SUFFICES ASSUME Inv, [Next]_vars PROVE Inv'
  OBVIOUS
<1>1. ListInv /\ CountIsLength /\ freeList \in Seq(Tickets)
  BY DEF Inv, ListInv, ListTypes
<1>2. ASSUME NEW th \in Threads, BLoop(th) \/ BLock(th) \/ BUse(th) PROVE Inv'
  <2>1. ListInv'
    BY <1>1, <1>2, ListStepKeepsInv DEF BLoop, BLock, BUse, ListNext, th_fxn
  <2>2. UNCHANGED <<freeList, freeTickets, waiting, spurious>>
    BY <1>2 DEF BLoop, Loop, BLock, Lock, BUse, Use, KeepCount
  <2> QED BY <2>1, <2>2 DEF Inv, CountIsLength
<1>3. ASSUME NEW th \in Threads, nonblockingGetTicket(th) \/ blockingGetTicket(th) PROVE Inv'
  <2>1. getTicket(th) /\ waiting' = {} /\ spurious' = spurious
    BY <1>3 DEF nonblockingGetTicket, blockingGetTicket, Broadcast
  <2>2. freeTickets' = IF freeList = <<>> THEN freeTickets ELSE freeTickets - 1
    BY <1>1, <1>3, EmptyFacts DEF nonblockingGetTicket, blockingGetTicket, CountIsLength
  <2>3. /\ ListInv'
        /\ Len(freeList') = IF freeList = <<>> THEN Len(freeList) ELSE Len(freeList) - 1
    BY <1>1, <2>1, GetKeepsList
  <2> QED BY <1>1, <2>1, <2>2, <2>3 DEF Inv, CountIsLength
<1>4. ASSUME NEW th \in Threads, Wait(th) PROVE Inv'
  <2> USE <1>4 DEF Wait, Goto
  <2>0. ListTypes /\ LockOwner /\ HoldsWhileUsing /\ PutsATicket
    BY <1>1 DEF ListInv
  <2>1. UNCHANGED <<freeList, ticket, freeTickets, spurious, shutdown>>
    BY <1>4
  <2>2. ListTypes' /\ HoldsWhileUsing' /\ PutsATicket'
    BY <2>0, <2>1 DEF ListTypes, Places, HoldsWhileUsing, PutsATicket
  <2>3. LockOwner'
    BY <2>0, <1>4 DEF ListTypes, LockOwner
  <2>4. ListInv'
    BY <1>1, <2>1, <2>2, <2>3, KeepsTickets DEF ListInv
  <2> QED BY <1>1, <2>1, <2>4 DEF Inv, CountIsLength
<1>5. ASSUME NEW th \in Threads, BputTicket(th) PROVE Inv'
  <2>1. ListInv' /\ Len(freeList') = Len(freeList) + 1
    BY <1>1, <1>5, PutKeepsList DEF BputTicket
  <2> QED BY <1>1, <1>5, <2>1 DEF Inv, CountIsLength, BputTicket, Broadcast
<1>6. ASSUME NEW th \in Threads, Wakeup(th) PROVE Inv'
  <2>1. UNCHANGED listvars /\ UNCHANGED <<freeList, freeTickets>>
    BY <1>6 DEF Wakeup, listvars
  <2>2. waiting' \subseteq Threads /\ spurious' \in Nat
    BY <1>6 DEF Wakeup, Inv
  <2>3. ListInv'
    BY <1>1, <2>1, ListStepKeepsInv
  <2> QED BY <2>1, <2>2, <2>3 DEF Inv, CountIsLength
<1>7. ASSUME Bonint \/ UNCHANGED vars PROVE Inv'
  <2>1. UNCHANGED <<freeList, freeTickets, waiting, spurious>>
    BY <1>7 DEF Bonint, onint, KeepCount, vars, listvars
  <2>2. ListInv'
    BY <1>1, <1>7, ListStepKeepsInv DEF Bonint, vars, ListNext
  <2> QED BY <2>1, <2>2 DEF Inv, CountIsLength
<1> QED
  BY <1>2, <1>3, <1>4, <1>5, <1>6, <1>7 DEF Next, Thread, Over

(* The invariant of freelist.c, without a count.                             *)
THEOREM ListInvariance == ListSpec => []ListInv
BY ListInitInv, ListStepKeepsInv, PTL DEF ListSpec

(* The invariant holds in every run of boundedfreelist.c.                   *)
THEOREM BoundedInvariance == Spec => []Inv
BY InitInv, StepKeepsInv, PTL DEF Spec

-----------------------------------------------------------------------------
(* Consequences. *)

LEMMA InvConserves == ListInv => TicketsConserved
<1> SUFFICES ASSUME ListInv, NEW t \in Tickets
             PROVE  LET listed == {i \in DOMAIN freeList : freeList[i] = t}
                        holders == {th \in Threads : ticket[th] = t}
                    IN \/ holders = {} /\ \E i \in DOMAIN freeList : listed = {i}
                       \/ listed = {} /\ \E th \in Threads : holders = {th}
  BY DEF TicketsConserved
<1>1. DOMAIN freeList = 1..Len(freeList)
  BY EmptyFacts DEF ListInv, ListTypes
<1>2. CASE \E i \in 1..Len(freeList) : freeList[i] = t
  <2>1. PICK i \in 1..Len(freeList) : freeList[i] = t
    BY <1>2
  <2>2. {j \in DOMAIN freeList : freeList[j] = t} = {i}
    BY <1>1, <2>1 DEF ListInv, ListDistinct
  <2>3. {th \in Threads : ticket[th] = t} = {}
    BY <2>1 DEF ListInv, ListNotHeld
  <2> QED BY <1>1, <2>1, <2>2, <2>3
<1>3. CASE \E th \in Threads : ticket[th] = t
  <2>1. PICK th \in Threads : ticket[th] = t
    BY <1>3
  <2>2. {j \in DOMAIN freeList : freeList[j] = t} = {}
    BY <1>1, <2>1 DEF ListInv, ListNotHeld
  <2>3. {u \in Threads : ticket[u] = t} = {th}
    BY <2>1 DEF ListInv, HoldersDistinct, Tickets
  <2> QED BY <2>1, <2>2, <2>3
<1> QED BY <1>2, <1>3 DEF ListInv, NoneMissing

(* No step of freelist.c, between a get and its put or inside either, loses  *)
(* a ticket or doubles one, for any number of threads and tickets.           *)
THEOREM ListConservation == ListSpec => []TicketsConserved
BY ListInvariance, InvConserves, PTL

(* putTicket and the two gets neither lose a ticket nor give it to two       *)
(* threads, for any number of threads and tickets.                           *)
THEOREM Conservation == Spec => []TicketsConserved
<1>1. Inv => TicketsConserved
  BY InvConserves DEF Inv
<1> QED BY <1>1, BoundedInvariance, PTL

(* The thread that gets past the wait of blockingGetTicket never follows a   *)
(* NULL head: the count it tested is the length of the list.                 *)
THEOREM CountCorrect == Spec => []CountIsLength
<1>1. Inv => CountIsLength
  BY DEF Inv
<1> QED BY <1>1, BoundedInvariance, PTL

-----------------------------------------------------------------------------
(* The refinement. *)

LEMMA GetRefines ==
  ASSUME ListInv, NEW th \in Threads, getTicket(th)
  PROVE  Pool!Next \/ UNCHANGED ticket
<1> USE DEF getTicket, Goto
<1>1. CASE freeList = <<>>
  BY <1>1
<1>2. CASE freeList # <<>>
  <2>1. freeList \in Seq(Tickets) /\ ticket \in [Threads -> 0..NTICKETS] /\ pc[th] = "in_get"
    BY DEF ListInv, ListTypes
  <2>2. Len(freeList) \in Nat \ {0} /\ Head(freeList) = freeList[1] /\ freeList[1] \in 1..NTICKETS
    BY <1>2, <2>1, TailFacts DEF Tickets
  <2>3. ticket[th] = 0
    BY <2>1 DEF ListInv, HoldsWhileUsing
  <2>4. \A u \in Threads : ticket[u] # freeList[1]
    BY <2>2 DEF ListInv, ListNotHeld
  <2>5. ticket' = [ticket EXCEPT ![th] = freeList[1]]
    BY <1>2, <2>2
  <2>6. Pool!Take(th)
    BY <2>2, <2>3, <2>4, <2>5 DEF Pool!Take
  <2> QED BY <2>6 DEF Pool!Next
<1> QED BY <1>1, <1>2

LEMMA PutRefines ==
  ASSUME ListInv, NEW th \in Threads, putTicket(th)
  PROVE  Pool!Next
<1>1. pc[th] = "in_put" /\ ticket' = [ticket EXCEPT ![th] = 0]
  BY DEF putTicket
<1>2. ticket[th] # 0
  BY <1>1 DEF ListInv, PutsATicket
<1> QED BY <1>1, <1>2 DEF Pool!Next, Pool!GiveBack

LEMMA ListStepRefines == ListInv /\ [ListNext]_listvars => [Pool!Next]_ticket
<1> SUFFICES ASSUME ListInv, [ListNext]_listvars PROVE Pool!Next \/ UNCHANGED ticket
  OBVIOUS
<1>1. ASSUME NEW th \in Threads, th_fxn(th) PROVE Pool!Next \/ UNCHANGED ticket
  BY <1>1, GetRefines, PutRefines DEF th_fxn, Loop, Lock, Use
<1>2. ASSUME onint \/ UNCHANGED listvars PROVE UNCHANGED ticket
  BY <1>2 DEF onint, listvars
<1> QED BY <1>1, <1>2 DEF ListNext

LEMMA StepRefines == Inv /\ [Next]_vars => [Pool!Next]_ticket
<1> SUFFICES ASSUME Inv, [Next]_vars PROVE Pool!Next \/ UNCHANGED ticket
  OBVIOUS
<1>1. ASSUME NEW th \in Threads, nonblockingGetTicket(th) \/ blockingGetTicket(th)
      PROVE  Pool!Next \/ UNCHANGED ticket
  BY <1>1, GetRefines DEF nonblockingGetTicket, blockingGetTicket, Inv
<1>2. ASSUME NEW th \in Threads, BputTicket(th) PROVE Pool!Next
  BY <1>2, PutRefines DEF BputTicket, Inv
<1>3. ASSUME NEW th \in Threads, BLoop(th) \/ BLock(th) \/ Wait(th) \/ BUse(th) \/ Wakeup(th)
      PROVE  UNCHANGED ticket
  BY <1>3 DEF BLoop, Loop, BLock, Lock, Wait, BUse, Use, Wakeup, listvars
<1>4. ASSUME Bonint \/ UNCHANGED vars PROVE UNCHANGED ticket
  BY <1>4 DEF Bonint, onint, vars, listvars
<1> QED BY <1>1, <1>2, <1>3, <1>4 DEF Next, Thread, Over

(* freelist.c implements the pool: every step of a thread is a Take, a      *)
(* GiveBack or invisible.                                                    *)
THEOREM ListRefinement == ListSpec => ImplementsPool
<1>1. ListInit => Pool!Init
  BY DEF ListInit, Pool!Init
<1> QED BY <1>1, ListInvariance, ListStepRefines, PTL DEF ListSpec, ImplementsPool, Pool!Spec

(* boundedfreelist.c, condition variable and all, implements the pool: every *)
(* step is a Take, a GiveBack or invisible.                                  *)
THEOREM Refinement == Spec => ImplementsPool
<1>1. Init => Pool!Init
  BY DEF Init, ListInit, Pool!Init
<1> QED BY <1>1, BoundedInvariance, StepRefines, PTL DEF Spec, ImplementsPool, Pool!Spec
=============================================================================
