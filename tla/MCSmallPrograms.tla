--------------------------- MODULE MCSmallPrograms ---------------------------
(***************************************************************************)
(* Instances of the small programs: the labs with threads or signals, the  *)
(* merge sort, and the text functions of the schedulers.  A run is of one  *)
(* unit, chosen in Init; the others stay in their initial state.  The      *)
(* threads and handlers come with their variables, those of ArrayStack are *)
(* prefixed; a pure function has an input and, once computed is set, an    *)
(* output.                                                                 *)
(***************************************************************************)
EXTENDS BoundedFreeList, WorkQueue, ChildHandler, FunctionCalls

CONSTANTS MaxLine, MaxArray,
          Elements, NoElement, DEFAULT_STACK_CAPACITY, Capacities, MaxCapacity

VARIABLES as_phase, as_capacity, as_next, as_theArray, as_cleared, as_held, as_freed, as_ret

AS == INSTANCE ArrayStack WITH
  phase <- as_phase, capacity <- as_capacity, next <- as_next, theArray <- as_theArray,
  cleared <- as_cleared, held <- as_held, freed <- as_freed, ret <- as_ret

asvars == <<as_phase, as_capacity, as_next, as_theArray, as_cleared, as_held, as_freed, as_ret>>
allvars == <<vars, wqvars, chvars, asvars, callvars>>

-----------------------------------------------------------------------------

Alphabet == {"a", " ", "\t", "'", "\""}
SeqsUpTo(S, n) == UNION {[1..m -> S] : m \in 0..n}
MCLines == SeqsUpTo(Alphabet, MaxLine)
MCKeys == SeqsUpTo(1..3, MaxArray)
FreeLists == {"freelist", "boundedfreelist"}

-----------------------------------------------------------------------------

SmallInit ==
  /\ \/ CallInit
     \/ /\ unit \in FreeLists \union {"workqueue", "chldhandler", "arraystack"}
        /\ input = Nothing /\ output = Nothing /\ computed = FALSE
  /\ Init
  /\ WQInit /\ (unit # "workqueue" => N = 0)
  /\ CHInit /\ AS!Init

KeepList == UNCHANGED vars
KeepWQ == UNCHANGED wqvars
KeepCH == UNCHANGED chvars
KeepStack == UNCHANGED asvars
KeepCall == UNCHANGED callvars

FreeListStep(A) == unit \in FreeLists /\ A /\ KeepWQ /\ KeepCH /\ KeepStack /\ KeepCall
WorkQueueStep(A) == unit = "workqueue" /\ A /\ KeepList /\ KeepCH /\ KeepStack /\ KeepCall
ChildStep(A) == unit = "chldhandler" /\ A /\ KeepList /\ KeepWQ /\ KeepStack /\ KeepCall
StackStep(A) == unit = "arraystack" /\ A /\ KeepList /\ KeepWQ /\ KeepCH /\ KeepCall

\* freelist.c: the same threads without count and condition.
FreeListThread(th) ==
  IF unit = "freelist" THEN th_fxn(th) /\ KeepCount ELSE Thread(th)

Calls == Compute /\ KeepList /\ KeepWQ /\ KeepCH /\ KeepStack
Computed == computed /\ UNCHANGED allvars

SmallNext ==
  \/ \E th \in Threads : FreeListStep(FreeListThread(th))
  \/ \E th \in Threads : FreeListStep(Wakeup(th))
  \/ FreeListStep(Bonint)
  \/ FreeListStep(Over)
  \/ WorkQueueStep(WQNext)
  \/ ChildStep(CHNext)
  \/ StackStep(AS!Next)
  \/ Calls
  \/ Computed

\* Threads that can run do.  The two threads of lab8.c sleep for half a second or more
\* without the lock, in which the other one gets it; random() yields every index again
\* and again.
SmallSpec ==
  /\ SmallInit /\ [][SmallNext]_allvars
  /\ \A th \in Threads : WF_allvars(FreeListStep(FreeListThread(th)))
  /\ WF_allvars(WorkQueueStep(Worker)) /\ WF_allvars(WorkQueueStep(Main))
  /\ SF_allvars(WorkQueueStep(MainLock)) /\ SF_allvars(WorkQueueStep(WorkerLock))
  /\ \A j \in 1..MaxItems : SF_allvars(WorkQueueStep(Pick(j)))

-----------------------------------------------------------------------------
(* Properties. *)

\* lab8.c: every item is cancelled and freed in the end, and both threads end.
AllItemsFreed == unit = "workqueue" ~> Finished

\* arraystub.c: growing, shrinking and a refused allocation leave a stack that owns
\* what is in it, up to a use of the array that clear has freed.
ImplementsStack == AS!ImplementsStack
=============================================================================
