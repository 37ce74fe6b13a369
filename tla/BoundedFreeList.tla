--------------------------- MODULE BoundedFreeList ---------------------------
(***************************************************************************)
(* Labs/L5/boundedfreelist.c: the free list with a count of its tickets    *)
(* and a condition variable.  Some threads get a ticket as in freelist.c;  *)
(* the others wait for one.  A thread in pthread_cond_wait has given up    *)
(* the mutex and is in waiting; a broadcast, or a spurious wakeup, sends   *)
(* it back for the mutex.                                                  *)
(***************************************************************************)
EXTENDS FreeList

CONSTANTS
  Blocking,     \* the threads that wait for a ticket (odd ids in the code)
  MaxSpurious   \* bound on the spurious wakeups

ASSUME BoundedAssumption == Blocking \subseteq Threads /\ MaxSpurious \in Nat

VARIABLES
  freeTickets,  \* the count of the tickets on the list
  waiting,      \* threads in pthread_cond_wait
  spurious      \* spurious wakeups so far

vars == <<listvars, freeTickets, waiting, spurious>>

Init == ListInit /\ freeTickets = NTICKETS /\ waiting = {} /\ spurious = 0

KeepCount == UNCHANGED <<freeTickets, waiting, spurious>>
Broadcast == waiting' = {}

BLoop(th) == Loop(th) /\ KeepCount
BLock(th) == th \notin waiting /\ Lock(th) /\ KeepCount
BUse(th) == Use(th) /\ KeepCount
Bonint == onint /\ KeepCount

nonblockingGetTicket(th) ==
  /\ th \notin Blocking
  /\ getTicket(th) /\ Broadcast
  /\ freeTickets' = IF freeList = <<>> THEN freeTickets ELSE freeTickets - 1
  /\ UNCHANGED spurious

\* while (freeTickets == 0) pthread_cond_wait(&cond, &lock);
Wait(th) ==
  /\ th \in Blocking /\ pc[th] = "in_get" /\ freeTickets = 0
  /\ Goto(th, "lock_get") /\ lock' = NoThread /\ waiting' = waiting \union {th}
  /\ UNCHANGED <<freeList, shutdown, ticket, freeTickets, spurious>>

\* pthread_cond_wait may return without a broadcast.
Wakeup(th) ==
  /\ th \in waiting /\ waiting' = waiting \ {th}
  /\ spurious < MaxSpurious /\ spurious' = spurious + 1
  /\ UNCHANGED <<listvars, freeTickets>>

\* The rest of blockingGetTicket takes the head without looking whether it is NULL.
blockingGetTicket(th) ==
  /\ th \in Blocking /\ freeTickets # 0
  /\ getTicket(th) /\ Broadcast
  /\ freeTickets' = freeTickets - 1
  /\ UNCHANGED spurious

(* Mutant: putTicket tells nobody. *)
BputTicketSilent(th) ==
  /\ putTicket(th)
  /\ freeTickets' = freeTickets + 1
  /\ UNCHANGED <<waiting, spurious>>
BputTicket(th) ==
  /\ putTicket(th) /\ Broadcast
  /\ freeTickets' = freeTickets + 1
  /\ UNCHANGED spurious

Thread(th) ==
  \/ BLoop(th) \/ BLock(th) \/ nonblockingGetTicket(th) \/ Wait(th)
  \/ blockingGetTicket(th) \/ BUse(th) \/ BputTicket(th)

\* main joins the threads and ends when the last one has.
Over == Joined /\ UNCHANGED vars

Next == (\E th \in Threads : Thread(th) \/ Wakeup(th)) \/ Bonint \/ Over

\* Every thread that can run does; nobody has to send SIGINT.
Spec == Init /\ [][Next]_vars /\ \A th \in Threads : WF_vars(Thread(th))

-----------------------------------------------------------------------------
(* Properties. *)

\* The count is the length of the list, and a thread that gets past the wait
\* finds a ticket: the head it follows is never NULL.
CountIsLength == freeTickets = Len(freeList)

\* The inductive invariant: that of the list, with the count and the waiters.
Inv ==
  /\ ListInv /\ CountIsLength
  /\ waiting \subseteq Threads /\ spurious \in Nat

\* After SIGINT every thread ends, those that wait for a ticket included.
ShutdownEnds == shutdown ~> Joined
=============================================================================
