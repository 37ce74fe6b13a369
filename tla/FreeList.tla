------------------------------ MODULE FreeList ------------------------------
(***************************************************************************)
(* Labs/L5/freelist.c: threads that take a ticket from a list, keep it for *)
(* a while and put it back, until SIGINT sets shutdown.  The list is       *)
(* guarded by a mutex; a thread that finds it empty goes on without one.   *)
(* Tickets are numbered from 1 and 0 stands for NULL.                      *)
(***************************************************************************)
EXTENDS Integers, Sequences

CONSTANTS
  Threads,   \* the threads main creates
  NoThread,  \* who holds the mutex when it is free
  NTICKETS   \* tickets on the list (10 in the code)

ASSUME FreeListAssumption == NoThread \notin Threads /\ NTICKETS \in Nat

VARIABLES
  freeList,  \* the tickets from the head of the list on
  lock,      \* the thread that holds the mutex
  shutdown,
  pc,        \* where a thread is in th_fxn or in a function it calls
  ticket     \* the ticket a thread has, 0 for NULL

listvars == <<freeList, lock, shutdown, pc, ticket>>

Tickets == 1..NTICKETS
Goto(th, l) == pc' = [pc EXCEPT ![th] = l]

\* Every ticket is pushed, so the last one is the head.
initializeFreeList == freeList = [i \in Tickets |-> NTICKETS + 1 - i]

ListInit ==
  /\ initializeFreeList
  /\ lock = NoThread /\ shutdown = FALSE
  /\ pc = [th \in Threads |-> "loop"] /\ ticket = [th \in Threads |-> 0]

\* while (!shutdown), read without the lock.
Loop(th) ==
  /\ pc[th] = "loop"
  /\ Goto(th, IF shutdown THEN "done" ELSE "lock_get")
  /\ UNCHANGED <<freeList, lock, shutdown, ticket>>

Lock(th) ==
  /\ lock = NoThread /\ lock' = th
  /\ \/ pc[th] = "lock_get" /\ Goto(th, "in_get")
     \/ pc[th] = "lock_put" /\ Goto(th, "in_put")
  /\ UNCHANGED <<freeList, shutdown, ticket>>

(* Mutant: the list keeps the ticket it hands out. *)
getTicketKept(th) ==
  /\ pc[th] = "in_get" /\ Goto(th, "using") /\ lock' = NoThread
  /\ ticket' = [ticket EXCEPT ![th] = IF freeList = <<>> THEN 0 ELSE Head(freeList)]
  /\ UNCHANGED <<freeList, shutdown>>
\* The rest of getTicket: the head of the list, or NULL, and the unlock.
getTicket(th) ==
  /\ pc[th] = "in_get" /\ Goto(th, "using") /\ lock' = NoThread
  /\ \/ freeList = <<>> /\ UNCHANGED <<freeList, ticket>>
     \/ /\ freeList # <<>> /\ freeList' = Tail(freeList)
        /\ ticket' = [ticket EXCEPT ![th] = Head(freeList)]
  /\ UNCHANGED shutdown

\* usleep, and the test of the ticket after it.
Use(th) ==
  /\ pc[th] = "using"
  /\ Goto(th, IF ticket[th] = 0 THEN "loop" ELSE "lock_put")
  /\ UNCHANGED <<freeList, lock, shutdown, ticket>>

(* Mutant: the ticket becomes the whole list. *)
putTicketAlone(th) ==
  /\ pc[th] = "in_put" /\ Goto(th, "loop") /\ lock' = NoThread
  /\ freeList' = <<ticket[th]>>
  /\ ticket' = [ticket EXCEPT ![th] = 0]
  /\ UNCHANGED shutdown
\* The rest of putTicket, after which the thread has no ticket.
putTicket(th) ==
  /\ pc[th] = "in_put" /\ Goto(th, "loop") /\ lock' = NoThread
  /\ freeList' = <<ticket[th]>> \o freeList
  /\ ticket' = [ticket EXCEPT ![th] = 0]
  /\ UNCHANGED shutdown

\* The SIGINT handler.
onint == shutdown' = TRUE /\ UNCHANGED <<freeList, lock, pc, ticket>>

th_fxn(th) == Loop(th) \/ Lock(th) \/ getTicket(th) \/ Use(th) \/ putTicket(th)

Joined == \A th \in Threads : pc[th] = "done"
ListNext == (\E th \in Threads : th_fxn(th)) \/ onint

ListSpec == ListInit /\ [][ListNext]_listvars

-----------------------------------------------------------------------------
(* Properties, which the bounded version states too. *)

\* A ticket is in one place: on the list, once, or with one thread.  No step of
\* another thread between a get and its put loses or doubles one.
TicketsConserved ==
  \A t \in Tickets :
    LET listed == {i \in DOMAIN freeList : freeList[i] = t}
        holders == {th \in Threads : ticket[th] = t}
    IN \/ holders = {} /\ \E i \in DOMAIN freeList : listed = {i}
       \/ listed = {} /\ \E th \in Threads : holders = {th}

\* The inductive invariant of both versions.  The mutex belongs to the thread inside a
\* get or a put; a thread has a ticket only between its get and its put; the list and
\* the tickets in use are distinct and together all there are.
Places == {"loop", "lock_get", "in_get", "using", "lock_put", "in_put", "done"}
ListTypes ==
  /\ freeList \in Seq(Tickets) /\ lock \in Threads \union {NoThread}
  /\ shutdown \in BOOLEAN /\ pc \in [Threads -> Places]
  /\ ticket \in [Threads -> 0..NTICKETS]
LockOwner == \A th \in Threads : (lock = th) <=> pc[th] \in {"in_get", "in_put"}
HoldsWhileUsing == \A th \in Threads : ticket[th] # 0 => pc[th] \in {"using", "lock_put", "in_put"}
PutsATicket == \A th \in Threads : pc[th] \in {"lock_put", "in_put"} => ticket[th] # 0
ListDistinct == \A i, j \in 1..Len(freeList) : freeList[i] = freeList[j] => i = j
ListNotHeld == \A th \in Threads : \A i \in 1..Len(freeList) : ticket[th] # freeList[i]
HoldersDistinct == \A th, u \in Threads : ticket[th] = ticket[u] /\ ticket[th] # 0 => th = u
NoneMissing ==
  \A t \in Tickets : \/ \E i \in 1..Len(freeList) : freeList[i] = t
                     \/ \E th \in Threads : ticket[th] = t
ListInv ==
  /\ ListTypes /\ LockOwner /\ HoldsWhileUsing /\ PutsATicket
  /\ ListDistinct /\ ListNotHeld /\ HoldersDistinct /\ NoneMissing

Pool == INSTANCE TicketPool WITH holds <- ticket

\* To an observer of the tickets the threads hold, the list is the pool.
ImplementsPool == Pool!Spec
=============================================================================
