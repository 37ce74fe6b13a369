----------------------------- MODULE TicketPool -----------------------------
(* What a pool of tickets promises, whatever its locks and its list: a      *)
(* ticket is held by one thread at a time, and a thread that holds one gives *)
(* it back before it takes another.                                          *)
EXTENDS Integers

CONSTANTS Threads, NTICKETS

VARIABLE holds  \* the ticket each thread holds, 0 when it has none

Init == holds = [th \in Threads |-> 0]

Take(th) ==
  /\ holds[th] = 0
  /\ \E t \in 1..NTICKETS :
       /\ \A u \in Threads : holds[u] # t
       /\ holds' = [holds EXCEPT ![th] = t]

GiveBack(th) == holds[th] # 0 /\ holds' = [holds EXCEPT ![th] = 0]

Next == \E th \in Threads : Take(th) \/ GiveBack(th)

Spec == Init /\ [][Next]_holds
=============================================================================
