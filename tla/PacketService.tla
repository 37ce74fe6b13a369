--------------------------- MODULE PacketService ---------------------------
(* What the packet driver of Projects/P2 promises to the application        *)
(* threads, with no descriptors, pools or driver threads in sight:          *)
(*   - what an application sends is put on the network in the order in      *)
(*     which it was accepted, once each, or abandoned in that order;        *)
(*   - what the network delivers to an application reaches a thread of that *)
(*     application, once and in arrival order, except for what is dropped;  *)
(*   - a packet is not altered while the driver or a thread holds it.       *)
EXTENDS Naturals, Sequences, SequencesExt

CONSTANTS PID,      (* the applications                                      *)
          App,      (* their threads                                         *)
          AppPid,   (* the application a thread belongs to                   *)
          NoPacket  (* what an idle thread holds                             *)

VARIABLES inbox,    (* per application, packets arrived and not yet taken    *)
          outbox,   (* packets accepted and not yet put on the network       *)
          hand,     (* per thread, the packet it is composing or reading     *)
          arrivals  (* how many packets have arrived: their serial numbers   *)

svars == <<inbox, outbox, hand, arrivals>>

Outgoing(p)    == [kind |-> "out", who |-> p, num |-> 0]
Incoming(p, n) == [kind |-> "in",  who |-> p, num |-> n]

Init == /\ inbox = [p \in PID |-> << >>]
        /\ outbox = << >>
        /\ hand = [t \in App |-> NoPacket]
        /\ arrivals = 0

Compose(t) == /\ hand[t] = NoPacket
              /\ hand' = [hand EXCEPT ![t] = Outgoing(AppPid[t])]
              /\ UNCHANGED <<inbox, outbox, arrivals>>

Accept(t) == /\ hand[t] = Outgoing(AppPid[t])
             /\ outbox' = Append(outbox, hand[t])
             /\ hand' = [hand EXCEPT ![t] = NoPacket]
             /\ UNCHANGED <<inbox, arrivals>>

(* The oldest accepted packet is sent or abandoned. *)
Dispatch == /\ outbox # << >>
            /\ outbox' = Tail(outbox)
            /\ UNCHANGED <<inbox, hand, arrivals>>

Arrive(p) == /\ arrivals' = arrivals + 1
             /\ inbox' = [inbox EXCEPT ![p] = Append(@, Incoming(p, arrivals'))]
             /\ UNCHANGED <<outbox, hand>>

Discard(p) == /\ \E i \in DOMAIN inbox[p] :
                    inbox' = [inbox EXCEPT ![p] = RemoveAt(@, i)]
              /\ UNCHANGED <<outbox, hand, arrivals>>

Collect(t) == /\ hand[t] = NoPacket
              /\ inbox[AppPid[t]] # << >>
              /\ hand' = [hand EXCEPT ![t] = Head(inbox[AppPid[t]])]
              /\ inbox' = [inbox EXCEPT ![AppPid[t]] = Tail(@)]
              /\ UNCHANGED <<outbox, arrivals>>

(* A thread is done with what it read, or gives up what it composed. *)
Finish(t) == /\ hand[t] # NoPacket
             /\ hand' = [hand EXCEPT ![t] = NoPacket]
             /\ UNCHANGED <<inbox, outbox, arrivals>>

Next == \/ \E t \in App : Compose(t) \/ Accept(t) \/ Collect(t) \/ Finish(t)
        \/ \E p \in PID : Arrive(p) \/ Discard(p)
        \/ Dispatch

Spec == Init /\ [][Next]_svars
=============================================================================
