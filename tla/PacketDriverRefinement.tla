----------------------- MODULE PacketDriverRefinement -----------------------
(* PacketDriver implements PacketService.                                    *)
EXTENDS PacketDriver

(* The packet for p that the receiver has in pd, if there is one. *)
MailFor(p, pd) ==
    IF pd # NoPD /\ contents[pd].kind = "in" /\ contents[pd].who = p
    THEN <<contents[pd]>> ELSE << >>
Read(q) == [i \in DOMAIN q |-> contents[q[i]]]

(* Packets for p, oldest first: collectable, being delivered, in the device. *)
InboxOf(p) == Read(waiting_receives[p]) \o MailFor(p, full_pd) \o MailFor(p, curr_pd)

(* A packet leaves the service when send_thread stops trying to send it. *)
Sending == IF sendPc = "send" THEN <<contents[message]>> ELSE << >>
Outbox == Sending \o Read(waiting_PDs)

HandOf(t) == IF appPD[t] = NoPD THEN Blank ELSE contents[appPD[t]]

Service == INSTANCE PacketService WITH
    NoPacket <- Blank,
    inbox <- [p \in PID |-> InboxOf(p)],
    outbox <- Outbox,
    hand <- [t \in App |-> HandOf(t)]

(* In spite of descriptors that are recycled between the two directions, the *)
(* application threads see FIFO, exactly-once, unaltered packets up to       *)
(* drops: packetdriver.c as a whole, seen from its four calls.               *)
ImplementsService == Service!Spec
=============================================================================
