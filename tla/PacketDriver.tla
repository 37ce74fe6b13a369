---------------------------- MODULE PacketDriver ----------------------------
(* The driver of Projects/P2: a sender thread and a receiver thread that    *)
(* move packet descriptors (PDs) between a network device, a free           *)
(* descriptor store, a private receiver pool and bounded buffers, and the   *)
(* calls application threads make on it (packetdriver.c).                   *)
(*                                                                          *)
(* BoundedBuffer, FreePacketDescriptorStore and NetworkDevice come in       *)
(* libTH.a without source; each of their calls is one atomic step, as the   *)
(* mutexes their headers promise make it.  A C pointer that is dead until   *)
(* its next assignment is set to NoPD.                                      *)
EXTENDS Naturals, Sequences, FiniteSets, SequencesExt

CONSTANTS PD,                (* descriptors carved out of the driver's memory *)
          NoPD,
          PID,               (* 0..MAX_PID: the applications                  *)
          NoPID,
          App,               (* application threads                           *)
          AppPid,            (* the application each thread belongs to        *)
          RECEIVER_POOL,
          RECEIVED_BUF_SIZ,
          SENDING_LIMIT,
          MaxArrivals        (* bound: packets the network delivers           *)

(* Slots of the send queue: what is left of the descriptors. *)
SendQueueSize ==
    Cardinality(PD) - RECEIVER_POOL - Cardinality(PID) * RECEIVED_BUF_SIZ

(* The places a PD can be in besides the applications' buffers and threads. *)
DriverPlace == {"store", "pool", "sendq", "sender", "current", "full"}

ASSUME ConstantsOK ==
    /\ NoPD \notin PD
    /\ PID \cap App = {} /\ (PID \cup App) \cap DriverPlace = {}
    /\ NoPID \notin PID
    /\ \A t \in App : AppPid[t] \in PID
    /\ RECEIVER_POOL \in Nat \ {0}
    /\ RECEIVED_BUF_SIZ \in Nat \ {0}
    /\ SENDING_LIMIT \in Nat \ {0}
    /\ MaxArrivals \in Nat
    /\ SendQueueSize \in Nat \ {0}

VARIABLES initPc,           (* where init_packet_driver is                    *)
          free_pds,         (* the FreePacketDescriptorStore                  *)
          PD_receiver_pool,
          waiting_PDs,      (* the send queue                                 *)
          waiting_receives, (* per application, packets to be collected       *)
          sendPc, message, nsends,      (* send_thread                        *)
          recvPc, curr_pd, full_pd,     (* receive_thread                     *)
          registered,       (* the PD the device will fill next               *)
          contents,         (* what each PD's memory holds                    *)
          appPc, appPD,     (* per application thread                         *)
          arrivals          (* packets delivered so far: their serial numbers *)

buffers  == <<PD_receiver_pool, waiting_PDs, waiting_receives>>
sender   == <<sendPc, message, nsends>>
receiver == <<recvPc, curr_pd, full_pd>>
device   == <<registered, arrivals>>
apps     == <<appPc, appPD>>
vars == <<initPc, free_pds, buffers, sender, receiver, device, contents, apps>>

(* A PD back from use holds a stale packet until initPD or an application  *)
(* overwrites it.                                                           *)
Blank          == [kind |-> "blank", who |-> NoPID, num |-> 0]
Stale          == [kind |-> "stale", who |-> NoPID, num |-> 0]
Outgoing(p)    == [kind |-> "out",   who |-> p,     num |-> 0]
Incoming(p, n) == [kind |-> "in",    who |-> p,     num |-> n]
Packet == {Blank, Stale} \cup {Outgoing(p) : p \in PID} \cup [kind : {"in"}, who : PID, num : Nat]
-----------------------------------------------------------------------------
(* The bounded buffer: a FIFO of at most size items. *)
HasRoom(q, size) == Len(q) < size

(* Mutant: the PD is handed to the device without initPD. *)
RegisterWithoutInit(pd) == registered' = pd /\ UNCHANGED <<contents, arrivals>>
(* initPD and registerPD: nothing but the receiver can reach pd before it is *)
(* registered, so the two calls are one step.                                *)
InitAndRegister(pd) == /\ contents' = [contents EXCEPT ![pd] = Blank]
                       /\ registered' = pd
                       /\ UNCHANGED arrivals

(* nonblocking_put_pd gives pd to the pool if it has room; if not, a later   *)
(* step of the same thread gives it to the store.                            *)
PutInPool(pd) == /\ HasRoom(PD_receiver_pool, RECEIVER_POOL)
                 /\ PD_receiver_pool' = Append(PD_receiver_pool, pd)
                 /\ contents' = [contents EXCEPT ![pd] = Stale]
                 /\ UNCHANGED <<waiting_PDs, waiting_receives>>
PutInStore(pd) == /\ free_pds' = free_pds \cup {pd}
                  /\ contents' = [contents EXCEPT ![pd] = Stale]
                  /\ UNCHANGED buffers
PoolFull == ~HasRoom(PD_receiver_pool, RECEIVER_POOL)
-----------------------------------------------------------------------------
Init == /\ initPc = "fill"
        /\ free_pds = PD
        /\ PD_receiver_pool = << >>
        /\ waiting_PDs = << >>
        /\ waiting_receives = [p \in PID |-> << >>]
        /\ sendPc = "off" /\ message = NoPD /\ nsends = 0
        /\ recvPc = "off" /\ curr_pd = NoPD /\ full_pd = NoPD
        /\ registered = NoPD
        /\ contents = [pd \in PD |-> Stale]
        /\ appPc = [t \in App |-> "idle"]
        /\ appPD = [t \in App |-> NoPD]
        /\ arrivals = 0

(* init_packet_driver: blockingGet and blockingWrite once per pool slot. *)
InitFillPool == /\ initPc = "fill"
                /\ HasRoom(PD_receiver_pool, RECEIVER_POOL)
                /\ \E pd \in free_pds :
                     /\ free_pds' = free_pds \ {pd}
                     /\ PD_receiver_pool' = Append(PD_receiver_pool, pd)
                /\ UNCHANGED <<initPc, waiting_PDs, waiting_receives, sender,
                               receiver, device, contents, apps>>

InitStartSender == /\ initPc = "fill"
                   /\ PoolFull
                   /\ initPc' = "sender"
                   /\ sendPc' = "read"
                   /\ UNCHANGED <<free_pds, buffers, message, nsends, receiver,
                                  device, contents, apps>>

InitStartReceiver == /\ initPc = "sender"
                     /\ initPc' = "done"
                     /\ recvPc' = "firstGet"
                     /\ UNCHANGED <<free_pds, buffers, sender, curr_pd, full_pd,
                                    device, contents, apps>>
-----------------------------------------------------------------------------
(* send_thread *)
SenderRead == /\ sendPc = "read"
              /\ waiting_PDs # << >>
              /\ message' = Head(waiting_PDs)
              /\ waiting_PDs' = Tail(waiting_PDs)
              /\ nsends' = 0
              /\ sendPc' = "send"
              /\ UNCHANGED <<initPc, free_pds, PD_receiver_pool, waiting_receives,
                             receiver, device, contents, apps>>

(* One sendPacket call: it works, fails for the last time, or is retried. *)
SenderSend == /\ sendPc = "send"
              /\ \E sent \in BOOLEAN :
                   /\ sendPc' = IF sent \/ nsends + 1 = SENDING_LIMIT THEN "put" ELSE "send"
                   /\ nsends' = nsends + 1
              /\ UNCHANGED <<initPc, free_pds, buffers, message, receiver, device,
                             contents, apps>>

(* Mutant: having given the PD to the pool, nonblocking_put_pd goes on to the store. *)
SenderPutBoth == /\ sendPc = "put"
                 /\ PutInPool(message)
                 /\ sendPc' = "putStore"
                 /\ UNCHANGED <<initPc, free_pds, message, nsends, receiver, device, apps>>
SenderPutPool == /\ sendPc = "put"
                 /\ PutInPool(message)
                 /\ message' = NoPD
                 /\ sendPc' = "read"
                 /\ UNCHANGED <<initPc, free_pds, nsends, receiver, device, apps>>

(* Mutant: a blockingWrite to the pool. *)
SenderWaitsForPool == sendPc = "put" /\ PoolFull /\ UNCHANGED vars
SenderPoolFull == /\ sendPc = "put"
                  /\ PoolFull
                  /\ sendPc' = "putStore"
                  /\ UNCHANGED <<initPc, free_pds, buffers, message, nsends, receiver,
                                 device, contents, apps>>

SenderPutStore == /\ sendPc = "putStore"
                  /\ PutInStore(message)
                  /\ message' = NoPD
                  /\ sendPc' = "read"
                  /\ UNCHANGED <<initPc, nsends, receiver, device, apps>>
-----------------------------------------------------------------------------
(* receive_thread *)
ReceiverFirstGet == /\ recvPc = "firstGet"
                    /\ \E pd \in free_pds :
                         /\ curr_pd' = pd
                         /\ free_pds' = free_pds \ {pd}
                    /\ recvPc' = "firstRegister"
                    /\ UNCHANGED <<initPc, buffers, sender, full_pd, device, contents, apps>>

ReceiverFirstRegister == /\ recvPc = "firstRegister"
                         /\ InitAndRegister(curr_pd)
                         /\ recvPc' = "await"
                         /\ UNCHANGED <<initPc, free_pds, buffers, sender, curr_pd, full_pd, apps>>

(* awaitIncomingPacket returns once the device has filled the registered PD. *)
ReceiverAwait == /\ recvPc = "await"
                 /\ registered = NoPD
                 /\ full_pd' = curr_pd
                 /\ curr_pd' = NoPD
                 /\ recvPc' = "getPool"
                 /\ UNCHANGED <<initPc, free_pds, buffers, sender, device, contents, apps>>

(* nonblocking_get_pd: the pool, then the store, without waiting for either. *)
ReceiverGetPool == /\ recvPc = "getPool"
                   /\ PD_receiver_pool # << >>
                   /\ curr_pd' = Head(PD_receiver_pool)
                   /\ PD_receiver_pool' = Tail(PD_receiver_pool)
                   /\ recvPc' = "register"
                   /\ UNCHANGED <<initPc, free_pds, waiting_PDs, waiting_receives, sender,
                                  full_pd, device, contents, apps>>

ReceiverPoolEmpty == /\ recvPc = "getPool"
                     /\ PD_receiver_pool = << >>
                     /\ recvPc' = "getStore"
                     /\ UNCHANGED <<initPc, free_pds, buffers, sender, curr_pd, full_pd,
                                    device, contents, apps>>

ReceiverGetStore == /\ recvPc = "getStore"
                    /\ \E pd \in free_pds :
                         /\ curr_pd' = pd
                         /\ free_pds' = free_pds \ {pd}
                    /\ recvPc' = "register"
                    /\ UNCHANGED <<initPc, buffers, sender, full_pd, device, contents, apps>>

(* Mutant: a blockingGet from the store. *)
ReceiverWaitsForStore == recvPc = "getStore" /\ free_pds = {} /\ UNCHANGED vars
(* Nothing free: the packet just received is lost and its PD is used again. *)
ReceiverReuse == /\ recvPc = "getStore"
                 /\ free_pds = {}
                 /\ curr_pd' = full_pd
                 /\ full_pd' = NoPD
                 /\ InitAndRegister(full_pd)
                 /\ recvPc' = "await"
                 /\ UNCHANGED <<initPc, free_pds, buffers, sender, apps>>

(* Mutant: initPD of the PD just filled. *)
ReceiverInitsFullPD == /\ recvPc = "register"
                       /\ registered' = curr_pd
                       /\ contents' = [contents EXCEPT ![full_pd] = Blank]
                       /\ recvPc' = "deliver"
                       /\ UNCHANGED <<initPc, free_pds, buffers, sender, curr_pd, full_pd,
                                      arrivals, apps>>
ReceiverRegister == /\ recvPc = "register"
                    /\ InitAndRegister(curr_pd)
                    /\ recvPc' = "deliver"
                    /\ UNCHANGED <<initPc, free_pds, buffers, sender, curr_pd, full_pd, apps>>

(* Mutant: the buffer is a stack. *)
ReceiverDeliverFirst ==
    LET p == contents[full_pd].who
    IN  /\ recvPc = "deliver"
        /\ HasRoom(waiting_receives[p], RECEIVED_BUF_SIZ)
        /\ waiting_receives' = [waiting_receives EXCEPT ![p] = <<full_pd>> \o @]
        /\ full_pd' = NoPD
        /\ recvPc' = "await"
        /\ UNCHANGED <<initPc, free_pds, PD_receiver_pool, waiting_PDs, sender, curr_pd,
                       device, contents, apps>>
(* getPID and nonblockingWrite to that application's buffer. *)
ReceiverDeliver ==
    LET p == contents[full_pd].who
    IN  /\ recvPc = "deliver"
        /\ HasRoom(waiting_receives[p], RECEIVED_BUF_SIZ)
        /\ waiting_receives' = [waiting_receives EXCEPT ![p] = Append(@, full_pd)]
        /\ full_pd' = NoPD
        /\ recvPc' = "await"
        /\ UNCHANGED <<initPc, free_pds, PD_receiver_pool, waiting_PDs, sender, curr_pd,
                       device, contents, apps>>

(* Mutant: a packet that does not fit is forgotten with its PD. *)
ReceiverLeaks == /\ recvPc = "deliver"
                 /\ ~HasRoom(waiting_receives[contents[full_pd].who], RECEIVED_BUF_SIZ)
                 /\ full_pd' = NoPD
                 /\ recvPc' = "await"
                 /\ UNCHANGED <<initPc, free_pds, buffers, sender, curr_pd, device, contents, apps>>

ReceiverBufferFull ==
    /\ recvPc = "deliver"
    /\ ~HasRoom(waiting_receives[contents[full_pd].who], RECEIVED_BUF_SIZ)
    /\ recvPc' = "put"
    /\ UNCHANGED <<initPc, free_pds, buffers, sender, curr_pd, full_pd, device, contents, apps>>

ReceiverPutPool == /\ recvPc = "put"
                   /\ PutInPool(full_pd)
                   /\ full_pd' = NoPD
                   /\ recvPc' = "await"
                   /\ UNCHANGED <<initPc, free_pds, sender, curr_pd, device, apps>>

ReceiverPoolFull == /\ recvPc = "put"
                    /\ PoolFull
                    /\ recvPc' = "putStore"
                    /\ UNCHANGED <<initPc, free_pds, buffers, sender, curr_pd, full_pd,
                                   device, contents, apps>>

ReceiverPutStore == /\ recvPc = "putStore"
                    /\ PutInStore(full_pd)
                    /\ full_pd' = NoPD
                    /\ recvPc' = "await"
                    /\ UNCHANGED <<initPc, sender, curr_pd, device, apps>>
-----------------------------------------------------------------------------
(* The device fills the registered PD, and forgets it.  A packet arriving    *)
(* when no PD is registered is lost on the wire and changes nothing here.    *)
NetworkArrive(p) == /\ registered # NoPD
                    /\ arrivals < MaxArrivals
                    /\ arrivals' = arrivals + 1
                    /\ contents' = [contents EXCEPT ![registered] = Incoming(p, arrivals')]
                    /\ registered' = NoPD
                    /\ UNCHANGED <<initPc, free_pds, buffers, sender, receiver, apps>>
-----------------------------------------------------------------------------
(* Application threads, which start once init_packet_driver has returned.    *)
(* Each takes PDs from the store handed back to it, fills and sends them,    *)
(* collects its packets, and returns those PDs to the store.                 *)
AppGoto(t, from, to) == /\ initPc = "done"
                        /\ appPc[t] = from
                        /\ appPc' = [appPc EXCEPT ![t] = to]

AppCompose(t) == /\ AppGoto(t, "idle", "composed")
                 /\ \E pd \in free_pds :
                      /\ free_pds' = free_pds \ {pd}
                      /\ appPD' = [appPD EXCEPT ![t] = pd]
                      /\ contents' = [contents EXCEPT ![pd] = Outgoing(AppPid[t])]
                 /\ UNCHANGED <<initPc, buffers, sender, receiver, device>>

(* Mutant: a write that does not look for room. *)
SendQueueOverrun(t) == /\ waiting_PDs' = Append(waiting_PDs, appPD[t])
                       /\ appPD' = [appPD EXCEPT ![t] = NoPD]
                       /\ UNCHANGED <<initPc, free_pds, PD_receiver_pool, waiting_receives,
                                      sender, receiver, device, contents>>
(* The write both send calls end in. *)
SendQueueWrite(t) == /\ HasRoom(waiting_PDs, SendQueueSize)
                     /\ waiting_PDs' = Append(waiting_PDs, appPD[t])
                     /\ appPD' = [appPD EXCEPT ![t] = NoPD]
                     /\ UNCHANGED <<initPc, free_pds, PD_receiver_pool, waiting_receives,
                                    sender, receiver, device, contents>>

(* A nonblocking send that finds no room returns 0 and changes nothing: the  *)
(* thread still holds its PD.                                                *)
nonblocking_send_packet(t) == AppGoto(t, "composed", "idle") /\ SendQueueWrite(t)

(* A blocking send commits the thread to wait for room. *)
BlockingSendCall(t) == /\ AppGoto(t, "composed", "sending")
                       /\ UNCHANGED <<initPc, free_pds, buffers, sender, receiver, device,
                                      contents, appPD>>
blocking_send_packet(t) == AppGoto(t, "sending", "idle") /\ SendQueueWrite(t)

(* The read both receive calls end in. *)
ReceivedRead(t) == /\ waiting_receives[AppPid[t]] # << >>
                   /\ appPD' = [appPD EXCEPT ![t] = Head(waiting_receives[AppPid[t]])]
                   /\ waiting_receives' = [waiting_receives EXCEPT ![AppPid[t]] = Tail(@)]
                   /\ UNCHANGED <<initPc, free_pds, PD_receiver_pool, waiting_PDs, sender,
                                  receiver, device, contents>>

nonblocking_get_packet(t) == AppGoto(t, "idle", "received") /\ ReceivedRead(t)

BlockingGetCall(t) == /\ AppGoto(t, "idle", "getting")
                      /\ UNCHANGED <<initPc, free_pds, buffers, sender, receiver, device,
                                     contents, appPD>>
blocking_get_packet(t) == AppGoto(t, "getting", "received") /\ ReceivedRead(t)

(* The thread has read its packet, or gives up one it could not send. *)
AppRelease(t) == /\ appPc[t] \in {"composed", "received"}
                 /\ AppGoto(t, appPc[t], "idle")
                 /\ PutInStore(appPD[t])
                 /\ appPD' = [appPD EXCEPT ![t] = NoPD]
                 /\ UNCHANGED <<initPc, sender, receiver, device>>
-----------------------------------------------------------------------------
InitStep == InitFillPool \/ InitStartSender \/ InitStartReceiver

send_thread == SenderRead \/ SenderSend \/ SenderPutPool \/ SenderPoolFull \/ SenderPutStore

receive_thread ==
    \/ ReceiverFirstGet \/ ReceiverFirstRegister
    \/ ReceiverAwait \/ ReceiverGetPool \/ ReceiverPoolEmpty \/ ReceiverGetStore
    \/ ReceiverReuse \/ ReceiverRegister \/ ReceiverDeliver \/ ReceiverBufferFull
    \/ ReceiverPutPool \/ ReceiverPoolFull \/ ReceiverPutStore

AppStep(t) ==
    \/ AppCompose(t) \/ nonblocking_send_packet(t) \/ BlockingSendCall(t)
    \/ blocking_send_packet(t) \/ nonblocking_get_packet(t) \/ BlockingGetCall(t)
    \/ blocking_get_packet(t) \/ AppRelease(t)

Next == \/ InitStep
        \/ send_thread
        \/ receive_thread
        \/ \E p \in PID : NetworkArrive(p)
        \/ \E t \in App : AppStep(t)

Spec == Init /\ [][Next]_vars
-----------------------------------------------------------------------------
TypeOK ==
    /\ initPc \in {"fill", "sender", "done"}
    /\ free_pds \subseteq PD
    /\ PD_receiver_pool \in Seq(PD) /\ Len(PD_receiver_pool) <= RECEIVER_POOL
    /\ waiting_PDs \in Seq(PD) /\ Len(waiting_PDs) <= SendQueueSize
    /\ waiting_receives \in [PID -> Seq(PD)]
    /\ \A p \in PID : Len(waiting_receives[p]) <= RECEIVED_BUF_SIZ
    /\ sendPc \in {"off", "read", "send", "put", "putStore"}
    /\ message \in PD \cup {NoPD}
    /\ nsends \in 0..SENDING_LIMIT
    /\ recvPc \in {"off", "firstGet", "firstRegister", "await", "getPool", "getStore",
                  "register", "deliver", "put", "putStore"}
    /\ curr_pd \in PD \cup {NoPD}
    /\ full_pd \in PD \cup {NoPD}
    /\ registered \in PD \cup {NoPD}
    /\ contents \in [PD -> Packet]
    /\ appPc \in [App -> {"idle", "composed", "sending", "getting", "received"}]
    /\ appPD \in [App -> PD \cup {NoPD}]
    /\ arrivals \in 0..MaxArrivals

(* Where a PD can be: in a shared structure, with a driver thread, in an     *)
(* application's buffer or with an application thread.                       *)
Place == DriverPlace \cup PID \cup App
At(l) == CASE l = "store"   -> free_pds
           [] l = "pool"    -> ToSet(PD_receiver_pool)
           [] l = "sendq"   -> ToSet(waiting_PDs)
           [] l = "sender"  -> {message} \ {NoPD}
           [] l = "current" -> {curr_pd} \ {NoPD}
           [] l = "full"    -> {full_pd} \ {NoPD}
           [] l \in PID     -> ToSet(waiting_receives[l])
           [] l \in App     -> {appPD[l]} \ {NoPD}

(* No PD is lost: whatever the threads, the network and the applications do, *)
(* each is somewhere it will come back from, also when a send is given up,   *)
(* a packet is dropped or the pool is full (nonblocking_put_pd).             *)
NoDescriptorLost == \A pd \in PD : \E l \in Place : pd \in At(l)

(* No PD is in two hands at once, or twice in one queue: no thread writes    *)
(* into memory that another one still reads or fills.                        *)
PlacesDisjoint == \A l, m \in Place : l # m => At(l) \cap At(m) = {}
NoRepeats == /\ IsInjective(PD_receiver_pool)
             /\ IsInjective(waiting_PDs)
             /\ \A p \in PID : IsInjective(waiting_receives[p])
NoDescriptorShared == PlacesDisjoint /\ NoRepeats

(* Outside the few steps between a packet's arrival and the next registerPD, *)
(* the device has a clean PD to fill or has just filled it, and that PD is   *)
(* the one receive_thread will take next.                                    *)
DeviceReady ==
    /\ registered # NoPD => registered = curr_pd /\ contents[curr_pd] = Blank
    /\ recvPc \in {"await", "deliver", "put", "putStore"} =>
          /\ curr_pd # NoPD
          /\ registered = NoPD => contents[curr_pd].kind = "in"

(* A packet is not overwritten or misrouted on its way: the send queue and   *)
(* the sender hold what an application composed; an application's buffer and *)
(* its threads hold packets addressed to it.                                 *)
PacketsIntact ==
    /\ \A pd \in At("sendq") \cup At("sender") : contents[pd].kind = "out"
    /\ \A pd \in At("full") : contents[pd].kind = "in"
    /\ \A p \in PID : \A pd \in At(p) : contents[pd].kind = "in" /\ contents[pd].who = p
    /\ \A t \in App : \A pd \in At(t) :
          IF appPc[t] = "received"
          THEN contents[pd].kind = "in" /\ contents[pd].who = AppPid[t]
          ELSE contents[pd] = Outgoing(AppPid[t])
-----------------------------------------------------------------------------
(* The threads run: sendPacket returns, and a thread that can take a step    *)
(* does.  Nothing is assumed of the network or the applications.             *)
FairSpec == Spec /\ WF_vars(InitStep) /\ WF_vars(send_thread) /\ WF_vars(receive_thread)

(* Every packet accepted for sending is sent or given up within              *)
(* SENDING_LIMIT calls, and its PD is free again, whatever the receiver and  *)
(* the applications do: send_thread never waits for anything but work.       *)
SentDescriptorReturns ==
    \A pd \in PD : pd \in ToSet(waiting_PDs)
                     ~> pd \in free_pds \cup ToSet(PD_receiver_pool)

(* Once running, receive_thread is always back at awaitIncomingPacket: it    *)
(* never waits for a free PD or for an application to collect its mail.      *)
ReceiverReturnsToDevice ==
    recvPc \notin {"off", "firstGet", "await"} ~> recvPc = "await"

(* packetdriver.h, on the receive calls: extra packets may be discarded "if  *)
(* at least one is waiting uncollected for the same PID".                    *)
DiscardsOnlyExtraPackets ==
    [][ReceiverReuse \/ ReceiverBufferFull
         => waiting_receives[contents[full_pd].who] # << >>]_vars
=============================================================================
