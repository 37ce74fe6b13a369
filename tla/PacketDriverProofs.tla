------------------------- MODULE PacketDriverProofs -------------------------
(* Theorems of PacketDriver for any number of descriptors, applications and  *)
(* threads, and any sizes of pool and buffers: types, ownership, contents,   *)
(* and that the driver implements PacketService.                             *)
EXTENDS PacketDriverRefinement, SequenceTheorems, TLAPS

-----------------------------------------------------------------------------
(* Bounded buffers *)

LEMMA AppendType ==
    ASSUME NEW S, NEW q \in Seq(S), NEW e \in S
    PROVE  Append(q, e) \in Seq(S) /\ Len(Append(q, e)) = Len(q) + 1
OBVIOUS

LEMMA TailType ==
    ASSUME NEW S, NEW q \in Seq(S), q # << >>
    PROVE  /\ Head(q) \in S
           /\ Tail(q) \in Seq(S)
           /\ Len(Tail(q)) = Len(q) - 1
           /\ Len(q) \in Nat
OBVIOUS

(* A write that found room leaves the buffer within its size. *)
LEMMA WriteBounded ==
    ASSUME NEW S, NEW q \in Seq(S), NEW e \in S, NEW size \in Nat, HasRoom(q, size)
    PROVE  Append(q, e) \in Seq(S) /\ Len(Append(q, e)) <= size
BY AppendType DEF HasRoom

(* So does a read. *)
LEMMA ReadBounded ==
    ASSUME NEW S, NEW q \in Seq(S), q # << >>, NEW size \in Nat, Len(q) <= size
    PROVE  Head(q) \in S /\ Tail(q) \in Seq(S) /\ Len(Tail(q)) <= size
BY TailType
-----------------------------------------------------------------------------
(* Where a thread is tells which descriptors it holds. *)
HoldsOK ==
    /\ message # NoPD <=> sendPc \in {"send", "put", "putStore"}
    /\ curr_pd # NoPD <=> recvPc \in {"firstRegister", "await", "register",
                                      "deliver", "put", "putStore"}
    /\ full_pd # NoPD <=> recvPc \in {"getPool", "getStore", "register",
                                      "deliver", "put", "putStore"}
    /\ \A t \in App : appPD[t] # NoPD <=> appPc[t] \in {"composed", "sending", "received"}
    /\ initPc # "done" => \A t \in App : appPc[t] = "idle"
    /\ sendPc = "off" <=> initPc = "fill"
    /\ recvPc = "off" <=> initPc # "done"
    /\ registered # NoPD => registered = curr_pd
    /\ sendPc = "send" => nsends < SENDING_LIMIT

TypeInv == TypeOK /\ HoldsOK

LEMMA PacketTypes ==
    /\ Blank \in Packet /\ Stale \in Packet
    /\ \A p \in PID : Outgoing(p) \in Packet
    /\ \A p \in PID : \A n \in Nat : Incoming(p, n) \in Packet
BY DEF Packet, Blank, Stale, Outgoing, Incoming

LEMMA TypeInvInit == Init => TypeInv
BY ConstantsOK, PacketTypes DEF Init, TypeInv, TypeOK, HoldsOK

LEMMA TypeInvStep == TypeInv /\ [Next]_vars => TypeInv'
<1> SUFFICES ASSUME TypeInv, [Next]_vars
             PROVE  TypeInv'
  OBVIOUS
<1> USE ConstantsOK, PacketTypes
    DEF TypeInv, TypeOK, HoldsOK, buffers, sender, receiver, device, apps
<1>1. CASE InitFillPool
  BY <1>1, WriteBounded DEF InitFillPool
<1>2. CASE InitStartSender
  BY <1>2 DEF InitStartSender, PoolFull
<1>3. CASE InitStartReceiver
  BY <1>3 DEF InitStartReceiver
<1>4. CASE SenderRead
  BY <1>4, ReadBounded DEF SenderRead
<1>5. CASE SenderSend
  BY <1>5 DEF SenderSend
<1>6. CASE SenderPutPool
  BY <1>6, WriteBounded DEF SenderPutPool, PutInPool
<1>7. CASE SenderPoolFull
  BY <1>7 DEF SenderPoolFull, PoolFull
<1>8. CASE SenderPutStore
  BY <1>8 DEF SenderPutStore, PutInStore
<1>9. CASE ReceiverFirstGet
  BY <1>9 DEF ReceiverFirstGet
<1>10. CASE ReceiverFirstRegister
  BY <1>10 DEF ReceiverFirstRegister, InitAndRegister
<1>11. CASE ReceiverAwait
  BY <1>11 DEF ReceiverAwait
<1>12. CASE ReceiverGetPool
  BY <1>12, ReadBounded DEF ReceiverGetPool
<1>13. CASE ReceiverPoolEmpty
  BY <1>13 DEF ReceiverPoolEmpty
<1>14. CASE ReceiverGetStore
  BY <1>14 DEF ReceiverGetStore
<1>15. CASE ReceiverReuse
  BY <1>15 DEF ReceiverReuse, InitAndRegister
<1>16. CASE ReceiverRegister
  BY <1>16 DEF ReceiverRegister, InitAndRegister
<1>17. CASE ReceiverDeliver
  BY <1>17, WriteBounded DEF ReceiverDeliver
<1>18. CASE ReceiverBufferFull
  BY <1>18 DEF ReceiverBufferFull
<1>19. CASE ReceiverPutPool
  BY <1>19, WriteBounded DEF ReceiverPutPool, PutInPool
<1>20. CASE ReceiverPoolFull
  BY <1>20 DEF ReceiverPoolFull, PoolFull
<1>21. CASE ReceiverPutStore
  BY <1>21 DEF ReceiverPutStore, PutInStore
<1>22. ASSUME NEW p \in PID, NetworkArrive(p) PROVE TypeInv'
  BY <1>22 DEF NetworkArrive
<1>23. ASSUME NEW t \in App, AppCompose(t) PROVE TypeInv'
  BY <1>23 DEF AppCompose, AppGoto
<1>24. ASSUME NEW t \in App, nonblocking_send_packet(t) PROVE TypeInv'
  BY <1>24, WriteBounded DEF nonblocking_send_packet, AppGoto, SendQueueWrite
<1>25. ASSUME NEW t \in App, BlockingSendCall(t) PROVE TypeInv'
  BY <1>25 DEF BlockingSendCall, AppGoto
<1>26. ASSUME NEW t \in App, blocking_send_packet(t) PROVE TypeInv'
  BY <1>26, WriteBounded DEF blocking_send_packet, AppGoto, SendQueueWrite
<1>27. ASSUME NEW t \in App, nonblocking_get_packet(t) PROVE TypeInv'
  <2> DEFINE q == waiting_receives[AppPid[t]]
  <2>1. Head(q) \in PD /\ Tail(q) \in Seq(PD) /\ Len(Tail(q)) <= RECEIVED_BUF_SIZ
    BY <1>27, ReadBounded DEF nonblocking_get_packet, ReceivedRead
  <2> QED
    BY <1>27, <2>1 DEF nonblocking_get_packet, AppGoto, ReceivedRead
<1>28. ASSUME NEW t \in App, BlockingGetCall(t) PROVE TypeInv'
  BY <1>28 DEF BlockingGetCall, AppGoto
<1>29. ASSUME NEW t \in App, blocking_get_packet(t) PROVE TypeInv'
  <2> DEFINE q == waiting_receives[AppPid[t]]
  <2>1. Head(q) \in PD /\ Tail(q) \in Seq(PD) /\ Len(Tail(q)) <= RECEIVED_BUF_SIZ
    BY <1>29, ReadBounded DEF blocking_get_packet, ReceivedRead
  <2> QED
    BY <1>29, <2>1 DEF blocking_get_packet, AppGoto, ReceivedRead
<1>30. ASSUME NEW t \in App, AppRelease(t) PROVE TypeInv'
  BY <1>30 DEF AppRelease, AppGoto, PutInStore
<1>31. CASE UNCHANGED vars
  BY <1>31 DEF vars
<1> QED
  BY <1>1, <1>2, <1>3, <1>4, <1>5, <1>6, <1>7, <1>8, <1>9, <1>10, <1>11, <1>12, <1>13, <1>14, <1>15, <1>16, <1>17, <1>18, <1>19, <1>20, <1>21, <1>22, <1>23, <1>24, <1>25, <1>26, <1>27, <1>28, <1>29, <1>30, <1>31
     DEF Next, InitStep, send_thread, receive_thread, AppStep

(* The driver's variables keep their types, its buffers their sizes and its  *)
(* threads exactly the descriptors their position says they hold.            *)
THEOREM TypeCorrect == Spec => []TypeOK
<1>1. Spec => []TypeInv
  BY TypeInvInit, TypeInvStep, PTL DEF Spec
<1>2. TypeInv => TypeOK
  BY DEF TypeInv
<1> QED
  BY <1>1, <1>2, PTL
-----------------------------------------------------------------------------
(* Queues without repetition *)

LEMMA AppendElements ==
    ASSUME NEW S, NEW q \in Seq(S), NEW e \in S
    PROVE  /\ ToSet(Append(q, e)) = ToSet(q) \cup {e}
           /\ IsInjective(q) /\ e \notin ToSet(q) => IsInjective(Append(q, e))
<1> DEFINE r == Append(q, e)
<1>1. /\ r \in Seq(S) /\ Len(r) = Len(q) + 1 /\ Len(q) \in Nat
      /\ \A i \in 1..Len(q) : r[i] = q[i]
      /\ r[Len(q) + 1] = e
  OBVIOUS
<1>2. DOMAIN r = 1..(Len(q) + 1) /\ DOMAIN q = 1..Len(q)
  BY <1>1
<1> HIDE DEF r
<1>3. DOMAIN r = DOMAIN q \cup {Len(q) + 1}
  BY <1>1, <1>2
<1>4. ToSet(r) = ToSet(q) \cup {e}
  BY <1>1, <1>2, <1>3 DEF ToSet
<1>5. IsInjective(q) /\ e \notin ToSet(q) => IsInjective(r)
  BY <1>1, <1>2, <1>3 DEF ToSet, IsInjective
<1> QED
  BY <1>4, <1>5 DEF r

LEMMA TailElements ==
    ASSUME NEW S, NEW q \in Seq(S), q # << >>, IsInjective(q)
    PROVE  /\ Head(q) \in ToSet(q)
           /\ ToSet(Tail(q)) = ToSet(q) \ {Head(q)}
           /\ IsInjective(Tail(q))
<1> DEFINE r == Tail(q)
<1>1. /\ r \in Seq(S) /\ Len(r) = Len(q) - 1 /\ Len(q) \in Nat \ {0}
      /\ \A i \in 1..Len(r) : r[i] = q[i + 1]
      /\ Head(q) = q[1]
  OBVIOUS
<1>2. DOMAIN r = 1..(Len(q) - 1) /\ DOMAIN q = 1..Len(q)
  BY <1>1
<1> HIDE DEF r
<1>3. ASSUME NEW i \in DOMAIN q, i # 1 PROVE i - 1 \in DOMAIN r /\ r[i - 1] = q[i]
  BY <1>1, <1>2, <1>3
<1>4. ASSUME NEW i \in DOMAIN r PROVE i + 1 \in DOMAIN q /\ i + 1 # 1 /\ r[i] = q[i + 1]
  BY <1>1, <1>2, <1>4
<1>5. 1 \in DOMAIN q
  BY <1>1, <1>2
<1>6. IsInjective(r)
  BY <1>2, <1>4 DEF IsInjective
<1>7. ToSet(r) \subseteq ToSet(q) \ {Head(q)}
  BY <1>1, <1>2, <1>4, <1>5 DEF ToSet, IsInjective
<1>8. ToSet(q) \ {Head(q)} \subseteq ToSet(r)
  BY <1>1, <1>3 DEF ToSet
<1> QED
  BY <1>1, <1>5, <1>6, <1>7, <1>8 DEF r, ToSet
-----------------------------------------------------------------------------
(* Ownership: every step moves at most one PD, from the place that has it to *)
(* another.                                                                  *)
LEMMA AtPlaces ==
    /\ At("store") = free_pds
    /\ At("pool") = ToSet(PD_receiver_pool)
    /\ At("sendq") = ToSet(waiting_PDs)
    /\ At("sender") = {message} \ {NoPD}
    /\ At("current") = {curr_pd} \ {NoPD}
    /\ At("full") = {full_pd} \ {NoPD}
    /\ \A p \in PID : At(p) = ToSet(waiting_receives[p])
    /\ \A t \in App : At(t) = {appPD[t]} \ {NoPD}
BY ConstantsOK DEF At, DriverPlace

LEMMA AtPlacesPrime ==
    /\ At("store")' = free_pds'
    /\ At("pool")' = ToSet(PD_receiver_pool')
    /\ At("sendq")' = ToSet(waiting_PDs')
    /\ At("sender")' = {message'} \ {NoPD}
    /\ At("current")' = {curr_pd'} \ {NoPD}
    /\ At("full")' = {full_pd'} \ {NoPD}
    /\ \A p \in PID : At(p)' = ToSet(waiting_receives'[p])
    /\ \A t \in App : At(t)' = {appPD'[t]} \ {NoPD}
BY ConstantsOK DEF At, DriverPlace

LEMMA PlacesDiffer ==
    /\ DriverPlace \subseteq Place /\ PID \subseteq Place /\ App \subseteq Place
    /\ \A p \in PID : p \notin DriverPlace /\ p \notin App
    /\ \A t \in App : t \notin DriverPlace /\ t \notin PID
BY ConstantsOK DEF Place

Moves(pd, a, b) ==
    /\ a # b /\ pd \in At(a)
    /\ At(a)' = At(a) \ {pd}
    /\ At(b)' = At(b) \cup {pd}
    /\ \A l \in Place \ {a, b} : At(l)' = At(l)

Stays == \A l \in Place : At(l)' = At(l)

LEMMA MovesKeepsDisjoint ==
    ASSUME NEW a \in Place, NEW b \in Place, NEW pd, Moves(pd, a, b), PlacesDisjoint
    PROVE  PlacesDisjoint'
BY DEF Moves, PlacesDisjoint

LEMMA MovesKeepsAll ==
    ASSUME NEW a \in Place, NEW b \in Place, NEW pd, Moves(pd, a, b), NoDescriptorLost
    PROVE  NoDescriptorLost'
BY DEF Moves, NoDescriptorLost

(* One lemma per driver action that moves a PD. *)

LEMMA InitFillPoolMoves ==
    ASSUME TypeInv, NoDescriptorShared, InitFillPool
    PROVE  (\E pd \in PD : Moves(pd, "store", "pool")) /\ NoRepeats'
<1>1. PICK pd \in free_pds :
      /\ pd \in PD /\ pd # NoPD
      /\ free_pds' = free_pds \ {pd}
      /\ PD_receiver_pool \in Seq(PD) /\ PD_receiver_pool' = Append(PD_receiver_pool, pd)
      /\ UNCHANGED <<waiting_PDs, waiting_receives, message, curr_pd, full_pd, appPD>>
  BY ConstantsOK DEF InitFillPool, TypeInv, TypeOK, HoldsOK, sender, receiver, apps
<1>2. pd \notin ToSet(PD_receiver_pool)
  <2>1. pd \in At("store") /\ At("pool") = ToSet(PD_receiver_pool)
    BY <1>1, AtPlaces
  <2>2. "store" \in Place /\ "pool" \in Place
    BY PlacesDiffer DEF DriverPlace
  <2> QED
    BY <2>1, <2>2 DEF NoDescriptorShared, PlacesDisjoint
<1>3. ToSet(PD_receiver_pool') = ToSet(PD_receiver_pool) \cup {pd} /\ IsInjective(PD_receiver_pool')
  BY <1>1, <1>2, AppendElements DEF NoDescriptorShared, NoRepeats
<1>4. Moves(pd, "store", "pool")
  <2>1. /\ pd \in At("store") /\ At("store")' = At("store") \ {pd}
        /\ At("pool")' = At("pool") \cup {pd}
    BY <1>1, <1>3, AtPlaces, AtPlacesPrime
  <2>2. \A l \in (DriverPlace \ {"store", "pool"}) \cup PID \cup App : At(l)' = At(l)
    BY <1>1, AtPlaces, AtPlacesPrime DEF DriverPlace
  <2> QED
    BY <2>1, <2>2, PlacesDiffer DEF Moves, Place
<1>5. NoRepeats'
  BY <1>1, <1>3 DEF NoDescriptorShared, NoRepeats
<1> QED
  BY <1>1, <1>3, <1>4, <1>5

LEMMA SenderReadMoves ==
    ASSUME TypeInv, NoDescriptorShared, SenderRead
    PROVE  (\E pd \in PD : Moves(pd, "sendq", "sender")) /\ NoRepeats'
<1> DEFINE pd == Head(waiting_PDs)
<1>1. /\ waiting_PDs \in Seq(PD) /\ waiting_PDs # << >> /\ waiting_PDs' = Tail(waiting_PDs)
      /\ message = NoPD /\ message' = pd
      /\ UNCHANGED <<free_pds, PD_receiver_pool, waiting_receives, curr_pd, full_pd, appPD>>
  BY ConstantsOK DEF SenderRead, TypeInv, TypeOK, HoldsOK, receiver, apps
<1>2. pd \in PD /\ pd # NoPD
  BY <1>1, TailType, ConstantsOK
<1> HIDE DEF pd
<1>3. /\ pd \in ToSet(waiting_PDs) /\ ToSet(waiting_PDs') = ToSet(waiting_PDs) \ {pd}
      /\ IsInjective(waiting_PDs')
  BY <1>1, TailElements DEF NoDescriptorShared, NoRepeats, pd
<1>4. Moves(pd, "sendq", "sender")
  <2>1. /\ pd \in At("sendq") /\ At("sendq")' = At("sendq") \ {pd}
        /\ At("sender")' = At("sender") \cup {pd}
    BY <1>1, <1>2, <1>3, AtPlaces, AtPlacesPrime DEF pd
  <2>2. \A l \in (DriverPlace \ {"sendq", "sender"}) \cup PID \cup App : At(l)' = At(l)
    BY <1>1, AtPlaces, AtPlacesPrime DEF DriverPlace
  <2> QED
    BY <2>1, <2>2, PlacesDiffer DEF Moves, Place
<1>5. NoRepeats'
  BY <1>1, <1>2, <1>3 DEF NoDescriptorShared, NoRepeats
<1> QED
  BY <1>1, <1>2, <1>3, <1>4, <1>5

LEMMA SenderPutPoolMoves ==
    ASSUME TypeInv, NoDescriptorShared, SenderPutPool
    PROVE  (\E pd \in PD : Moves(pd, "sender", "pool")) /\ NoRepeats'
<1> DEFINE pd == message
<1>1. /\ pd \in PD /\ pd # NoPD
      /\ message' = NoPD
      /\ PD_receiver_pool \in Seq(PD) /\ PD_receiver_pool' = Append(PD_receiver_pool, pd)
      /\ UNCHANGED <<free_pds, waiting_PDs, waiting_receives, curr_pd, full_pd, appPD>>
  BY ConstantsOK DEF SenderPutPool, PutInPool, TypeInv, TypeOK, HoldsOK, receiver, apps
<1> HIDE DEF pd
<1>2. pd \notin ToSet(PD_receiver_pool)
  <2>1. pd \in At("sender") /\ At("pool") = ToSet(PD_receiver_pool)
    BY <1>1, AtPlaces DEF pd
  <2>2. "sender" \in Place /\ "pool" \in Place
    BY PlacesDiffer DEF DriverPlace
  <2> QED
    BY <2>1, <2>2 DEF NoDescriptorShared, PlacesDisjoint
<1>3. ToSet(PD_receiver_pool') = ToSet(PD_receiver_pool) \cup {pd} /\ IsInjective(PD_receiver_pool')
  BY <1>1, <1>2, AppendElements DEF NoDescriptorShared, NoRepeats
<1>4. Moves(pd, "sender", "pool")
  <2>1. /\ pd \in At("sender") /\ At("sender")' = At("sender") \ {pd}
        /\ At("pool")' = At("pool") \cup {pd}
    BY <1>1, <1>3, AtPlaces, AtPlacesPrime DEF pd
  <2>2. \A l \in (DriverPlace \ {"sender", "pool"}) \cup PID \cup App : At(l)' = At(l)
    BY <1>1, AtPlaces, AtPlacesPrime DEF DriverPlace
  <2> QED
    BY <2>1, <2>2, PlacesDiffer DEF Moves, Place
<1>5. NoRepeats'
  BY <1>1, <1>3 DEF NoDescriptorShared, NoRepeats
<1> QED
  BY <1>1, <1>3, <1>4, <1>5

LEMMA SenderPutStoreMoves ==
    ASSUME TypeInv, NoDescriptorShared, SenderPutStore
    PROVE  (\E pd \in PD : Moves(pd, "sender", "store")) /\ NoRepeats'
<1> DEFINE pd == message
<1>1. /\ pd \in PD /\ pd # NoPD
      /\ message' = NoPD
      /\ free_pds' = free_pds \cup {pd}
      /\ UNCHANGED <<PD_receiver_pool, waiting_PDs, waiting_receives, curr_pd, full_pd, appPD>>
  BY ConstantsOK DEF SenderPutStore, PutInStore, TypeInv, TypeOK, HoldsOK, receiver, apps, buffers
<1> HIDE DEF pd
<1>2. Moves(pd, "sender", "store")
  <2>1. /\ pd \in At("sender") /\ At("sender")' = At("sender") \ {pd}
        /\ At("store")' = At("store") \cup {pd}
    BY <1>1, AtPlaces, AtPlacesPrime DEF pd
  <2>2. \A l \in (DriverPlace \ {"sender", "store"}) \cup PID \cup App : At(l)' = At(l)
    BY <1>1, AtPlaces, AtPlacesPrime DEF DriverPlace
  <2> QED
    BY <2>1, <2>2, PlacesDiffer DEF Moves, Place
<1>3. NoRepeats'
  BY <1>1 DEF NoDescriptorShared, NoRepeats
<1> QED
  BY <1>1, <1>2, <1>3

LEMMA ReceiverFirstGetMoves ==
    ASSUME TypeInv, NoDescriptorShared, ReceiverFirstGet
    PROVE  (\E pd \in PD : Moves(pd, "store", "current")) /\ NoRepeats'
<1>1. PICK pd \in free_pds :
      /\ pd \in PD /\ pd # NoPD
      /\ free_pds' = free_pds \ {pd}
      /\ curr_pd = NoPD /\ curr_pd' = pd
      /\ UNCHANGED <<PD_receiver_pool, waiting_PDs, waiting_receives, message, full_pd, appPD>>
  BY ConstantsOK DEF ReceiverFirstGet, TypeInv, TypeOK, HoldsOK, sender, apps, buffers
<1>2. Moves(pd, "store", "current")
  <2>1. /\ pd \in At("store") /\ At("store")' = At("store") \ {pd}
        /\ At("current")' = At("current") \cup {pd}
    BY <1>1, AtPlaces, AtPlacesPrime
  <2>2. \A l \in (DriverPlace \ {"store", "current"}) \cup PID \cup App : At(l)' = At(l)
    BY <1>1, AtPlaces, AtPlacesPrime DEF DriverPlace
  <2> QED
    BY <2>1, <2>2, PlacesDiffer DEF Moves, Place
<1>3. NoRepeats'
  BY <1>1 DEF NoDescriptorShared, NoRepeats
<1> QED
  BY <1>1, <1>2, <1>3

LEMMA ReceiverAwaitMoves ==
    ASSUME TypeInv, NoDescriptorShared, ReceiverAwait
    PROVE  (\E pd \in PD : Moves(pd, "current", "full")) /\ NoRepeats'
<1> DEFINE pd == curr_pd
<1>1. /\ pd \in PD /\ pd # NoPD
      /\ curr_pd' = NoPD
      /\ full_pd = NoPD /\ full_pd' = pd
      /\ UNCHANGED <<free_pds, PD_receiver_pool, waiting_PDs, waiting_receives, message, appPD>>
  BY ConstantsOK DEF ReceiverAwait, TypeInv, TypeOK, HoldsOK, sender, apps, buffers
<1> HIDE DEF pd
<1>2. Moves(pd, "current", "full")
  <2>1. /\ pd \in At("current") /\ At("current")' = At("current") \ {pd}
        /\ At("full")' = At("full") \cup {pd}
    BY <1>1, AtPlaces, AtPlacesPrime DEF pd
  <2>2. \A l \in (DriverPlace \ {"current", "full"}) \cup PID \cup App : At(l)' = At(l)
    BY <1>1, AtPlaces, AtPlacesPrime DEF DriverPlace
  <2> QED
    BY <2>1, <2>2, PlacesDiffer DEF Moves, Place
<1>3. NoRepeats'
  BY <1>1 DEF NoDescriptorShared, NoRepeats
<1> QED
  BY <1>1, <1>2, <1>3

LEMMA ReceiverGetPoolMoves ==
    ASSUME TypeInv, NoDescriptorShared, ReceiverGetPool
    PROVE  (\E pd \in PD : Moves(pd, "pool", "current")) /\ NoRepeats'
<1> DEFINE pd == Head(PD_receiver_pool)
<1>1. /\ PD_receiver_pool \in Seq(PD) /\ PD_receiver_pool # << >> /\ PD_receiver_pool' = Tail(PD_receiver_pool)
      /\ curr_pd = NoPD /\ curr_pd' = pd
      /\ UNCHANGED <<free_pds, waiting_PDs, waiting_receives, message, full_pd, appPD>>
  BY ConstantsOK DEF ReceiverGetPool, TypeInv, TypeOK, HoldsOK, sender, apps
<1>2. pd \in PD /\ pd # NoPD
  BY <1>1, TailType, ConstantsOK
<1> HIDE DEF pd
<1>3. /\ pd \in ToSet(PD_receiver_pool) /\ ToSet(PD_receiver_pool') = ToSet(PD_receiver_pool) \ {pd}
      /\ IsInjective(PD_receiver_pool')
  BY <1>1, TailElements DEF NoDescriptorShared, NoRepeats, pd
<1>4. Moves(pd, "pool", "current")
  <2>1. /\ pd \in At("pool") /\ At("pool")' = At("pool") \ {pd}
        /\ At("current")' = At("current") \cup {pd}
    BY <1>1, <1>2, <1>3, AtPlaces, AtPlacesPrime DEF pd
  <2>2. \A l \in (DriverPlace \ {"pool", "current"}) \cup PID \cup App : At(l)' = At(l)
    BY <1>1, AtPlaces, AtPlacesPrime DEF DriverPlace
  <2> QED
    BY <2>1, <2>2, PlacesDiffer DEF Moves, Place
<1>5. NoRepeats'
  BY <1>1, <1>2, <1>3 DEF NoDescriptorShared, NoRepeats
<1> QED
  BY <1>1, <1>2, <1>3, <1>4, <1>5

LEMMA ReceiverGetStoreMoves ==
    ASSUME TypeInv, NoDescriptorShared, ReceiverGetStore
    PROVE  (\E pd \in PD : Moves(pd, "store", "current")) /\ NoRepeats'
<1>1. PICK pd \in free_pds :
      /\ pd \in PD /\ pd # NoPD
      /\ free_pds' = free_pds \ {pd}
      /\ curr_pd = NoPD /\ curr_pd' = pd
      /\ UNCHANGED <<PD_receiver_pool, waiting_PDs, waiting_receives, message, full_pd, appPD>>
  BY ConstantsOK DEF ReceiverGetStore, TypeInv, TypeOK, HoldsOK, sender, apps, buffers
<1>2. Moves(pd, "store", "current")
  <2>1. /\ pd \in At("store") /\ At("store")' = At("store") \ {pd}
        /\ At("current")' = At("current") \cup {pd}
    BY <1>1, AtPlaces, AtPlacesPrime
  <2>2. \A l \in (DriverPlace \ {"store", "current"}) \cup PID \cup App : At(l)' = At(l)
    BY <1>1, AtPlaces, AtPlacesPrime DEF DriverPlace
  <2> QED
    BY <2>1, <2>2, PlacesDiffer DEF Moves, Place
<1>3. NoRepeats'
  BY <1>1 DEF NoDescriptorShared, NoRepeats
<1> QED
  BY <1>1, <1>2, <1>3

LEMMA ReceiverReuseMoves ==
    ASSUME TypeInv, NoDescriptorShared, ReceiverReuse
    PROVE  (\E pd \in PD : Moves(pd, "full", "current")) /\ NoRepeats'
<1> DEFINE pd == full_pd
<1>1. /\ pd \in PD /\ pd # NoPD
      /\ full_pd' = NoPD
      /\ curr_pd = NoPD /\ curr_pd' = pd
      /\ UNCHANGED <<free_pds, PD_receiver_pool, waiting_PDs, waiting_receives, message, appPD>>
  BY ConstantsOK DEF ReceiverReuse, InitAndRegister, TypeInv, TypeOK, HoldsOK, sender, apps, buffers
<1> HIDE DEF pd
<1>2. Moves(pd, "full", "current")
  <2>1. /\ pd \in At("full") /\ At("full")' = At("full") \ {pd}
        /\ At("current")' = At("current") \cup {pd}
    BY <1>1, AtPlaces, AtPlacesPrime DEF pd
  <2>2. \A l \in (DriverPlace \ {"full", "current"}) \cup PID \cup App : At(l)' = At(l)
    BY <1>1, AtPlaces, AtPlacesPrime DEF DriverPlace
  <2> QED
    BY <2>1, <2>2, PlacesDiffer DEF Moves, Place
<1>3. NoRepeats'
  BY <1>1 DEF NoDescriptorShared, NoRepeats
<1> QED
  BY <1>1, <1>2, <1>3

LEMMA ReceiverPutPoolMoves ==
    ASSUME TypeInv, NoDescriptorShared, ReceiverPutPool
    PROVE  (\E pd \in PD : Moves(pd, "full", "pool")) /\ NoRepeats'
<1> DEFINE pd == full_pd
<1>1. /\ pd \in PD /\ pd # NoPD
      /\ full_pd' = NoPD
      /\ PD_receiver_pool \in Seq(PD) /\ PD_receiver_pool' = Append(PD_receiver_pool, pd)
      /\ UNCHANGED <<free_pds, waiting_PDs, waiting_receives, message, curr_pd, appPD>>
  BY ConstantsOK DEF ReceiverPutPool, PutInPool, TypeInv, TypeOK, HoldsOK, sender, apps
<1> HIDE DEF pd
<1>2. pd \notin ToSet(PD_receiver_pool)
  <2>1. pd \in At("full") /\ At("pool") = ToSet(PD_receiver_pool)
    BY <1>1, AtPlaces DEF pd
  <2>2. "full" \in Place /\ "pool" \in Place
    BY PlacesDiffer DEF DriverPlace
  <2> QED
    BY <2>1, <2>2 DEF NoDescriptorShared, PlacesDisjoint
<1>3. ToSet(PD_receiver_pool') = ToSet(PD_receiver_pool) \cup {pd} /\ IsInjective(PD_receiver_pool')
  BY <1>1, <1>2, AppendElements DEF NoDescriptorShared, NoRepeats
<1>4. Moves(pd, "full", "pool")
  <2>1. /\ pd \in At("full") /\ At("full")' = At("full") \ {pd}
        /\ At("pool")' = At("pool") \cup {pd}
    BY <1>1, <1>3, AtPlaces, AtPlacesPrime DEF pd
  <2>2. \A l \in (DriverPlace \ {"full", "pool"}) \cup PID \cup App : At(l)' = At(l)
    BY <1>1, AtPlaces, AtPlacesPrime DEF DriverPlace
  <2> QED
    BY <2>1, <2>2, PlacesDiffer DEF Moves, Place
<1>5. NoRepeats'
  BY <1>1, <1>3 DEF NoDescriptorShared, NoRepeats
<1> QED
  BY <1>1, <1>3, <1>4, <1>5

LEMMA ReceiverPutStoreMoves ==
    ASSUME TypeInv, NoDescriptorShared, ReceiverPutStore
    PROVE  (\E pd \in PD : Moves(pd, "full", "store")) /\ NoRepeats'
<1> DEFINE pd == full_pd
<1>1. /\ pd \in PD /\ pd # NoPD
      /\ full_pd' = NoPD
      /\ free_pds' = free_pds \cup {pd}
      /\ UNCHANGED <<PD_receiver_pool, waiting_PDs, waiting_receives, message, curr_pd, appPD>>
  BY ConstantsOK DEF ReceiverPutStore, PutInStore, TypeInv, TypeOK, HoldsOK, sender, apps, buffers
<1> HIDE DEF pd
<1>2. Moves(pd, "full", "store")
  <2>1. /\ pd \in At("full") /\ At("full")' = At("full") \ {pd}
        /\ At("store")' = At("store") \cup {pd}
    BY <1>1, AtPlaces, AtPlacesPrime DEF pd
  <2>2. \A l \in (DriverPlace \ {"full", "store"}) \cup PID \cup App : At(l)' = At(l)
    BY <1>1, AtPlaces, AtPlacesPrime DEF DriverPlace
  <2> QED
    BY <2>1, <2>2, PlacesDiffer DEF Moves, Place
<1>3. NoRepeats'
  BY <1>1 DEF NoDescriptorShared, NoRepeats
<1> QED
  BY <1>1, <1>2, <1>3

LEMMA ReceiverDeliverMoves ==
    ASSUME TypeInv, NoDescriptorShared, ReceiverDeliver,
           NEW p \in PID, contents[full_pd].who = p
    PROVE  (\E pd \in PD : Moves(pd, "full", p)) /\ NoRepeats'
<1> DEFINE q == waiting_receives[p]
<1>1. /\ full_pd \in PD /\ full_pd # NoPD
      /\ q \in Seq(PD)
      /\ waiting_receives' = [waiting_receives EXCEPT ![p] = Append(q, full_pd)]
      /\ DOMAIN waiting_receives = PID
      /\ full_pd' = NoPD
      /\ UNCHANGED <<free_pds, PD_receiver_pool, waiting_PDs, message, curr_pd, appPD>>
  BY DEF ReceiverDeliver, TypeInv, TypeOK, HoldsOK, sender, apps
<1> HIDE DEF q
<1>2. full_pd \notin ToSet(q)
  <2>1. full_pd \in At("full") /\ At(p) = ToSet(q)
    BY <1>1, AtPlaces DEF q
  <2>2. p \in Place /\ "full" \in Place /\ p # "full"
    BY PlacesDiffer DEF DriverPlace
  <2> QED
    BY <2>1, <2>2 DEF NoDescriptorShared, PlacesDisjoint
<1>3. ToSet(waiting_receives'[p]) = ToSet(q) \cup {full_pd} /\ IsInjective(waiting_receives'[p])
  BY <1>1, <1>2, AppendElements DEF NoDescriptorShared, NoRepeats, q
<1>4. \A r \in PID \ {p} : waiting_receives'[r] = waiting_receives[r]
  BY <1>1
<1>5. Moves(full_pd, "full", p)
  <2>1. /\ full_pd \in At("full") /\ At("full")' = At("full") \ {full_pd}
        /\ At(p)' = At(p) \cup {full_pd}
    BY <1>1, <1>3, AtPlaces, AtPlacesPrime DEF q
  <2>2. \A l \in (DriverPlace \ {"full"}) \cup (PID \ {p}) \cup App : At(l)' = At(l)
    BY <1>1, <1>4, AtPlaces, AtPlacesPrime DEF DriverPlace
  <2> QED
    BY <2>1, <2>2, PlacesDiffer DEF Moves, Place, DriverPlace
<1>6. NoRepeats'
  BY <1>1, <1>3, <1>4 DEF NoDescriptorShared, NoRepeats
<1> QED
  BY <1>1, <1>5, <1>6

(* And one per application call. *)

LEMMA AppComposeMoves ==
    ASSUME TypeInv, NoDescriptorShared, NEW t \in App, AppCompose(t)
    PROVE  (\E pd \in PD : Moves(pd, "store", t)) /\ NoRepeats'
<1>1. PICK pd \in free_pds : free_pds' = free_pds \ {pd} /\ appPD' = [appPD EXCEPT ![t] = pd]
  BY DEF AppCompose
<1>2. /\ pd \in PD /\ pd # NoPD /\ appPD[t] = NoPD /\ DOMAIN appPD = App
      /\ UNCHANGED <<PD_receiver_pool, waiting_PDs, waiting_receives, message, curr_pd, full_pd>>
  BY <1>1, ConstantsOK DEF AppCompose, AppGoto, TypeInv, TypeOK, HoldsOK, buffers, sender, receiver
<1>3. Moves(pd, "store", t)
  <2>1. /\ pd \in At("store") /\ At("store")' = At("store") \ {pd}
        /\ At(t)' = At(t) \cup {pd}
    BY <1>1, <1>2, AtPlaces, AtPlacesPrime
  <2>2. \A l \in (DriverPlace \ {"store"}) \cup PID \cup (App \ {t}) : At(l)' = At(l)
    BY <1>1, <1>2, AtPlaces, AtPlacesPrime DEF DriverPlace
  <2> QED
    BY <2>1, <2>2, PlacesDiffer DEF Moves, Place, DriverPlace
<1> QED
  BY <1>2, <1>3 DEF NoDescriptorShared, NoRepeats

LEMMA SendQueueWriteMoves ==
    ASSUME TypeInv, NoDescriptorShared, NEW t \in App, SendQueueWrite(t),
           appPc[t] \in {"composed", "sending"}
    PROVE  (\E pd \in PD : Moves(pd, t, "sendq")) /\ NoRepeats'
<1> DEFINE pd == appPD[t]
<1>1. /\ pd \in PD /\ pd # NoPD /\ appPD' = [appPD EXCEPT ![t] = NoPD] /\ DOMAIN appPD = App
      /\ waiting_PDs \in Seq(PD) /\ waiting_PDs' = Append(waiting_PDs, pd)
      /\ UNCHANGED <<free_pds, PD_receiver_pool, waiting_receives, message, curr_pd, full_pd>>
  BY ConstantsOK DEF SendQueueWrite, TypeInv, TypeOK, HoldsOK, sender, receiver
<1> HIDE DEF pd
<1>2. pd \notin ToSet(waiting_PDs)
  <2>1. pd \in At(t) /\ At("sendq") = ToSet(waiting_PDs)
    BY <1>1, AtPlaces DEF pd
  <2>2. t \in Place /\ "sendq" \in Place /\ t # "sendq"
    BY PlacesDiffer DEF DriverPlace
  <2> QED
    BY <2>1, <2>2 DEF NoDescriptorShared, PlacesDisjoint
<1>3. ToSet(waiting_PDs') = ToSet(waiting_PDs) \cup {pd} /\ IsInjective(waiting_PDs')
  BY <1>1, <1>2, AppendElements DEF NoDescriptorShared, NoRepeats
<1>4. Moves(pd, t, "sendq")
  <2>1. /\ pd \in At(t) /\ At(t)' = At(t) \ {pd}
        /\ At("sendq")' = At("sendq") \cup {pd}
    BY <1>1, <1>3, AtPlaces, AtPlacesPrime DEF pd
  <2>2. \A l \in (DriverPlace \ {"sendq"}) \cup PID \cup (App \ {t}) : At(l)' = At(l)
    BY <1>1, AtPlaces, AtPlacesPrime DEF DriverPlace
  <2> QED
    BY <2>1, <2>2, PlacesDiffer DEF Moves, Place, DriverPlace
<1> QED
  BY <1>1, <1>3, <1>4 DEF NoDescriptorShared, NoRepeats

LEMMA ReceivedReadMoves ==
    ASSUME TypeInv, NoDescriptorShared, NEW t \in App, ReceivedRead(t),
           appPc[t] \in {"idle", "getting"}
    PROVE  (\E pd \in PD : Moves(pd, AppPid[t], t)) /\ NoRepeats'
<1> DEFINE p == AppPid[t]
           q == waiting_receives[p]
           pd == Head(q)
<1>1. /\ p \in PID /\ q \in Seq(PD) /\ q # << >>
      /\ appPD[t] = NoPD /\ appPD' = [appPD EXCEPT ![t] = pd] /\ DOMAIN appPD = App
      /\ waiting_receives' = [waiting_receives EXCEPT ![p] = Tail(q)]
      /\ DOMAIN waiting_receives = PID
      /\ UNCHANGED <<free_pds, PD_receiver_pool, waiting_PDs, message, curr_pd, full_pd>>
  BY ConstantsOK DEF ReceivedRead, TypeInv, TypeOK, HoldsOK, sender, receiver
<1>2. pd \in PD /\ pd # NoPD
  BY <1>1, TailType, ConstantsOK
<1> HIDE DEF pd, q
<1>3. /\ pd \in ToSet(q)
      /\ ToSet(waiting_receives'[p]) = ToSet(q) \ {pd} /\ IsInjective(waiting_receives'[p])
  BY <1>1, TailElements DEF NoDescriptorShared, NoRepeats, pd, q
<1>4. \A r \in PID \ {p} : waiting_receives'[r] = waiting_receives[r]
  BY <1>1
<1>5. Moves(pd, p, t)
  <2>1. /\ pd \in At(p) /\ At(p)' = At(p) \ {pd}
        /\ At(t)' = At(t) \cup {pd}
    BY <1>1, <1>2, <1>3, AtPlaces, AtPlacesPrime DEF q
  <2>2. \A l \in DriverPlace \cup (PID \ {p}) \cup (App \ {t}) : At(l)' = At(l)
    BY <1>1, <1>4, AtPlaces, AtPlacesPrime DEF DriverPlace
  <2> QED
    BY <1>1, <2>1, <2>2, PlacesDiffer DEF Moves, Place, DriverPlace
<1>6. NoRepeats'
  BY <1>1, <1>3, <1>4 DEF NoDescriptorShared, NoRepeats
<1> QED
  BY <1>2, <1>5, <1>6

LEMMA AppReleaseMoves ==
    ASSUME TypeInv, NoDescriptorShared, NEW t \in App, AppRelease(t)
    PROVE  (\E pd \in PD : Moves(pd, t, "store")) /\ NoRepeats'
<1> DEFINE pd == appPD[t]
<1>1. /\ pd \in PD /\ pd # NoPD /\ appPD' = [appPD EXCEPT ![t] = NoPD] /\ DOMAIN appPD = App
      /\ free_pds' = free_pds \cup {pd}
      /\ UNCHANGED <<PD_receiver_pool, waiting_PDs, waiting_receives, message, curr_pd, full_pd>>
  BY ConstantsOK DEF AppRelease, AppGoto, PutInStore, TypeInv, TypeOK, HoldsOK, buffers,
                     sender, receiver
<1> HIDE DEF pd
<1>2. Moves(pd, t, "store")
  <2>1. /\ pd \in At(t) /\ At(t)' = At(t) \ {pd}
        /\ At("store")' = At("store") \cup {pd}
    BY <1>1, AtPlaces, AtPlacesPrime DEF pd
  <2>2. \A l \in (DriverPlace \ {"store"}) \cup PID \cup (App \ {t}) : At(l)' = At(l)
    BY <1>1, AtPlaces, AtPlacesPrime DEF DriverPlace
  <2> QED
    BY <2>1, <2>2, PlacesDiffer DEF Moves, Place, DriverPlace
<1> QED
  BY <1>1, <1>2 DEF NoDescriptorShared, NoRepeats

(* Nothing else moves a PD. *)
LEMMA OthersMoveNothing ==
    ASSUME \/ UNCHANGED vars \/ InitStartSender \/ InitStartReceiver
           \/ SenderSend \/ SenderPoolFull \/ ReceiverFirstRegister \/ ReceiverPoolEmpty
           \/ ReceiverRegister \/ ReceiverBufferFull \/ ReceiverPoolFull
           \/ \E p \in PID : NetworkArrive(p)
           \/ \E t \in App : BlockingSendCall(t) \/ BlockingGetCall(t)
    PROVE  Stays /\ (NoRepeats => NoRepeats')
<1>1. UNCHANGED <<free_pds, buffers, message, curr_pd, full_pd, appPD>>
  BY DEF vars, InitStartSender, InitStartReceiver, SenderSend, SenderPoolFull,
         ReceiverFirstRegister, ReceiverPoolEmpty, ReceiverRegister, ReceiverBufferFull,
         ReceiverPoolFull, NetworkArrive, BlockingSendCall, BlockingGetCall, InitAndRegister,
         sender, receiver, device, apps
<1> QED
  BY <1>1 DEF Stays, NoRepeats, At, buffers

(* In "received" mail and in mail being delivered there is an application.   *)
LEMMA MailIsAddressed ==
    ASSUME TypeInv, NEW pd \in PD, contents[pd].kind = "in"
    PROVE  contents[pd].who \in PID
<1>1. contents[pd] \in Packet
  BY DEF TypeInv, TypeOK
<1> QED
  BY <1>1 DEF Packet, Blank, Stale, Outgoing

LEMMA FullIsAddressed ==
    ASSUME TypeInv, PacketsIntact, ReceiverDeliver
    PROVE  contents[full_pd].who \in PID
<1>1. full_pd \in PD /\ full_pd \in At("full")
  BY AtPlaces DEF ReceiverDeliver, TypeInv, TypeOK, HoldsOK
<1> QED
  BY <1>1, MailIsAddressed DEF PacketsIntact

(* Every step moves one PD or none. *)
LEMMA StepMoves ==
    ASSUME TypeInv, NoDescriptorShared, PacketsIntact, [Next]_vars
    PROVE  /\ NoRepeats'
           /\ \/ Stays
              \/ \E pd \in PD, a \in Place, b \in Place : Moves(pd, a, b)
<1> DEFINE Goal == /\ NoRepeats'
                   /\ \/ Stays
                      \/ \E pd \in PD, a \in Place, b \in Place : Moves(pd, a, b)
<1>0. DriverPlace \subseteq Place /\ PID \subseteq Place /\ App \subseteq Place
  BY PlacesDiffer
<1>1. CASE InitStep
  BY <1>0, <1>1, InitFillPoolMoves, OthersMoveNothing
     DEF InitStep, DriverPlace, NoDescriptorShared
<1>2. CASE send_thread
  BY <1>0, <1>2, SenderReadMoves, SenderPutPoolMoves, SenderPutStoreMoves, OthersMoveNothing
     DEF send_thread, DriverPlace, NoDescriptorShared
<1>3. CASE receive_thread
  <2>1. CASE ReceiverDeliver
    BY <1>0, <2>1, FullIsAddressed, ReceiverDeliverMoves DEF DriverPlace
  <2>2. CASE ReceiverFirstGet \/ ReceiverAwait \/ ReceiverGetPool \/ ReceiverGetStore
    BY <1>0, <2>2, ReceiverFirstGetMoves, ReceiverAwaitMoves, ReceiverGetPoolMoves,
       ReceiverGetStoreMoves DEF DriverPlace
  <2>3. CASE ReceiverReuse \/ ReceiverPutPool \/ ReceiverPutStore
    BY <1>0, <2>3, ReceiverReuseMoves, ReceiverPutPoolMoves, ReceiverPutStoreMoves
       DEF DriverPlace
  <2> QED
    BY <1>3, <2>1, <2>2, <2>3, OthersMoveNothing DEF receive_thread, NoDescriptorShared
<1>4. ASSUME NEW t \in App, AppStep(t) PROVE Goal
  <2>1. CASE AppCompose(t)
    BY <1>0, <2>1, AppComposeMoves DEF DriverPlace
  <2>2. CASE nonblocking_send_packet(t) \/ blocking_send_packet(t)
    BY <1>0, <2>2, SendQueueWriteMoves
       DEF DriverPlace, nonblocking_send_packet, blocking_send_packet, AppGoto
  <2>3. CASE nonblocking_get_packet(t) \/ blocking_get_packet(t)
    BY <1>0, <2>3, ReceivedReadMoves, ConstantsOK
       DEF nonblocking_get_packet, blocking_get_packet, AppGoto
  <2>4. CASE AppRelease(t)
    BY <1>0, <2>4, AppReleaseMoves DEF DriverPlace
  <2> QED
    BY <1>4, <2>1, <2>2, <2>3, <2>4, OthersMoveNothing DEF AppStep, NoDescriptorShared
<1>5. CASE (\E p \in PID : NetworkArrive(p)) \/ UNCHANGED vars
  BY <1>5, OthersMoveNothing DEF NoDescriptorShared
<1> QED
  BY <1>1, <1>2, <1>3, <1>4, <1>5 DEF Next

LEMMA OwnershipStep ==
    ASSUME TypeInv, NoDescriptorShared, NoDescriptorLost, PacketsIntact, [Next]_vars
    PROVE  NoDescriptorShared' /\ NoDescriptorLost'
<1>1. CASE Stays
  BY <1>1, StepMoves DEF Stays, NoDescriptorShared, NoDescriptorLost, PlacesDisjoint
<1>2. CASE \E pd \in PD, a \in Place, b \in Place : Moves(pd, a, b)
  BY <1>2, StepMoves, MovesKeepsDisjoint, MovesKeepsAll DEF NoDescriptorShared
<1> QED
  BY <1>1, <1>2, StepMoves
-----------------------------------------------------------------------------
(* Contents: the PD a step overwrites is in no place whose packets matter.   *)

Good == TypeInv /\ NoDescriptorShared /\ DeviceReady /\ PacketsIntact
Kept == DeviceReady' /\ PacketsIntact'

(* A PD that is moved and overwritten, and one overwritten where it is. *)
LEMMA OthersKeepContents ==
    ASSUME PlacesDisjoint, TypeInv, NEW pd \in PD, NEW v, NEW a \in Place, pd \in At(a),
           contents' = [contents EXCEPT ![pd] = v]
    PROVE  /\ contents'[pd] = v
           /\ \A l \in Place \ {a} : \A x \in At(l) : contents'[x] = contents[x]
           /\ \A x \in At(a) \ {pd} : contents'[x] = contents[x]
BY DEF PlacesDisjoint, TypeInv, TypeOK

LEMMA CurrentUntouched ==
    ASSUME Good, NEW pd \in PD, NEW v, NEW a \in Place, a # "current", pd \in At(a),
           contents' = [contents EXCEPT ![pd] = v]
    PROVE  curr_pd # NoPD => contents'[curr_pd] = contents[curr_pd]
<1>1. PlacesDisjoint /\ TypeInv /\ "current" \in Place
  BY PlacesDiffer DEF Good, NoDescriptorShared, DriverPlace
<1>2. \A x \in At("current") : contents'[x] = contents[x]
  BY <1>1, OthersKeepContents
<1> QED
  BY <1>2, AtPlaces

(* What the invariant needs of a step that moves a PD and overwrites it. *)
LEMMA OverwritingKeepsPackets ==
    ASSUME Good, NEW pd \in PD, NEW a \in Place, NEW b \in {"store", "pool", "current"} \cup App,
           NEW v, Moves(pd, a, b), contents' = [contents EXCEPT ![pd] = v],
           \A t \in App \ {b} : At(t)' # {} => appPc'[t] = appPc[t],
           b \in App => At(b) = {} /\ appPc'[b] # "received" /\ v = Outgoing(AppPid[b])
    PROVE  PacketsIntact'
<1>0. PlacesDisjoint /\ TypeInv /\ pd \in At(a)
  BY DEF Good, NoDescriptorShared, Moves
<1>1. \A l \in Place \ {b} : \A x \in At(l)' : x \in At(l) /\ contents'[x] = contents[x]
  <2>1. /\ \A l \in Place \ {a} : \A x \in At(l) : contents'[x] = contents[x]
        /\ \A x \in At(a) \ {pd} : contents'[x] = contents[x]
    BY <1>0, OthersKeepContents
  <2>2. At(a)' = At(a) \ {pd} /\ \A l \in Place \ {a, b} : At(l)' = At(l)
    BY DEF Moves
  <2> QED
    BY <2>1, <2>2
<1>2. /\ {"sendq", "sender", "full"} \subseteq Place \ {b}
      /\ PID \subseteq Place \ {b} /\ App \subseteq Place
  BY PlacesDiffer DEF DriverPlace
<1>3. /\ \A x \in At("sendq")' \cup At("sender")' : contents'[x].kind = "out"
      /\ \A x \in At("full")' : contents'[x].kind = "in"
  BY <1>1, <1>2 DEF Good, PacketsIntact
<1>4. \A p \in PID : \A x \in At(p)' : contents'[x].kind = "in" /\ contents'[x].who = p
  BY <1>1, <1>2 DEF Good, PacketsIntact
<1>5. ASSUME NEW t \in App, NEW x \in At(t)'
      PROVE  IF appPc'[t] = "received"
             THEN contents'[x].kind = "in" /\ contents'[x].who = AppPid[t]
             ELSE contents'[x] = Outgoing(AppPid[t])
  <2>1. CASE t = b
    <3>1. x = pd
      BY <1>5, <2>1 DEF Moves
    <3>2. contents'[pd] = v
      BY <1>0, OthersKeepContents
    <3> QED
      BY <2>1, <3>1, <3>2
  <2>2. CASE t # b
    BY <1>1, <1>2, <1>5, <2>2 DEF Good, PacketsIntact
  <2> QED
    BY <2>1, <2>2
<1> QED
  BY <1>3, <1>4, <1>5 DEF PacketsIntact

(* And of one that overwrites a PD of the receiver that holds no packet. *)
LEMMA CurrentKeepsPackets ==
    ASSUME Good, NEW pd \in PD, pd \in At("current"), NEW v,
           contents' = [contents EXCEPT ![pd] = v], Stays, UNCHANGED appPc
    PROVE  PacketsIntact'
<1>1. \A l \in Place \ {"current"} : \A x \in At(l)' : x \in At(l) /\ contents'[x] = contents[x]
  <2>1. "current" \in Place
    BY DEF Place, DriverPlace
  <2>2. PlacesDisjoint /\ TypeInv
    BY DEF Good, NoDescriptorShared
  <2>3. \A l \in Place \ {"current"} : \A x \in At(l) : contents'[x] = contents[x]
    BY <2>1, <2>2, OthersKeepContents
  <2> QED
    BY <2>3 DEF Stays
<1>2. /\ {"sendq", "sender", "full"} \subseteq Place \ {"current"}
      /\ PID \subseteq Place \ {"current"} /\ App \subseteq Place \ {"current"}
  BY PlacesDiffer DEF DriverPlace
<1>3. /\ \A x \in At("sendq")' \cup At("sender")' : contents'[x].kind = "out"
      /\ \A x \in At("full")' : contents'[x].kind = "in"
  BY <1>1, <1>2 DEF Good, PacketsIntact
<1>4. \A p \in PID : \A x \in At(p)' : contents'[x].kind = "in" /\ contents'[x].who = p
  BY <1>1, <1>2 DEF Good, PacketsIntact
<1>5. \A t \in App : \A x \in At(t)' :
        IF appPc'[t] = "received"
        THEN contents'[x].kind = "in" /\ contents'[x].who = AppPid[t]
        ELSE contents'[x] = Outgoing(AppPid[t])
  BY <1>1, <1>2 DEF Good, PacketsIntact
<1> QED
  BY <1>3, <1>4, <1>5 DEF PacketsIntact

(* One that moves a PD and overwrites none. *)
LEMMA MovingKeepsPackets ==
    ASSUME Good, NEW pd \in PD, NEW a \in Place, NEW b \in Place, Moves(pd, a, b),
           UNCHANGED contents, \A t \in App \ {b} : At(t)' # {} => appPc'[t] = appPc[t],
           b \in {"sendq", "sender"} => contents[pd].kind = "out",
           b = "full" => contents[pd].kind = "in",
           b \in PID => contents[pd].kind = "in" /\ contents[pd].who = b,
           b \in App => /\ appPc'[b] = "received" /\ At(b) = {}
                        /\ contents[pd].kind = "in" /\ contents[pd].who = AppPid[b]
    PROVE  PacketsIntact'
<1>1. /\ \A l \in Place \ {b} : At(l)' \subseteq At(l)
      /\ At(b)' = At(b) \cup {pd}
  BY DEF Moves
<1>2. /\ {"sendq", "sender", "full"} \subseteq Place
      /\ PID \subseteq Place /\ App \subseteq Place
      /\ \A t \in App : t \notin {"sendq", "sender", "full"} /\ t \notin PID
  BY PlacesDiffer DEF DriverPlace
<1>3. \A x \in At("sendq")' \cup At("sender")' : contents'[x].kind = "out"
  BY <1>1, <1>2 DEF Good, PacketsIntact
<1>4. \A x \in At("full")' : contents'[x].kind = "in"
  BY <1>1, <1>2 DEF Good, PacketsIntact
<1>5. \A p \in PID : \A x \in At(p)' : contents'[x].kind = "in" /\ contents'[x].who = p
  BY <1>1, <1>2 DEF Good, PacketsIntact
<1>6. ASSUME NEW t \in App, NEW x \in At(t)'
      PROVE  IF appPc'[t] = "received"
             THEN contents'[x].kind = "in" /\ contents'[x].who = AppPid[t]
             ELSE contents'[x] = Outgoing(AppPid[t])
  <2>1. CASE t = b
    BY <1>1, <1>6, <2>1
  <2>2. CASE t # b
    BY <1>1, <1>2, <1>6, <2>2 DEF Good, PacketsIntact
  <2> QED
    BY <2>1, <2>2
<1> QED
  BY <1>3, <1>4, <1>5, <1>6 DEF PacketsIntact

(* One that moves and overwrites nothing. *)
LEMMA StayingKeepsPackets ==
    ASSUME Good, Stays, UNCHANGED contents,
           \A t \in App : appPc[t] = "received" <=> appPc'[t] = "received"
    PROVE  PacketsIntact'
<1>1. \A l \in DriverPlace \cup PID \cup App : At(l)' = At(l)
  BY DEF Stays, Place
<1> QED
  <2>1. At("sendq")' = At("sendq") /\ At("sender")' = At("sender") /\ At("full")' = At("full")
    BY <1>1 DEF DriverPlace
  <2>2. /\ \A x \in At("sendq")' \cup At("sender")' : contents'[x].kind = "out"
        /\ \A x \in At("full")' : contents'[x].kind = "in"
    BY <2>1 DEF Good, PacketsIntact
  <2>3. \A p \in PID : \A x \in At(p)' : contents'[x].kind = "in" /\ contents'[x].who = p
    BY <1>1 DEF Good, PacketsIntact
  <2>4. \A t \in App : \A x \in At(t)' :
          IF appPc'[t] = "received"
          THEN contents'[x].kind = "in" /\ contents'[x].who = AppPid[t]
          ELSE contents'[x] = Outgoing(AppPid[t])
    BY <1>1 DEF Good, PacketsIntact
  <2> QED
    BY <2>2, <2>3, <2>4 DEF PacketsIntact

LEMMA KeptByInit == ASSUME Good, InitStep PROVE Kept
<1>1. UNCHANGED <<contents, registered, curr_pd, appPc>>
  BY DEF InitStep, InitFillPool, InitStartSender, InitStartReceiver, receiver, device, apps
<1>2. DeviceReady'
  BY <1>1 DEF Good, DeviceReady, InitStep, InitFillPool, InitStartSender, InitStartReceiver, receiver
<1>3. CASE InitFillPool
  BY <1>1, <1>2, <1>3, InitFillPoolMoves, MovingKeepsPackets, PlacesDiffer
     DEF Good, Kept, DriverPlace
<1>4. CASE ~InitFillPool
  BY <1>1, <1>2, <1>4, OthersMoveNothing, StayingKeepsPackets DEF InitStep, Kept
<1> QED
  BY <1>3, <1>4

LEMMA KeptBySender == ASSUME Good, send_thread PROVE Kept
<1>1. UNCHANGED <<registered, recvPc, curr_pd, appPc>>
  BY DEF send_thread, SenderRead, SenderSend, SenderPutPool, SenderPoolFull, SenderPutStore,
         receiver, device, apps
<1>2. CASE SenderRead
  <2>1. PICK pd \in PD : Moves(pd, "sendq", "sender")
    BY <1>2, SenderReadMoves DEF Good
  <2>2. contents[pd].kind = "out" /\ UNCHANGED contents
    BY <1>2, <2>1 DEF Good, PacketsIntact, Moves, SenderRead
  <2>3. PacketsIntact'
    BY <1>1, <2>1, <2>2, MovingKeepsPackets, PlacesDiffer DEF DriverPlace
  <2> QED
    BY <1>1, <2>2, <2>3 DEF Good, Kept, DeviceReady
<1>3. CASE SenderPutPool \/ SenderPutStore
  <2>1. PICK pd \in PD, b \in {"store", "pool"} : Moves(pd, "sender", b)
    BY <1>3, SenderPutPoolMoves, SenderPutStoreMoves DEF Good
  <2>2. pd = message
    BY <2>1, AtPlaces DEF Moves
  <2>3. contents' = [contents EXCEPT ![pd] = Stale]
    BY <1>3, <2>2 DEF SenderPutPool, SenderPutStore, PutInPool, PutInStore
  <2>4. PacketsIntact'
    BY <1>1, <2>1, <2>3, OverwritingKeepsPackets, PlacesDiffer DEF DriverPlace
  <2>5. curr_pd # NoPD => contents'[curr_pd] = contents[curr_pd]
    BY <2>1, <2>3, CurrentUntouched, PlacesDiffer DEF Moves, DriverPlace
  <2> QED
    BY <1>1, <2>4, <2>5 DEF Good, TypeInv, HoldsOK, Kept, DeviceReady
<1>4. CASE SenderSend \/ SenderPoolFull
  <2>1. UNCHANGED contents
    BY <1>4 DEF SenderSend, SenderPoolFull
  <2> QED
    BY <1>1, <1>4, <2>1, OthersMoveNothing, StayingKeepsPackets DEF Good, Kept, DeviceReady
<1> QED
  BY <1>2, <1>3, <1>4 DEF send_thread

LEMMA KeptByReceiver == ASSUME Good, receive_thread PROVE Kept
<1>0. {"store", "pool", "current", "full"} \subseteq Place
  BY PlacesDiffer DEF DriverPlace
<1>1. UNCHANGED appPc
  BY DEF receive_thread, ReceiverFirstGet, ReceiverFirstRegister, ReceiverAwait, ReceiverGetPool,
         ReceiverPoolEmpty, ReceiverGetStore, ReceiverReuse, ReceiverRegister, ReceiverDeliver,
         ReceiverBufferFull, ReceiverPutPool, ReceiverPoolFull, ReceiverPutStore, apps
<1>2. CASE ReceiverFirstGet \/ ReceiverGetPool \/ ReceiverGetStore
  <2>1. PICK pd \in PD, a \in {"store", "pool"} : Moves(pd, a, "current")
    BY <1>2, ReceiverFirstGetMoves, ReceiverGetPoolMoves, ReceiverGetStoreMoves DEF Good
  <2>2. UNCHANGED contents
    BY <1>2 DEF ReceiverFirstGet, ReceiverGetPool, ReceiverGetStore
  <2>3. PacketsIntact'
    BY <1>0, <1>1, <2>1, <2>2, MovingKeepsPackets, PlacesDiffer DEF DriverPlace
  <2>4. DeviceReady'
    BY <1>2 DEF Good, TypeInv, HoldsOK, DeviceReady, ReceiverFirstGet, ReceiverGetPool,
                ReceiverGetStore, device
  <2> QED
    BY <2>3, <2>4 DEF Kept
<1>3. CASE ReceiverFirstRegister \/ ReceiverRegister
  <2>1. /\ curr_pd \in PD /\ curr_pd \in At("current")
        /\ contents' = [contents EXCEPT ![curr_pd] = Blank]
        /\ registered' = curr_pd /\ UNCHANGED curr_pd
    BY <1>3, AtPlaces DEF Good, TypeInv, TypeOK, HoldsOK, ReceiverFirstRegister, ReceiverRegister,
                          InitAndRegister
  <2>2. PacketsIntact'
    BY <1>1, <1>3, <2>1, OthersMoveNothing, CurrentKeepsPackets
  <2>3. DeviceReady'
    BY <1>3, <2>1, ConstantsOK DEF Good, TypeInv, TypeOK, DeviceReady
  <2> QED
    BY <2>2, <2>3 DEF Kept
<1>4. CASE ReceiverAwait
  <2>1. PICK pd \in PD : Moves(pd, "current", "full")
    BY <1>4, ReceiverAwaitMoves DEF Good
  <2>2. pd = curr_pd
    BY <2>1, AtPlaces DEF Moves
  <2>3. contents[pd].kind = "in" /\ UNCHANGED contents
    BY <1>4, <2>2 DEF Good, DeviceReady, ReceiverAwait
  <2>4. PacketsIntact'
    BY <1>0, <1>1, <2>1, <2>3, MovingKeepsPackets, PlacesDiffer DEF DriverPlace
  <2>5. DeviceReady'
    BY <1>4 DEF DeviceReady, ReceiverAwait, device
  <2> QED
    BY <2>4, <2>5 DEF Kept
<1>5. CASE ReceiverReuse
  <2>1. PICK pd \in PD : Moves(pd, "full", "current")
    BY <1>5, ReceiverReuseMoves DEF Good
  <2>2. pd = full_pd
    BY <2>1, AtPlaces DEF Moves
  <2>3. /\ contents' = [contents EXCEPT ![pd] = Blank]
        /\ registered' = pd /\ curr_pd' = pd /\ pd # NoPD
    BY <1>5, <2>2, ConstantsOK DEF ReceiverReuse, InitAndRegister
  <2>4. PacketsIntact'
    BY <1>0, <1>1, <2>1, <2>3, OverwritingKeepsPackets, PlacesDiffer DEF DriverPlace
  <2>5. DeviceReady'
    BY <2>3 DEF Good, TypeInv, TypeOK, DeviceReady
  <2> QED
    BY <2>4, <2>5 DEF Kept
<1>6. CASE ReceiverDeliver
  <2>1. PICK p \in PID : contents[full_pd].who = p
    BY <1>6, FullIsAddressed DEF Good
  <2>2. PICK pd \in PD : Moves(pd, "full", p)
    BY <1>6, <2>1, ReceiverDeliverMoves DEF Good
  <2>3. pd = full_pd
    BY <2>2, AtPlaces DEF Moves
  <2>4. contents[pd].kind = "in" /\ contents[pd].who = p /\ UNCHANGED contents
    BY <1>6, <2>1, <2>2, <2>3 DEF Good, PacketsIntact, Moves, ReceiverDeliver
  <2>5. PacketsIntact'
    BY <1>0, <1>1, <2>2, <2>4, MovingKeepsPackets, PlacesDiffer DEF DriverPlace
  <2>6. DeviceReady'
    BY <1>6 DEF Good, DeviceReady, ReceiverDeliver, device
  <2> QED
    BY <2>5, <2>6 DEF Kept
<1>7. CASE ReceiverPutPool \/ ReceiverPutStore
  <2>1. PICK pd \in PD, b \in {"store", "pool"} : Moves(pd, "full", b)
    BY <1>7, ReceiverPutPoolMoves, ReceiverPutStoreMoves DEF Good
  <2>2. pd = full_pd
    BY <2>1, AtPlaces DEF Moves
  <2>3. /\ contents' = [contents EXCEPT ![pd] = Stale]
        /\ recvPc \in {"put", "putStore"} /\ UNCHANGED <<curr_pd, registered>>
    BY <1>7, <2>2 DEF ReceiverPutPool, ReceiverPutStore, PutInPool, PutInStore, device
  <2>4. PacketsIntact'
    BY <1>0, <1>1, <2>1, <2>3, OverwritingKeepsPackets, PlacesDiffer DEF DriverPlace
  <2>5. curr_pd # NoPD => contents'[curr_pd] = contents[curr_pd]
    BY <1>0, <2>1, <2>3, CurrentUntouched DEF Moves
  <2> QED
    BY <2>3, <2>4, <2>5 DEF Good, TypeInv, HoldsOK, Kept, DeviceReady
<1>8. CASE ReceiverPoolEmpty \/ ReceiverBufferFull \/ ReceiverPoolFull
  <2>1. UNCHANGED contents
    BY <1>8 DEF ReceiverPoolEmpty, ReceiverBufferFull, ReceiverPoolFull
  <2>2. DeviceReady'
    BY <1>8 DEF Good, DeviceReady, ReceiverPoolEmpty, ReceiverBufferFull, ReceiverPoolFull, device
  <2> QED
    BY <1>1, <1>8, <2>1, <2>2, OthersMoveNothing, StayingKeepsPackets DEF Kept
<1> QED
  BY <1>2, <1>3, <1>4, <1>5, <1>6, <1>7, <1>8 DEF receive_thread

LEMMA KeptByNetwork == ASSUME Good, NEW p \in PID, NetworkArrive(p) PROVE Kept
<1>1. /\ registered = curr_pd /\ curr_pd \in PD /\ curr_pd \in At("current")
      /\ contents' = [contents EXCEPT ![curr_pd] = Incoming(p, arrivals')]
      /\ registered' = NoPD /\ UNCHANGED <<curr_pd, recvPc, appPc>>
  BY AtPlaces DEF Good, TypeInv, TypeOK, HoldsOK, NetworkArrive, receiver, apps
<1>2. PacketsIntact'
  BY <1>1, OthersMoveNothing, CurrentKeepsPackets
<1>3. contents'[curr_pd].kind = "in"
  BY <1>1 DEF Good, TypeInv, TypeOK, Incoming
<1> QED
  BY <1>1, <1>2, <1>3 DEF Good, Kept, DeviceReady

LEMMA KeptByApp == ASSUME Good, NEW t \in App, AppStep(t) PROVE Kept
<1>0. /\ t \in Place /\ t \notin PID /\ t \notin DriverPlace /\ DriverPlace \subseteq Place
      /\ AppPid[t] \in PID /\ AppPid[t] \in Place
  BY PlacesDiffer, ConstantsOK
<1>1. /\ UNCHANGED <<registered, recvPc, curr_pd>>
      /\ \A u \in App \ {t} : appPc'[u] = appPc[u]
  BY DEF Good, TypeInv, TypeOK, AppStep, AppGoto, AppCompose, nonblocking_send_packet,
         BlockingSendCall, blocking_send_packet, nonblocking_get_packet, BlockingGetCall,
         blocking_get_packet, AppRelease, SendQueueWrite, ReceivedRead, receiver, device
<1>2. CASE AppCompose(t)
  <2>1. PICK pd \in free_pds : /\ appPD' = [appPD EXCEPT ![t] = pd]
                               /\ contents' = [contents EXCEPT ![pd] = Outgoing(AppPid[t])]
    BY <1>2 DEF AppCompose
  <2>2. pd \in PD /\ pd # NoPD /\ At(t) = {} /\ appPc'[t] = "composed" /\ At(t)' = {pd}
    BY <1>2, <2>1, AtPlaces, AtPlacesPrime, ConstantsOK
       DEF Good, TypeInv, TypeOK, HoldsOK, AppCompose, AppGoto
  <2>3. PICK x \in PD : Moves(x, "store", t)
    BY <1>2, AppComposeMoves DEF Good
  <2>4. x = pd
    BY <2>2, <2>3 DEF Moves
  <2>5. PacketsIntact'
    BY <1>0, <1>1, <2>1, <2>2, <2>3, <2>4, OverwritingKeepsPackets DEF DriverPlace
  <2>6. curr_pd # NoPD => contents'[curr_pd] = contents[curr_pd]
    BY <1>0, <2>1, <2>3, <2>4, CurrentUntouched DEF Moves, DriverPlace
  <2> QED
    BY <1>1, <2>5, <2>6 DEF Good, TypeInv, HoldsOK, Kept, DeviceReady
<1>3. CASE nonblocking_send_packet(t) \/ blocking_send_packet(t)
  <2>1. appPc[t] \in {"composed", "sending"} /\ SendQueueWrite(t) /\ UNCHANGED contents
    BY <1>3 DEF nonblocking_send_packet, blocking_send_packet, AppGoto, SendQueueWrite
  <2>2. PICK pd \in PD : Moves(pd, t, "sendq")
    BY <2>1, SendQueueWriteMoves DEF Good
  <2>3. contents[pd].kind = "out"
    <3>1. contents[pd] = Outgoing(AppPid[t])
      BY <2>1, <2>2 DEF Good, PacketsIntact, Moves
    <3> QED
      BY <3>1 DEF Outgoing
  <2>4. At(t)' = {}
    BY <2>1, AtPlacesPrime DEF SendQueueWrite, Good, TypeInv, TypeOK
  <2>5. PacketsIntact'
    BY <1>0, <1>1, <2>1, <2>2, <2>3, <2>4, MovingKeepsPackets, PlacesDiffer DEF DriverPlace
  <2> QED
    BY <1>1, <2>1, <2>5 DEF Good, Kept, DeviceReady
<1>4. CASE nonblocking_get_packet(t) \/ blocking_get_packet(t)
  <2>1. /\ appPc[t] \in {"idle", "getting"} /\ ReceivedRead(t) /\ UNCHANGED contents
        /\ appPc'[t] = "received"
    BY <1>4 DEF nonblocking_get_packet, blocking_get_packet, AppGoto, ReceivedRead,
                Good, TypeInv, TypeOK
  <2>2. PICK pd \in PD : Moves(pd, AppPid[t], t)
    BY <2>1, ReceivedReadMoves DEF Good
  <2>3. contents[pd].kind = "in" /\ contents[pd].who = AppPid[t]
    BY <1>0, <2>2 DEF Good, PacketsIntact, Moves
  <2>4. At(t) = {}
    BY <2>1, AtPlaces DEF Good, TypeInv, HoldsOK
  <2>5. PacketsIntact'
    BY <1>0, <1>1, <2>1, <2>2, <2>3, <2>4, MovingKeepsPackets DEF DriverPlace
  <2> QED
    BY <1>1, <2>1, <2>5 DEF Good, Kept, DeviceReady
<1>5. CASE AppRelease(t)
  <2>1. PICK pd \in PD : Moves(pd, t, "store")
    BY <1>5, AppReleaseMoves DEF Good
  <2>2. pd = appPD[t]
    BY <2>1, AtPlaces DEF Moves
  <2>3. contents' = [contents EXCEPT ![pd] = Stale] /\ At(t)' = {}
    BY <1>5, <2>2, AtPlacesPrime DEF AppRelease, PutInStore, Good, TypeInv, TypeOK
  <2>4. PacketsIntact'
    BY <1>0, <1>1, <2>1, <2>3, OverwritingKeepsPackets, PlacesDiffer DEF DriverPlace
  <2>5. curr_pd # NoPD => contents'[curr_pd] = contents[curr_pd]
    BY <1>0, <2>1, <2>3, CurrentUntouched DEF Moves, DriverPlace
  <2> QED
    BY <1>1, <2>4, <2>5 DEF Good, TypeInv, HoldsOK, Kept, DeviceReady
<1>6. CASE BlockingSendCall(t) \/ BlockingGetCall(t)
  <2>1. UNCHANGED contents /\ appPc[t] # "received" /\ appPc'[t] # "received"
    BY <1>6 DEF BlockingSendCall, BlockingGetCall, AppGoto, Good, TypeInv, TypeOK
  <2>2. PacketsIntact'
    BY <1>1, <1>6, <2>1, OthersMoveNothing, StayingKeepsPackets
  <2> QED
    BY <1>1, <2>1, <2>2 DEF Good, Kept, DeviceReady
<1> QED
  BY <1>2, <1>3, <1>4, <1>5, <1>6 DEF AppStep
-----------------------------------------------------------------------------
(* The inductive invariant: ownership needs the addressee of a delivered     *)
(* packet to be an application, and contents need ownership.                 *)
IInv == Good /\ NoDescriptorLost

LEMMA IInvInit == Init => IInv
<1> SUFFICES ASSUME Init PROVE IInv
  OBVIOUS
<1>1. /\ At("store") = PD
      /\ \A l \in (DriverPlace \ {"store"}) \cup PID \cup App : At(l) = {}
  BY AtPlaces, ConstantsOK DEF Init, DriverPlace, ToSet
<1>2. NoDescriptorShared /\ NoDescriptorLost
  BY <1>1 DEF Init, NoDescriptorShared, NoDescriptorLost, PlacesDisjoint, NoRepeats, IsInjective,
              Place, DriverPlace
<1>3. DeviceReady
  BY DEF Init, DeviceReady
<1>4. At("sendq") = {} /\ At("sender") = {} /\ At("full") = {}
  BY <1>1 DEF DriverPlace
<1>5. PacketsIntact
  BY <1>1, <1>4 DEF PacketsIntact
<1> QED
  BY <1>2, <1>3, <1>5, TypeInvInit DEF IInv, Good

LEMMA IInvStep == IInv /\ [Next]_vars => IInv'
<1> SUFFICES ASSUME IInv, [Next]_vars PROVE IInv'
  OBVIOUS
<1>1. Good
  BY DEF IInv
<1>2. TypeInv' /\ NoDescriptorShared' /\ NoDescriptorLost'
  BY TypeInvStep, OwnershipStep DEF IInv, Good
<1>3. Kept
  <2>1. CASE UNCHANGED vars
    <3>1. UNCHANGED <<contents, registered, recvPc, curr_pd, appPc>>
      BY <2>1 DEF vars, receiver, device, apps
    <3> QED
      BY <1>1, <2>1, <3>1, OthersMoveNothing, StayingKeepsPackets DEF Good, Kept, DeviceReady
  <2> QED
    BY <1>1, <2>1, KeptByInit, KeptBySender, KeptByReceiver, KeptByNetwork, KeptByApp DEF Next
<1> QED
  BY <1>2, <1>3 DEF IInv, Good, Kept

LEMMA Invariance == Spec => []IInv
BY IInvInit, IInvStep, PTL DEF Spec

(* No descriptor is lost, whatever the sizes and however the threads run. *)
THEOREM NothingLost == Spec => []NoDescriptorLost
<1>1. IInv => NoDescriptorLost
  BY DEF IInv
<1> QED
  BY <1>1, Invariance, PTL

(* No two threads, queues or the device ever share a descriptor. *)
THEOREM NothingShared == Spec => []NoDescriptorShared
<1>1. IInv => NoDescriptorShared
  BY DEF IInv, Good
<1> QED
  BY <1>1, Invariance, PTL

(* The device always has a clean descriptor, or one just filled. *)
THEOREM DeviceAlwaysReady == Spec => []DeviceReady
<1>1. IInv => DeviceReady
  BY DEF IInv, Good
<1> QED
  BY <1>1, Invariance, PTL

(* Packets in transit are not overwritten and reach only their addressee. *)
THEOREM PacketsStayIntact == Spec => []PacketsIntact
<1>1. IInv => PacketsIntact
  BY DEF IInv, Good
<1> QED
  BY <1>1, Invariance, PTL

(* One descriptor changes hands in a step, or none does. *)
HandedOverSingly == Stays \/ \E pd \in PD, a \in Place, b \in Place : Moves(pd, a, b)

(* What a thread, a queue or the store keeps over a step is not overwritten  *)
(* in it; of receive_thread's own PD, "current", only it and the device do.  *)
NotWrittenWhileHeld ==
    \A l \in Place \ {"current"} : \A pd \in At(l) \cap At(l)' : contents'[pd] = contents[pd]

(* A step writes into one PD at most, that the device has or that leaves the *)
(* place it was in.                                                          *)
Writes(pd, a) == /\ pd \in PD /\ pd \in At(a)
                 /\ a = "current" \/ pd \notin At(a)'
                 /\ \E v : contents' = [contents EXCEPT ![pd] = v]

LEMMA WrittenKept ==
    ASSUME TypeInv, NoDescriptorShared, UNCHANGED contents \/ \E a \in Place : \E pd : Writes(pd, a)
    PROVE  NotWrittenWhileHeld
<1>1. CASE UNCHANGED contents
  BY <1>1 DEF NotWrittenWhileHeld
<1>2. ASSUME NEW a \in Place, NEW pd, Writes(pd, a) PROVE NotWrittenWhileHeld
  <2>1. PICK v : contents' = [contents EXCEPT ![pd] = v]
    BY <1>2 DEF Writes
  <2>2. /\ \A l \in Place \ {a} : \A x \in At(l) : contents'[x] = contents[x]
        /\ \A x \in At(a) \ {pd} : contents'[x] = contents[x]
    BY <1>2, <2>1, OthersKeepContents DEF Writes, NoDescriptorShared
  <2> QED BY <1>2, <2>2 DEF NotWrittenWhileHeld, Writes
<1> QED BY <1>1, <1>2

LEMMA StepWrites ==
    ASSUME Good, [Next]_vars
    PROVE  UNCHANGED contents \/ \E a \in Place : \E pd : Writes(pd, a)
<1>0. TypeInv /\ {"store", "sender", "current", "full"} \subseteq Place /\ App \subseteq Place
  BY PlacesDiffer DEF Good, DriverPlace
<1> USE AtPlaces, AtPlacesPrime DEF TypeInv, TypeOK, HoldsOK
<1>1. CASE SenderPutPool \/ SenderPutStore
  <2>1. Writes(message, "sender")
    BY <1>0, <1>1 DEF SenderPutPool, SenderPutStore, PutInPool, PutInStore, Writes
  <2> QED BY <1>0, <2>1
<1>2. CASE ReceiverReuse \/ ReceiverPutPool \/ ReceiverPutStore
  <2>1. Writes(full_pd, "full")
    BY <1>0, <1>2 DEF ReceiverReuse, ReceiverPutPool, ReceiverPutStore, InitAndRegister, PutInPool,
                      PutInStore, Writes
  <2> QED BY <1>0, <2>1
<1>3. CASE ReceiverFirstRegister \/ ReceiverRegister
  <2>1. Writes(curr_pd, "current")
    BY <1>0, <1>3 DEF ReceiverFirstRegister, ReceiverRegister, InitAndRegister, Writes
  <2> QED BY <1>0, <2>1
<1>4. CASE \E p \in PID : NetworkArrive(p)
  <2>1. Writes(curr_pd, "current")
    BY <1>0, <1>4 DEF NetworkArrive, Writes
  <2> QED BY <1>0, <2>1
<1>5. ASSUME NEW t \in App, AppCompose(t) PROVE \E a \in Place : \E pd : Writes(pd, a)
  <2>1. \E pd : Writes(pd, "store")
    BY <1>0, <1>5 DEF AppCompose, Writes
  <2> QED BY <1>0, <2>1
<1>6. ASSUME NEW t \in App, AppRelease(t) PROVE \E a \in Place : \E pd : Writes(pd, a)
  <2>1. PICK pd \in PD : Moves(pd, t, "store")
    BY <1>0, <1>6, AppReleaseMoves DEF Good
  <2>2. pd = appPD[t] /\ pd \in At(t) /\ pd \notin At(t)'
    BY <2>1 DEF Moves
  <2>3. contents' = [contents EXCEPT ![appPD[t]] = Stale]
    BY <1>6 DEF AppRelease, PutInStore
  <2>4. Writes(pd, t)
    BY <2>2, <2>3 DEF Writes
  <2> QED BY <1>0, <2>4
<1>7. CASE \/ InitStep \/ SenderRead \/ SenderSend \/ SenderPoolFull \/ UNCHANGED vars
           \/ ReceiverFirstGet \/ ReceiverAwait \/ ReceiverGetPool \/ ReceiverPoolEmpty
           \/ ReceiverGetStore \/ ReceiverDeliver \/ ReceiverBufferFull \/ ReceiverPoolFull
  BY <1>7 DEF InitStep, InitFillPool, InitStartSender, InitStartReceiver, SenderRead, SenderSend,
              SenderPoolFull, vars, ReceiverFirstGet, ReceiverAwait, ReceiverGetPool,
              ReceiverPoolEmpty, ReceiverGetStore, ReceiverDeliver, ReceiverBufferFull, ReceiverPoolFull
<1>8. ASSUME NEW t \in App,
             \/ nonblocking_send_packet(t) \/ BlockingSendCall(t) \/ blocking_send_packet(t)
             \/ nonblocking_get_packet(t) \/ BlockingGetCall(t) \/ blocking_get_packet(t)
      PROVE  UNCHANGED contents
  BY <1>8 DEF nonblocking_send_packet, BlockingSendCall, blocking_send_packet, SendQueueWrite,
              nonblocking_get_packet, BlockingGetCall, blocking_get_packet, ReceivedRead
<1> QED BY <1>1, <1>2, <1>3, <1>4, <1>5, <1>6, <1>7, <1>8 DEF Next, send_thread, receive_thread, AppStep

(* Memory passes from hand to hand: a step of a thread or the device moves   *)
(* one descriptor at most, and nobody writes into one that another thread, a *)
(* queue or an application keeps, also where two threads work on the pool,   *)
(* the store and the registered descriptor at the same time.                 *)
THEOREM HandsDoNotInterfere == Spec => [][HandedOverSingly /\ NotWrittenWhileHeld]_vars
<1>1. ASSUME IInv, [Next]_vars PROVE HandedOverSingly /\ NotWrittenWhileHeld
  <2>1. Good
    BY <1>1 DEF IInv
  <2> QED BY <1>1, <2>1, StepMoves, StepWrites, WrittenKept DEF Good, HandedOverSingly
<1> QED BY <1>1, Invariance, PTL DEF Spec
-----------------------------------------------------------------------------
(* Refinement: sequences of packets *)

LEMMA Singles ==
    ASSUME NEW S, NEW e \in S
    PROVE  <<e>> \in Seq(S) /\ Len(<<e>>) = 1 /\ <<e>>[1] = e
OBVIOUS

LEMMA PushesBehind ==
    ASSUME NEW S, NEW s \in Seq(S), NEW e \in S
    PROVE  s \o <<e>> = Append(s, e)
OBVIOUS

LEMMA TakesFirst ==
    ASSUME NEW S, NEW s \in Seq(S), NEW e \in S
    PROVE  <<e>> \o s # << >> /\ Tail(<<e>> \o s) = s
<1> DEFINE r == <<e>> \o s
<1>1. r \in Seq(S) /\ Len(r) = 1 + Len(s) /\ Len(s) \in Nat
      /\ \A i \in 1..1 + Len(s) : r[i] = IF i <= 1 THEN <<e>>[i] ELSE s[i - 1]
  BY Singles, ConcatProperties, LenProperties
<1> HIDE DEF r
<1>2. r # << >>
  BY <1>1, EmptySeq
<1>3. Tail(r) \in Seq(S) /\ Len(Tail(r)) = Len(s) /\ \A i \in 1..Len(s) : Tail(r)[i] = r[i + 1]
  BY <1>1, <1>2, HeadTailProperties
<1>4. \A i \in 1..Len(s) : Tail(r)[i] = s[i]
  BY <1>1, <1>3
<1>5. Tail(r) = s
  BY <1>3, <1>4, SeqEqual
<1> QED
  BY <1>2, <1>5 DEF r

LEMMA TakesFirstOfMore ==
    ASSUME NEW S, NEW s \in Seq(S), NEW t \in Seq(S), s # << >>
    PROVE  /\ s \o t # << >> /\ Head(s \o t) = Head(s)
           /\ Tail(s \o t) = Tail(s) \o t
<1> DEFINE r == s \o t
           u == Tail(s) \o t
<1>1. /\ r \in Seq(S) /\ Len(r) = Len(s) + Len(t) /\ Len(s) \in Nat \ {0} /\ Len(t) \in Nat
      /\ \A i \in 1..Len(s) + Len(t) : r[i] = IF i <= Len(s) THEN s[i] ELSE t[i - Len(s)]
  BY ConcatProperties, LenProperties, EmptySeq
<1>2. /\ Tail(s) \in Seq(S) /\ Len(Tail(s)) = Len(s) - 1
      /\ \A i \in 1..Len(s) - 1 : Tail(s)[i] = s[i + 1]
  BY HeadTailProperties
<1>3. /\ u \in Seq(S) /\ Len(u) = Len(s) - 1 + Len(t)
      /\ \A i \in 1..Len(s) - 1 + Len(t) : u[i] = IF i <= Len(s) - 1 THEN Tail(s)[i] ELSE t[i - (Len(s) - 1)]
  BY <1>2, ConcatProperties
<1> HIDE DEF r, u
<1>4. r # << >>
  BY <1>1, EmptySeq
<1>5. /\ Tail(r) \in Seq(S) /\ Len(Tail(r)) = Len(r) - 1
      /\ \A i \in 1..Len(r) - 1 : Tail(r)[i] = r[i + 1]
  BY <1>1, <1>4, HeadTailProperties
<1>6. ASSUME NEW i \in 1..Len(u) PROVE Tail(r)[i] = u[i]
  <2>1. i \in 1..Len(s) - 1 + Len(t) /\ i \in 1..Len(r) - 1 /\ i + 1 \in 1..Len(s) + Len(t)
    BY <1>1, <1>3
  <2>2. /\ Tail(r)[i] = IF i + 1 <= Len(s) THEN s[i + 1] ELSE t[i + 1 - Len(s)]
        /\ u[i] = IF i <= Len(s) - 1 THEN Tail(s)[i] ELSE t[i - (Len(s) - 1)]
    BY <1>1, <1>3, <1>5, <2>1
  <2>3. CASE i <= Len(s) - 1
    <3>1. i \in 1..Len(s) - 1 /\ i + 1 <= Len(s)
      BY <1>1, <2>1, <2>3
    <3> QED BY <1>2, <2>2, <2>3, <3>1
  <2>4. CASE ~(i <= Len(s) - 1)
    <3>1. ~(i + 1 <= Len(s)) /\ i + 1 - Len(s) = i - (Len(s) - 1)
      BY <1>1, <2>1, <2>4
    <3> QED BY <2>2, <2>4, <3>1
  <2> QED BY <2>3, <2>4
<1>7. Tail(r) = u
  <2>1. Len(Tail(r)) = Len(u)
    BY <1>1, <1>3, <1>5
  <2> QED BY <1>3, <1>5, <1>6, <2>1, SeqEqual
<1>8. Head(r) = r[1] /\ Head(s) = s[1]
  OBVIOUS
<1>9. Head(r) = Head(s)
  BY <1>1, <1>8
<1> QED
  BY <1>4, <1>7, <1>9 DEF r, u

LEMMA RemoveAtIs ==
    ASSUME NEW s, NEW i
    PROVE  RemoveAt(s, i) = SubSeq(s, 1, i - 1) \o SubSeq(s, i + 1, Len(s))
BY Zenon DEF RemoveAt

LEMMA RemovesMiddle ==
    ASSUME NEW S, NEW s \in Seq(S), NEW t \in Seq(S), NEW e \in S
    PROVE  /\ Len(s) + 1 \in DOMAIN (s \o <<e>> \o t)
           /\ RemoveAt(s \o <<e>> \o t, Len(s) + 1) = s \o t
<1> DEFINE a == s \o <<e>>
           r == a \o t
           n == Len(s)
           m == Len(t)
<1>1. n \in Nat /\ m \in Nat
  BY LenProperties
<1>2. /\ a \in Seq(S) /\ Len(a) = n + 1
      /\ \A i \in 1..n : a[i] = s[i]
  BY <1>1, Singles, ConcatProperties
<1> HIDE DEF a
<1>3. /\ r \in Seq(S) /\ Len(r) = n + 1 + m
      /\ \A i \in 1..n + 1 + m : r[i] = IF i <= n + 1 THEN a[i] ELSE t[i - (n + 1)]
  <2>1. /\ r \in Seq(S) /\ Len(r) = Len(a) + Len(t)
        /\ \A i \in 1..Len(a) + Len(t) : r[i] = IF i <= Len(a) THEN a[i] ELSE t[i - Len(a)]
    BY <1>2, ConcatProperties
  <2> HIDE DEF r
  <2> QED BY <1>2, <2>1
<1> HIDE DEF r
<1>4. DOMAIN r = 1..n + 1 + m
  BY <1>3, LenProperties
<1>5. SubSeq(r, 1, n) = s
  <2>0. \A i \in 1..n : r[i] = s[i]
    BY <1>1, <1>2, <1>3
  <2>1. \A i \in 1..n : r[i] \in S
    BY <2>0, <1>1, ElementOfSeq
  <2>2. /\ SubSeq(r, 1, n) \in Seq(S) /\ Len(SubSeq(r, 1, n)) = IF 1 <= n THEN n - 1 + 1 ELSE 0
        /\ \A i \in 1..n - 1 + 1 : SubSeq(r, 1, n)[i] = r[1 + i - 1]
    BY <2>1, <1>1, SubSeqProperties
  <2>3. Len(SubSeq(r, 1, n)) = n /\ \A i \in 1..n : SubSeq(r, 1, n)[i] = s[i]
    BY <2>0, <2>2, <1>1
  <2> QED BY <2>2, <2>3, SeqEqual
<1>6. SubSeq(r, n + 2, n + 1 + m) = t
  <2>0. \A i \in n + 2..n + 1 + m : r[i] = t[i - (n + 1)] /\ i - (n + 1) \in 1..m
    BY <1>1, <1>3
  <2>1. \A i \in n + 2..n + 1 + m : r[i] \in S
    BY <2>0, ElementOfSeq
  <2> DEFINE u == SubSeq(r, n + 2, n + 1 + m)
  <2>2. /\ u \in Seq(S) /\ Len(u) = IF n + 2 <= n + 1 + m THEN n + 1 + m - (n + 2) + 1 ELSE 0
        /\ \A i \in 1..n + 1 + m - (n + 2) + 1 : u[i] = r[n + 2 + i - 1]
    <3>1. n + 2 \in Int /\ n + 1 + m \in Int
      BY <1>1
    <3> QED BY <2>1, <3>1, SubSeqProperties
  <2> HIDE DEF u
  <2>3. Len(u) = m /\ \A i \in 1..m : u[i] = t[i]
    <3>1. \A i \in 1..m : n + 2 + i - 1 \in n + 2..n + 1 + m /\ n + 2 + i - 1 - (n + 1) = i
      BY <1>1
    <3>2. n + 1 + m - (n + 2) + 1 = m
      BY <1>1
    <3> QED BY <2>0, <2>2, <3>1, <3>2, <1>1
  <2>4. u = t
    BY <2>2, <2>3, SeqEqual
  <2> QED BY <2>4 DEF u
<1>7. PICK j : j = n + 1
  OBVIOUS
<1>8. RemoveAt(r, j) = SubSeq(r, 1, j - 1) \o SubSeq(r, j + 1, Len(r))
  BY RemoveAtIs
<1>9. RemoveAt(r, n + 1) = s \o t
  <2>1. j - 1 = n /\ j + 1 = n + 2
    BY <1>1, <1>7
  <2>2. RemoveAt(r, j) = s \o t
    BY <1>3, <1>5, <1>6, <1>8, <2>1
  <2> QED BY <1>7, <2>2
<1>10. n + 1 \in DOMAIN r
  BY <1>1, <1>4
<1> QED
  BY <1>9, <1>10 DEF r, a
-----------------------------------------------------------------------------
(* Refinement: the packets in a queue of descriptors *)

Reads(q, c) == [i \in DOMAIN q |-> c[q[i]]]

LEMMA ReadsSame ==
    ASSUME NEW q, NEW c, NEW d, \A x \in ToSet(q) : d[x] = c[x]
    PROVE  Reads(q, d) = Reads(q, c)
BY DEF Reads, ToSet

LEMMA ReadsType ==
    ASSUME NEW q \in Seq(PD), NEW c \in [PD -> Packet]
    PROVE  Reads(q, c) \in Seq(Packet) /\ Len(Reads(q, c)) = Len(q)
<1>1. DOMAIN q = 1..Len(q) /\ Len(q) \in Nat
  OBVIOUS
<1>2. \A i \in 1..Len(q) : c[q[i]] \in Packet
  OBVIOUS
<1> QED BY <1>1, <1>2 DEF Reads

LEMMA ReadsAppend ==
    ASSUME NEW q \in Seq(PD), NEW x \in PD, NEW c \in [PD -> Packet]
    PROVE  Reads(Append(q, x), c) = Reads(q, c) \o <<c[x]>>
<1> DEFINE r == Append(q, x)
           e == c[x]
           s == Reads(q, c)
<1>1. /\ r \in Seq(PD) /\ Len(r) = Len(q) + 1 /\ Len(q) \in Nat
      /\ \A i \in 1..Len(q) : r[i] = q[i]
      /\ r[Len(q) + 1] = x
  OBVIOUS
<1> HIDE DEF r
<1>2. s \in Seq(Packet) /\ Len(s) = Len(q) /\ Reads(r, c) \in Seq(Packet) /\ Len(Reads(r, c)) = Len(q) + 1
  BY <1>1, ReadsType
<1>3. e \in Packet
  OBVIOUS
<1>4. DOMAIN q = 1..Len(q) /\ DOMAIN r = 1..Len(q) + 1
  BY <1>1, LenProperties
<1>5. /\ \A i \in 1..Len(q) : s[i] = c[q[i]]
      /\ \A i \in 1..Len(q) + 1 : Reads(r, c)[i] = c[r[i]]
  BY <1>4 DEF Reads
<1> HIDE DEF e, s
<1>6. /\ s \o <<e>> \in Seq(Packet) /\ Len(s \o <<e>>) = Len(q) + 1
      /\ \A i \in 1..Len(q) + 1 : (s \o <<e>>)[i] = IF i <= Len(q) THEN s[i] ELSE <<e>>[i - Len(q)]
  <2>1. <<e>> \in Seq(Packet) /\ Len(<<e>>) = 1
    BY <1>3
  <2>2. /\ s \o <<e>> \in Seq(Packet) /\ Len(s \o <<e>>) = Len(s) + Len(<<e>>)
        /\ \A i \in 1..Len(s) + Len(<<e>>) :
             (s \o <<e>>)[i] = IF i <= Len(s) THEN s[i] ELSE <<e>>[i - Len(s)]
    BY <1>2, <2>1, ConcatProperties
  <2> QED BY <1>2, <2>1, <2>2
<1>7. ASSUME NEW i \in 1..Len(q) + 1 PROVE Reads(r, c)[i] = (s \o <<e>>)[i]
  <2>1. CASE i <= Len(q)
    BY <1>1, <1>5, <1>6, <2>1
  <2>2. CASE i = Len(q) + 1
    <3>1. (s \o <<e>>)[i] = <<e>>[1]
      BY <1>1, <1>6, <2>2
    <3> QED BY <1>1, <1>5, <2>2, <3>1 DEF e
  <2>3. i <= Len(q) \/ i = Len(q) + 1
    BY <1>1
  <2> QED BY <2>1, <2>2, <2>3
<1>8. Reads(r, c) = s \o <<e>>
  BY <1>2, <1>6, <1>7, SeqEqual
<1> QED BY <1>8 DEF r, e, s

LEMMA ReadsTail ==
    ASSUME NEW q \in Seq(PD), q # << >>, NEW c \in [PD -> Packet]
    PROVE  /\ Reads(q, c) # << >>
           /\ Head(Reads(q, c)) = c[Head(q)]
           /\ Tail(Reads(q, c)) = Reads(Tail(q), c)
           /\ Reads(q, c) = <<c[Head(q)]>> \o Reads(Tail(q), c)
<1> DEFINE x == Head(q)
           r == Tail(q)
           e == c[x]
           s == Reads(r, c)
<1>1. /\ r \in Seq(PD) /\ Len(r) = Len(q) - 1 /\ Len(q) \in Nat \ {0}
      /\ \A i \in 1..Len(r) : r[i] = q[i + 1]
      /\ x = q[1] /\ x \in PD
  OBVIOUS
<1> HIDE DEF r, x
<1>2. s \in Seq(Packet) /\ Len(s) = Len(q) - 1 /\ Reads(q, c) \in Seq(Packet) /\ Len(Reads(q, c)) = Len(q)
  BY <1>1, ReadsType
<1>3. e \in Packet
  BY <1>1
<1>4. DOMAIN q = 1..Len(q) /\ DOMAIN r = 1..Len(q) - 1
  BY <1>1, LenProperties
<1>5. /\ \A i \in 1..Len(q) - 1 : s[i] = c[r[i]]
      /\ \A i \in 1..Len(q) : Reads(q, c)[i] = c[q[i]]
  BY <1>4 DEF Reads
<1> HIDE DEF e, s
<1>6. /\ <<e>> \o s \in Seq(Packet) /\ Len(<<e>> \o s) = 1 + (Len(q) - 1)
      /\ \A i \in 1..1 + (Len(q) - 1) : (<<e>> \o s)[i] = IF i <= 1 THEN <<e>>[i] ELSE s[i - 1]
  BY <1>2, <1>3, Singles, ConcatProperties
<1>7. ASSUME NEW i \in 1..Len(q) PROVE Reads(q, c)[i] = (<<e>> \o s)[i]
  <2>1. CASE i = 1
    BY <1>1, <1>5, <1>6, <2>1 DEF e
  <2>2. CASE i # 1
    <3>1. i - 1 \in 1..Len(q) - 1 /\ i - 1 + 1 = i
      BY <1>1, <2>2
    <3>2. (<<e>> \o s)[i] = s[i - 1] /\ r[i - 1] = q[i]
      BY <1>1, <1>6, <2>2, <3>1
    <3> QED BY <1>5, <3>1, <3>2
  <2> QED BY <2>1, <2>2
<1>8. Reads(q, c) = <<e>> \o s
  <2>1. Len(<<e>> \o s) = Len(q)
    BY <1>1, <1>6
  <2> QED BY <1>2, <1>6, <1>7, <2>1, SeqEqual
<1>9. Tail(<<e>> \o s) = s /\ <<e>> \o s # << >>
  BY <1>2, <1>3, TakesFirst
<1>10. Head(<<e>> \o s) = e
  BY <1>1, <1>6
<1> QED BY <1>8, <1>9, <1>10 DEF r, e, s, x
-----------------------------------------------------------------------------
(* Refinement: what a step leaves to be seen *)

(* A step overwrites descriptors of place a at most. *)
Untouched(a) == \A l \in Place \ {a} : \A x \in At(l) : contents'[x] = contents[x]

LEMMA WriteUntouched ==
    ASSUME Good, NEW pd \in PD, NEW v, NEW a \in Place, pd \in At(a),
           contents' = [contents EXCEPT ![pd] = v]
    PROVE  Untouched(a) /\ contents'[pd] = v
BY OthersKeepContents DEF Good, NoDescriptorShared, Untouched

LEMMA ReadIs == \A q : Read(q) = Reads(q, contents) /\ Read(q)' = Reads(q', contents')
BY DEF Read, Reads

LEMMA InboxTypes ==
    ASSUME TypeInv, NEW p \in PID
    PROVE  /\ Read(waiting_receives[p]) \in Seq(Packet)
           /\ MailFor(p, full_pd) \in Seq(Packet)
           /\ MailFor(p, curr_pd) \in Seq(Packet)
<1>1. waiting_receives[p] \in Seq(PD) /\ contents \in [PD -> Packet]
  BY DEF TypeInv, TypeOK
<1>2. \A x \in PD : <<contents[x]>> \in Seq(Packet)
  BY <1>1, Singles
<1>3. << >> \in Seq(Packet)
  BY EmptySeq
<1>4. full_pd \in PD \cup {NoPD} /\ curr_pd \in PD \cup {NoPD}
  BY DEF TypeInv, TypeOK
<1> QED BY <1>1, <1>2, <1>3, <1>4, ReadsType, ReadIs DEF MailFor

LEMMA OutboxTypes ==
    ASSUME TypeInv
    PROVE  Read(waiting_PDs) \in Seq(Packet) /\ Sending \in Seq(Packet)
<1>1. waiting_PDs \in Seq(PD) /\ contents \in [PD -> Packet]
  BY DEF TypeInv, TypeOK
<1>2. sendPc = "send" => message \in PD
  BY ConstantsOK DEF TypeInv, TypeOK, HoldsOK
<1>3. << >> \in Seq(Packet)
  BY EmptySeq
<1> QED BY <1>1, <1>2, <1>3, ReadsType, ReadIs, Singles DEF Sending

LEMMA UntouchedQueues ==
    ASSUME NEW a, Untouched(a)
    PROVE  /\ a # "sendq" /\ waiting_PDs' = waiting_PDs => Read(waiting_PDs)' = Read(waiting_PDs)
           /\ \A p \in PID : a # p /\ waiting_receives'[p] = waiting_receives[p]
                => Read(waiting_receives[p])' = Read(waiting_receives[p])
<1>1. "sendq" \in Place /\ PID \subseteq Place
  BY PlacesDiffer DEF DriverPlace
<1>2. a # "sendq" => \A x \in ToSet(waiting_PDs) : contents'[x] = contents[x]
  BY <1>1, AtPlaces DEF Untouched
<1>3. \A p \in PID : a # p => \A x \in ToSet(waiting_receives[p]) : contents'[x] = contents[x]
  BY <1>1, AtPlaces DEF Untouched
<1>4. ASSUME a # "sendq", waiting_PDs' = waiting_PDs
      PROVE  Read(waiting_PDs)' = Read(waiting_PDs)
  <2>1. Reads(waiting_PDs, contents') = Reads(waiting_PDs, contents)
    BY <1>2, <1>4, ReadsSame
  <2> QED BY <1>4, <2>1 DEF Read, Reads
<1>5. ASSUME NEW p \in PID, a # p, waiting_receives'[p] = waiting_receives[p]
      PROVE  Read(waiting_receives[p])' = Read(waiting_receives[p])
  <2>1. Reads(waiting_receives[p], contents') = Reads(waiting_receives[p], contents)
    BY <1>3, <1>5, ReadsSame
  <2> QED BY <1>5, <2>1 DEF Read, Reads
<1> QED BY <1>4, <1>5

LEMMA UntouchedHands ==
    ASSUME NEW a, Untouched(a)
    PROVE  /\ \A p \in PID : a # "full" /\ full_pd' = full_pd
                => MailFor(p, full_pd)' = MailFor(p, full_pd)
           /\ \A p \in PID : a # "current" /\ curr_pd' = curr_pd
                => MailFor(p, curr_pd)' = MailFor(p, curr_pd)
           /\ \A t \in App : a # t /\ appPD'[t] = appPD[t] => HandOf(t)' = HandOf(t)
           /\ /\ a # "sender" /\ message' = message /\ message # NoPD
              /\ sendPc = "send" <=> sendPc' = "send"
              => Sending' = Sending
<1>1. {"full", "current", "sender"} \subseteq Place /\ App \subseteq Place
  BY PlacesDiffer DEF DriverPlace
<1>2. /\ a # "full" /\ full_pd # NoPD => contents'[full_pd] = contents[full_pd]
      /\ a # "current" /\ curr_pd # NoPD => contents'[curr_pd] = contents[curr_pd]
      /\ a # "sender" /\ message # NoPD => contents'[message] = contents[message]
      /\ \A t \in App : a # t /\ appPD[t] # NoPD => contents'[appPD[t]] = contents[appPD[t]]
  BY <1>1, AtPlaces DEF Untouched
<1>3. ASSUME a # "full", full_pd' = full_pd, NEW p \in PID
      PROVE  MailFor(p, full_pd)' = MailFor(p, full_pd)
  BY <1>2, <1>3 DEF MailFor
<1>4. ASSUME a # "current", curr_pd' = curr_pd, NEW p \in PID
      PROVE  MailFor(p, curr_pd)' = MailFor(p, curr_pd)
  BY <1>2, <1>4 DEF MailFor
<1>5. ASSUME NEW t \in App, a # t, appPD'[t] = appPD[t] PROVE HandOf(t)' = HandOf(t)
  BY <1>2, <1>5 DEF HandOf
<1>6. ASSUME a # "sender", message' = message, message # NoPD, sendPc = "send" <=> sendPc' = "send"
      PROVE  Sending' = Sending
  BY <1>2, <1>6 DEF Sending
<1> QED BY <1>3, <1>4, <1>5, <1>6

(* What can be seen of one application, of the sender, and of a thread. *)
Invisible ==
    /\ \A p \in PID : InboxOf(p)' = InboxOf(p)
    /\ Outbox' = Outbox
    /\ \A t \in App : HandOf(t)' = HandOf(t)
    /\ arrivals' = arrivals

LEMMA InboxSame ==
    ASSUME NEW p \in PID, Read(waiting_receives[p])' = Read(waiting_receives[p]),
           MailFor(p, full_pd)' = MailFor(p, full_pd), MailFor(p, curr_pd)' = MailFor(p, curr_pd)
    PROVE  InboxOf(p)' = InboxOf(p)
BY DEF InboxOf

(* A step that overwrites descriptors in one place, where no packet can be   *)
(* seen, and moves none.                                                     *)
LEMMA InboxUntouched ==
    ASSUME NEW a, Untouched(a), NEW p \in PID, a \notin PID \cup {"full", "current"},
           UNCHANGED <<waiting_receives, full_pd, curr_pd>>
    PROVE  InboxOf(p)' = InboxOf(p)
BY UntouchedQueues, UntouchedHands, InboxSame

LEMMA OutboxUntouched ==
    ASSUME TypeInv, NEW a, Untouched(a), a # "sendq", a # "sender",
           UNCHANGED <<waiting_PDs, sendPc, message>>
    PROVE  Outbox' = Outbox
<1>1. Read(waiting_PDs)' = Read(waiting_PDs)
  BY UntouchedQueues
<1>2. Sending' = Sending
  <2>1. CASE sendPc = "send"
    <3>1. message # NoPD
      BY <2>1 DEF TypeInv, HoldsOK
    <3> QED BY <3>1, UntouchedHands
  <2>2. CASE sendPc # "send"
    BY <2>2 DEF Sending
  <2> QED BY <2>1, <2>2
<1> QED BY <1>1, <1>2 DEF Outbox

LEMMA HandUntouched ==
    ASSUME NEW a, Untouched(a), NEW t \in App, a # t, appPD'[t] = appPD[t]
    PROVE  HandOf(t)' = HandOf(t)
BY UntouchedHands

LEMMA SameContents == ASSUME NEW a, UNCHANGED contents PROVE Untouched(a)
BY DEF Untouched
-----------------------------------------------------------------------------
(* Refinement: descriptors in the store and the pool hold no packet. *)

Recycled ==
    /\ \A pd \in At("store") \cup At("pool") : contents[pd] = Stale
    /\ recvPc \in {"firstRegister", "register"} => contents[curr_pd] = Stale

RInv == IInv /\ Recycled

LEMMA RInvInit == Init => RInv
<1> SUFFICES ASSUME Init PROVE Recycled
  BY IInvInit DEF RInv
<1>1. At("store") = PD /\ At("pool") = {}
  BY AtPlaces DEF Init, ToSet
<1> QED BY <1>1 DEF Init, Recycled

(* What comes to the store or the pool is made stale on the way. *)
LEMMA ReturnsStale ==
    ASSUME Good, Recycled, NEW pd \in PD, NEW a \in Place, NEW b \in {"store", "pool"},
           a \notin {"store", "pool", "current"}, Moves(pd, a, b),
           contents' = [contents EXCEPT ![pd] = Stale], UNCHANGED <<recvPc, curr_pd>>
    PROVE  Recycled'
<1>1. {"store", "pool", "current"} \subseteq Place
  BY PlacesDiffer DEF DriverPlace
<1>2. Untouched(a) /\ contents'[pd] = Stale
  BY WriteUntouched DEF Moves
<1>3. \A x \in At("store")' \cup At("pool")' : x = pd \/ x \in At("store") \cup At("pool")
  BY <1>1 DEF Moves
<1>4. \A x \in At("store") \cup At("pool") : contents'[x] = contents[x]
  BY <1>1, <1>2 DEF Untouched
<1>5. recvPc \in {"firstRegister", "register"} => contents'[curr_pd] = contents[curr_pd]
  <2>1. recvPc \in {"firstRegister", "register"} => curr_pd \in At("current")
    BY AtPlaces DEF Good, TypeInv, TypeOK, HoldsOK
  <2> QED BY <1>1, <1>2, <2>1 DEF Untouched
<1> QED BY <1>2, <1>3, <1>4, <1>5 DEF Recycled

(* Nothing comes to them, and the step overwrites descriptors elsewhere. *)
LEMMA NothingReturns ==
    ASSUME Good, Recycled, NEW a \in Place \ {"store", "pool"}, Untouched(a),
           At("store")' \cup At("pool")' \subseteq At("store") \cup At("pool"),
           recvPc' \in {"firstRegister", "register"} =>
              a # "current" /\ recvPc' = recvPc /\ curr_pd' = curr_pd
    PROVE  Recycled'
<1>1. {"store", "pool", "current"} \subseteq Place
  BY PlacesDiffer DEF DriverPlace
<1>2. \A x \in At("store")' \cup At("pool")' : contents'[x] = contents[x]
  BY <1>1 DEF Untouched
<1>3. ASSUME recvPc' \in {"firstRegister", "register"}
      PROVE  /\ contents'[curr_pd] = contents[curr_pd] /\ curr_pd' = curr_pd
             /\ recvPc \in {"firstRegister", "register"}
  <2>1. curr_pd \in At("current")
    BY <1>3, AtPlaces DEF Good, TypeInv, TypeOK, HoldsOK
  <2> QED BY <1>1, <1>3, <2>1 DEF Untouched
<1> QED BY <1>2, <1>3 DEF Recycled

LEMMA RecycledQuiet ==
    ASSUME Good, Recycled, UNCHANGED contents,
           \/ Stays
           \/ \E pd \in PD, a \in Place, b \in Place \ {"store", "pool"} : Moves(pd, a, b),
           recvPc' \in {"firstRegister", "register"} => recvPc' = recvPc /\ curr_pd' = curr_pd
    PROVE  Recycled'
<1>1. {"store", "pool", "sender"} \subseteq Place
  BY PlacesDiffer DEF DriverPlace
<1>2. At("store")' \cup At("pool")' \subseteq At("store") \cup At("pool")
  BY <1>1 DEF Stays, Moves
<1>3. Untouched("sender")
  BY SameContents
<1> QED BY <1>1, <1>2, <1>3, NothingReturns

LEMMA RecycledBySender == ASSUME Good, Recycled, send_thread PROVE Recycled'
<1>0. {"store", "pool", "sendq", "sender"} \subseteq Place
  BY PlacesDiffer DEF DriverPlace
<1>1. UNCHANGED <<recvPc, curr_pd>>
  BY DEF send_thread, SenderRead, SenderSend, SenderPutPool, SenderPoolFull, SenderPutStore, receiver
<1>2. CASE SenderRead
  <2>1. PICK pd \in PD : Moves(pd, "sendq", "sender")
    BY <1>2, SenderReadMoves DEF Good
  <2> QED BY <1>0, <1>1, <1>2, <2>1, RecycledQuiet DEF SenderRead
<1>3. CASE SenderSend \/ SenderPoolFull
  <2>1. UNCHANGED contents
    BY <1>3 DEF SenderSend, SenderPoolFull
  <2> QED BY <1>1, <1>3, <2>1, OthersMoveNothing, RecycledQuiet
<1>4. CASE SenderPutPool \/ SenderPutStore
  <2>1. PICK pd \in PD, b \in {"store", "pool"} : Moves(pd, "sender", b)
    BY <1>4, SenderPutPoolMoves, SenderPutStoreMoves DEF Good
  <2>2. pd = message
    BY <2>1, AtPlaces DEF Moves
  <2>3. contents' = [contents EXCEPT ![pd] = Stale]
    BY <1>4, <2>2 DEF SenderPutPool, SenderPutStore, PutInPool, PutInStore
  <2> QED BY <1>0, <1>1, <2>1, <2>3, ReturnsStale
<1> QED BY <1>2, <1>3, <1>4 DEF send_thread

LEMMA RecycledByReceiver == ASSUME Good, Recycled, receive_thread PROVE Recycled'
<1>0. {"store", "pool", "current", "full"} \subseteq Place
  BY PlacesDiffer DEF DriverPlace
<1>1. CASE ReceiverFirstGet \/ ReceiverGetPool \/ ReceiverGetStore
  <2>1. PICK pd \in PD, a \in {"store", "pool"} : Moves(pd, a, "current")
    BY <1>1, ReceiverFirstGetMoves, ReceiverGetPoolMoves, ReceiverGetStoreMoves DEF Good
  <2>2. UNCHANGED contents /\ curr_pd = NoPD
    BY <1>1 DEF Good, TypeInv, HoldsOK, ReceiverFirstGet, ReceiverGetPool, ReceiverGetStore
  <2>3. curr_pd' = pd
    BY <2>1, <2>2, AtPlaces, AtPlacesPrime DEF Moves
  <2>4. contents[pd] = Stale
    BY <2>1 DEF Moves, Recycled
  <2>5. At("store")' \cup At("pool")' \subseteq At("store") \cup At("pool")
    BY <1>0, <2>1 DEF Moves
  <2> QED BY <2>2, <2>3, <2>4, <2>5 DEF Recycled
<1>2. CASE ReceiverFirstRegister \/ ReceiverRegister
  <2>1. /\ curr_pd \in PD /\ curr_pd \in At("current")
        /\ contents' = [contents EXCEPT ![curr_pd] = Blank]
        /\ recvPc' \in {"await", "deliver"}
    BY <1>2, AtPlaces DEF Good, TypeInv, TypeOK, HoldsOK, ReceiverFirstRegister, ReceiverRegister,
                          InitAndRegister
  <2>2. Untouched("current")
    BY <1>0, <2>1, WriteUntouched
  <2>3. At("store")' \cup At("pool")' \subseteq At("store") \cup At("pool")
    BY <1>0, <1>2, OthersMoveNothing DEF Stays
  <2> QED BY <1>0, <2>1, <2>2, <2>3, NothingReturns
<1>3. CASE ReceiverAwait
  <2>1. PICK pd \in PD : Moves(pd, "current", "full")
    BY <1>3, ReceiverAwaitMoves DEF Good
  <2> QED BY <1>0, <1>3, <2>1, RecycledQuiet DEF ReceiverAwait
<1>4. CASE ReceiverReuse
  <2>1. PICK pd \in PD : Moves(pd, "full", "current")
    BY <1>4, ReceiverReuseMoves DEF Good
  <2>2. pd = full_pd
    BY <2>1, AtPlaces DEF Moves
  <2>3. contents' = [contents EXCEPT ![pd] = Blank] /\ recvPc' = "await"
    BY <1>4, <2>2 DEF ReceiverReuse, InitAndRegister
  <2>4. Untouched("full")
    BY <1>0, <2>1, <2>3, WriteUntouched DEF Moves
  <2>5. At("store")' \cup At("pool")' \subseteq At("store") \cup At("pool")
    BY <1>0, <2>1 DEF Moves
  <2> QED BY <1>0, <2>3, <2>4, <2>5, NothingReturns
<1>5. CASE ReceiverDeliver
  <2>1. PICK p \in PID : contents[full_pd].who = p
    BY <1>5, FullIsAddressed DEF Good
  <2>2. PICK pd \in PD : Moves(pd, "full", p)
    BY <1>5, <2>1, ReceiverDeliverMoves DEF Good
  <2>3. p \in Place \ {"store", "pool"}
    BY PlacesDiffer DEF DriverPlace
  <2> QED BY <1>0, <1>5, <2>2, <2>3, RecycledQuiet DEF ReceiverDeliver
<1>6. CASE ReceiverPutPool \/ ReceiverPutStore
  <2>1. PICK pd \in PD, b \in {"store", "pool"} : Moves(pd, "full", b)
    BY <1>6, ReceiverPutPoolMoves, ReceiverPutStoreMoves DEF Good
  <2>2. pd = full_pd
    BY <2>1, AtPlaces DEF Moves
  <2>3. /\ contents' = [contents EXCEPT ![pd] = Stale]
        /\ recvPc' = "await"
    BY <1>6, <2>2 DEF ReceiverPutPool, ReceiverPutStore, PutInPool, PutInStore
  <2>4. Untouched("full") /\ contents'[pd] = Stale
    BY <1>0, <2>1, <2>3, WriteUntouched DEF Moves
  <2>5. \A x \in At("store")' \cup At("pool")' : x = pd \/ x \in At("store") \cup At("pool")
    BY <1>0, <2>1 DEF Moves
  <2>6. \A x \in At("store") \cup At("pool") : contents'[x] = contents[x]
    BY <1>0, <2>4 DEF Untouched
  <2> QED BY <2>3, <2>4, <2>5, <2>6 DEF Recycled
<1>7. CASE ReceiverPoolEmpty \/ ReceiverBufferFull \/ ReceiverPoolFull
  <2>1. UNCHANGED contents /\ recvPc' \notin {"firstRegister", "register"}
    BY <1>7 DEF ReceiverPoolEmpty, ReceiverBufferFull, ReceiverPoolFull
  <2> QED BY <1>7, <2>1, OthersMoveNothing, RecycledQuiet
<1> QED BY <1>1, <1>2, <1>3, <1>4, <1>5, <1>6, <1>7 DEF receive_thread

LEMMA RecycledByApp == ASSUME Good, Recycled, NEW t \in App, AppStep(t) PROVE Recycled'
<1>0. /\ {"store", "pool", "sendq", "current"} \subseteq Place
      /\ t \in Place \ {"store", "pool", "current", "sendq"}
      /\ AppPid[t] \in PID /\ AppPid[t] \in Place \ {"store", "pool"}
  BY PlacesDiffer, ConstantsOK DEF DriverPlace
<1>1. UNCHANGED <<recvPc, curr_pd>>
  BY DEF AppStep, AppCompose, nonblocking_send_packet, BlockingSendCall, blocking_send_packet,
         nonblocking_get_packet, BlockingGetCall, blocking_get_packet, AppRelease, SendQueueWrite,
         ReceivedRead, receiver
<1>2. CASE AppCompose(t)
  <2>1. PICK pd \in free_pds : /\ free_pds' = free_pds \ {pd}
                               /\ contents' = [contents EXCEPT ![pd] = Outgoing(AppPid[t])]
    BY <1>2 DEF AppCompose
  <2>2. pd \in PD /\ pd \in At("store") /\ UNCHANGED PD_receiver_pool
    BY <1>2, <2>1, AtPlaces DEF Good, TypeInv, TypeOK, AppCompose, buffers
  <2>3. /\ At("store")' = At("store") \ {pd} /\ At("pool")' = At("pool")
    BY <2>1, <2>2, AtPlaces, AtPlacesPrime
  <2>4. \A x \in PD \ {pd} : contents'[x] = contents[x]
    BY <2>1
  <2>5. At("store") \cup At("pool") \subseteq PD
    BY AtPlaces DEF Good, TypeInv, TypeOK, ToSet
  <2>6. pd \notin At("pool") /\ pd \notin At("current")
    BY <1>0, <2>2 DEF Good, NoDescriptorShared, PlacesDisjoint
  <2>7. recvPc \in {"firstRegister", "register"} => contents'[curr_pd] = contents[curr_pd]
    <3>1. recvPc \in {"firstRegister", "register"} => curr_pd \in PD /\ curr_pd \in At("current")
      BY AtPlaces DEF Good, TypeInv, TypeOK, HoldsOK
    <3> QED BY <2>4, <2>6, <3>1
  <2> QED BY <1>1, <2>3, <2>4, <2>5, <2>6, <2>7 DEF Recycled
<1>3. CASE nonblocking_send_packet(t) \/ blocking_send_packet(t)
  <2>1. appPc[t] \in {"composed", "sending"} /\ SendQueueWrite(t) /\ UNCHANGED contents
    BY <1>3 DEF nonblocking_send_packet, blocking_send_packet, AppGoto, SendQueueWrite
  <2>2. PICK pd \in PD : Moves(pd, t, "sendq")
    BY <2>1, SendQueueWriteMoves DEF Good
  <2> QED BY <1>0, <1>1, <2>1, <2>2, RecycledQuiet
<1>4. CASE nonblocking_get_packet(t) \/ blocking_get_packet(t)
  <2>1. appPc[t] \in {"idle", "getting"} /\ ReceivedRead(t) /\ UNCHANGED contents
    BY <1>4 DEF nonblocking_get_packet, blocking_get_packet, AppGoto, ReceivedRead
  <2>2. PICK pd \in PD : Moves(pd, AppPid[t], t)
    BY <2>1, ReceivedReadMoves DEF Good
  <2> QED BY <1>0, <1>1, <2>1, <2>2, RecycledQuiet
<1>5. CASE AppRelease(t)
  <2>1. PICK pd \in PD : Moves(pd, t, "store")
    BY <1>5, AppReleaseMoves DEF Good
  <2>2. pd = appPD[t]
    BY <2>1, AtPlaces DEF Moves
  <2>3. contents' = [contents EXCEPT ![pd] = Stale]
    BY <1>5, <2>2 DEF AppRelease, PutInStore
  <2> QED BY <1>0, <1>1, <2>1, <2>3, ReturnsStale
<1>6. CASE BlockingSendCall(t) \/ BlockingGetCall(t)
  <2>1. UNCHANGED contents
    BY <1>6 DEF BlockingSendCall, BlockingGetCall
  <2> QED BY <1>1, <1>6, <2>1, OthersMoveNothing, RecycledQuiet
<1> QED BY <1>2, <1>3, <1>4, <1>5, <1>6 DEF AppStep

LEMMA RInvStep == RInv /\ [Next]_vars => RInv'
<1> SUFFICES ASSUME Good, Recycled, [Next]_vars PROVE Recycled'
  BY IInvStep DEF RInv, IInv
<1>0. {"store", "pool", "current"} \subseteq Place
  BY PlacesDiffer DEF DriverPlace
<1>1. CASE InitStep
  <2>1. UNCHANGED <<contents, curr_pd>> /\ recvPc' \notin {"register", "firstRegister"}
    BY <1>1 DEF Good, TypeInv, HoldsOK, InitStep, InitFillPool, InitStartSender, InitStartReceiver, receiver
  <2>2. At("store")' \cup At("pool")' \subseteq At("store") \cup At("pool")
    <3>1. CASE InitFillPool
      BY <1>0, <3>1, InitFillPoolMoves DEF Good, Moves
    <3> QED BY <1>0, <1>1, <3>1, OthersMoveNothing DEF InitStep, Stays
  <2> QED BY <2>1, <2>2 DEF Recycled
<1>2. ASSUME NEW p \in PID, NetworkArrive(p) PROVE Recycled'
  <2>1. /\ curr_pd \in PD /\ curr_pd \in At("current") /\ UNCHANGED recvPc
        /\ contents' = [contents EXCEPT ![curr_pd] = Incoming(p, arrivals')]
        /\ contents[curr_pd] = Blank
    BY <1>2, AtPlaces DEF Good, TypeInv, TypeOK, HoldsOK, DeviceReady, NetworkArrive, receiver
  <2>2. Untouched("current")
    BY <1>0, <2>1, WriteUntouched
  <2>3. At("store")' \cup At("pool")' \subseteq At("store") \cup At("pool")
    BY <1>0, <1>2, OthersMoveNothing DEF Stays
  <2>4. recvPc \notin {"firstRegister", "register"}
    BY <2>1 DEF Recycled, Blank, Stale
  <2> QED BY <1>0, <2>1, <2>2, <2>3, <2>4, NothingReturns
<1>3. CASE UNCHANGED vars
  <2>1. UNCHANGED <<contents, recvPc, curr_pd>>
    BY <1>3 DEF vars, receiver
  <2> QED BY <1>3, <2>1, OthersMoveNothing, RecycledQuiet
<1> QED BY <1>1, <1>2, <1>3, RecycledBySender, RecycledByReceiver, RecycledByApp DEF Next
-----------------------------------------------------------------------------
(* Refinement: the steps that cannot be seen *)

(* Threads move between two statements, or descriptors without packets.     *)
LEMMA NoPacketMoves ==
    ASSUME TypeInv, UNCHANGED <<contents, waiting_PDs, waiting_receives, message, full_pd, arrivals>>,
           sendPc = "send" <=> sendPc' = "send",
           \A p \in PID : MailFor(p, curr_pd)' = MailFor(p, curr_pd),
           \A t \in App : HandOf(t)' = HandOf(t)
    PROVE  Invisible
<1>1. Untouched("store")
  BY SameContents
<1>2. ASSUME NEW p \in PID PROVE InboxOf(p)' = InboxOf(p)
  <2>1. "store" # p
    BY <1>2, PlacesDiffer DEF DriverPlace
  <2>2. Read(waiting_receives[p])' = Read(waiting_receives[p])
    BY <1>1, <1>2, <2>1, UntouchedQueues
  <2>3. MailFor(p, full_pd)' = MailFor(p, full_pd)
    BY <1>1, <1>2, UntouchedHands
  <2> QED BY <1>2, <2>2, <2>3, InboxSame
<1>3. Outbox' = Outbox
  <2>1. Read(waiting_PDs)' = Read(waiting_PDs)
    BY <1>1, UntouchedQueues
  <2>2. Sending' = Sending
    BY DEF Sending
  <2> QED BY <2>1, <2>2 DEF Outbox
<1> QED BY <1>2, <1>3 DEF Invisible

LEMMA QuietInvisible ==
    ASSUME TypeInv,
           \/ UNCHANGED vars \/ InitStep \/ SenderPoolFull \/ ReceiverPoolEmpty
           \/ ReceiverBufferFull \/ ReceiverPoolFull
           \/ \E t \in App : BlockingSendCall(t) \/ BlockingGetCall(t)
    PROVE  Invisible
<1>1. /\ UNCHANGED <<contents, waiting_PDs, waiting_receives, message, full_pd, arrivals, curr_pd, appPD>>
      /\ sendPc = "send" <=> sendPc' = "send"
  BY DEF vars, InitStep, InitFillPool, InitStartSender, InitStartReceiver, SenderPoolFull, ReceiverPoolEmpty,
         ReceiverBufferFull, ReceiverPoolFull, BlockingSendCall, BlockingGetCall,
         buffers, sender, receiver, device, apps, TypeInv, HoldsOK
<1>2. Untouched("store")
  BY <1>1, SameContents
<1>3. \A p \in PID : MailFor(p, curr_pd)' = MailFor(p, curr_pd)
  BY <1>1, <1>2, UntouchedHands
<1>4. \A t \in App : HandOf(t)' = HandOf(t)
  BY <1>1 DEF HandOf
<1> QED BY <1>1, <1>3, <1>4, NoPacketMoves

LEMMA SenderInvisible ==
    ASSUME Good, SenderRead \/ SenderPutPool \/ SenderPutStore
    PROVE  Invisible
<1>0. /\ "sender" \in Place /\ "sender" \notin PID \cup App
  BY PlacesDiffer DEF DriverPlace
<1>1. UNCHANGED <<waiting_receives, full_pd, curr_pd, appPD, arrivals>>
  BY DEF SenderRead, SenderPutPool, SenderPutStore, PutInPool, PutInStore, buffers, receiver, device, apps
<1>2. Untouched("sender")
  <2>1. CASE SenderRead
    <3>1. UNCHANGED contents
      BY <2>1 DEF SenderRead
    <3> QED BY <3>1, SameContents
  <2>2. CASE SenderPutPool \/ SenderPutStore
    <3>1. message \in PD /\ message \in At("sender") /\ contents' = [contents EXCEPT ![message] = Stale]
      BY <2>2, AtPlaces DEF Good, TypeInv, TypeOK, HoldsOK, SenderPutPool, SenderPutStore, PutInPool, PutInStore
    <3> QED BY <1>0, <3>1, WriteUntouched
  <2> QED BY <2>1, <2>2
<1>3. \A p \in PID : InboxOf(p)' = InboxOf(p)
  BY <1>0, <1>1, <1>2, InboxUntouched
<1>4. \A t \in App : HandOf(t)' = HandOf(t)
  BY <1>0, <1>1, <1>2, HandUntouched
<1>5. Outbox' = Outbox
  <2>1. CASE SenderPutPool \/ SenderPutStore
    <3>1. Sending = << >> /\ Sending' = << >> /\ waiting_PDs' = waiting_PDs
      BY <2>1 DEF Sending, SenderPutPool, SenderPutStore, PutInPool, PutInStore, buffers
    <3>2. Read(waiting_PDs)' = Read(waiting_PDs)
      BY <1>2, <3>1, UntouchedQueues
    <3> QED BY <3>1, <3>2 DEF Outbox
  <2>2. CASE SenderRead
    <3>1. /\ waiting_PDs \in Seq(PD) /\ waiting_PDs # << >> /\ waiting_PDs' = Tail(waiting_PDs)
          /\ message' = Head(waiting_PDs) /\ contents' = contents /\ contents \in [PD -> Packet]
          /\ sendPc = "read" /\ sendPc' = "send"
      BY <2>2 DEF SenderRead, Good, TypeInv, TypeOK
    <3>2. Outbox = << >> \o Reads(waiting_PDs, contents)
      BY <3>1, ReadIs DEF Outbox, Sending
    <3>3. Outbox' = <<contents[Head(waiting_PDs)]>> \o Reads(Tail(waiting_PDs), contents)
      BY <3>1 DEF Outbox, Sending, Read, Reads
    <3>4. Reads(waiting_PDs, contents) \in Seq(Packet)
      BY <3>1, ReadsType
    <3>5. << >> \o Reads(waiting_PDs, contents) = Reads(waiting_PDs, contents)
      BY <3>4, ConcatEmptySeq
    <3> QED BY <3>1, <3>2, <3>3, <3>5, ReadsTail
  <2> QED BY <2>1, <2>2
<1> QED BY <1>1, <1>3, <1>4, <1>5 DEF Invisible

(* A descriptor without a packet is taken, or cleaned for the device.       *)
LEMMA TakesBlankInvisible ==
    ASSUME Good, Recycled, ReceiverFirstGet \/ ReceiverGetPool \/ ReceiverGetStore
    PROVE  Invisible
<1>1. /\ UNCHANGED <<contents, waiting_PDs, waiting_receives, message, full_pd, arrivals, sendPc, appPD>>
      /\ curr_pd = NoPD
  BY DEF Good, TypeInv, HoldsOK, ReceiverFirstGet, ReceiverGetPool, ReceiverGetStore, buffers, sender, device, apps
<1>2. curr_pd' \in At("store") \cup At("pool")
  <2>1. CASE ReceiverGetPool
    <3>1. curr_pd' = Head(PD_receiver_pool) /\ PD_receiver_pool # << >> /\ PD_receiver_pool \in Seq(PD)
          /\ IsInjective(PD_receiver_pool)
      BY <2>1 DEF ReceiverGetPool, Good, TypeInv, TypeOK, NoDescriptorShared, NoRepeats
    <3> QED BY <3>1, TailElements, AtPlaces
  <2>2. CASE ReceiverFirstGet \/ ReceiverGetStore
    BY <2>2, AtPlaces DEF ReceiverFirstGet, ReceiverGetStore
  <2> QED BY <2>1, <2>2
<1>3. contents[curr_pd'] = Stale
  BY <1>2 DEF Recycled
<1>4. \A p \in PID : MailFor(p, curr_pd)' = MailFor(p, curr_pd)
  BY <1>1, <1>3 DEF MailFor, Stale
<1>5. \A t \in App : HandOf(t)' = HandOf(t)
  BY <1>1 DEF HandOf
<1> QED BY <1>1, <1>4, <1>5, NoPacketMoves DEF Good

LEMMA RegisterInvisible ==
    ASSUME Good, Recycled, ReceiverFirstRegister \/ ReceiverRegister
    PROVE  Invisible
<1>0. "current" \in Place /\ "current" \notin PID \cup App
  BY PlacesDiffer DEF DriverPlace
<1>1. /\ curr_pd \in PD /\ curr_pd \in At("current") /\ contents[curr_pd] = Stale
      /\ contents' = [contents EXCEPT ![curr_pd] = Blank]
      /\ UNCHANGED <<waiting_PDs, waiting_receives, message, full_pd, curr_pd, arrivals, sendPc, appPD>>
  BY AtPlaces DEF Good, Recycled, TypeInv, TypeOK, HoldsOK, ReceiverFirstRegister, ReceiverRegister, InitAndRegister,
                  buffers, sender, apps
<1>2. Untouched("current") /\ contents'[curr_pd] = Blank
  BY <1>0, <1>1, WriteUntouched
<1>3. \A p \in PID : MailFor(p, curr_pd) = << >> /\ MailFor(p, curr_pd)' = << >>
  BY <1>1, <1>2 DEF MailFor, Stale, Blank
<1>4. ASSUME NEW p \in PID PROVE InboxOf(p)' = InboxOf(p)
  <2>1. Read(waiting_receives[p])' = Read(waiting_receives[p])
    BY <1>0, <1>1, <1>2, UntouchedQueues
  <2>2. MailFor(p, full_pd)' = MailFor(p, full_pd)
    BY <1>1, <1>2, UntouchedHands
  <2> QED BY <1>3, <2>1, <2>2, InboxSame
<1>5. \A t \in App : HandOf(t)' = HandOf(t)
  BY <1>0, <1>1, <1>2, HandUntouched
<1>6. Outbox' = Outbox
  BY <1>1, <1>2, OutboxUntouched DEF Good
<1> QED BY <1>1, <1>4, <1>5, <1>6 DEF Invisible

(* The packet goes from the device to the receiver's hands, and from there to *)
(* the buffer of its application.                                            *)
LEMMA DeliveryInvisible ==
    ASSUME Good, ReceiverAwait \/ ReceiverDeliver
    PROVE  Invisible
<1>1. UNCHANGED <<contents, waiting_PDs, message, arrivals, sendPc, appPD>>
  BY DEF ReceiverAwait, ReceiverDeliver, buffers, sender, device, apps
<1>2. Untouched("store")
  BY <1>1, SameContents
<1>3. Outbox' = Outbox
  BY <1>1, <1>2, OutboxUntouched DEF Good
<1>4. \A t \in App : HandOf(t)' = HandOf(t)
  BY <1>1 DEF HandOf
<1>5. ASSUME NEW p \in PID PROVE InboxOf(p)' = InboxOf(p)
  <2> DEFINE r == Read(waiting_receives[p])
             f == MailFor(p, full_pd)
             c == MailFor(p, curr_pd)
  <2>1. r \in Seq(Packet) /\ f \in Seq(Packet) /\ c \in Seq(Packet)
    BY <1>5, InboxTypes DEF Good
  <2>2. InboxOf(p) = (r \o f) \o c /\ InboxOf(p)' = (r' \o f') \o c'
    BY DEF InboxOf
  <2>3. CASE ReceiverAwait
    <3>1. full_pd = NoPD /\ full_pd' = curr_pd /\ curr_pd' = NoPD /\ waiting_receives' = waiting_receives
      BY <2>3 DEF ReceiverAwait, Good, TypeInv, HoldsOK, buffers
    <3>2. r' = r
      BY <1>1, <3>1 DEF Read
    <3>3. f = << >> /\ f' = c /\ c' = << >>
      BY <1>1, <3>1 DEF MailFor
    <3> HIDE DEF r, f, c
    <3>4. r \o << >> = r /\ (r \o c) \in Seq(Packet)
      BY <2>1, ConcatEmptySeq, ConcatProperties
    <3>5. (r \o c) \o << >> = r \o c
      BY <3>4, ConcatEmptySeq
    <3> QED BY <2>2, <3>2, <3>3, <3>4, <3>5
  <2>4. CASE ReceiverDeliver
    <3> DEFINE w == contents[full_pd].who
    <3>1. /\ w \in PID /\ full_pd \in PD /\ full_pd \in At("full")
          /\ contents \in [PD -> Packet]
          /\ waiting_receives \in [PID -> Seq(PD)]
      BY <2>4, FullIsAddressed, AtPlaces DEF ReceiverDeliver, Good, TypeInv, TypeOK, HoldsOK
    <3>2. /\ full_pd' = NoPD /\ curr_pd' = curr_pd
          /\ waiting_receives' = [waiting_receives EXCEPT ![w] = Append(@, full_pd)]
      BY <2>4 DEF ReceiverDeliver
    <3>3. contents[full_pd].kind = "in" /\ full_pd # NoPD
      BY <3>1, ConstantsOK DEF Good, PacketsIntact
    <3>4. c' = c /\ f' = << >>
      BY <1>1, <3>2 DEF MailFor
    <3>5. CASE p = w
      <4>1. f = <<contents[full_pd]>>
        BY <3>3, <3>5 DEF MailFor
      <4>2. waiting_receives'[p] = Append(waiting_receives[p], full_pd)
        BY <3>1, <3>2, <3>5
      <4>3. r = Reads(waiting_receives[p], contents) /\ r' = Reads(waiting_receives'[p], contents')
        BY DEF Read, Reads
      <4>4. Reads(Append(waiting_receives[p], full_pd), contents)
              = Reads(waiting_receives[p], contents) \o <<contents[full_pd]>>
        BY <3>1, <1>5, ReadsAppend
      <4>5. r' = r \o f
        BY <1>1, <4>1, <4>2, <4>3, <4>4
      <4> HIDE DEF r, f, c
      <4>6. (r \o f) \o << >> = r \o f
        <5>1. r \o f \in Seq(Packet)
          BY <2>1, ConcatProperties
        <5> QED BY <5>1, ConcatEmptySeq
      <4> QED BY <2>2, <3>4, <4>5, <4>6
    <3>6. CASE p # w
      <4>1. f = << >>
        BY <3>6 DEF MailFor
      <4>2. r' = r
        BY <1>1, <3>1, <3>2, <3>6 DEF Read
      <4> QED BY <2>2, <3>4, <4>1, <4>2
    <3> QED BY <3>5, <3>6
  <2> QED BY <2>3, <2>4
<1> QED BY <1>1, <1>3, <1>4, <1>5 DEF Invisible
-----------------------------------------------------------------------------
(* Refinement: the steps of the service *)

inboxes == [p \in PID |-> InboxOf(p)]
hands == [t \in App |-> HandOf(t)]

LEMMA InboxBecomes ==
    ASSUME NEW w \in PID, NEW x, InboxOf(w)' = x, \A p \in PID \ {w} : InboxOf(p)' = InboxOf(p)
    PROVE  inboxes' = [inboxes EXCEPT ![w] = x]
<1>1. inboxes' = [p \in PID |-> InboxOf(p)']
  BY DEF inboxes
<1> QED BY <1>1 DEF inboxes

LEMMA HandBecomes ==
    ASSUME NEW t \in App, NEW x, HandOf(t)' = x, \A u \in App \ {t} : HandOf(u)' = HandOf(u)
    PROVE  hands' = [hands EXCEPT ![t] = x]
<1>1. hands' = [u \in App |-> HandOf(u)']
  BY DEF hands
<1> QED BY <1>1 DEF hands

LEMMA InboxesSame == ASSUME \A p \in PID : InboxOf(p)' = InboxOf(p) PROVE inboxes' = inboxes
<1>1. inboxes' = [p \in PID |-> InboxOf(p)']
  BY DEF inboxes
<1> QED BY <1>1 DEF inboxes

LEMMA HandsSame == ASSUME \A t \in App : HandOf(t)' = HandOf(t) PROVE hands' = hands
<1>1. hands' = [t \in App |-> HandOf(t)']
  BY DEF hands
<1> QED BY <1>1 DEF hands

LEMMA InvisibleStutters == ASSUME Invisible PROVE UNCHANGED Service!svars
<1>1. inboxes' = inboxes /\ hands' = hands
  BY InboxesSame, HandsSame DEF Invisible
<1> QED BY <1>1 DEF Invisible, Service!svars, inboxes, hands

(* sendPacket succeeds or is given up; or is tried again, which nobody sees. *)
LEMMA SendRefines == ASSUME Good, SenderSend PROVE Invisible \/ Service!Dispatch
<1>1. /\ sendPc = "send" /\ message \in PD /\ message # NoPD
      /\ UNCHANGED <<contents, waiting_PDs, waiting_receives, message, full_pd, curr_pd, arrivals, appPD>>
      /\ sendPc' \in {"put", "send"} /\ contents \in [PD -> Packet]
  BY ConstantsOK DEF SenderSend, Good, TypeInv, TypeOK, HoldsOK, buffers, receiver, device, apps
<1>2. Untouched("store")
  BY <1>1, SameContents
<1>3. \A p \in PID : InboxOf(p)' = InboxOf(p)
  <2>1. "store" \notin PID \cup {"full", "current"}
    BY PlacesDiffer DEF DriverPlace
  <2> QED BY <1>1, <1>2, <2>1, InboxUntouched
<1>4. \A t \in App : HandOf(t)' = HandOf(t)
  BY <1>1 DEF HandOf
<1>5. Read(waiting_PDs)' = Read(waiting_PDs)
  BY <1>1, <1>2, UntouchedQueues
<1>6. CASE sendPc' = "send"
  <2>1. Sending' = Sending
    BY <1>1, <1>6 DEF Sending
  <2> QED BY <1>1, <1>3, <1>4, <1>5, <2>1 DEF Invisible, Outbox
<1>7. CASE sendPc' = "put"
  <2>1. Sending = <<contents[message]>> /\ Sending' = << >> /\ contents[message] \in Packet
    BY <1>1, <1>7 DEF Sending
  <2>2. Read(waiting_PDs) \in Seq(Packet)
    BY OutboxTypes DEF Good
  <2>3. Outbox # << >> /\ Tail(Outbox) = Read(waiting_PDs)
    BY <2>1, <2>2, TakesFirst DEF Outbox
  <2>4. Outbox' = Read(waiting_PDs)
    BY <1>5, <2>1, <2>2, ConcatEmptySeq DEF Outbox
  <2>5. inboxes' = inboxes /\ hands' = hands
    BY <1>3, <1>4, InboxesSame, HandsSame
  <2> QED BY <1>1, <2>3, <2>4, <2>5 DEF Service!Dispatch, inboxes, hands
<1> QED BY <1>1, <1>6, <1>7

(* The receiver gives up the packet in its hands: no descriptor was free, or the *)
(* application's buffer is full.                                             *)
LEMMA DropRefines ==
    ASSUME Good, ReceiverReuse \/ ReceiverPutPool \/ ReceiverPutStore
    PROVE  \E p \in PID : Service!Discard(p)
<1>0. /\ {"full", "current"} \subseteq Place
      /\ "full" \notin PID \cup App \cup {"current", "sender", "sendq"}
  BY PlacesDiffer DEF DriverPlace
<1>1. /\ full_pd \in PD /\ full_pd \in At("full") /\ full_pd # NoPD
      /\ full_pd' = NoPD /\ UNCHANGED <<waiting_receives, waiting_PDs, message, sendPc, appPD, arrivals>>
  BY ConstantsOK, AtPlaces DEF Good, TypeInv, TypeOK, HoldsOK, ReceiverReuse, ReceiverPutPool, ReceiverPutStore,
                  PutInPool, PutInStore, InitAndRegister, buffers, sender, device, apps
<1>2. PICK w \in PID : contents[full_pd].kind = "in" /\ w = contents[full_pd].who
  BY <1>1, MailIsAddressed DEF Good, PacketsIntact
<1>3. Untouched("full")
  <2>1. PICK v \in {Stale, Blank} : contents' = [contents EXCEPT ![full_pd] = v]
    BY DEF ReceiverReuse, ReceiverPutPool, ReceiverPutStore, PutInPool, PutInStore, InitAndRegister
  <2> QED BY <1>0, <1>1, <2>1, WriteUntouched
<1>4. \A p \in PID : MailFor(p, curr_pd)' = MailFor(p, curr_pd)
  <2>1. CASE ReceiverReuse
    <3>1. curr_pd = NoPD /\ curr_pd' = full_pd /\ contents'[full_pd] = Blank
      BY <1>1, <2>1 DEF ReceiverReuse, InitAndRegister, Good, TypeInv, TypeOK, HoldsOK
    <3> QED BY <3>1 DEF MailFor, Blank
  <2>2. CASE ReceiverPutPool \/ ReceiverPutStore
    <3>1. curr_pd' = curr_pd
      BY <2>2 DEF ReceiverPutPool, ReceiverPutStore
    <3> QED BY <1>3, <3>1, UntouchedHands
  <2> QED BY <2>1, <2>2
<1>5. \A p \in PID : Read(waiting_receives[p])' = Read(waiting_receives[p]) /\ MailFor(p, full_pd)' = << >>
  <2>1. \A p \in PID : "full" # p
    BY <1>0
  <2> QED BY <1>1, <1>3, <2>1, UntouchedQueues DEF MailFor
<1>6. ASSUME NEW p \in PID \ {w} PROVE InboxOf(p)' = InboxOf(p)
  <2>1. MailFor(p, full_pd) = << >>
    BY <1>2, <1>6 DEF MailFor
  <2> QED BY <1>4, <1>5, <1>6, <2>1, InboxSame
<1>7. /\ Len(Read(waiting_receives[w])) + 1 \in DOMAIN InboxOf(w)
      /\ InboxOf(w)' = RemoveAt(InboxOf(w), Len(Read(waiting_receives[w])) + 1)
  <2> DEFINE r == Read(waiting_receives[w])
             f == MailFor(w, full_pd)
             c == MailFor(w, curr_pd)
             e == contents[full_pd]
  <2>1. r \in Seq(Packet) /\ c \in Seq(Packet) /\ e \in Packet
    BY <1>1, <1>2, InboxTypes DEF Good, TypeInv, TypeOK
  <2>2. f = <<e>>
    BY <1>1, <1>2 DEF MailFor
  <2>3. InboxOf(w) = (r \o f) \o c
    BY DEF InboxOf
  <2>4. InboxOf(w)' = (r \o << >>) \o c
    <3>1. r' = r /\ f' = << >> /\ c' = c
      BY <1>4, <1>5
    <3> QED BY <3>1 DEF InboxOf
  <2> HIDE DEF r, f, c, e
  <2>5. r \o << >> = r
    BY <2>1, ConcatEmptySeq
  <2>6. Len(r) + 1 \in DOMAIN (r \o <<e>> \o c) /\ RemoveAt(r \o <<e>> \o c, Len(r) + 1) = r \o c
    BY <2>1, RemovesMiddle
  <2> QED BY <2>2, <2>3, <2>4, <2>5, <2>6 DEF r
<1>8. \A t \in App : HandOf(t)' = HandOf(t)
  BY <1>1 , <1>0, <1>3, HandUntouched
<1>9. Outbox' = Outbox
  BY <1>0, <1>1, <1>3, OutboxUntouched DEF Good
<1>10. PICK i : /\ i \in DOMAIN InboxOf(w) /\ InboxOf(w)' = RemoveAt(InboxOf(w), i)
  BY <1>7
<1>11. inboxes' = [inboxes EXCEPT ![w] = RemoveAt(InboxOf(w), i)] /\ hands' = hands
  BY <1>2, <1>6, <1>8, <1>10, InboxBecomes, HandsSame
<1> QED BY <1>1, <1>2, <1>9, <1>10, <1>11 DEF Service!Discard, Service!RemoveAt, RemoveAt, inboxes, hands

(* The device has filled the clean descriptor: the packet is the newest one. *)
LEMMA ArriveRefines ==
    ASSUME Good, NEW p \in PID, NetworkArrive(p)
    PROVE  Service!Arrive(p)
<1>0. "current" \in Place /\ "current" \notin PID \cup App \cup {"sendq", "sender", "full"}
  BY PlacesDiffer DEF DriverPlace
<1>1. /\ curr_pd \in PD /\ curr_pd # NoPD /\ curr_pd \in At("current") /\ contents[curr_pd] = Blank
      /\ contents' = [contents EXCEPT ![curr_pd] = Incoming(p, arrivals')]
      /\ arrivals' = arrivals + 1 /\ arrivals \in Nat
      /\ UNCHANGED <<waiting_PDs, waiting_receives, message, full_pd, curr_pd, sendPc, appPD>>
  BY AtPlaces, ConstantsOK DEF Good, TypeInv, TypeOK, HoldsOK, DeviceReady, NetworkArrive, buffers, sender, receiver, apps
<1>2. Untouched("current") /\ contents'[curr_pd] = Incoming(p, arrivals')
  BY <1>0, <1>1, WriteUntouched
<1>3. ASSUME NEW q \in PID
      PROVE  /\ Read(waiting_receives[q])' = Read(waiting_receives[q])
             /\ MailFor(q, full_pd)' = MailFor(q, full_pd)
  <2>1. "current" # q
    BY <1>0
  <2> QED BY <1>0, <1>1, <1>2, <2>1, UntouchedQueues, UntouchedHands
<1>4. ASSUME NEW q \in PID
      PROVE  /\ MailFor(q, curr_pd) = << >>
             /\ q # p => MailFor(q, curr_pd)' = << >>
             /\ q = p => MailFor(q, curr_pd)' = <<Incoming(p, arrivals')>>
  BY <1>1, <1>2 DEF MailFor, Blank, Incoming
<1>5. \A q \in PID \ {p} : InboxOf(q)' = InboxOf(q)
  BY <1>3, <1>4, InboxSame
<1>6. InboxOf(p)' = Append(InboxOf(p), Incoming(p, arrivals'))
  <2> DEFINE a == Read(waiting_receives[p]) \o MailFor(p, full_pd)
  <2>1. PICK e : e = Incoming(p, arrivals')
    OBVIOUS
  <2>2. e \in Packet
    BY <1>1, <2>1, PacketTypes
  <2>3. a \in Seq(Packet)
    BY InboxTypes, ConcatProperties DEF Good
  <2>4. InboxOf(p) = a \o << >> /\ InboxOf(p)' = a \o <<e>>
    BY <1>3, <1>4, <2>1 DEF InboxOf
  <2> HIDE DEF a
  <2>5. a \o << >> = a /\ a \o <<e>> = Append(a, e)
    BY <2>2, <2>3, ConcatEmptySeq, PushesBehind
  <2> QED BY <2>1, <2>4, <2>5
<1>7. \A t \in App : HandOf(t)' = HandOf(t)
  BY <1>0, <1>1, <1>2, HandUntouched
<1>8. Outbox' = Outbox
  BY <1>0, <1>1, <1>2, OutboxUntouched DEF Good
<1>9. hands' = hands
  BY <1>7, HandsSame
<1>10. inboxes' = [inboxes EXCEPT ![p] = Append(InboxOf(p), Incoming(p, arrivals'))]
  <2>1. PICK x : x = Append(InboxOf(p), Incoming(p, arrivals'))
    OBVIOUS
  <2> QED BY <1>5, <1>6, <2>1, InboxBecomes
<1>11. [inboxes EXCEPT ![p] = Append(InboxOf(p), Incoming(p, arrivals'))]
         = [inboxes EXCEPT ![p] = Append(@, Incoming(p, arrivals'))]
  BY DEF inboxes
<1> QED BY <1>1, <1>8, <1>9, <1>10, <1>11 DEF Service!Arrive, Service!Incoming, Incoming, inboxes, hands

LEMMA ComposeRefines ==
    ASSUME Good, NEW t \in App, AppCompose(t)
    PROVE  Service!Compose(t)
<1>0. "store" \in Place /\ "store" \notin PID \cup App \cup {"sendq", "sender", "full", "current"}
  BY PlacesDiffer DEF DriverPlace
<1>1. PICK pd \in free_pds : /\ appPD' = [appPD EXCEPT ![t] = pd]
                             /\ contents' = [contents EXCEPT ![pd] = Outgoing(AppPid[t])]
  BY DEF AppCompose
<1>2. /\ pd \in PD /\ pd # NoPD /\ pd \in At("store") /\ appPD[t] = NoPD /\ DOMAIN appPD = App
      /\ UNCHANGED <<waiting_PDs, waiting_receives, message, full_pd, curr_pd, sendPc, arrivals>>
  BY AtPlaces, ConstantsOK DEF Good, TypeInv, TypeOK, HoldsOK, AppCompose, AppGoto, buffers, sender, receiver, device
<1>3. Untouched("store") /\ contents'[pd] = Outgoing(AppPid[t])
  BY <1>0, <1>1, <1>2, WriteUntouched
<1>4. inboxes' = inboxes
  <2>1. \A p \in PID : InboxOf(p)' = InboxOf(p)
    BY <1>0, <1>2, <1>3, InboxUntouched
  <2> QED BY <2>1, InboxesSame
<1>5. Outbox' = Outbox
  BY <1>0, <1>2, <1>3, OutboxUntouched DEF Good
<1>6. HandOf(t) = Blank /\ HandOf(t)' = Outgoing(AppPid[t])
  BY <1>1, <1>2, <1>3 DEF HandOf
<1>7. \A u \in App \ {t} : HandOf(u)' = HandOf(u)
  BY <1>0, <1>1, <1>2, <1>3, HandUntouched
<1>8. hands' = [hands EXCEPT ![t] = Outgoing(AppPid[t])]
  <2>1. PICK x : x = Outgoing(AppPid[t])
    OBVIOUS
  <2> QED BY <1>6, <1>7, <2>1, HandBecomes
<1>9. hands[t] = Blank
  BY <1>6 DEF hands
<1> QED BY <1>2, <1>4, <1>5, <1>8, <1>9 DEF Service!Compose, Service!Outgoing, Outgoing, inboxes, hands

LEMMA AcceptRefines ==
    ASSUME Good, NEW t \in App, nonblocking_send_packet(t) \/ blocking_send_packet(t)
    PROVE  Service!Accept(t)
<1>1. /\ appPD[t] \in PD /\ appPD[t] # NoPD /\ appPD[t] \in At(t) /\ appPc[t] # "received"
      /\ appPD' = [appPD EXCEPT ![t] = NoPD] /\ DOMAIN appPD = App
      /\ waiting_PDs' = Append(waiting_PDs, appPD[t]) /\ waiting_PDs \in Seq(PD)
      /\ contents \in [PD -> Packet]
      /\ UNCHANGED <<contents, waiting_receives, message, full_pd, curr_pd, sendPc, arrivals>>
  BY AtPlaces, ConstantsOK DEF Good, TypeInv, TypeOK, HoldsOK, nonblocking_send_packet, blocking_send_packet,
         AppGoto, SendQueueWrite, sender, receiver, device
<1>2. Untouched("store") /\ "store" \notin PID \cup App \cup {"sendq", "sender", "full", "current"}
  BY <1>1, SameContents, PlacesDiffer DEF DriverPlace
<1>3. HandOf(t) = Outgoing(AppPid[t]) /\ HandOf(t) = contents[appPD[t]] /\ HandOf(t)' = Blank
  BY <1>1 DEF Good, PacketsIntact, HandOf
<1>4. \A u \in App \ {t} : HandOf(u)' = HandOf(u)
  BY <1>1, <1>2, HandUntouched
<1>5. hands' = [hands EXCEPT ![t] = Blank]
  <2>1. PICK x : x = Blank
    OBVIOUS
  <2> QED BY <1>3, <1>4, <2>1, HandBecomes
<1>6. inboxes' = inboxes
  <2>1. \A p \in PID : InboxOf(p)' = InboxOf(p)
    BY <1>1, <1>2, InboxUntouched
  <2> QED BY <2>1, InboxesSame
<1>7. Outbox' = Append(Outbox, HandOf(t))
  <2>1. PICK pd \in PD : pd = appPD[t]
    BY <1>1
  <2>2. PICK e \in Packet : e = contents[pd]
    BY <1>1
  <2>3. Read(waiting_PDs)' = Read(waiting_PDs) \o <<e>>
    <3>1. Reads(Append(waiting_PDs, pd), contents) = Reads(waiting_PDs, contents) \o <<e>>
      BY <1>1, <2>2, ReadsAppend
    <3>2. waiting_PDs' = Append(waiting_PDs, pd) /\ contents' = contents
      BY <1>1, <2>1
    <3> QED BY <3>1, <3>2 DEF Read, Reads
  <2>4. Sending' = Sending
    BY <1>1 DEF Sending
  <2>5. Read(waiting_PDs) \in Seq(Packet) /\ Sending \in Seq(Packet)
    BY OutboxTypes DEF Good
  <2>6. Outbox = Sending \o Read(waiting_PDs) /\ Outbox' = Sending \o (Read(waiting_PDs) \o <<e>>)
    BY <2>3, <2>4 DEF Outbox
  <2>7. Sending \o (Read(waiting_PDs) \o <<e>>) = (Sending \o Read(waiting_PDs)) \o <<e>>
    <3>1. <<e>> \in Seq(Packet)
      OBVIOUS
    <3> QED BY <2>5, <3>1, ConcatAssociative
  <2>8. Sending \o Read(waiting_PDs) \in Seq(Packet)
    BY <2>5, ConcatProperties
  <2>9. Outbox \in Seq(Packet)
    BY <2>6, <2>8
  <2>10. Outbox \o <<e>> = Append(Outbox, e)
    BY <2>9, PushesBehind
  <2> QED BY <1>3, <2>1, <2>2, <2>6, <2>7, <2>10
<1>8. hands[t] = HandOf(t)
  BY DEF hands
<1> QED BY <1>1, <1>3, <1>5, <1>6, <1>7, <1>8 DEF Service!Accept, Service!Outgoing, Outgoing, inboxes, hands

LEMMA CollectRefines ==
    ASSUME Good, NEW t \in App, nonblocking_get_packet(t) \/ blocking_get_packet(t)
    PROVE  Service!Collect(t)
<1>1. PICK p \in PID : p = AppPid[t]
  BY ConstantsOK
<1>2. PICK q \in Seq(PD) : q = waiting_receives[p]
  BY DEF Good, TypeInv, TypeOK
<1>3. /\ q # << >> /\ appPD[t] = NoPD /\ appPD' = [appPD EXCEPT ![t] = Head(q)] /\ DOMAIN appPD = App
      /\ waiting_receives' = [waiting_receives EXCEPT ![p] = Tail(q)] /\ DOMAIN waiting_receives = PID
      /\ contents \in [PD -> Packet]
      /\ UNCHANGED <<contents, waiting_PDs, message, full_pd, curr_pd, sendPc, arrivals>>
  BY <1>1, <1>2 DEF Good, TypeInv, TypeOK, HoldsOK, nonblocking_get_packet, blocking_get_packet,
         AppGoto, ReceivedRead, sender, receiver, device
<1>4. Untouched("store") /\ "store" \notin PID \cup App \cup {"sendq", "sender", "full", "current"}
  BY <1>3, SameContents, PlacesDiffer DEF DriverPlace
<1>5. PICK pd \in PD : pd = Head(q) /\ pd # NoPD
  BY <1>3, HeadTailProperties, ConstantsOK
<1>6. HandOf(t) = Blank /\ HandOf(t)' = contents[pd]
  BY <1>3, <1>5 DEF HandOf
<1>7. \A u \in App \ {t} : HandOf(u)' = HandOf(u)
  BY <1>3, <1>4, HandUntouched
<1>8. Outbox' = Outbox
  BY <1>3, <1>4, OutboxUntouched DEF Good
<1>9. \A r \in PID : MailFor(r, full_pd)' = MailFor(r, full_pd) /\ MailFor(r, curr_pd)' = MailFor(r, curr_pd)
  BY <1>3, <1>4, UntouchedHands
<1>10. ASSUME NEW r \in PID \ {p} PROVE InboxOf(r)' = InboxOf(r)
  <2>1. waiting_receives'[r] = waiting_receives[r]
    BY <1>3, <1>10
  <2>2. Read(waiting_receives[r])' = Read(waiting_receives[r])
    BY <1>3, <2>1 DEF Read
  <2> QED BY <1>9, <1>10, <2>2, InboxSame
<1>11. InboxOf(p) # << >> /\ Head(InboxOf(p)) = contents[pd] /\ InboxOf(p)' = Tail(InboxOf(p))
  <2> DEFINE r == Read(waiting_receives[p])
             f == MailFor(p, full_pd)
             c == MailFor(p, curr_pd)
  <2>1. r \in Seq(Packet) /\ f \in Seq(Packet) /\ c \in Seq(Packet)
    BY InboxTypes DEF Good
  <2>2. r = Reads(q, contents) /\ r' = Reads(Tail(q), contents)
    <3>1. waiting_receives'[p] = Tail(q)
      BY <1>3
    <3> QED BY <1>2, <1>3, <3>1 DEF Read, Reads
  <2>3. r # << >> /\ Head(r) = contents[pd] /\ r' = Tail(r)
    BY <1>3, <1>5, <2>2, ReadsTail
  <2>4. InboxOf(p) = (r \o f) \o c /\ InboxOf(p)' = (Tail(r) \o f) \o c
    BY <1>9, <2>3 DEF InboxOf
  <2> HIDE DEF r, f, c
  <2>5. r \o f # << >> /\ Head(r \o f) = Head(r) /\ Tail(r \o f) = Tail(r) \o f /\ r \o f \in Seq(Packet)
    BY <2>1, <2>3, TakesFirstOfMore, ConcatProperties
  <2>6. /\ (r \o f) \o c # << >> /\ Head((r \o f) \o c) = Head(r \o f)
        /\ Tail((r \o f) \o c) = Tail(r \o f) \o c
    BY <2>1, <2>5, TakesFirstOfMore
  <2> QED BY <2>3, <2>4, <2>5, <2>6
<1>12. inboxes' = [inboxes EXCEPT ![p] = Tail(InboxOf(p))]
  <2>1. PICK x : x = Tail(InboxOf(p))
    OBVIOUS
  <2> QED BY <1>10, <1>11, <2>1, InboxBecomes
<1>13. hands' = [hands EXCEPT ![t] = Head(InboxOf(p))]
  <2>1. PICK x : x = contents[pd]
    OBVIOUS
  <2>2. hands' = [hands EXCEPT ![t] = x]
    BY <1>6, <1>7, <2>1, HandBecomes
  <2> QED BY <1>11, <2>1, <2>2
<1>14. hands[t] = Blank /\ inboxes[p] = InboxOf(p)
  BY <1>6 DEF hands, inboxes
<1>15. inboxes' = [inboxes EXCEPT ![p] = Tail(@)]
  BY <1>12, <1>14
<1> QED BY <1>1, <1>3, <1>8, <1>11, <1>13, <1>14, <1>15 DEF Service!Collect, inboxes, hands

LEMMA FinishRefines ==
    ASSUME Good, NEW t \in App, AppRelease(t)
    PROVE  Service!Finish(t)
<1>0. t \in Place /\ t \notin PID \cup {"sendq", "sender", "full", "current"}
  BY PlacesDiffer DEF DriverPlace
<1>1. /\ appPD[t] \in PD /\ appPD[t] # NoPD /\ appPD[t] \in At(t)
      /\ appPD' = [appPD EXCEPT ![t] = NoPD] /\ DOMAIN appPD = App
      /\ contents' = [contents EXCEPT ![appPD[t]] = Stale]
      /\ UNCHANGED <<waiting_PDs, waiting_receives, message, full_pd, curr_pd, sendPc, arrivals>>
  BY AtPlaces, ConstantsOK DEF Good, TypeInv, TypeOK, HoldsOK, AppRelease, AppGoto, PutInStore,
         buffers, sender, receiver, device
<1>2. Untouched(t)
  BY <1>0, <1>1, WriteUntouched
<1>3. HandOf(t) # Blank /\ HandOf(t)' = Blank
  <2>1. contents[appPD[t]] # Blank
    <3>1. contents[appPD[t]].kind = "in" \/ contents[appPD[t]] = Outgoing(AppPid[t])
      BY <1>1 DEF Good, PacketsIntact
    <3> QED BY <3>1 DEF Outgoing, Blank
  <2> QED BY <1>1, <2>1 DEF HandOf
<1>4. \A u \in App \ {t} : HandOf(u)' = HandOf(u)
  BY <1>1, <1>2, HandUntouched
<1>5. hands' = [hands EXCEPT ![t] = Blank]
  <2>1. PICK x : x = Blank
    OBVIOUS
  <2> QED BY <1>3, <1>4, <2>1, HandBecomes
<1>6. inboxes' = inboxes
  <2>1. \A p \in PID : InboxOf(p)' = InboxOf(p)
    BY <1>0, <1>1, <1>2, InboxUntouched
  <2> QED BY <2>1, InboxesSame
<1>7. Outbox' = Outbox
  BY <1>0, <1>1, <1>2, OutboxUntouched DEF Good
<1>8. hands[t] # Blank
  BY <1>3 DEF hands
<1> QED BY <1>1, <1>5, <1>6, <1>7, <1>8 DEF Service!Finish, inboxes, hands

LEMMA StartsAsService == Init => Service!Init
<1> SUFFICES ASSUME Init PROVE Service!Init
  OBVIOUS
<1>1. \A p \in PID : InboxOf(p) = << >>
  <2>1. \A p \in PID : /\ Read(waiting_receives[p]) = << >>
                       /\ MailFor(p, full_pd) = << >> /\ MailFor(p, curr_pd) = << >>
    BY DEF Init, Read, MailFor
  <2>2. << >> \o << >> = << >>
    BY EmptySeq, ConcatEmptySeq
  <2> QED BY <2>1, <2>2 DEF InboxOf
<1>2. Outbox = << >>
  <2>1. Read(waiting_PDs) = << >> /\ Sending = << >>
    BY DEF Init, Read, Sending
  <2>2. << >> \o << >> = << >>
    BY EmptySeq, ConcatEmptySeq
  <2> QED BY <2>1, <2>2 DEF Outbox
<1>3. \A t \in App : HandOf(t) = Blank
  BY DEF Init, HandOf
<1> QED BY <1>1, <1>2, <1>3 DEF Service!Init, Init

LEMMA StepRefines == ASSUME RInv, [Next]_vars PROVE [Service!Next]_(Service!svars)
<1>0. Good /\ Recycled /\ TypeInv
  BY DEF RInv, IInv, Good
<1>1. CASE Invisible
  BY <1>1, InvisibleStutters
<1>2. CASE InitStep \/ UNCHANGED vars
  BY <1>0, <1>1, <1>2, QuietInvisible
<1>3. CASE send_thread
  <2>1. Invisible \/ Service!Dispatch
    BY <1>0, <1>3, QuietInvisible, SenderInvisible, SendRefines DEF send_thread
  <2> QED BY <1>1, <2>1 DEF Service!Next
<1>4. CASE receive_thread
  <2>1. Invisible \/ \E p \in PID : Service!Discard(p)
    BY <1>0, <1>4, QuietInvisible, TakesBlankInvisible, RegisterInvisible, DeliveryInvisible, DropRefines
       DEF receive_thread
  <2> QED BY <1>1, <2>1 DEF Service!Next
<1>5. ASSUME NEW p \in PID, NetworkArrive(p) PROVE [Service!Next]_(Service!svars)
  BY <1>0, <1>5, ArriveRefines DEF Service!Next
<1>6. ASSUME NEW t \in App, AppStep(t) PROVE [Service!Next]_(Service!svars)
  <2>1. Invisible \/ Service!Compose(t) \/ Service!Accept(t) \/ Service!Collect(t) \/ Service!Finish(t)
    BY <1>0, <1>6, QuietInvisible, ComposeRefines, AcceptRefines, CollectRefines, FinishRefines DEF AppStep
  <2> QED BY <1>1, <2>1 DEF Service!Next
<1> QED BY <1>2, <1>3, <1>4, <1>5, <1>6 DEF Next

(* Whatever the sizes and however driver threads, device and applications    *)
(* interleave, descriptors are recycled between the two directions without   *)
(* the applications seeing it: what they send leaves in order, what arrives  *)
(* reaches its application unaltered, in order and once, or is dropped.      *)
THEOREM Refinement == Spec => ImplementsService
<1>1. Spec => []RInv
  BY RInvInit, RInvStep, PTL DEF Spec
<1> QED BY <1>1, StartsAsService, StepRefines, PTL DEF Spec, ImplementsService, Service!Spec
=============================================================================
