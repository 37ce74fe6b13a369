------------------------------ MODULE DtsProofs ------------------------------
(* For any number of events, ids and seconds: an accepted event is in        *)
(* exactly one place, is found by the id its client was answered, and does   *)
(* not fire once a Cancel that came in time was answered, in every execution *)
(* that has come to no step of Break.  Queued keys may have been freed and   *)
(* the priorities may be wrong; none of this needs either.                   *)
EXTENDS Dts, FiniteSetTheorems, SequenceTheorems, TLAPS

USE DtsConstants DEF Time, Id
-----------------------------------------------------------------------------
(* The inductive invariant.                                                  *)

Live == {e \in EventAddr : event[e] # Freed}
Early == receiver.pc \in {"insert", "put"}
Inserting == receiver.pc \in {"insert", "put", "return"}

(* Places: a live event is in the queue, PQ->insert's or in ready_q, once;   *)
(* an event that was freed is in none.                                       *)
PlacesLive == /\ \A x \in Entries : x.value \in Live
              /\ \A j \in 1..Len(ready_q) : ready_q[j] \in Live
PlacesDistinct == /\ \A x, y \in Entries : x.value = y.value => x = y
                  /\ \A i, j \in 1..Len(ready_q) : ready_q[i] = ready_q[j] => i = j
                  /\ \A x \in Entries, j \in 1..Len(ready_q) : x.value # ready_q[j]
                  /\ PQ \cap inserting = {}
LivePlaced == \A e \in Live : \/ \E x \in Entries : x.value = e
                              \/ \E j \in 1..Len(ready_q) : ready_q[j] = e
Places == /\ PlacesLive /\ PlacesDistinct /\ LivePlaced
          /\ timer = "free" => ready_q # <<>>
          /\ inserting # {} => receiver.pc = "insert"

(* Ids: a live event has an accepted id of its own; it is finished exactly   *)
(* if it is the one the timer has looked at and is about to free.            *)
Tested(e) == timer = "free" /\ e = ready_q[1]
IdsDistinct == \A e, f \in Live : event[e].id = event[f].id => e = f
IdsAccepted == \A e \in Live : event[e].id \in Accepted
LiveFinished == \A e \in Live : event[e].id \in Finished <=> Tested(e)
UnfinishedLive == \A i \in Accepted \ Finished : \E e \in Live : event[e].id = i
FinishedOnce == Finished \subseteq Accepted /\ \A i \in dropped : fired[i] = NULL
IdsSpent == \A i \in Accepted : i < global_id \/ (Early /\ i = global_id)
Ids == IdsDistinct /\ IdsAccepted /\ LiveFinished /\ UnfinishedLive /\ FinishedOnce /\ IdsSpent

(* The receiver: what it knows of the event it inserts or cancels.           *)
InsertsEvent == Inserting => /\ receiver.current \in Accepted /\ receiver.event \in EventAddr
                             /\ receiver.event \in Live => event[receiver.event].id = receiver.current
                             /\ receiver.current \notin Finished => receiver.event \in Live
ReceiverSpends == /\ Early => receiver.current = global_id
                  /\ receiver.pc \in {"insert", "put", "cancel"} => global_id <= MaxId
CancelsEvent == receiver.pc = "cancel" => receiver.event = hashmap[receiver.current]
MapFinds == \A i \in Accepted \ Finished :
              \/ Early /\ i = global_id
              \/ hashmap[i] \in Live /\ event[hashmap[i]].id = i
RegisteredIsId == \A i \in Id : registered[i] # NULL =>
                    /\ i \in Accepted
                    /\ ~(Inserting /\ i = receiver.current)
                    /\ i \notin Finished => registered[i] = i
Flagged == /\ cancelled \subseteq Accepted
           /\ \A e \in Live : event[e].id \in cancelled /\ ~Tested(e) => event[e].cancel = 1
           /\ \A i \in cancelled : fired[i] = NULL
Requests == InsertsEvent /\ ReceiverSpends /\ CancelsEvent /\ MapFinds /\ RegisteredIsId /\ Flagged

Inv == TypeOK /\ Places /\ Ids /\ Requests
-----------------------------------------------------------------------------
(* Types.                                                                    *)

LEMMA EventTypes ==
    ASSUME TypeOK
    PROVE  /\ \A e \in Live : event[e] \in [id : Id, cancel : 0..1]
           /\ \A e \in EventAddr : e \notin Live => event[e] = Freed
           /\ Live \subseteq EventAddr
BY DEF TypeOK, Live

LEMMA ReadyFacts ==
    ASSUME TypeOK
    PROVE  /\ ready_q \in Seq(EventAddr) /\ Len(ready_q) \in Nat /\ DOMAIN ready_q = 1..Len(ready_q)
           /\ \A j \in 1..Len(ready_q) : ready_q[j] \in EventAddr
           /\ ready_q # <<>> <=> Len(ready_q) >= 1
           /\ ready_q # <<>> => Head(ready_q) = ready_q[1]
BY EmptySeq DEF TypeOK

LEMMA AppendFacts ==
    ASSUME TypeOK, NEW e \in EventAddr, ready_q' = Append(ready_q, e)
    PROVE  /\ ready_q' \in Seq(EventAddr) /\ Len(ready_q') = Len(ready_q) + 1
           /\ ready_q'[Len(ready_q) + 1] = e
           /\ \A j \in 1..Len(ready_q) : ready_q'[j] = ready_q[j]
BY AppendProperties, ReadyFacts

LEMMA TailFacts ==
    ASSUME TypeOK, ready_q # <<>>, ready_q' = Tail(ready_q)
    PROVE  /\ ready_q' \in Seq(EventAddr) /\ Len(ready_q') = Len(ready_q) - 1
           /\ \A j \in 1..Len(ready_q) - 1 : ready_q'[j] = ready_q[j + 1]
BY HeadTailProperties, ReadyFacts

LEMMA InsertType ==
    ASSUME TypeOK, NEW secs \in Secs, NEW usecs \in Usecs, InsertOneShot(secs, usecs)
    PROVE  TypeOK'
<1> USE DEF TypeOK
<1>1. PICK e \in EventAddr, t \in TimevalAddr, priority \in Priorities(secs, usecs) :
         /\ event[e] = Freed
         /\ event' = [event EXCEPT ![e] = [id |-> global_id, cancel |-> 0]]
         /\ timeval' = [timeval EXCEPT ![t] = priority]
         /\ inserting' = {[key |-> t, value |-> e]}
         /\ receiver' = [pc |-> "insert", event |-> e, current |-> global_id]
  BY DEF InsertOneShot
<1>2. priority \in 0..MaxTime /\ t \in TimevalAddr /\ global_id \in 1..MaxId /\ global_id \in 0..MaxId
  BY <1>1 DEF Priorities, InsertOneShot
<1>3. event' \in [EventAddr -> [id : 1..MaxId, cancel : 0..1] \cup {Freed}]
  BY <1>1, <1>2
<1>4. timeval' \in [TimevalAddr -> 0..MaxTime \cup {Freed}]
  BY <1>1, <1>2
<1>5. inserting' \subseteq [key : TimevalAddr, value : EventAddr]
  BY <1>1, <1>2
<1>6. receiver' \in [pc : {"listen", "insert", "put", "return", "cancel"},
                     event : EventAddr \cup {NULL}, current : 0..MaxId]
  BY <1>1, <1>2
<1>7. requested' \in [Id -> Time \cup {NoNumber, NULL}]
  BY <1>2 DEF InsertOneShot
<1> QED BY <1>3, <1>4, <1>5, <1>6, <1>7 DEF InsertOneShot

ReceiverStates == [pc : {"listen", "insert", "put", "return", "cancel"},
                   event : EventAddr \cup {NULL}, current : 0..MaxId]

LEMMA ReceiverTypes ==
    ASSUME TypeOK
    PROVE  /\ receiver \in ReceiverStates /\ Listening \in ReceiverStates
           /\ receiver.event \in EventAddr \cup {NULL}
           /\ [receiver EXCEPT !.pc = "put"] \in ReceiverStates
           /\ [receiver EXCEPT !.pc = "return"] \in ReceiverStates
           /\ \A e \in EventAddr \cup {NULL}, i \in 0..MaxId :
                [pc |-> "cancel", event |-> e, current |-> i] \in ReceiverStates
<1>1. receiver \in ReceiverStates
  BY DEF TypeOK, ReceiverStates
<1>2. Listening \in ReceiverStates
  BY DEF Listening, ReceiverStates
<1> QED BY <1>1, <1>2 DEF ReceiverStates

LEMMA InsertedType ==
    ASSUME TypeOK, Inserted
    PROVE  TypeOK'
<1>1. /\ receiver' = [receiver EXCEPT !.pc = "put"] /\ PQ' = PQ \cup inserting /\ inserting' = {}
      /\ UNCHANGED <<hashmap, event, timeval, global_id, timer, instant, timeval_ptr, ready_q, clock, heap>>
      /\ UNCHANGED <<requested, registered, cancelled, fired, dropped>>
  BY DEF Inserted, history
<1>2. receiver' \in ReceiverStates
  BY <1>1, ReceiverTypes
<1>3. PQ' \subseteq [key : TimevalAddr, value : EventAddr]
  BY <1>1 DEF TypeOK
<1> QED BY <1>1, <1>2, <1>3 DEF TypeOK, ReceiverStates

LEMMA PutUniqueType ==
    ASSUME TypeOK, ReceiverSpends, PutUnique
    PROVE  TypeOK'
<1>1. /\ receiver' = [receiver EXCEPT !.pc = "return"]
      /\ hashmap' = [hashmap EXCEPT ![global_id] = receiver.event]
      /\ global_id' = global_id + 1 /\ global_id <= MaxId
      /\ UNCHANGED <<PQ, inserting, event, timeval, timer, instant, timeval_ptr, ready_q, clock, heap>>
      /\ UNCHANGED <<requested, registered, cancelled, fired, dropped>>
  BY DEF PutUnique, ReceiverSpends, history
<1>2. receiver' \in ReceiverStates
  BY <1>1, ReceiverTypes
<1>3. hashmap' \in [0..MaxId -> EventAddr \cup {NULL}]
  BY <1>1, ReceiverTypes DEF TypeOK
<1>4. global_id' \in 1..MaxId + 1
  BY <1>1 DEF TypeOK
<1> QED BY <1>1, <1>2, <1>3, <1>4 DEF TypeOK, ReceiverStates

LEMMA ReturnIdType ==
    ASSUME TypeOK, InsertsEvent, ReturnId
    PROVE  TypeOK'
<1>1. PICK id \in IF event[receiver.event] = Freed THEN Id ELSE {event[receiver.event].id} :
        registered' = [registered EXCEPT ![receiver.current] = id]
  BY DEF ReturnId
<1>2. /\ receiver' = Listening
      /\ UNCHANGED <<PQ, inserting, hashmap, event, timeval, global_id, timer, instant, timeval_ptr, ready_q, clock, heap>>
      /\ UNCHANGED <<requested, cancelled, fired, dropped>>
  BY DEF ReturnId, shared
<1>3. receiver' \in ReceiverStates
  BY <1>2, ReceiverTypes
<1>4. id \in Id
  <2>1. receiver.event \in EventAddr
    BY DEF ReturnId, InsertsEvent, Inserting
  <2>2. CASE event[receiver.event] = Freed
    BY <1>1, <2>2
  <2>3. CASE event[receiver.event] # Freed
    <3>1. event[receiver.event].id \in Id
      BY <2>1, <2>3, EventTypes DEF Live
    <3> QED BY <1>1, <2>3, <3>1
  <2> QED BY <2>2, <2>3
<1>5. registered' \in [Id -> Id \cup {NULL}]
  BY <1>1, <1>4 DEF TypeOK
<1> QED BY <1>2, <1>3, <1>5 DEF TypeOK, ReceiverStates

LEMMA CancelSetType ==
    ASSUME TypeOK, ReceiverSpends, CancelSet
    PROVE  TypeOK'
<1>1. /\ receiver' = Listening /\ global_id' = global_id + 1 /\ global_id <= MaxId
      /\ cancelled' = cancelled \cup ({receiver.current} \cap (Accepted \ Finished))
      /\ event' = [e \in EventAddr |-> IF e = receiver.event /\ event[e] # Freed
                                       THEN [event[e] EXCEPT !.cancel = 1] ELSE event[e]]
      /\ UNCHANGED <<PQ, inserting, hashmap, timeval, timer, instant, timeval_ptr, ready_q, clock, heap>>
      /\ UNCHANGED <<requested, registered, fired, dropped>>
  BY DEF CancelSet, Answered, ReceiverSpends
<1>2. receiver' \in ReceiverStates
  BY <1>1, ReceiverTypes
<1>3. cancelled' \subseteq Id
  BY <1>1 DEF TypeOK, Accepted
<1>4. global_id' \in 1..MaxId + 1
  BY <1>1 DEF TypeOK
<1>5. event' \in [EventAddr -> [id : Id, cancel : 0..1] \cup {Freed}]
  <2>1. ASSUME NEW e \in EventAddr PROVE event'[e] \in [id : Id, cancel : 0..1] \cup {Freed}
    <3>1. event'[e] = IF e = receiver.event /\ event[e] # Freed
                      THEN [event[e] EXCEPT !.cancel = 1] ELSE event[e]
      BY <1>1
    <3>2. event[e] # Freed => event[e] \in [id : Id, cancel : 0..1]
      BY EventTypes DEF Live
    <3> QED BY <3>1, <3>2
  <2> QED BY <1>1, <2>1
<1> QED BY <1>1, <1>2, <1>3, <1>4, <1>5 DEF TypeOK, ReceiverStates

LEMMA CancelMissingType ==
    ASSUME TypeOK, NEW current \in 0..MaxId, CancelMissing(current)
    PROVE  TypeOK'
<1>1. /\ receiver' = Listening /\ global_id' = global_id + 1 /\ global_id <= MaxId
      /\ cancelled' = cancelled \cup ({current} \cap (Accepted \ Finished))
      /\ UNCHANGED <<PQ, inserting, hashmap, event, timeval, timer, instant, timeval_ptr, ready_q, clock, heap>>
      /\ UNCHANGED <<requested, registered, fired, dropped>>
  BY DEF CancelMissing, Answered
<1>2. receiver' \in ReceiverStates
  BY <1>1, ReceiverTypes
<1>3. cancelled' \subseteq Id
  BY <1>1 DEF TypeOK, Accepted
<1>4. global_id' \in 1..MaxId + 1
  BY <1>1 DEF TypeOK
<1> QED BY <1>1, <1>2, <1>3, <1>4 DEF TypeOK, ReceiverStates

LEMMA CancelGetType ==
    ASSUME TypeOK, NEW current \in 0..MaxId, CancelGet(current)
    PROVE  TypeOK'
<1>1. /\ receiver' = [pc |-> "cancel", event |-> hashmap[current], current |-> current]
      /\ UNCHANGED <<PQ, inserting, hashmap, event, timeval, global_id, timer, instant, timeval_ptr, ready_q, clock, heap>>
      /\ UNCHANGED <<requested, registered, cancelled, fired, dropped>>
  BY DEF CancelGet, shared, history
<1>2. receiver' \in ReceiverStates
  BY <1>1, ReceiverTypes DEF TypeOK
<1> QED BY <1>1, <1>2 DEF TypeOK, ReceiverStates

LEMMA TimerType ==
    ASSUME Inv, timer_function \/ Break \/ Tick
    PROVE  TypeOK'
<1> USE DEF Inv, TypeOK
<1>1. CASE RemoveMin
  <2>1. PICK x \in MinEntries : PQ' = PQ \ {x} /\ timeval_ptr' = x.key /\ ready_q' = Append(ready_q, x.value)
    BY <1>1 DEF RemoveMin
  <2>2. x.value \in EventAddr /\ x.key \in TimevalAddr
    BY <2>1 DEF MinEntries
  <2>3. ready_q' \in Seq(EventAddr)
    BY <2>1, <2>2, AppendFacts
  <2>4. PQ' \subseteq [key : TimevalAddr, value : EventAddr]
    BY <2>1
  <2> QED BY <1>1, <2>1, <2>2, <2>3, <2>4 DEF RemoveMin, history
<1>2. CASE Process
  <2>1. ready_q[1] \in Live /\ Head(ready_q) = ready_q[1]
    BY <1>2, ReadyFacts DEF Process, Places, PlacesLive
  <2>2. event[Head(ready_q)].id \in Id
    BY <2>1, EventTypes
  <2>3. /\ UNCHANGED <<PQ, inserting, hashmap, event, timeval, global_id, receiver, instant, timeval_ptr>>
        /\ UNCHANGED <<ready_q, clock, heap, requested, registered, cancelled>>
        /\ timer' = "free"
    BY <1>2 DEF Process, shared
  <2>4. fired' \in [Id -> Time \cup {NULL}] /\ dropped' \subseteq Id
    <3>1. CASE event[Head(ready_q)].cancel = 0
      <4>1. fired' = [fired EXCEPT ![event[Head(ready_q)].id] = clock] /\ dropped' = dropped
        BY <1>2, <3>1 DEF Process
      <4> QED BY <2>2, <4>1
    <3>2. CASE event[Head(ready_q)].cancel # 0
      BY <1>2, <2>2, <3>2 DEF Process
    <3> QED BY <3>1, <3>2
  <2> QED BY <2>3, <2>4
<1>3. CASE Free
  <2>1. ready_q' \in Seq(EventAddr)
    BY <1>3, TailFacts DEF Free, Places
  <2>2. heap' \in {"sound", "unordered", "undefined"}
    BY <1>3 DEF Free
  <2>3. /\ event' \in [EventAddr -> [id : Id, cancel : 0..1] \cup {Freed}]
        /\ timeval' \in [TimevalAddr -> Time \cup {Freed}]
    BY <1>3 DEF Free
  <2> QED BY <1>3, <2>1, <2>2, <2>3 DEF Free, history
<1>4. CASE Wake \/ MinDue \/ MinLater \/ MinNone \/ Sleep \/ Break \/ Tick
  <2>1. /\ UNCHANGED <<PQ, inserting, hashmap, event, timeval, global_id, receiver, ready_q>>
        /\ UNCHANGED <<requested, registered, cancelled, fired, dropped>>
        /\ heap' \in {heap, "undefined"}
    BY <1>4 DEF Wake, MinDue, MinLater, MinNone, Sleep, Break, Tick, shared, locals, history
  <2>2. \A x \in MinEntries : x.key \in TimevalAddr
    BY DEF MinEntries
  <2>3. /\ timer' \in {"sleep", "min", "removeMin", "process", "free"}
        /\ instant' \in Time /\ clock' \in Time /\ timeval_ptr' \in TimevalAddr \cup {NULL}
    BY <1>4, <2>2 DEF Wake, MinDue, MinLater, MinNone, Sleep, Break, Tick, shared, locals, history
  <2> QED BY <2>1, <2>3
<1> QED BY <1>1, <1>2, <1>3, <1>4 DEF timer_function
-----------------------------------------------------------------------------
(* Places.                                                                   *)

(* A step that moves nothing and frees nothing.                              *)
LEMMA PlacesKept ==
    ASSUME Places, Entries' = Entries, PQ' \cap inserting' = {}, UNCHANGED ready_q, Live' = Live,
           timer' = "free" => ready_q # <<>>, inserting' # {} => receiver'.pc = "insert"
    PROVE  Places'
<1>1. PlacesLive'
  BY DEF Places, PlacesLive
<1>2. PlacesDistinct'
  BY DEF Places, PlacesDistinct
<1>3. LivePlaced'
  BY DEF Places, LivePlaced
<1> QED BY <1>1, <1>2, <1>3 DEF Places

(* What InsertOneShot does, with what it allocates named.                    *)
Inserts(e, t) == /\ e \in EventAddr /\ event[e] = Freed /\ global_id \in Id
                 /\ event'[e] = [id |-> global_id, cancel |-> 0]
                 /\ \A f \in EventAddr : f # e => event'[f] = event[f]
                 /\ PQ' = PQ /\ inserting' = {[key |-> t, value |-> e]}
                 /\ receiver' = [pc |-> "insert", event |-> e, current |-> global_id]

LEMMA InsertNamed ==
    ASSUME TypeOK, NEW secs \in Secs, NEW usecs \in Usecs, InsertOneShot(secs, usecs)
    PROVE  /\ \E e \in EventAddr, t \in TimevalAddr : Inserts(e, t)
           /\ receiver.pc = "listen" /\ global_id \in Id
           /\ secs # NULL
           /\ requested'[global_id] = secs
           /\ \A i \in Id : i # global_id => requested'[i] = requested[i]
           /\ UNCHANGED <<hashmap, global_id, timer, ready_q, registered, cancelled, fired, dropped>>
<1>1. PICK e \in EventAddr, t \in TimevalAddr, priority \in Priorities(secs, usecs) :
         /\ event[e] = Freed
         /\ event' = [event EXCEPT ![e] = [id |-> global_id, cancel |-> 0]]
         /\ timeval' = [timeval EXCEPT ![t] = priority]
         /\ inserting' = {[key |-> t, value |-> e]}
         /\ receiver' = [pc |-> "insert", event |-> e, current |-> global_id]
  BY DEF InsertOneShot
<1>2. Inserts(e, t) /\ t \in TimevalAddr
  BY <1>1 DEF Inserts, TypeOK, InsertOneShot
<1>3. /\ receiver.pc = "listen" /\ global_id \in Id
      /\ requested' = [requested EXCEPT ![global_id] = secs]
      /\ UNCHANGED <<hashmap, global_id, timer, ready_q, registered, cancelled, fired, dropped>>
  BY DEF InsertOneShot, TypeOK
<1>4. secs # NULL
  OBVIOUS
<1>5. /\ requested'[global_id] = secs
      /\ \A i \in Id : i # global_id => requested'[i] = requested[i]
  BY <1>3 DEF TypeOK
<1> QED BY <1>2, <1>3, <1>4, <1>5

LEMMA LiveGrows ==
    ASSUME TypeOK, NEW e, NEW t, Inserts(e, t)
    PROVE  Live' = Live \cup {e} /\ e \notin Live
<1>1. [id |-> global_id, cancel |-> 0] \in [id : Id, cancel : 0..1]
  BY DEF Inserts
<1>2. event'[e] # Freed
  BY <1>1 DEF Inserts
<1> QED BY <1>2 DEF Live, Inserts

LEMMA InsertPlaces ==
    ASSUME TypeOK, Places, NEW e, NEW t, Inserts(e, t), UNCHANGED <<timer, ready_q>>,
           receiver.pc = "listen"
    PROVE  Places'
<1>1. Live' = Live \cup {e} /\ e \notin Live
  BY LiveGrows
<1> DEFINE x == [key |-> t, value |-> e]
<1>2. Entries' = Entries \cup {x} /\ x.value = e /\ PQ' = PQ /\ inserting' = {x}
  BY DEF Inserts, Entries, Places
<1> HIDE DEF x
<1>3. \A y \in Entries : y.value # e
  BY <1>1 DEF Places, PlacesLive
<1>4. \A j \in 1..Len(ready_q) : ready_q[j] # e
  BY <1>1 DEF Places, PlacesLive
<1>5. PlacesLive'
  BY <1>1, <1>2 DEF Places, PlacesLive
<1>6. PlacesDistinct'
  <2>1. x \notin PQ
    BY <1>2, <1>3 DEF Entries
  <2> QED BY <1>2, <1>3, <1>4, <2>1 DEF Places, PlacesDistinct
<1>7. LivePlaced'
  BY <1>1, <1>2 DEF Places, LivePlaced
<1> QED BY <1>5, <1>6, <1>7 DEF Places, Inserts

LEMMA RemoveMinPlaces ==
    ASSUME TypeOK, Places, RemoveMin
    PROVE  Places'
<1>0. PICK x \in PQ : PQ' = PQ \ {x} /\ inserting' = inserting /\ ready_q' = Append(ready_q, x.value)
  BY DEF RemoveMin, MinEntries
<1>1. x \in Entries /\ Entries' = Entries \ {x} /\ ready_q' = Append(ready_q, x.value)
      /\ PQ' \cap inserting' = {}
  BY <1>0 DEF Entries, Places, PlacesDistinct
<1>2. x.value \in EventAddr /\ x.value \in Live /\ Live' = Live /\ timer' = "min"
  BY <1>1 DEF RemoveMin, Places, PlacesLive, TypeOK, Entries, Live
<1> DEFINE n == Len(ready_q)
<1>3. /\ n \in Nat /\ Len(ready_q') = n + 1 /\ ready_q'[n + 1] = x.value
      /\ \A j \in 1..n : ready_q'[j] = ready_q[j]
  BY <1>1, <1>2, AppendFacts, ReadyFacts
<1>4. \A j \in 1..n + 1 : j \in 1..n \/ j = n + 1
  BY <1>3
<1>5. /\ \A y \in Entries : y.value = x.value => y = x
      /\ \A j \in 1..n : ready_q[j] # x.value
  BY <1>1 DEF Places, PlacesDistinct
<1> HIDE DEF n
<1>6. PlacesLive'
  <2>1. \A j \in 1..n : ready_q[j] \in Live
    BY DEF Places, PlacesLive, n
  <2>2. \A j \in 1..Len(ready_q') : ready_q'[j] \in Live'
    BY <1>2, <1>3, <1>4, <2>1
  <2>3. \A y \in Entries' : y.value \in Live'
    BY <1>1, <1>2 DEF Places, PlacesLive
  <2> QED BY <2>2, <2>3 DEF PlacesLive
<1>7. PlacesDistinct'
  <2>1. \A y, z \in Entries' : y.value = z.value => y = z
    BY <1>1 DEF Places, PlacesDistinct
  <2>2. \A i, j \in 1..n : ready_q[i] = ready_q[j] => i = j
    BY DEF Places, PlacesDistinct, n
  <2>3. ASSUME NEW i \in 1..n + 1, NEW j \in 1..n + 1, ready_q'[i] = ready_q'[j] PROVE i = j
    BY <1>3, <1>4, <1>5, <2>2, <2>3
  <2>4. \A y \in Entries, j \in 1..n : y.value # ready_q[j]
    BY DEF Places, PlacesDistinct, n
  <2>5. ASSUME NEW y \in Entries', NEW j \in 1..n + 1 PROVE y.value # ready_q'[j]
    BY <1>1, <1>3, <1>4, <1>5, <2>4
  <2> QED BY <1>1, <1>3, <2>1, <2>3, <2>5 DEF PlacesDistinct
<1>8. LivePlaced'
  <2> SUFFICES ASSUME NEW e \in Live
               PROVE  \/ \E y \in Entries' : y.value = e
                      \/ \E j \in 1..n + 1 : ready_q'[j] = e
    BY <1>2, <1>3 DEF LivePlaced
  <2>1. CASE \E y \in Entries : y.value = e
    <3>1. PICK y \in Entries : y.value = e
      BY <2>1
    <3>2. CASE y = x
      BY <1>3, <3>1, <3>2
    <3>3. CASE y # x
      BY <1>1, <3>1, <3>3
    <3> QED BY <3>2, <3>3
  <2>2. CASE \E j \in 1..n : ready_q[j] = e
    BY <1>3, <2>2
  <2> QED BY <2>1, <2>2 DEF Places, LivePlaced, n
<1>9. inserting' # {} => receiver'.pc = "insert"
  BY DEF RemoveMin, Places
<1> QED BY <1>2, <1>6, <1>7, <1>8, <1>9 DEF Places

LEMMA Freeing ==
    ASSUME TypeOK, Places, Free
    PROVE  /\ timer = "free" /\ timer' = "process"
           /\ ready_q # <<>> /\ Len(ready_q) \in Nat /\ 1 \in 1..Len(ready_q) /\ ready_q[1] \in Live
           /\ Live' = Live \ {ready_q[1]}
           /\ \A e \in Live' : event'[e] = event[e]
           /\ Len(ready_q') = Len(ready_q) - 1
           /\ \A j \in 1..Len(ready_q) - 1 : ready_q'[j] = ready_q[j + 1]
           /\ UNCHANGED <<PQ, inserting, hashmap, global_id, receiver, history>>
<1>1. /\ timer = "free" /\ timer' = "process"
      /\ event' = [event EXCEPT ![Head(ready_q)] = Freed]
      /\ ready_q' = Tail(ready_q)
      /\ UNCHANGED <<PQ, inserting, hashmap, global_id, receiver, history>>
  BY DEF Free
<1>2. ready_q # <<>> /\ Len(ready_q) \in Nat /\ 1 \in 1..Len(ready_q) /\ Head(ready_q) = ready_q[1]
  BY <1>1, ReadyFacts DEF Places
<1>3. ready_q[1] \in Live
  BY <1>2 DEF Places, PlacesLive
<1>4. /\ event'[ready_q[1]] = Freed
      /\ \A e \in EventAddr : e # ready_q[1] => event'[e] = event[e]
  BY <1>1, <1>2, <1>3 DEF TypeOK, Live
<1>5. Live' = Live \ {ready_q[1]}
  BY <1>4 DEF Live
<1> QED BY <1>1, <1>2, <1>3, <1>4, <1>5, TailFacts, EventTypes

LEMMA FreePlaces ==
    ASSUME TypeOK, Places, Free
    PROVE  Places'
<1> DEFINE n == Len(ready_q)
<1> USE Freeing
<1>0. Entries' = Entries /\ PQ' \cap inserting' = {} /\ (inserting' # {} => receiver'.pc = "insert")
  BY DEF Entries, Places, PlacesDistinct
<1>1. \A j \in 1..n - 1 : j + 1 \in 1..n /\ j + 1 # 1
  OBVIOUS
<1>2. \A i, j \in 1..n : ready_q[i] = ready_q[j] => i = j
  BY DEF Places, PlacesDistinct
<1>3. \A y \in Entries, j \in 1..n : y.value # ready_q[j]
  BY DEF Places, PlacesDistinct
<1>4. PlacesLive'
  BY <1>0, <1>1, <1>2, <1>3 DEF Places, PlacesLive
<1>5. PlacesDistinct'
  <2>1. \A y, z \in Entries' : y.value = z.value => y = z
    BY <1>0 DEF Places, PlacesDistinct
  <2>2. ASSUME NEW i \in 1..n - 1, NEW j \in 1..n - 1, ready_q'[i] = ready_q'[j] PROVE i = j
    <3>1. i + 1 = j + 1
      BY <1>1, <1>2, <2>2
    <3> QED BY <3>1
  <2>3. \A y \in Entries', j \in 1..n - 1 : y.value # ready_q'[j]
    BY <1>0, <1>1, <1>3
  <2> QED BY <1>0, <2>1, <2>2, <2>3 DEF PlacesDistinct
<1>6. LivePlaced'
  <2> SUFFICES ASSUME NEW e \in Live, e # ready_q[1]
               PROVE  \/ \E y \in Entries : y.value = e
                      \/ \E j \in 1..n - 1 : ready_q'[j] = e
    BY <1>0 DEF LivePlaced
  <2>1. CASE \E j \in 1..n : ready_q[j] = e
    <3>1. PICK j \in 1..n : ready_q[j] = e
      BY <2>1
    <3>2. j # 1 /\ j - 1 \in 1..n - 1 /\ (j - 1) + 1 = j
      BY <3>1
    <3> QED BY <3>1, <3>2
  <2> QED BY <2>1 DEF Places, LivePlaced
<1> QED BY <1>0, <1>4, <1>5, <1>6 DEF Places
-----------------------------------------------------------------------------
(* Ids.                                                                      *)

LEMMA IdsKept ==
    ASSUME Ids, UNCHANGED <<requested, fired, dropped>>, Live' = Live,
           \A e \in Live : event'[e].id = event[e].id,
           \A e \in Live : (timer' = "free" /\ e = ready_q'[1]) <=> Tested(e),
           IdsSpent'
    PROVE  Ids'
<1>1. Accepted' = Accepted /\ Finished' = Finished
  BY DEF Accepted, Finished
<1>2. IdsDistinct' /\ IdsAccepted' /\ UnfinishedLive' /\ FinishedOnce'
  BY <1>1 DEF Ids, IdsDistinct, IdsAccepted, UnfinishedLive, FinishedOnce
<1>3. LiveFinished'
  BY <1>1 DEF Ids, LiveFinished, Tested
<1> QED BY <1>2, <1>3 DEF Ids

LEMMA AcceptedFacts ==
    ASSUME TypeOK, Ids
    PROVE  /\ Accepted \subseteq Id /\ global_id \in Nat
           /\ ~Early => \A i \in Accepted : i < global_id
           /\ ~Early => global_id \notin Accepted /\ global_id \notin Finished
           /\ \A i \in Accepted : i < global_id + 1
BY DEF TypeOK, Ids, IdsSpent, FinishedOnce, Accepted, Early

LEMMA InsertIds ==
    ASSUME TypeOK, Places, Ids, NEW secs \in Secs, NEW usecs \in Usecs, InsertOneShot(secs, usecs)
    PROVE  Ids'
<1>1. PICK e \in EventAddr, t \in TimevalAddr : Inserts(e, t)
  BY InsertNamed
<1>2. Live' = Live \cup {e} /\ e \notin Live
  BY <1>1, LiveGrows
<1>3. /\ Accepted' = Accepted \cup {global_id} /\ Finished' = Finished
      /\ UNCHANGED <<global_id, timer, ready_q, fired, dropped>>
  BY InsertNamed DEF Accepted, Finished
<1>4. /\ event'[e].id = global_id
      /\ \A f \in Live : event'[f] = event[f]
  BY <1>1, <1>2 DEF Inserts, Live
<1>5. global_id \notin Accepted /\ global_id \notin Finished /\ global_id \in Nat
      /\ \A i \in Accepted : i < global_id
  BY AcceptedFacts, InsertNamed DEF Early
<1>6. ~Tested(e)
  BY <1>2, ReadyFacts DEF Tested, Places, PlacesLive
<1>7. IdsDistinct'
  BY <1>2, <1>4, <1>5 DEF Ids, IdsDistinct, IdsAccepted
<1>8. IdsAccepted'
  BY <1>2, <1>3, <1>4 DEF Ids, IdsAccepted
<1>9. LiveFinished'
  BY <1>2, <1>3, <1>4, <1>5, <1>6 DEF Ids, LiveFinished, Tested
<1>10. UnfinishedLive'
  BY <1>2, <1>3, <1>4 DEF Ids, UnfinishedLive
<1>11. FinishedOnce'
  BY <1>3 DEF Ids, FinishedOnce
<1>12. IdsSpent'
  BY <1>1, <1>3, <1>5 DEF IdsSpent, Inserts, Early
<1> QED BY <1>7, <1>8, <1>9, <1>10, <1>11, <1>12 DEF Ids

LEMMA ProcessNamed ==
    ASSUME TypeOK, Places, Ids, Process
    PROVE  LET i == event[ready_q[1]].id
           IN  /\ timer # "free" /\ timer' = "free"
               /\ ready_q # <<>> /\ ready_q[1] \in Live
               /\ i \in Accepted /\ i \notin Finished
               /\ \/ /\ event[ready_q[1]].cancel = 0 /\ dropped' = dropped
                     /\ fired'[i] = clock /\ \A j \in Id : j # i => fired'[j] = fired[j]
                  \/ /\ event[ready_q[1]].cancel # 0 /\ fired' = fired
                     /\ dropped' = dropped \cup {i}
               /\ UNCHANGED <<PQ, inserting, hashmap, event, global_id, receiver, ready_q,
                              requested, registered, cancelled>>
<1>1. /\ timer = "process" /\ timer' = "free" /\ ready_q # <<>>
      /\ UNCHANGED <<PQ, inserting, hashmap, event, global_id, receiver, ready_q, requested, registered, cancelled>>
  BY DEF Process, shared
<1>2. 1 \in 1..Len(ready_q) /\ Head(ready_q) = ready_q[1] /\ ready_q[1] \in Live
  BY <1>1, ReadyFacts DEF Places, PlacesLive
<1> DEFINE i == event[ready_q[1]].id
<1>3. i \in Accepted /\ i \notin Finished
  BY <1>1, <1>2 DEF Ids, IdsAccepted, LiveFinished, Tested
<1>4. CASE event[ready_q[1]].cancel = 0
  <2>1. fired' = [fired EXCEPT ![i] = clock] /\ dropped' = dropped
    BY <1>2, <1>4 DEF Process
  <2>2. i \in Id
    BY <1>3 DEF Accepted
  <2> HIDE DEF i
  <2>3. fired'[i] = clock /\ \A j \in Id : j # i => fired'[j] = fired[j]
    BY <2>1, <2>2 DEF TypeOK
  <2> QED BY <1>1, <1>2, <1>3, <1>4, <2>1, <2>3 DEF i
<1>5. CASE event[ready_q[1]].cancel # 0
  <2>1. fired' = fired /\ dropped' = dropped \cup {i}
    BY <1>2, <1>5 DEF Process
  <2> QED BY <1>1, <1>2, <1>3, <1>5, <2>1
<1> QED BY <1>4, <1>5

LEMMA ProcessFinishes ==
    ASSUME TypeOK, Places, Ids, Process
    PROVE  /\ Finished' = Finished \cup {event[ready_q[1]].id}
           /\ Accepted' = Accepted
<1> DEFINE i == event[ready_q[1]].id
<1>1. i \in Id /\ clock # NULL
  BY ProcessNamed DEF TypeOK, Accepted
<1>2. \/ /\ dropped' = dropped /\ fired'[i] = clock
         /\ \A j \in Id : j # i => fired'[j] = fired[j]
      \/ fired' = fired /\ dropped' = dropped \cup {i}
  BY ProcessNamed
<1> HIDE DEF i
<1>3. Finished' = Finished \cup {i}
  BY <1>1, <1>2 DEF Finished
<1> QED BY <1>3, ProcessNamed DEF i, Accepted

LEMMA ProcessIds ==
    ASSUME TypeOK, Places, Ids, Process
    PROVE  Ids'
<1> DEFINE h == ready_q[1]
           i == event[h].id
<1>1. /\ timer # "free" /\ timer' = "free" /\ ready_q' = ready_q /\ h \in Live
      /\ i \in Accepted /\ i \notin Finished /\ Live' = Live /\ event' = event
      /\ UNCHANGED <<global_id, receiver>>
  BY ProcessNamed DEF Live
<1>2. Finished' = Finished \cup {i} /\ Accepted' = Accepted
  BY ProcessFinishes
<1>3. IdsDistinct' /\ IdsAccepted' /\ IdsSpent'
  BY <1>1, <1>2 DEF Ids, IdsDistinct, IdsAccepted, IdsSpent, Early
<1>4. LiveFinished'
  <2> SUFFICES ASSUME NEW e \in Live
               PROVE  event[e].id \in Finished' <=> e = h
    BY <1>1 DEF LiveFinished, Tested
  <2>1. event[e].id \notin Finished
    BY <1>1 DEF Ids, LiveFinished, Tested
  <2>2. event[e].id = i <=> e = h
    BY <1>1 DEF Ids, IdsDistinct
  <2> QED BY <1>2, <2>1, <2>2
<1>5. UnfinishedLive'
  BY <1>1, <1>2 DEF Ids, UnfinishedLive
<1>6. FinishedOnce'
  <2>1. \A j \in dropped : fired[j] = NULL /\ j \in Id
    BY DEF Ids, FinishedOnce, TypeOK
  <2>2. i \notin dropped /\ fired[i] = NULL
    BY <1>1 DEF Finished, Accepted
  <2>3. \A j \in dropped' : fired'[j] = NULL
    BY <2>1, <2>2, ProcessNamed
  <2>4. Finished' \subseteq Accepted'
    BY <1>1, <1>2 DEF Ids, FinishedOnce
  <2> QED BY <2>3, <2>4 DEF FinishedOnce
<1> QED BY <1>3, <1>4, <1>5, <1>6 DEF Ids

LEMMA FreeIds ==
    ASSUME TypeOK, Places, Ids, Free
    PROVE  Ids'
<1>1. Accepted' = Accepted /\ Finished' = Finished /\ UNCHANGED <<requested, fired, dropped, global_id, receiver>>
  BY Freeing DEF Accepted, Finished, history
<1>2. /\ Live' = Live \ {ready_q[1]} /\ timer = "free" /\ timer' = "process"
      /\ ready_q[1] \in Live /\ \A e \in Live' : event'[e] = event[e]
  BY Freeing
<1>3. IdsDistinct' /\ IdsAccepted' /\ IdsSpent' /\ FinishedOnce'
  BY <1>1, <1>2 DEF Ids, IdsDistinct, IdsAccepted, IdsSpent, FinishedOnce, Early
<1>4. LiveFinished'
  BY <1>1, <1>2 DEF Ids, LiveFinished, Tested
<1>5. UnfinishedLive'
  <2> SUFFICES ASSUME NEW i \in Accepted, i \notin Finished
               PROVE  \E e \in Live' : event'[e].id = i
    BY <1>1 DEF UnfinishedLive
  <2>1. PICK e \in Live : event[e].id = i
    BY DEF Ids, UnfinishedLive
  <2>2. event[ready_q[1]].id \in Finished
    BY <1>2 DEF Ids, LiveFinished, Tested
  <2>3. e \in Live'
    BY <1>2, <2>1, <2>2
  <2> QED BY <1>2, <2>1, <2>3
<1> QED BY <1>3, <1>4, <1>5 DEF Ids
-----------------------------------------------------------------------------
(* Requests.                                                                 *)

(* A step of the timer that finishes and frees nothing.                      *)
LEMMA RequestsKept ==
    ASSUME Requests, UNCHANGED <<event, hashmap, global_id, receiver, history>>,
           \A e \in Live : (timer' = "free" /\ e = ready_q'[1]) <=> Tested(e)
    PROVE  Requests'
<1>1. /\ UNCHANGED <<requested, registered, cancelled, fired, dropped>>
      /\ Live' = Live /\ Accepted' = Accepted /\ Finished' = Finished /\ Inserting' = Inserting
  BY DEF history, Live, Accepted, Finished, Inserting
<1>2. InsertsEvent' /\ ReceiverSpends' /\ CancelsEvent' /\ MapFinds' /\ RegisteredIsId'
  BY <1>1 DEF Requests, InsertsEvent, ReceiverSpends, CancelsEvent, MapFinds, RegisteredIsId, Early
<1>3. Flagged'
  BY <1>1 DEF Requests, Flagged, Tested
<1> QED BY <1>2, <1>3 DEF Requests

LEMMA InsertRequests ==
    ASSUME TypeOK, Places, Ids, Requests, NEW secs \in Secs, NEW usecs \in Usecs,
           InsertOneShot(secs, usecs)
    PROVE  Requests'
<1>1. PICK e \in EventAddr, t \in TimevalAddr : Inserts(e, t)
  BY InsertNamed
<1>2. Live' = Live \cup {e} /\ e \notin Live
  BY <1>1, LiveGrows
<1>3. /\ Accepted' = Accepted \cup {global_id} /\ Finished' = Finished
      /\ receiver.pc = "listen" /\ global_id <= MaxId
      /\ UNCHANGED <<hashmap, global_id, timer, ready_q, registered, cancelled, fired, dropped>>
  BY InsertNamed DEF Accepted, Finished
<1>4. /\ event'[e].id = global_id
      /\ \A f \in Live : event'[f] = event[f]
      /\ receiver'.pc = "insert" /\ receiver'.event = e /\ receiver'.current = global_id
  BY <1>1, <1>2 DEF Inserts, Live
<1>5. global_id \notin Accepted
  BY <1>3, AcceptedFacts DEF Early
<1>6. ~Inserting
  BY <1>3 DEF Inserting
<1>7. InsertsEvent' /\ ReceiverSpends' /\ CancelsEvent'
  BY <1>2, <1>3, <1>4 DEF InsertsEvent, ReceiverSpends, CancelsEvent, Early
<1>8. MapFinds'
  BY <1>2, <1>3, <1>4 DEF Requests, MapFinds, Early
<1>9. RegisteredIsId'
  BY <1>3, <1>4, <1>5, <1>6 DEF Requests, RegisteredIsId
<1>10. Flagged'
  BY <1>2, <1>3, <1>4, <1>5 DEF Requests, Flagged, Tested
<1> QED BY <1>7, <1>8, <1>9, <1>10 DEF Requests

LEMMA InsertedRequests ==
    ASSUME TypeOK, Places, Ids, Requests, Inserted
    PROVE  Requests' /\ Ids' /\ Places'
<1>1. /\ receiver.pc = "insert" /\ receiver'.pc = "put"
      /\ receiver'.event = receiver.event /\ receiver'.current = receiver.current
      /\ PQ' = PQ \cup inserting /\ inserting' = {}
      /\ UNCHANGED <<hashmap, event, global_id, timer, ready_q, requested, registered, cancelled, fired, dropped>>
  BY ReceiverTypes DEF Inserted, history, ReceiverStates
<1>2. /\ Live' = Live /\ Accepted' = Accepted /\ Finished' = Finished
      /\ Inserting /\ Inserting' /\ Early /\ Early' /\ Entries' = Entries
  BY <1>1 DEF Live, Accepted, Finished, Inserting, Early, Entries
<1>3. InsertsEvent' /\ ReceiverSpends' /\ CancelsEvent' /\ MapFinds' /\ RegisteredIsId' /\ Flagged'
  BY <1>1, <1>2 DEF Requests, InsertsEvent, ReceiverSpends, CancelsEvent, MapFinds, RegisteredIsId,
                    Flagged, Tested
<1>4. IdsSpent'
  BY <1>1, <1>2 DEF Ids, IdsSpent
<1>5. Ids'
  BY <1>1, <1>2, <1>4, IdsKept DEF Tested
<1>6. Places'
  BY <1>1, <1>2, PlacesKept DEF Places, PlacesDistinct, Entries
<1> QED BY <1>3, <1>5, <1>6 DEF Requests

LEMMA PutUniqueRequests ==
    ASSUME TypeOK, Places, Ids, Requests, PutUnique
    PROVE  Requests' /\ Ids' /\ Places'
<1>1. /\ receiver.pc = "put" /\ receiver'.pc = "return"
      /\ receiver'.event = receiver.event /\ receiver'.current = receiver.current
      /\ hashmap' = [hashmap EXCEPT ![global_id] = receiver.event]
      /\ global_id' = global_id + 1
      /\ UNCHANGED <<PQ, inserting, event, timer, ready_q, requested, registered, cancelled, fired, dropped>>
  BY ReceiverTypes DEF PutUnique, history, ReceiverStates
<1>2. receiver.current = global_id /\ global_id <= MaxId /\ global_id \in 0..MaxId
  BY <1>1 DEF Requests, ReceiverSpends, TypeOK, Early
<1>3. /\ hashmap'[global_id] = receiver.event
      /\ \A i \in 0..MaxId : i # global_id => hashmap'[i] = hashmap[i]
  BY <1>1, <1>2 DEF TypeOK
<1>4. /\ Live' = Live /\ Accepted' = Accepted /\ Finished' = Finished /\ Inserting /\ Inserting'
      /\ ~Early' /\ Entries' = Entries
      /\ Accepted \subseteq 0..MaxId
  BY <1>1 DEF Live, Accepted, Finished, Inserting, Early, Entries
<1>5. InsertsEvent' /\ ReceiverSpends' /\ CancelsEvent'
  BY <1>1, <1>4 DEF Requests, InsertsEvent, ReceiverSpends, CancelsEvent
<1>6. MapFinds'
  <2> SUFFICES ASSUME NEW i \in Accepted, i \notin Finished
               PROVE  hashmap'[i] \in Live /\ event[hashmap'[i]].id = i
    BY <1>1, <1>4 DEF MapFinds
  <2>1. CASE i = global_id
    BY <1>2, <1>3, <1>4, <2>1 DEF Requests, InsertsEvent
  <2>2. CASE i # global_id
    BY <1>3, <1>4, <2>2 DEF Requests, MapFinds
  <2> QED BY <2>1, <2>2
<1>7. RegisteredIsId' /\ Flagged'
  BY <1>1, <1>4 DEF Requests, RegisteredIsId, Flagged, Tested
<1>8. IdsSpent'
  BY <1>1, <1>4, AcceptedFacts DEF IdsSpent
<1>9. Ids'
  BY <1>1, <1>4, <1>8, IdsKept DEF Tested
<1>10. Places'
  BY <1>1, <1>4, PlacesKept DEF Places, PlacesDistinct, Entries
<1> QED BY <1>5, <1>6, <1>7, <1>9, <1>10 DEF Requests

LEMMA ReturnIdRequests ==
    ASSUME TypeOK, Places, Ids, Requests, ReturnId
    PROVE  Requests' /\ Ids' /\ Places'
<1> DEFINE c == receiver.current
<1>1. PICK id \in IF event[receiver.event] = Freed THEN Id ELSE {event[receiver.event].id} :
        registered' = [registered EXCEPT ![c] = id]
  BY DEF ReturnId
<1>2. /\ receiver.pc = "return" /\ receiver' = Listening /\ receiver'.pc = "listen"
      /\ UNCHANGED <<PQ, inserting, hashmap, event, global_id, timer, ready_q, requested, cancelled, fired, dropped>>
  BY DEF ReturnId, shared, Listening
<1>3. Inserting /\ ~Inserting'
  BY <1>2 DEF Inserting
<1>4. Live' = Live /\ Accepted' = Accepted /\ Finished' = Finished
  BY <1>2 DEF Live, Accepted, Finished
<1>5. /\ c \in Accepted /\ receiver.event \in EventAddr
      /\ receiver.event \in Live => event[receiver.event].id = c
      /\ c \notin Finished => receiver.event \in Live
  BY <1>3 DEF Requests, InsertsEvent
<1>6. c \notin Finished => id = c
  BY <1>1, <1>5 DEF Live
<1>7. /\ registered'[c] = id /\ \A i \in Id : i # c => registered'[i] = registered[i]
  BY <1>1, <1>5 DEF TypeOK, Accepted
<1> HIDE DEF c
<1>8. RegisteredIsId'
  BY <1>3, <1>4, <1>5, <1>6, <1>7 DEF Requests, RegisteredIsId
<1>9. InsertsEvent' /\ ReceiverSpends' /\ CancelsEvent'
  BY <1>2, <1>3 DEF InsertsEvent, ReceiverSpends, CancelsEvent, Early
<1>10. MapFinds' /\ Flagged'
  BY <1>2, <1>4 DEF Requests, MapFinds, Flagged, Tested, Early
<1>11. IdsSpent'
  BY <1>2, <1>4, AcceptedFacts DEF IdsSpent, Early
<1>12. Ids'
  BY <1>2, <1>4, <1>11, IdsKept DEF Tested
<1>13. Places'
  BY <1>2, <1>4, PlacesKept DEF Places, PlacesDistinct, Entries
<1> QED BY <1>8, <1>9, <1>10, <1>12, <1>13 DEF Requests

(* The answer to a Cancel, once its event carries the flag if it is pending. *)
Answer(c, s) == global_id' = global_id + 1 /\ cancelled' = cancelled \cup s
                /\ s \subseteq {c} /\ s \subseteq Accepted \ Finished

LEMMA CancelRequests ==
    ASSUME TypeOK, Places, Ids, Requests, NEW c, NEW s, Answer(c, s),
           receiver.pc \in {"listen", "cancel"}, receiver' = Listening,
           UNCHANGED <<PQ, inserting, hashmap, timer, ready_q, requested, registered, fired, dropped>>,
           Live' = Live,
           \A e \in Live : /\ event'[e].id = event[e].id
                           /\ event[e].cancel = 1 => event'[e].cancel = 1
                           /\ event[e].id \in s /\ ~Tested(e) => event'[e].cancel = 1
    PROVE  Requests' /\ Ids' /\ Places'
<1>1. receiver'.pc = "listen" /\ ~Early /\ ~Early' /\ ~Inserting /\ ~Inserting'
  BY DEF Listening, Inserting, Early
<1>2. Accepted' = Accepted /\ Finished' = Finished
  BY DEF Accepted, Finished
<1>3. InsertsEvent' /\ ReceiverSpends' /\ CancelsEvent'
  BY <1>1 DEF InsertsEvent, ReceiverSpends, CancelsEvent
<1>4. MapFinds' /\ RegisteredIsId'
  BY <1>1, <1>2 DEF Requests, MapFinds, RegisteredIsId
<1>5. Flagged'
  <2>1. \A i \in s : fired[i] = NULL /\ i \in Accepted
    BY DEF Answer, Finished, Accepted
  <2>2. cancelled' \subseteq Accepted' /\ \A i \in cancelled' : fired'[i] = NULL
    BY <1>2, <2>1 DEF Answer, Requests, Flagged
  <2>3. ASSUME NEW e \in Live, event[e].id \in cancelled', ~Tested(e) PROVE event'[e].cancel = 1
    BY <2>3 DEF Answer, Requests, Flagged
  <2> QED BY <2>2, <2>3 DEF Flagged, Tested
<1>6. IdsSpent'
  BY <1>1, <1>2, AcceptedFacts DEF IdsSpent, Answer
<1>7. Ids'
  BY <1>6, IdsKept DEF Tested
<1>8. Places'
  BY PlacesKept DEF Places, PlacesDistinct, Entries
<1> QED BY <1>3, <1>4, <1>5, <1>7, <1>8 DEF Requests

LEMMA CancelMissingRequests ==
    ASSUME TypeOK, Places, Ids, Requests, NEW current \in 0..MaxId, CancelMissing(current)
    PROVE  Requests' /\ Ids' /\ Places'
<1> DEFINE s == {current} \cap (Accepted \ Finished)
<1>1. /\ receiver.pc = "listen" /\ hashmap[current] = NULL /\ receiver' = Listening
      /\ global_id' = global_id + 1 /\ cancelled' = cancelled \cup s
      /\ UNCHANGED <<PQ, inserting, hashmap, event, timer, ready_q, requested, registered, fired, dropped>>
  BY DEF CancelMissing, Answered
<1>2. s = {}
  <2>1. \A i \in Accepted \ Finished : hashmap[i] \in EventAddr
    BY <1>1 DEF Requests, MapFinds, Live, Early
  <2> QED BY <1>1, <2>1
<1>3. Live' = Live
  BY <1>1 DEF Live
<1>4. Answer(current, {})
  BY <1>1, <1>2 DEF Answer
<1> QED BY <1>1, <1>3, <1>4, CancelRequests

LEMMA CancelSetRequests ==
    ASSUME TypeOK, Places, Ids, Requests, CancelSet
    PROVE  Requests' /\ Ids' /\ Places'
<1> DEFINE c == receiver.current
           s == {c} \cap (Accepted \ Finished)
<1>1. /\ receiver.pc = "cancel" /\ receiver' = Listening
      /\ global_id' = global_id + 1 /\ cancelled' = cancelled \cup s
      /\ event' = [e \in EventAddr |-> IF e = receiver.event /\ event[e] # Freed
                                       THEN [event[e] EXCEPT !.cancel = 1] ELSE event[e]]
      /\ UNCHANGED <<PQ, inserting, hashmap, timer, ready_q, requested, registered, fired, dropped>>
  BY DEF CancelSet, Answered
<1>2. Answer(c, s)
  BY <1>1 DEF Answer
<1>3. ASSUME NEW e \in EventAddr
      PROVE  /\ event[e] = Freed => event'[e] = Freed
             /\ event[e] # Freed => event'[e] # Freed /\ event'[e].id = event[e].id
             /\ event[e] # Freed /\ event[e].cancel = 1 => event'[e].cancel = 1
             /\ event[e] # Freed /\ e = receiver.event => event'[e].cancel = 1
  <2>1. event'[e] = IF e = receiver.event /\ event[e] # Freed
                    THEN [event[e] EXCEPT !.cancel = 1] ELSE event[e]
    BY <1>1
  <2>2. event[e] # Freed => event[e] \in [id : Id, cancel : 0..1]
    BY EventTypes DEF Live
  <2>3. ASSUME event[e] # Freed
        PROVE  LET r == [event[e] EXCEPT !.cancel = 1]
               IN r.id = event[e].id /\ r.cancel = 1 /\ r \in [id : Id, cancel : 0..1]
    BY <2>2, <2>3
  <2> QED BY <2>1, <2>3
<1>4. Live' = Live
  BY <1>3 DEF Live
<1>5. \A i \in s : i = c /\ hashmap[i] \in Live /\ event[hashmap[i]].id = i /\ hashmap[i] = receiver.event
  BY <1>1 DEF Requests, MapFinds, CancelsEvent, Early
<1>6. ASSUME NEW e \in Live, event[e].id \in s PROVE e = receiver.event
  BY <1>5, <1>6 DEF Ids, IdsDistinct
<1> HIDE DEF s, c
<1>7. \A e \in Live : /\ event'[e].id = event[e].id
                      /\ event[e].cancel = 1 => event'[e].cancel = 1
                      /\ event[e].id \in s /\ ~Tested(e) => event'[e].cancel = 1
  BY <1>3, <1>6 DEF Live
<1> QED BY <1>1, <1>2, <1>4, <1>7, CancelRequests

LEMMA CancelGetRequests ==
    ASSUME TypeOK, Places, Ids, Requests, NEW current \in 0..MaxId, CancelGet(current)
    PROVE  Requests' /\ Ids' /\ Places'
<1>1. /\ receiver.pc = "listen" /\ global_id <= MaxId
      /\ receiver'.pc = "cancel" /\ receiver'.event = hashmap[current] /\ receiver'.current = current
      /\ UNCHANGED <<PQ, inserting, hashmap, event, global_id, timer, ready_q>>
      /\ UNCHANGED <<requested, registered, cancelled, fired, dropped>>
  BY DEF CancelGet, shared, history
<1>2. Live' = Live /\ Accepted' = Accepted /\ Finished' = Finished /\ ~Inserting /\ ~Inserting'
  BY <1>1 DEF Live, Accepted, Finished, Inserting
<1>3. InsertsEvent' /\ ReceiverSpends' /\ CancelsEvent'
  BY <1>1, <1>2 DEF InsertsEvent, ReceiverSpends, CancelsEvent, Early
<1>4. MapFinds' /\ RegisteredIsId' /\ Flagged'
  BY <1>1, <1>2 DEF Requests, MapFinds, RegisteredIsId, Flagged, Tested, Early
<1>5. IdsSpent'
  BY <1>1, <1>2, AcceptedFacts DEF IdsSpent, Early
<1>6. Ids'
  BY <1>1, <1>2, <1>5, IdsKept DEF Tested
<1>7. Places'
  BY <1>1, <1>2, PlacesKept DEF Places, PlacesDistinct, Entries
<1> QED BY <1>3, <1>4, <1>6, <1>7 DEF Requests

LEMMA ProcessRequests ==
    ASSUME TypeOK, Places, Ids, Requests, Process
    PROVE  Requests'
<1> DEFINE h == ready_q[1]
           i == event[h].id
<1>1. /\ timer # "free" /\ timer' = "free" /\ ready_q' = ready_q /\ h \in Live
      /\ i \in Accepted /\ i \notin Finished
      /\ UNCHANGED <<hashmap, event, global_id, receiver, registered, cancelled>>
  BY ProcessNamed
<1>2. Finished' = Finished \cup {i} /\ Accepted' = Accepted /\ Live' = Live /\ Inserting' = Inserting
  BY <1>1, ProcessFinishes DEF Live, Inserting
<1>3. InsertsEvent' /\ ReceiverSpends' /\ CancelsEvent' /\ MapFinds' /\ RegisteredIsId'
  BY <1>1, <1>2 DEF Requests, InsertsEvent, ReceiverSpends, CancelsEvent, MapFinds, RegisteredIsId, Early
<1>4. Flagged'
  <2>1. i \in cancelled => event[h].cancel = 1
    BY <1>1 DEF Requests, Flagged, Tested
  <2>2. cancelled \subseteq Id
    BY DEF TypeOK
  <2>3. \A j \in cancelled : fired'[j] = NULL
    BY <2>1, <2>2, ProcessNamed DEF Requests, Flagged
  <2>4. \A e \in Live : event[e].id \in cancelled => event[e].cancel = 1
    BY <1>1 DEF Requests, Flagged, Tested
  <2> QED BY <1>1, <1>2, <2>3, <2>4 DEF Requests, Flagged, Tested
<1> QED BY <1>3, <1>4 DEF Requests

LEMMA FreeRequests ==
    ASSUME TypeOK, Places, Ids, Requests, Free
    PROVE  Requests'
<1> DEFINE h == ready_q[1]
<1>1. /\ Live' = Live \ {h} /\ timer = "free" /\ timer' = "process" /\ h \in Live
      /\ \A e \in Live' : event'[e] = event[e]
      /\ UNCHANGED <<hashmap, global_id, receiver, requested, registered, cancelled, fired, dropped>>
  BY Freeing DEF history
<1>2. Finished' = Finished /\ Accepted' = Accepted /\ Inserting' = Inserting
  BY <1>1 DEF Accepted, Finished, Inserting
<1>3. event[h].id \in Finished /\ \A e \in Live' : ~Tested(e)
  BY <1>1 DEF Ids, LiveFinished, Tested
<1>4. InsertsEvent'
  BY <1>1, <1>2, <1>3 DEF Requests, InsertsEvent
<1>5. ReceiverSpends' /\ CancelsEvent' /\ RegisteredIsId'
  BY <1>1, <1>2 DEF Requests, ReceiverSpends, CancelsEvent, RegisteredIsId, Early
<1>6. MapFinds'
  BY <1>1, <1>2, <1>3 DEF Requests, MapFinds, Early
<1>7. Flagged'
  BY <1>1, <1>2, <1>3 DEF Requests, Flagged
<1> QED BY <1>4, <1>5, <1>6, <1>7 DEF Requests
-----------------------------------------------------------------------------
(* The theorems.                                                             *)

LEMMA InitInv == Init => Inv
<1> SUFFICES ASSUME Init PROVE Inv
  OBVIOUS
<1>1. TypeOK
  <2>1. /\ 1 \in 1..MaxId + 1 /\ 1 \in 0..MaxTime /\ 0 \in 0..MaxTime
        /\ <<>> \in Seq(EventAddr)
    OBVIOUS
  <2>2. receiver \in ReceiverStates
    BY DEF Init, Listening, ReceiverStates
  <2> QED BY <2>1, <2>2 DEF Init, TypeOK, ReceiverStates
<1>2. /\ Live = {} /\ Accepted = {} /\ Finished = {} /\ ~Inserting /\ receiver.pc = "listen"
      /\ timer = "sleep" /\ PQ = {} /\ inserting = {} /\ Entries = {} /\ cancelled = {} /\ dropped = {}
      /\ \A i \in Id : registered[i] = NULL
  BY DEF Init, Live, Accepted, Finished, Inserting, Listening, Entries
<1>3. Places
  <2>1. Len(ready_q) = 0
    BY DEF Init
  <2> QED BY <1>2, <2>1 DEF Places, PlacesLive, PlacesDistinct, LivePlaced
<1>4. Ids
  BY <1>2 DEF Ids, IdsDistinct, IdsAccepted, LiveFinished, UnfinishedLive, FinishedOnce, IdsSpent
<1>5. Requests
  BY <1>2 DEF Requests, InsertsEvent, ReceiverSpends, CancelsEvent, MapFinds, RegisteredIsId, Flagged, Early
<1> QED BY <1>1, <1>3, <1>4, <1>5 DEF Inv

LEMMA ReceiverKeepsInv ==
    ASSUME Inv, insert_oneshot \/ cancel_update
    PROVE  Inv'
<1> USE DEF Inv
<1>1. CASE \E secs \in Secs, usecs \in Usecs : InsertOneShot(secs, usecs)
  <2>1. PICK secs \in Secs, usecs \in Usecs : InsertOneShot(secs, usecs)
    BY <1>1
  <2>2. Places'
    <3>1. PICK e \in EventAddr, t \in TimevalAddr : Inserts(e, t)
      BY <2>1, InsertNamed
    <3> QED BY <2>1, <3>1, InsertNamed, InsertPlaces
  <2> QED BY <2>1, <2>2, InsertType, InsertIds, InsertRequests
<1>6. CASE Inserted
  BY <1>6, InsertedType, InsertedRequests
<1>2. CASE PutUnique
  BY <1>2, PutUniqueType, PutUniqueRequests DEF Requests
<1>3. CASE ReturnId
  BY <1>3, ReturnIdType, ReturnIdRequests DEF Requests
<1>4. CASE \E current \in 0..MaxId : CancelMissing(current) \/ CancelGet(current)
  BY <1>4, CancelMissingType, CancelMissingRequests, CancelGetType, CancelGetRequests
<1>5. CASE CancelSet
  BY <1>5, CancelSetType, CancelSetRequests DEF Requests
<1> QED BY <1>1, <1>2, <1>6, <1>3, <1>4, <1>5 DEF insert_oneshot, cancel_update

LEMMA TimerKeepsInv ==
    ASSUME Inv, timer_function \/ Break \/ Tick
    PROVE  Inv'
<1> USE DEF Inv
<1>1. TypeOK'
  BY TimerType
<1>2. CASE RemoveMin
  <2>1. /\ timer # "free" /\ timer' # "free"
        /\ UNCHANGED <<hashmap, event, global_id, receiver, requested, registered, cancelled, fired, dropped>>
    BY <1>2 DEF RemoveMin, history
  <2>2. Live' = Live /\ IdsSpent' /\ \A e \in Live : (timer' = "free" /\ e = ready_q'[1]) <=> Tested(e)
    BY <2>1 DEF Live, IdsSpent, Ids, Accepted, Tested, Early
  <2>3. Places'
    BY <1>2, RemoveMinPlaces
  <2>4. Ids'
    BY <2>1, <2>2, IdsKept
  <2>5. Requests'
    BY <2>1, <2>2, RequestsKept DEF history
  <2> QED BY <1>1, <2>3, <2>4, <2>5
<1>3. CASE Process
  <2>1. Places'
    BY <1>3, ProcessNamed, PlacesKept DEF Live, Entries, Places, PlacesDistinct
  <2> QED BY <1>1, <1>3, <2>1, ProcessIds, ProcessRequests
<1>4. CASE Free
  BY <1>1, <1>4, FreePlaces, FreeIds, FreeRequests
<1>5. CASE Wake \/ MinDue \/ MinLater \/ MinNone \/ Sleep \/ Break \/ Tick
  <2>1. /\ UNCHANGED <<PQ, inserting, ready_q, hashmap, event, global_id, receiver>>
        /\ UNCHANGED <<requested, registered, cancelled, fired, dropped>>
        /\ (timer # "free" /\ timer' # "free") \/ timer' = timer
    BY <1>5 DEF Wake, MinDue, MinLater, MinNone, Sleep, Break, Tick, shared, locals, history
  <2>2. Live' = Live /\ IdsSpent' /\ \A e \in Live : (timer' = "free" /\ e = ready_q'[1]) <=> Tested(e)
    BY <2>1 DEF Live, IdsSpent, Ids, Accepted, Tested, Early
  <2>3. Places'
    BY <2>1, <2>2, PlacesKept DEF Places, PlacesDistinct, Entries
  <2>4. Ids'
    BY <2>1, <2>2, IdsKept
  <2>5. Requests'
    BY <2>1, <2>2, RequestsKept DEF history
  <2> QED BY <1>1, <2>3, <2>4, <2>5
<1> QED BY <1>2, <1>3, <1>4, <1>5 DEF timer_function

LEMMA StutterKeepsInv ==
    ASSUME Inv, UNCHANGED vars
    PROVE  Inv'
<1>1. /\ UNCHANGED <<PQ, inserting, hashmap, event, timeval, global_id, receiver, timer, instant, timeval_ptr, ready_q>>
      /\ UNCHANGED <<clock, heap, requested, registered, cancelled, fired, dropped>>
  BY DEF vars, shared, locals, history
<1>2. Live' = Live /\ Accepted' = Accepted /\ Finished' = Finished /\ Inserting' = Inserting
  BY <1>1 DEF Live, Accepted, Finished, Inserting
<1>3. TypeOK'
  BY <1>1 DEF Inv, TypeOK
<1>4. Places'
  BY <1>1, <1>2, PlacesKept DEF Inv, Places, PlacesDistinct, Entries
<1>5. Ids'
  BY <1>1, <1>2, IdsKept DEF Inv, Ids, IdsSpent, Tested, Early
<1>6. Requests'
  BY <1>1, <1>2, RequestsKept DEF Inv, Tested, history
<1> QED BY <1>3, <1>4, <1>5, <1>6 DEF Inv

LEMMA StepKeepsInv == Inv /\ [Next]_vars => Inv'
BY ReceiverKeepsInv, TimerKeepsInv, StutterKeepsInv DEF Next

(* The inductive invariant of dtsv4.c's two threads: a step of Break, after   *)
(* which nothing is known, leaves it as the last defined state had it.       *)
THEOREM Invariance == Spec => []Inv
BY InitInv, StepKeepsInv, PTL DEF Spec

(* The variables of dtsv4.c keep their types: no step reads the id of an     *)
(* event that is not there.                                                  *)
THEOREM TypeCorrect == Spec => []TypeOK
<1>1. Inv => TypeOK
  BY DEF Inv
<1> QED BY <1>1, Invariance, PTL

(* In one place: the queue or ready_q holds an unfinished event once, and a  *)
(* finished one not at all.                                                  *)
LEMMA UntestedFacts ==
    ASSUME TypeOK, Places
    PROVE  \A k \in DOMAIN Untested :
             \E j \in 1..Len(ready_q) : /\ Untested[k] = ready_q[j]
                                        /\ j = IF timer = "free" THEN k + 1 ELSE k
<1>1. CASE timer = "free"
  <2>1. ready_q # <<>> /\ Untested = Tail(ready_q)
    BY <1>1 DEF Places, Untested
  <2>2. /\ DOMAIN Untested = 1..Len(ready_q) - 1
        /\ \A k \in 1..Len(ready_q) - 1 : Untested[k] = ready_q[k + 1]
        /\ Len(ready_q) \in Nat
    BY <2>1, ReadyFacts, HeadTailProperties
  <2>3. \A k \in 1..Len(ready_q) - 1 : k + 1 \in 1..Len(ready_q)
    BY <2>2
  <2> QED BY <1>1, <2>2, <2>3
<1>2. CASE timer # "free"
  BY <1>2, ReadyFacts DEF Untested
<1> QED BY <1>1, <1>2

LEMMA UntestedHolds ==
    ASSUME TypeOK, Places, NEW j \in 1..Len(ready_q), ~Tested(ready_q[j])
    PROVE  \E k \in DOMAIN Untested : Untested[k] = ready_q[j]
<1>1. CASE timer = "free"
  <2>1. ready_q # <<>> /\ Untested = Tail(ready_q)
    BY <1>1 DEF Places, Untested
  <2>2. /\ DOMAIN Untested = 1..Len(ready_q) - 1
        /\ \A k \in 1..Len(ready_q) - 1 : Untested[k] = ready_q[k + 1]
        /\ Len(ready_q) \in Nat
    BY <2>1, ReadyFacts, HeadTailProperties
  <2>3. j # 1
    BY <1>1 DEF Tested
  <2>4. j - 1 \in 1..Len(ready_q) - 1 /\ (j - 1) + 1 = j
    BY <2>2, <2>3
  <2> QED BY <2>2, <2>4
<1>2. CASE timer # "free"
  BY <1>2, ReadyFacts DEF Untested
<1> QED BY <1>1, <1>2

LEMMA OnePlace ==
    ASSUME TypeOK, Places, Ids, NEW i \in Accepted, i \notin Finished
    PROVE  \/ Cardinality(Queued(i)) = 1 /\ Cardinality(Ready(i)) = 0
           \/ Cardinality(Queued(i)) = 0 /\ Cardinality(Ready(i)) = 1
<1>1. PICK e \in Live : event[e].id = i
  BY DEF Ids, UnfinishedLive
<1>2. ~Tested(e)
  BY <1>1 DEF Ids, LiveFinished
<1>3. ASSUME NEW f \in EventAddr, Named(f, i) PROVE f = e
  BY <1>1, <1>3 DEF Named, Live, Ids, IdsDistinct
<1>4. Named(e, i)
  BY <1>1 DEF Named, Live
<1>5. \A x \in Entries : x.value \in EventAddr
  BY DEF TypeOK, Entries
<1>6. \A k \in DOMAIN Untested : Untested[k] \in EventAddr
  BY UntestedFacts, ReadyFacts
<1>7. Queued(i) = {x \in Entries : x.value = e} /\ Ready(i) = {k \in DOMAIN Untested : Untested[k] = e}
  BY <1>3, <1>4, <1>5, <1>6 DEF Queued, Ready
<1>8. CASE \E x \in Entries : x.value = e
  <2>1. PICK x \in Entries : x.value = e
    BY <1>8
  <2>2. Queued(i) = {x}
    BY <1>7, <2>1 DEF Places, PlacesDistinct
  <2>3. Ready(i) = {}
    BY <1>7, <2>1, UntestedFacts DEF Places, PlacesDistinct
  <2> QED BY <2>2, <2>3, FS_Singleton, FS_EmptySet
<1>9. CASE ~\E x \in Entries : x.value = e
  <2>1. Queued(i) = {}
    BY <1>7, <1>9
  <2>2. PICK j \in 1..Len(ready_q) : ready_q[j] = e
    BY <1>9 DEF Places, LivePlaced
  <2>3. PICK k \in DOMAIN Untested : Untested[k] = e
    BY <1>2, <2>2, UntestedHolds
  <2>4. Ready(i) = {k}
    <3>1. k \in Nat /\ DOMAIN Untested \subseteq Int
      BY UntestedFacts, HeadTailProperties, ReadyFacts DEF Untested, Places
    <3>2. ASSUME NEW l \in DOMAIN Untested, Untested[l] = e PROVE l = k
      <4>1. PICK a \in 1..Len(ready_q) : ready_q[a] = e /\ a = IF timer = "free" THEN l + 1 ELSE l
        BY <3>2, UntestedFacts
      <4>2. PICK b \in 1..Len(ready_q) : ready_q[b] = e /\ b = IF timer = "free" THEN k + 1 ELSE k
        BY <2>3, UntestedFacts
      <4>3. a = b
        BY <4>1, <4>2 DEF Places, PlacesDistinct
      <4> QED BY <3>1, <4>1, <4>2, <4>3
    <3> QED BY <1>7, <2>3, <3>2
  <2> QED BY <2>1, <2>4, FS_Singleton, FS_EmptySet
<1> QED BY <1>8, <1>9

LEMMA NoPlace ==
    ASSUME TypeOK, Places, Ids, NEW i \in Finished
    PROVE  Cardinality(Queued(i)) = 0 /\ Cardinality(Ready(i)) = 0
<1>1. ASSUME NEW e \in EventAddr, Named(e, i) PROVE timer = "free" /\ e = ready_q[1]
  BY <1>1 DEF Ids, LiveFinished, Tested, Named, Live
<1>2. timer = "free" => 1 \in 1..Len(ready_q)
  BY ReadyFacts DEF Places
<1>3. Queued(i) = {}
  <2> SUFFICES ASSUME NEW x \in Entries, Named(x.value, i) PROVE FALSE
    BY DEF Queued
  <2>1. x.value \in EventAddr
    BY DEF TypeOK, Entries
  <2> QED BY <1>1, <1>2, <2>1 DEF Places, PlacesDistinct
<1>4. Ready(i) = {}
  <2> SUFFICES ASSUME NEW k \in DOMAIN Untested, Named(Untested[k], i) PROVE FALSE
    BY DEF Ready
  <2>1. PICK j \in 1..Len(ready_q) : Untested[k] = ready_q[j] /\ j = IF timer = "free" THEN k + 1 ELSE k
    BY UntestedFacts
  <2>2. timer = "free" /\ ready_q[j] = ready_q[1]
    BY <1>1, <2>1, ReadyFacts
  <2>3. j = 1 /\ k = 0
    <3>1. j = 1
      BY <1>2, <2>2 DEF Places, PlacesDistinct
    <3>2. k \in DOMAIN Tail(ready_q) /\ DOMAIN Tail(ready_q) \subseteq Int
      BY <2>2, HeadTailProperties, ReadyFacts DEF Untested, Places
    <3> QED BY <2>1, <2>2, <3>1, <3>2
  <2>4. DOMAIN Untested = 1..Len(ready_q) - 1
    BY <2>2, HeadTailProperties, ReadyFacts DEF Untested, Places
  <2> QED BY <2>3, <2>4
<1> QED BY <1>3, <1>4, FS_EmptySet

(* An accepted event of dtsv4.c is in exactly one place, the queue, ready_q  *)
(* or the finished ones, and no place refers to a freed event: although no   *)
(* call is locked, the timer frees only what it has taken out itself.        *)
THEOREM EventsOnce == Spec => []EachEventOnce
<1>1. Inv => EachEventOnce
  <2> SUFFICES ASSUME Inv PROVE EachEventOnce
    OBVIOUS
  <2>1. TypeOK /\ Places /\ Ids
    BY DEF Inv
  <2>2. ASSUME NEW i \in Accepted
        PROVE  Cardinality(Queued(i)) + Cardinality(Ready(i))
                 + (IF fired[i] # NULL THEN 1 ELSE 0) + (IF i \in dropped THEN 1 ELSE 0) = 1
    <3>1. CASE i \in Finished
      <4>1. Cardinality(Queued(i)) = 0 /\ Cardinality(Ready(i)) = 0
        BY <2>1, <3>1, NoPlace
      <4>2. (fired[i] # NULL /\ i \notin dropped) \/ (fired[i] = NULL /\ i \in dropped)
        BY <2>1, <3>1 DEF Finished, Ids, FinishedOnce
      <4> QED BY <4>1, <4>2
    <3>2. CASE i \notin Finished
      <4>1. fired[i] = NULL /\ i \notin dropped
        BY <3>2 DEF Finished, Accepted
      <4> QED BY <2>1, <3>2, <4>1, OnePlace
    <3> QED BY <3>1, <3>2
  <2>3. \A x \in Entries : event[x.value] # Freed
    BY <2>1 DEF Places, PlacesLive, Live
  <2>4. \A j \in DOMAIN ready_q : event[ready_q[j]] # Freed
    BY <2>1, ReadyFacts DEF Places, PlacesLive, Live
  <2> QED BY <2>2, <2>3, <2>4 DEF EachEventOnce
<1> QED BY <1>1, Invariance, PTL

(* The id insert_oneshot's client was answered finds its event while it is   *)
(* pending, although the id is read from an event the timer may have freed.  *)
THEOREM RegisteredFinds == Spec => []RegisteredIdFindsEvent
<1>1. Inv => RegisteredIdFindsEvent
  <2> SUFFICES ASSUME Inv, NEW i \in Accepted, i \notin Finished, registered[i] # NULL
               PROVE  /\ hashmap[registered[i]] # NULL
                      /\ Named(hashmap[registered[i]], i)
    BY DEF RegisteredIdFindsEvent
  <2>1. registered[i] = i /\ ~(Inserting /\ i = receiver.current)
    BY DEF Inv, Requests, RegisteredIsId, Accepted
  <2>2. ~(Early /\ i = global_id)
    BY <2>1 DEF Inv, Requests, ReceiverSpends, Inserting, Early
  <2>3. hashmap[i] \in Live /\ event[hashmap[i]].id = i
    BY <2>2 DEF Inv, Requests, MapFinds
  <2> QED BY <2>1, <2>3 DEF Named, Live
<1> QED BY <1>1, Invariance, PTL

(* An event whose Cancel cancel_update answered in time does not fire,       *)
(* wherever the timer thread had the event by then.                          *)
THEOREM CancelsHonoured == Spec => []CancelHonoured
<1>1. Inv => CancelHonoured
  BY DEF Inv, Requests, Flagged, CancelHonoured
<1> QED BY <1>1, Invariance, PTL
=============================================================================
