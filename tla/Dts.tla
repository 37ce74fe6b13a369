--------------------------------- MODULE Dts ---------------------------------
(* dtsv4.c of Projects/P3, the distributed time service: a receiver thread   *)
(* takes OneShot and Cancel requests, a timer thread wakes every USECS and   *)
(* fires the events that are due.  They share the priority queue, the        *)
(* hashmap and the heap.  Only the timer takes the mutex, so it orders       *)
(* nothing and is left out: PQ->insert lasts from InsertOneShot to Inserted, *)
(* and a call of the timer that falls in between may leave the queue in any  *)
(* state.  Where the code does what C gives no meaning to, Break makes the   *)
(* heap "undefined", which is the end of the behaviour: the properties speak *)
(* of executions that have come to no such step.                             *)
(* A request that is refused (Repeat, another word, a wrong number of words) *)
(* changes no state, and an event of this version never repeats, so the      *)
(* repeat queue is always empty.  query_copy (line 235) has room for a       *)
(* pointer only and is overrun by a longer request at line 265: it is taken  *)
(* to be large enough, so every request here is one that has overwritten     *)
(* nothing in use.                                                           *)
EXTENDS Naturals, Sequences, FiniteSets

CONSTANTS EventAddr, TimevalAddr,   (* heap addresses *)
          Secs, Usecs,              (* the words of OneShot requests *)
          NoNumber,                 (* a word sscanf cannot read *)
          NULL, Freed,
          MaxId, MaxTime            (* bounds: ids given out, seconds *)

Time == 0..MaxTime
Id == 1..MaxId

ASSUME DtsConstants ==
    /\ MaxId \in Nat \ {0} /\ MaxTime \in Nat \ {0}
    /\ Secs \subseteq Time \cup {NoNumber} /\ Usecs \subseteq Time \cup {NoNumber}
    /\ NULL \notin EventAddr \cup TimevalAddr \cup Id \cup Time \cup {NoNumber}
    /\ Freed \notin Time /\ Freed \notin [id : Id, cancel : 0..1]

VARIABLES PQ,                (* the queue: [key: a timeval, value: an event] *)
          inserting,         (* the entry PQ->insert is in progress for      *)
          hashmap,           (* per id the event it was put with, or NULL    *)
          event, timeval,    (* the allocations, or Freed                    *)
          global_id,
          receiver,          (* the receiver: pc, event pointer, current     *)
          timer,             (* the timer's pc                               *)
          instant, timeval_ptr, ready_q,
          clock,
          heap,              (* "sound", "unordered" or "undefined"          *)
          requested,         (* per id of a OneShot: the secs asked for      *)
          registered,        (* per such id: the id its client was answered  *)
          cancelled,         (* ids whose Cancel was answered in time        *)
          fired, dropped     (* when an id's event fired; events not fired   *)

shared == <<PQ, inserting, hashmap, event, timeval, global_id>>
locals == <<receiver, timer, instant, timeval_ptr, ready_q>>
history == <<requested, registered, cancelled, fired, dropped>>
vars == <<shared, locals, clock, heap, history>>

Listening == [pc |-> "listen", event |-> NULL, current |-> 0]
Accepted == {i \in Id : requested[i] # NULL}
Finished == {i \in Id : fired[i] # NULL} \cup dropped
-----------------------------------------------------------------------------
Init == /\ PQ = {} /\ inserting = {}
        /\ hashmap = [i \in 0..MaxId |-> NULL]
        /\ event = [e \in EventAddr |-> Freed]
        /\ timeval = [t \in TimevalAddr |-> Freed]
        /\ global_id = 1
        /\ receiver = Listening
        /\ timer = "sleep" /\ instant = 0 /\ timeval_ptr = NULL /\ ready_q = <<>>
        /\ clock = 1 /\ heap = "sound"
        /\ requested = [i \in Id |-> NULL] /\ registered = [i \in Id |-> NULL]
        /\ cancelled = {} /\ dropped = {}
        /\ fired = [i \in Id |-> NULL]

Entries == PQ \cup inserting

(* What a read through a timeval pointer gives: anything once it is freed. *)
TimevalAt(t) == IF timeval[t] = Freed THEN Time ELSE {timeval[t]}

(* Both sscanf calls write tv_sec, the second one last; a word that is no    *)
(* number leaves what is there.                                              *)
Priorities(secs, usecs) ==
    IF usecs # NoNumber THEN {usecs} ELSE IF secs # NoNumber THEN {secs} ELSE Time

(* The entries PQ->min may return: once a key in it was freed, the queue is  *)
(* in no order.                                                              *)
MinEntries == {x \in PQ : heap = "sound" =>
                            \A y \in PQ : timeval[x.key] <= timeval[y.key]}
-----------------------------------------------------------------------------
(* insert_oneshot, up to and into PQ->insert; an id is spent, so MaxId       *)
(* bounds it.                                                                *)
InsertOneShot(secs, usecs) ==
    /\ receiver.pc = "listen" /\ global_id <= MaxId
    /\ \E e \in EventAddr, t \in TimevalAddr, priority \in Priorities(secs, usecs) :
         /\ event[e] = Freed /\ timeval[t] = Freed
         /\ event' = [event EXCEPT ![e] = [id |-> global_id, cancel |-> 0]]
         /\ timeval' = [timeval EXCEPT ![t] = priority]
         /\ inserting' = {[key |-> t, value |-> e]}
         /\ receiver' = [pc |-> "insert", event |-> e, current |-> global_id]
    /\ requested' = [requested EXCEPT ![global_id] = secs]
    /\ UNCHANGED <<PQ, hashmap, global_id, timer, instant, timeval_ptr, ready_q, clock, heap,
                   registered, cancelled, fired, dropped>>

(* PQ->insert returns. *)
Inserted ==
    /\ receiver.pc = "insert"
    /\ PQ' = PQ \cup inserting /\ inserting' = {}
    /\ receiver' = [receiver EXCEPT !.pc = "put"]
    /\ UNCHANGED <<hashmap, event, timeval, global_id, timer, instant, timeval_ptr, ready_q,
                   clock, heap, history>>

(* Mutant: the id is incremented first. *)
PutUnique_after_increment ==
    /\ receiver.pc = "put"
    /\ hashmap' = [i \in 0..MaxId |-> IF i = global_id + 1 THEN receiver.event ELSE hashmap[i]]
    /\ global_id' = global_id + 1
    /\ receiver' = [receiver EXCEPT !.pc = "return"]
    /\ UNCHANGED <<PQ, inserting, event, timeval, timer, instant, timeval_ptr, ready_q, clock, heap, history>>

(* hashmap->putUnique and global_id++. *)
PutUnique ==
    /\ receiver.pc = "put"
    /\ hashmap' = [hashmap EXCEPT ![global_id] = receiver.event]
    /\ global_id' = global_id + 1
    /\ receiver' = [receiver EXCEPT !.pc = "return"]
    /\ UNCHANGED <<PQ, inserting, event, timeval, timer, instant, timeval_ptr, ready_q, clock, heap, history>>

(* Mutant: the response carries the id the counter stands at. *)
ReturnId_next ==
    /\ receiver.pc = "return"
    /\ registered' = [registered EXCEPT ![receiver.current] = global_id]
    /\ receiver' = Listening
    /\ UNCHANGED <<shared, timer, instant, timeval_ptr, ready_q, clock, heap,
                   requested, cancelled, fired, dropped>>

(* return event->id, and the response with it: the event may be gone. *)
ReturnId ==
    /\ receiver.pc = "return"
    /\ \E id \in IF event[receiver.event] = Freed THEN Id ELSE {event[receiver.event].id} :
         registered' = [registered EXCEPT ![receiver.current] = id]
    /\ receiver' = Listening
    /\ UNCHANGED <<shared, timer, instant, timeval_ptr, ready_q, clock, heap,
                   requested, cancelled, fired, dropped>>
-----------------------------------------------------------------------------
(* cancel_update: every Cancel is answered as a success and spends an id.    *)
(* cancelled notes the ids for which that answer is still a promise.         *)
Answered(current) ==
    /\ receiver' = Listening
    /\ global_id' = global_id + 1
    /\ cancelled' = cancelled \cup ({current} \cap (Accepted \ Finished))

CancelMissing(current) ==
    /\ receiver.pc = "listen" /\ global_id <= MaxId
    /\ hashmap[current] = NULL
    /\ Answered(current)
    /\ UNCHANGED <<PQ, inserting, hashmap, event, timeval, timer, instant, timeval_ptr, ready_q,
                   clock, heap, requested, registered, fired, dropped>>

CancelGet(current) ==
    /\ receiver.pc = "listen" /\ global_id <= MaxId
    /\ hashmap[current] # NULL
    /\ receiver' = [pc |-> "cancel", event |-> hashmap[current], current |-> current]
    /\ UNCHANGED <<shared, timer, instant, timeval_ptr, ready_q, clock, heap, history>>

(* event_ptr->cancel = 1.  The event may be freed: where the write then hits *)
(* nothing in use it has no effect, and Break has the other outcomes.        *)
CancelSet ==
    /\ receiver.pc = "cancel"
    /\ event' = [e \in EventAddr |-> IF e = receiver.event /\ event[e] # Freed
                                     THEN [event[e] EXCEPT !.cancel = 1] ELSE event[e]]
    /\ Answered(receiver.current)
    /\ UNCHANGED <<PQ, inserting, hashmap, timeval, timer, instant, timeval_ptr, ready_q, clock, heap,
                   requested, registered, fired, dropped>>
-----------------------------------------------------------------------------
(* timer_function.  usleep and gettimeofday. *)
Wake == /\ timer = "sleep"
        /\ timer' = "min" /\ instant' = clock
        /\ UNCHANGED <<shared, receiver, timeval_ptr, ready_q, clock, heap, history>>

(* PQ->min returned an entry that is due ... *)
MinDue == /\ timer = "min"
          /\ \E x \in MinEntries : \E tv_sec \in TimevalAt(x.key) :
               /\ tv_sec <= instant
               /\ timeval_ptr' = x.key
          /\ timer' = "removeMin"
          /\ UNCHANGED <<shared, receiver, instant, ready_q, clock, heap, history>>

(* ... or one that is not, whose key timeval_ptr keeps ... *)
MinLater == /\ timer = "min"
            /\ \E x \in MinEntries : \E tv_sec \in TimevalAt(x.key) :
                 /\ tv_sec > instant
                 /\ timeval_ptr' = x.key
            /\ timer' = "process"
            /\ UNCHANGED <<shared, receiver, instant, ready_q, clock, heap, history>>

(* ... or the queue is empty. *)
MinNone == /\ timer = "min" /\ PQ = {}
           /\ timer' = "process"
           /\ UNCHANGED <<shared, receiver, instant, timeval_ptr, ready_q, clock, heap, history>>

(* Mutant: the event PQ->min returned is queued, the entry stays. *)
RemoveMin_keeps == /\ timer = "removeMin" /\ Len(ready_q) < 2
                   /\ \E x \in MinEntries : /\ timeval_ptr' = x.key
                                            /\ ready_q' = Append(ready_q, x.value)
                   /\ timer' = "min"
                   /\ UNCHANGED <<shared, receiver, instant, clock, heap, history>>

(* Takes the entry that is the least now, which the receiver may have put    *)
(* there since PQ->min.                                                      *)
RemoveMin == /\ timer = "removeMin"
             /\ \E x \in MinEntries : /\ PQ' = PQ \ {x}
                                      /\ timeval_ptr' = x.key
                                      /\ ready_q' = Append(ready_q, x.value)
             /\ timer' = "min"
             /\ UNCHANGED <<inserting, hashmap, event, timeval, global_id, receiver, instant, clock, heap,
                            history>>

(* Mutant: an event in ready_q fires without a look at its flag. *)
Process_untested == /\ timer = "process" /\ ready_q # <<>>
                    /\ fired' = [fired EXCEPT ![event[Head(ready_q)].id] = clock]
                    /\ timer' = "free"
                    /\ UNCHANGED <<shared, receiver, instant, timeval_ptr, ready_q, clock, heap,
                                   requested, registered, cancelled, dropped>>

(* Fires the event unless it is cancelled by now. *)
Process == /\ timer = "process" /\ ready_q # <<>>
           /\ LET e == event[Head(ready_q)] IN
                IF e.cancel = 0
                THEN /\ fired' = [fired EXCEPT ![e.id] = clock]
                     /\ UNCHANGED dropped
                ELSE /\ dropped' = dropped \cup {e.id}
                     /\ UNCHANGED fired
           /\ timer' = "free"
           /\ UNCHANGED <<shared, receiver, instant, timeval_ptr, ready_q, clock, heap,
                          requested, registered, cancelled>>

(* hashmap->remove has the address of an id for a key and removes nothing;   *)
(* timeval_ptr is whatever the scan left in it.  Freeing the key of a queued *)
(* entry takes the order out of the queue; for a second free see Break.      *)
Free == /\ timer = "free" /\ timeval[timeval_ptr] # Freed
        /\ event' = [event EXCEPT ![Head(ready_q)] = Freed]
        /\ timeval' = [timeval EXCEPT ![timeval_ptr] = Freed]
        /\ ready_q' = Tail(ready_q)
        /\ timer' = "process"
        /\ heap' = IF \E x \in Entries : x.key = timeval_ptr THEN "unordered" ELSE heap
        /\ UNCHANGED <<PQ, inserting, hashmap, global_id, receiver, instant, timeval_ptr, clock,
                       history>>

Sleep == /\ timer = "process" /\ ready_q = <<>>
         /\ timer' = "sleep"
         /\ UNCHANGED <<shared, receiver, instant, timeval_ptr, ready_q, clock, heap, history>>

Tick == /\ clock < MaxTime
        /\ clock' = clock + 1
        /\ UNCHANGED <<shared, locals, heap, history>>
-----------------------------------------------------------------------------
(* What C gives no meaning to: a call of the queue within PQ->insert, the    *)
(* timer's hashmap->remove against putUnique, a write into a freed event,    *)
(* and a second free of a timeval, whose chunk the events' strings and the   *)
(* nodes of the queues and the map may share.                                *)
QueueRace == inserting # {} /\ timer \in {"min", "removeMin"}
MapRace == receiver.pc = "put" /\ timer = "free"
WriteAfterFree == receiver.pc = "cancel" /\ event[receiver.event] = Freed
DoubleFree == timer = "free" /\ timeval[timeval_ptr] = Freed

Break == /\ QueueRace \/ MapRace \/ WriteAfterFree \/ DoubleFree
         /\ heap' = "undefined"
         /\ UNCHANGED <<shared, locals, clock, history>>
-----------------------------------------------------------------------------
insert_oneshot == \/ \E secs \in Secs, usecs \in Usecs : InsertOneShot(secs, usecs)
                  \/ Inserted \/ PutUnique \/ ReturnId
cancel_update == \/ \E current \in 0..MaxId : CancelMissing(current) \/ CancelGet(current)
                 \/ CancelSet
timer_function == \/ Wake \/ MinDue \/ MinLater \/ MinNone \/ RemoveMin
                  \/ Process \/ Free \/ Sleep

Next == heap # "undefined" /\ (insert_oneshot \/ cancel_update \/ timer_function \/ Break \/ Tick)

Spec == Init /\ [][Next]_vars
-----------------------------------------------------------------------------
TypeOK ==
    /\ PQ \subseteq [key : TimevalAddr, value : EventAddr]
    /\ inserting \subseteq [key : TimevalAddr, value : EventAddr]
    /\ hashmap \in [0..MaxId -> EventAddr \cup {NULL}]
    /\ event \in [EventAddr -> [id : Id, cancel : 0..1] \cup {Freed}]
    /\ timeval \in [TimevalAddr -> Time \cup {Freed}]
    /\ global_id \in 1..MaxId + 1
    /\ receiver \in [pc : {"listen", "insert", "put", "return", "cancel"},
                     event : EventAddr \cup {NULL}, current : 0..MaxId]
    /\ timer \in {"sleep", "min", "removeMin", "process", "free"}
    /\ instant \in Time /\ clock \in Time
    /\ timeval_ptr \in TimevalAddr \cup {NULL}
    /\ ready_q \in Seq(EventAddr)
    /\ heap \in {"sound", "unordered", "undefined"}
    /\ requested \in [Id -> Time \cup {NoNumber, NULL}]
    /\ registered \in [Id -> Id \cup {NULL}]
    /\ cancelled \subseteq Id /\ dropped \subseteq Id
    /\ fired \in [Id -> Time \cup {NULL}]

(* The places event i is in: in the queue or about to be, in ready_q before  *)
(* the timer has looked at its flag, or finished.                            *)
Untested == IF timer = "free" THEN Tail(ready_q) ELSE ready_q
Named(e, i) == event[e] # Freed /\ event[e].id = i
Queued(i) == {x \in Entries : Named(x.value, i)}
Ready(i) == {j \in DOMAIN Untested : Named(Untested[j], i)}

(* Up to a step of Break, an accepted event is in exactly one place: none is *)
(* lost between the queue and the timer, none fires twice or both fires and  *)
(* is dropped, and no place refers to an event that was freed, although the  *)
(* entry removed need not be the one PQ->min found and the key of a queued   *)
(* entry may have been freed.                                                *)
EachEventOnce ==
    heap # "undefined" =>
      /\ \A i \in Accepted :
           Cardinality(Queued(i)) + Cardinality(Ready(i))
             + (IF fired[i] # NULL THEN 1 ELSE 0) + (IF i \in dropped THEN 1 ELSE 0) = 1
      /\ \A x \in Entries : event[x.value] # Freed
      /\ \A j \in DOMAIN ready_q : event[ready_q[j]] # Freed

(* Up to a step of Break, the id a client was answered finds its event for   *)
(* as long as the event is pending, although the timer runs between the      *)
(* steps of insert_oneshot and may have freed the event before its id is     *)
(* read.                                                                     *)
RegisteredIdFindsEvent ==
    heap # "undefined" =>
      \A i \in Accepted \ Finished :
        registered[i] # NULL => /\ hashmap[registered[i]] # NULL
                                /\ Named(hashmap[registered[i]], i)

(* Up to a step of Break, an event whose Cancel was answered before the      *)
(* timer looked at its flag does not fire, in whichever queue the Cancel met *)
(* it.                                                                       *)
CancelHonoured == heap # "undefined" => \A i \in cancelled : fired[i] = NULL

(* "the priority is the time elapsed since Epoch" (dtsv4.c:146): an event    *)
(* fires no earlier than the second its client asked for.                    *)
FiresOnTime ==
    \A i \in Accepted :
      (fired[i] # NULL /\ requested[i] # NoNumber) => fired[i] >= requested[i]
=============================================================================
