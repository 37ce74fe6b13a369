------------------------------- MODULE StrHeap -------------------------------
(* strheap.c of Projects/P4: str_malloc and str_free as their threads run    *)
(* them, one action per access to what the threads share: the map pointer,   *)
(* the map, the mutex, a node's reference_count.  The map comes from a       *)
(* library without source (ADTs/hashcskmap.h); each of its calls is one step *)
(* here, which is the best the callers can hope for, as it takes no lock.    *)
(*                                                                           *)
(* A StrNode and its strdup()ed string are allocated and freed together:     *)
(* Node is the address of both.                                              *)
EXTENDS Naturals, FiniteSets

CONSTANTS Thread, NoThread,
          String, NoString,
          Node, NoNode,   (* heap addresses                                   *)
          NULL,
          Pinned,         (* strings main has str_malloc()ed before it starts *)
                          (* the threads, and keeps                           *)
          MaxHeld         (* bound: references a thread holds to one node     *)

ASSUME StrHeapConstants ==
    /\ NoThread \notin Thread /\ NoString \notin String /\ NoNode \notin Node
    /\ NULL \notin [String -> Node \cup {NoNode}]
    /\ IsFiniteSet(Thread)
    /\ Pinned \subseteq String
    /\ MaxHeld \in Nat \ {0}

VARIABLES strheap,          (* NULL, or the map: per string its node or none  *)
          mutex,            (* the thread that holds it                       *)
          str,              (* what each node stores; NoString: not allocated *)
          reference_count,
          pc, key, ptr,     (* per thread: the string str_malloc is given,    *)
                            (* the pointer str_free is given,                 *)
          existing, loaded, (* the node found, and the register of ++ and --  *)
          held              (* per thread and node, the pointers str_malloc   *)
                            (* gave it and it has not given back              *)

locals == <<pc, key, ptr, existing, loaded>>
vars == <<strheap, mutex, str, reference_count, locals, held>>

EmptyMap == [s \in String |-> NoNode]
Stored(s) == strheap # NULL /\ strheap[s] # NoNode
References(n) == Cardinality({r \in Thread \X (1..MaxHeld) : r[2] <= held[r[1]][n]})

(* What a read of a node gives: anything once it is freed. *)
StringAt(n) == IF str[n] # NoString THEN {str[n]} ELSE String
CountAt(n) == IF str[n] # NoString THEN {reference_count[n]} ELSE 1..MaxHeld
-----------------------------------------------------------------------------
Init == /\ \E copy \in [Pinned -> Node] :
             /\ \A s, u \in Pinned : copy[s] = copy[u] => s = u
             /\ strheap = IF Pinned = {} THEN NULL
                          ELSE [s \in String |-> IF s \in Pinned THEN copy[s] ELSE NoNode]
             /\ str = [n \in Node |-> IF \E s \in Pinned : copy[s] = n
                                      THEN CHOOSE s \in Pinned : copy[s] = n
                                      ELSE NoString]
             /\ reference_count = [n \in Node |-> IF \E s \in Pinned : copy[s] = n THEN 1 ELSE 0]
        /\ mutex = NoThread
        /\ pc = [t \in Thread |-> "idle"]
        /\ key = [t \in Thread |-> NoString]
        /\ ptr = [t \in Thread |-> NoNode]
        /\ existing = [t \in Thread |-> NoNode]
        /\ loaded = [t \in Thread |-> 0]
        /\ held = [t \in Thread |-> [n \in Node |-> 0]]

Goto(t, from, to) == pc[t] = from /\ pc' = [pc EXCEPT ![t] = to]

(* pthread_mutex_lock, from one program point to the next. *)
Lock(t, from, to) == /\ Goto(t, from, to)
                     /\ mutex = NoThread
                     /\ mutex' = t
                     /\ UNCHANGED <<strheap, str, reference_count, key, ptr, existing, loaded, held>>

(* The load half of reference_count++ and --. *)
LoadCount(t, from, to) ==
    /\ Goto(t, from, to)
    /\ \E n \in CountAt(existing[t]) : loaded' = [loaded EXCEPT ![t] = n]
    /\ UNCHANGED <<strheap, mutex, str, reference_count, key, ptr, existing, held>>

(* Back to the caller, with the locals dead. *)
Return(t) == /\ pc' = [pc EXCEPT ![t] = "idle"]
             /\ key' = [key EXCEPT ![t] = NoString]
             /\ ptr' = [ptr EXCEPT ![t] = NoNode]
             /\ existing' = [existing EXCEPT ![t] = NoNode]
             /\ loaded' = [loaded EXCEPT ![t] = 0]
-----------------------------------------------------------------------------
(* str_malloc *)
MallocCall(t, s) == /\ Goto(t, "idle", IF strheap = NULL THEN "create" ELSE "get")
                    /\ \A n \in Node : held[t][n] < MaxHeld
                    /\ key' = [key EXCEPT ![t] = s]
                    /\ UNCHANGED <<strheap, mutex, str, reference_count, ptr, existing, loaded, held>>

(* The map this thread saw missing is created, whatever is there by now. *)
MallocCreateMap(t) == /\ Goto(t, "create", "get")
                      /\ strheap' = EmptyMap
                      /\ UNCHANGED <<mutex, str, reference_count, key, ptr, existing, loaded, held>>

MallocGet(t) == /\ Goto(t, "get", IF Stored(key[t]) THEN "lock" ELSE "put")
                /\ existing' = [existing EXCEPT ![t] = strheap[key[t]]]
                /\ UNCHANGED <<strheap, mutex, str, reference_count, key, ptr, loaded, held>>

(* strnode_helper and put, which replaces a node that is there by now. *)
MallocPut(t) == /\ pc[t] = "put"
                /\ \E n \in Node :
                     /\ str[n] = NoString
                     /\ str' = [str EXCEPT ![n] = key[t]]
                     /\ reference_count' = [reference_count EXCEPT ![n] = 1]
                     /\ strheap' = [strheap EXCEPT ![key[t]] = n]
                     /\ held' = [held EXCEPT ![t][n] = @ + 1]
                /\ Return(t)
                /\ UNCHANGED mutex

(* Mutant: reference_count++ without the mutex. *)
MallocNoLock(t) == /\ Goto(t, "lock", "load")
                   /\ UNCHANGED <<strheap, mutex, str, reference_count, key, ptr, existing, loaded, held>>
MallocLock(t) == Lock(t, "lock", "load")

MallocLoad(t) == LoadCount(t, "load", "store")

MallocStore(t) ==
    /\ pc[t] = "store"
    /\ reference_count' = [reference_count EXCEPT ![existing[t]] = loaded[t] + 1]
    /\ mutex' = NoThread
    /\ held' = [held EXCEPT ![t][existing[t]] = @ + 1]
    /\ Return(t)
    /\ UNCHANGED <<strheap, str>>
-----------------------------------------------------------------------------
(* str_free, of a pointer str_malloc gave the thread *)
FreeCall(t) == /\ Goto(t, "idle", "freeLock")
               /\ \E n \in Node : held[t][n] > 0 /\ ptr' = [ptr EXCEPT ![t] = n]
               /\ UNCHANGED <<strheap, mutex, str, reference_count, key, existing, loaded, held>>

(* str_free, of a string of its own that is not on the heap *)
FreeOther(t, s) == /\ Goto(t, "idle", "freeLock")
                   /\ ~Stored(s)
                   /\ key' = [key EXCEPT ![t] = s]
                   /\ UNCHANGED <<strheap, mutex, str, reference_count, ptr, existing, loaded, held>>

FreeLock(t) == Lock(t, "freeLock", "freeGet")

(* What str_free's argument reads as, and the caller's loss of it. *)
Text(t) == IF ptr[t] = NoNode THEN {key[t]} ELSE StringAt(ptr[t])
GiveBack(t) == held' = IF ptr[t] = NoNode THEN held ELSE [held EXCEPT ![t][ptr[t]] = @ - 1]

FreeGet(t) == /\ Goto(t, "freeGet", "freeLoad")
              /\ \E s \in Text(t) :
                   Stored(s) /\ existing' = [existing EXCEPT ![t] = strheap[s]]
              /\ UNCHANGED <<strheap, mutex, str, reference_count, key, ptr, loaded, held>>

FreeNotFound(t) == /\ pc[t] = "freeGet"
                   /\ \E s \in Text(t) : ~Stored(s)
                   /\ mutex' = NoThread
                   /\ GiveBack(t)
                   /\ Return(t)
                   /\ UNCHANGED <<strheap, str, reference_count>>

FreeLoad(t) == LoadCount(t, "freeLoad", "freeStore")

(* Mutant: reference_count-- is left out. *)
FreeNoDecrement(t) == /\ pc[t] = "freeStore"
                      /\ mutex' = NoThread
                      /\ GiveBack(t)
                      /\ Return(t)
                      /\ UNCHANGED <<strheap, str, reference_count>>
(* Mutant: the purge comes one reference early. *)
FreeEarly(t) == /\ pc[t] = "freeStore"
                /\ reference_count' = [reference_count EXCEPT ![existing[t]] = loaded[t] - 1]
                /\ GiveBack(t)
                /\ IF loaded[t] <= 2
                   THEN /\ pc' = [pc EXCEPT ![t] = "purge"]
                        /\ UNCHANGED <<mutex, key, ptr, existing, loaded>>
                   ELSE mutex' = NoThread /\ Return(t)
                /\ UNCHANGED <<strheap, str>>
(* The decrement; if nothing is left, the mutex is kept for the purge. *)
FreeStore(t) ==
    /\ pc[t] = "freeStore"
    /\ reference_count' = [reference_count EXCEPT ![existing[t]] = loaded[t] - 1]
    /\ GiveBack(t)
    /\ IF loaded[t] = 1
       THEN /\ pc' = [pc EXCEPT ![t] = "purge"]
            /\ UNCHANGED <<mutex, key, ptr, existing, loaded>>
       ELSE mutex' = NoThread /\ Return(t)
    /\ UNCHANGED <<strheap, str>>

(* Mutant: the map forgets the node, which is not freed. *)
FreeLeaks(t) == /\ pc[t] = "purge"
                /\ \E s \in Text(t) : strheap' = [strheap EXCEPT ![s] = NoNode]
                /\ mutex' = NoThread
                /\ Return(t)
                /\ UNCHANGED <<str, reference_count, held>>
FreePurge(t) ==
    /\ pc[t] = "purge"
    /\ \E s \in Text(t) :
         strheap' = IF strheap = NULL THEN NULL ELSE [strheap EXCEPT ![s] = NoNode]
    /\ str' = [str EXCEPT ![existing[t]] = NoString]
    /\ reference_count' = [reference_count EXCEPT ![existing[t]] = 0]
    /\ mutex' = NoThread
    /\ Return(t)
    /\ UNCHANGED held
-----------------------------------------------------------------------------
str_malloc(t) == \/ \E s \in String : MallocCall(t, s)
                 \/ MallocCreateMap(t) \/ MallocGet(t) \/ MallocPut(t)
                 \/ MallocLock(t) \/ MallocLoad(t) \/ MallocStore(t)

str_free(t) == \/ FreeCall(t) \/ \E s \in String : FreeOther(t, s)
               \/ FreeLock(t) \/ FreeGet(t) \/ FreeNotFound(t) \/ FreeLoad(t) \/ FreeStore(t)
               \/ FreePurge(t)

Next == \E t \in Thread : str_malloc(t) \/ str_free(t)

Spec == Init /\ [][Next]_vars
-----------------------------------------------------------------------------
MaxCount == Cardinality(Thread) * MaxHeld + 1

TypeOK ==
    /\ strheap \in {NULL} \cup [String -> Node \cup {NoNode}]
    /\ mutex \in Thread \cup {NoThread}
    /\ str \in [Node -> String \cup {NoString}]
    /\ reference_count \in [Node -> 0..MaxCount]
    /\ pc \in [Thread -> {"idle", "create", "get", "put", "lock", "load", "store", "freeLock",
                          "freeGet", "freeLoad", "freeStore", "purge"}]
    /\ key \in [Thread -> String \cup {NoString}]
    /\ ptr \in [Thread -> Node \cup {NoNode}]
    /\ existing \in [Thread -> Node \cup {NoNode}]
    /\ loaded \in [Thread -> 0..MaxCount]
    /\ held \in [Thread -> [Node -> 0..MaxHeld]]

(* Every pointer str_malloc gave out and that was not given back still points *)
(* at the one node the map has for its string: the caller can read it, and    *)
(* str_free will find it.                                                     *)
PointersLive == \A t \in Thread, n \in Node :
                   held[t][n] > 0 => str[n] # NoString /\ Stored(str[n]) /\ strheap[str[n]] = n

(* strheap.h: "a unique string will only be stored once on the heap".         *)
StoredOnce == \A s \in String : Cardinality({n \in Node : str[n] = s}) <= 1

(* strheap.h: "a reference count is kept of the number of times that string   *)
(* has been str_malloc()ed", less the times it was str_free()d: no ++ or --   *)
(* of another thread is lost, in the middle of calls too.                     *)
CountsExact == \A s \in String :
    Stored(s) => reference_count[strheap[s]]
                   = References(strheap[s]) + (IF s \in Pinned THEN 1 ELSE 0)

(* strheap.h: at count 0 "the string is purged": a node is on the heap only   *)
(* as long as the map knows it and somebody has a reference, or its purge is  *)
(* under way.                                                                 *)
NothingLeaks == \A n \in Node :
    str[n] # NoString =>
       /\ Stored(str[n]) /\ strheap[str[n]] = n
       /\ \/ reference_count[n] > 0
          \/ \E t \in Thread : pc[t] = "purge" /\ existing[t] = n
-----------------------------------------------------------------------------
(* A string whose last reference is gone counts as purged at once: the thread *)
(* that is to purge it has the mutex.                                         *)
count == [s \in String |-> IF Stored(s) THEN reference_count[strheap[s]] ELSE 0]
where == [s \in String |->
            IF Stored(s) /\ reference_count[strheap[s]] > 0 THEN strheap[s] ELSE NoNode]

Heap == INSTANCE StringHeap

(* strheap.c implements the contract of strheap.h, but for the result of      *)
(* str_free, which is always false.                                           *)
ImplementsHeap == Heap!Spec
=============================================================================
