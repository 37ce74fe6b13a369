---------------------------- MODULE StrHeapProofs ----------------------------
(* strheap.c keeps the contract of strheap.h for any number of strings,      *)
(* addresses and threads, if its threads are alone or find every string      *)
(* stored already (Sheltered): the two uses in which its unlocked lookups    *)
(* cannot go wrong.                                                          *)
EXTENDS StrHeap, FiniteSetTheorems, TLAPS

USE StrHeapConstants

Sheltered == Pinned = String \/ \A t, u \in Thread : t = u
-----------------------------------------------------------------------------
(* What the counts count: one element per reference held.                    *)
Shares(h, n) == {r \in Thread \X (1..MaxHeld) : r[2] <= h[r[1]][n]}

LEMMA SharesFinite ==
    ASSUME NEW h, NEW n
    PROVE  /\ IsFiniteSet(Shares(h, n))
           /\ Cardinality(Shares(h, n)) \in Nat
           /\ Cardinality(Shares(h, n)) <= Cardinality(Thread) * MaxHeld
           /\ Cardinality(Thread) \in Nat
<1>1. IsFiniteSet(1..MaxHeld) /\ Cardinality(1..MaxHeld) = MaxHeld
  BY FS_Interval
<1>2. /\ IsFiniteSet(Thread \X (1..MaxHeld))
      /\ Cardinality(Thread \X (1..MaxHeld)) = Cardinality(Thread) * MaxHeld
  BY <1>1, FS_Product
<1>3. Shares(h, n) \in SUBSET (Thread \X (1..MaxHeld))
  BY DEF Shares
<1>4. /\ IsFiniteSet(Shares(h, n))
      /\ Cardinality(Shares(h, n)) <= Cardinality(Thread \X (1..MaxHeld))
  BY <1>2, <1>3, FS_Subset
<1>5. Cardinality(Shares(h, n)) \in Nat /\ Cardinality(Thread) \in Nat
  BY <1>4, FS_CardinalityType
<1> QED BY <1>2, <1>4, <1>5

HeldType(h) == h \in [Thread -> [Node -> 0..MaxHeld]]

(* g is h but for what t holds of n.                                         *)
Changed(h, g, t, n) == \A u \in Thread, m \in Node : u # t \/ m # n => g[u][m] = h[u][m]

LEMMA ShareTaken ==
    ASSUME NEW h, HeldType(h), NEW t \in Thread, NEW n \in Node,
           NEW g, HeldType(g), Changed(h, g, t, n),
           h[t][n] < MaxHeld, g[t][n] = h[t][n] + 1
    PROVE  /\ Cardinality(Shares(g, n)) = Cardinality(Shares(h, n)) + 1
           /\ \A m \in Node \ {n} : Shares(g, m) = Shares(h, m)
<1> DEFINE x == <<t, h[t][n] + 1>>
<1>1. Shares(g, n) = Shares(h, n) \cup {x} /\ x \notin Shares(h, n)
  BY DEF Shares, Changed, HeldType
<1>2. Cardinality(Shares(g, n)) = Cardinality(Shares(h, n)) + 1
  <2> HIDE DEF x
  <2> QED BY <1>1, SharesFinite, FS_AddElement
<1>3. \A m \in Node \ {n} : Shares(g, m) = Shares(h, m)
  BY DEF Shares, Changed, HeldType
<1> QED BY <1>2, <1>3

LEMMA ShareReturned ==
    ASSUME NEW h, HeldType(h), NEW t \in Thread, NEW n \in Node,
           NEW g, HeldType(g), Changed(h, g, t, n),
           h[t][n] > 0, g[t][n] = h[t][n] - 1
    PROVE  /\ Cardinality(Shares(g, n)) = Cardinality(Shares(h, n)) - 1
           /\ \A m \in Node \ {n} : Shares(g, m) = Shares(h, m)
           /\ Cardinality(Shares(h, n)) > 0
<1> DEFINE x == <<t, h[t][n]>>
<1>1. Shares(g, n) = Shares(h, n) \ {x} /\ x \in Shares(h, n)
  <2>1. x \in Shares(h, n)
    BY DEF Shares, Changed, HeldType
  <2>2. ASSUME NEW u \in Thread, NEW k \in 1..MaxHeld
        PROVE  k <= g[u][n] <=> k <= h[u][n] /\ <<u, k>> # x
    BY h[u][n] \in 0..MaxHeld DEF Changed, HeldType
  <2>3. \A r \in Thread \X (1..MaxHeld) : r[2] <= g[r[1]][n] <=> r[2] <= h[r[1]][n] /\ r # x
    <3> HIDE DEF x
    <3> QED BY <2>2
  <2>4. Shares(g, n) = Shares(h, n) \ {x}
    <3> HIDE DEF x
    <3> QED BY <2>3 DEF Shares
  <2> QED BY <2>1, <2>4
<1>2. /\ Cardinality(Shares(g, n)) = Cardinality(Shares(h, n)) - 1
      /\ Cardinality(Shares(h, n)) # 0
  <2> HIDE DEF x
  <2>1. IsFiniteSet(Shares(h, n))
    BY SharesFinite
  <2>2. Cardinality(Shares(h, n) \ {x}) = Cardinality(Shares(h, n)) - 1
    BY <1>1, <2>1, FS_RemoveElement
  <2>3. Cardinality(Shares(h, n)) # 0
    BY <1>1, <2>1, FS_EmptySet
  <2> QED BY <1>1, <2>2, <2>3
<1>3. \A m \in Node \ {n} : Shares(g, m) = Shares(h, m)
  BY DEF Shares, Changed, HeldType
<1>4. Cardinality(Shares(h, n)) > 0
  BY <1>2, SharesFinite
<1> QED BY <1>2, <1>3, <1>4

LEMMA SharesNone ==
    ASSUME NEW h, NEW n, \A t \in Thread : h[t][n] = 0
    PROVE  Cardinality(Shares(h, n)) = 0
<1>1. Shares(h, n) = {}
  BY DEF Shares
<1> QED BY <1>1, FS_EmptySet

LEMMA ReferencesAreShares ==
    /\ \A n : References(n) = Cardinality(Shares(held, n))
    /\ \A n : References(n)' = Cardinality(Shares(held', n))
BY DEF References, Shares

Takes(t, n) == held' = [held EXCEPT ![t][n] = @ + 1]
Returns(t, n) == held' = [held EXCEPT ![t][n] = @ - 1]

LEMMA ReferenceTaken ==
    ASSUME HeldType(held), NEW t \in Thread, NEW n \in Node,
           held[t][n] < MaxHeld, Takes(t, n)
    PROVE  /\ References(n)' = References(n) + 1
           /\ \A m \in Node \ {n} : References(m)' = References(m)
           /\ HeldType(held')
<1> DEFINE g == [held EXCEPT ![t][n] = @ + 1]
<1>1. /\ Cardinality(Shares(g, n)) = Cardinality(Shares(held, n)) + 1
      /\ \A m \in Node \ {n} : Shares(g, m) = Shares(held, m)
      /\ HeldType(g)
  <2>1. HeldType(g) /\ Changed(held, g, t, n) /\ g[t][n] = held[t][n] + 1
    BY DEF Changed, HeldType
  <2> HIDE DEF g
  <2> QED BY <2>1, ShareTaken
<1>2. held' = g
  BY DEF Takes
<1> HIDE DEF g
<1> QED BY <1>1, <1>2, ReferencesAreShares

LEMMA ReferenceReturned ==
    ASSUME HeldType(held), NEW t \in Thread, NEW n \in Node,
           held[t][n] > 0, Returns(t, n)
    PROVE  /\ References(n)' = References(n) - 1
           /\ \A m \in Node \ {n} : References(m)' = References(m)
           /\ HeldType(held')
<1> DEFINE g == [held EXCEPT ![t][n] = @ - 1]
<1>1. /\ Cardinality(Shares(g, n)) = Cardinality(Shares(held, n)) - 1
      /\ \A m \in Node \ {n} : Shares(g, m) = Shares(held, m)
      /\ HeldType(g)
  <2>1. HeldType(g) /\ Changed(held, g, t, n) /\ g[t][n] = held[t][n] - 1
    BY DEF Changed, HeldType
  <2> HIDE DEF g
  <2> QED BY <2>1, ShareReturned
<1>2. held' = g
  BY DEF Returns
<1> HIDE DEF g
<1> QED BY <1>1, <1>2, ReferencesAreShares
-----------------------------------------------------------------------------
(* The inductive invariant.                                                  *)

(* Map and nodes name each other; what is pinned is on the heap.             *)
MapOK == /\ \A n \in Node : str[n] # NoString => Stored(str[n]) /\ strheap[str[n]] = n
         /\ \A s \in String : Stored(s) => str[strheap[s]] = s
         /\ \A s \in Pinned : Stored(s)

HoldsMutex == {"load", "store", "freeGet", "freeLoad", "freeStore", "purge"}
InMalloc == {"create", "get", "put", "lock", "load", "store"}
InFree == {"freeLock", "freeGet", "freeLoad", "freeStore"}

LockOwner == \A t \in Thread : mutex = t <=> pc[t] \in HoldsMutex

(* What a thread inside str_malloc knows of the string it is given ...       *)
MallocLocals(t) ==
    pc[t] \in InMalloc =>
       /\ key[t] \in String
       /\ \A n \in Node : held[t][n] < MaxHeld
       /\ pc[t] = "create" => strheap = NULL
       /\ pc[t] \in {"get", "put"} => strheap # NULL
       /\ pc[t] = "put" => ~Stored(key[t])
       /\ pc[t] \in {"lock", "load", "store"} => /\ Stored(key[t])
                                                 /\ existing[t] = strheap[key[t]]
       /\ pc[t] = "store" => loaded[t] = reference_count[existing[t]]

(* ... and one inside str_free of the pointer it gives back.                 *)
FreeLocals(t) ==
    /\ pc[t] \notin InFree \cup {"purge"} => ptr[t] = NoNode
    /\ pc[t] \in InFree =>
          /\ ptr[t] \in Node => held[t][ptr[t]] > 0
          /\ ptr[t] = NoNode => key[t] \in String /\ ~Stored(key[t])
          /\ pc[t] \in {"freeLoad", "freeStore"} => ptr[t] \in Node /\ existing[t] = ptr[t]
          /\ pc[t] = "freeStore" => loaded[t] = reference_count[existing[t]]
    /\ pc[t] = "purge" => /\ ptr[t] \in Node /\ existing[t] = ptr[t]
                          /\ str[ptr[t]] # NoString
                          /\ reference_count[ptr[t]] = 0

LocalsOK == \A t \in Thread : MallocLocals(t) /\ FreeLocals(t)

Inv == TypeOK /\ MapOK /\ PointersLive /\ CountsExact /\ NothingLeaks /\ LockOwner /\ LocalsOK
-----------------------------------------------------------------------------
LEMMA MaxCountIsNat == MaxCount \in Nat \ {0}
BY SharesFinite DEF MaxCount

LEMMA InitInv == Init => Inv
<1> SUFFICES ASSUME Init PROVE Inv
  OBVIOUS
<1> PICK copy \in [Pinned -> Node] :
            /\ \A s, u \in Pinned : copy[s] = copy[u] => s = u
            /\ strheap = IF Pinned = {} THEN NULL
                         ELSE [s \in String |-> IF s \in Pinned THEN copy[s] ELSE NoNode]
            /\ str = [n \in Node |-> IF \E s \in Pinned : copy[s] = n
                                     THEN CHOOSE s \in Pinned : copy[s] = n
                                     ELSE NoString]
            /\ reference_count = [n \in Node |-> IF \E s \in Pinned : copy[s] = n THEN 1 ELSE 0]
  BY DEF Init
<1>1. /\ mutex = NoThread
      /\ pc = [t \in Thread |-> "idle"]
      /\ key = [t \in Thread |-> NoString]
      /\ ptr = [t \in Thread |-> NoNode]
      /\ existing = [t \in Thread |-> NoNode]
      /\ loaded = [t \in Thread |-> 0]
      /\ held = [t \in Thread |-> [n \in Node |-> 0]]
  BY DEF Init
<1>2. \A s \in Pinned : str[copy[s]] = s
  OBVIOUS
<1>3. \A n \in Node : str[n] # NoString => str[n] \in Pinned /\ copy[str[n]] = n
  OBVIOUS
<1>4. /\ \A s \in Pinned : Stored(s) /\ strheap[s] = copy[s]
      /\ \A s \in String : Stored(s) => s \in Pinned
  BY DEF Stored
<1>5. \A n \in Node : References(n) = 0
  <2> TAKE n \in Node
  <2>1. \A t \in Thread : held[t][n] = 0
    BY <1>1
  <2> QED BY <2>1, SharesNone, ReferencesAreShares
<1>6. TypeOK
  <2>1. strheap \in {NULL} \cup [String -> Node \cup {NoNode}]
    OBVIOUS
  <2>2. str \in [Node -> String \cup {NoString}]
    BY <1>3
  <2>3. MaxCount \in Nat \ {0}
    BY MaxCountIsNat
  <2>4. reference_count \in [Node -> 0..MaxCount] /\ loaded \in [Thread -> 0..MaxCount]
    BY <2>3, <1>1
  <2>5. held \in [Thread -> [Node -> 0..MaxHeld]]
    BY <1>1
  <2> QED BY <1>1, <2>1, <2>2, <2>4, <2>5 DEF TypeOK
<1>7. MapOK
  BY <1>2, <1>3, <1>4 DEF MapOK
<1>8. PointersLive /\ LockOwner /\ LocalsOK
  BY <1>1 DEF PointersLive, LockOwner, LocalsOK, MallocLocals, FreeLocals, HoldsMutex, InMalloc,
              InFree
<1>9. CountsExact
  <2>1. \A s \in Pinned : reference_count[copy[s]] = 1
    OBVIOUS
  <2> QED BY <1>4, <1>5, <2>1 DEF CountsExact
<1>10. NothingLeaks
  <2>1. \A n \in Node : str[n] # NoString => reference_count[n] = 1
    BY <1>3
  <2> QED BY <1>7, <2>1 DEF NothingLeaks, MapOK
<1> QED BY <1>6, <1>7, <1>8, <1>9, <1>10 DEF Inv
-----------------------------------------------------------------------------
(* What the invariant says about a node and about another thread.            *)

LEMMA NodeCount ==
    ASSUME Inv, NEW n \in Node, str[n] # NoString
    PROVE  /\ reference_count[n] = References(n) + (IF str[n] \in Pinned THEN 1 ELSE 0)
           /\ str[n] \in String /\ Stored(str[n]) /\ strheap[str[n]] = n
           /\ References(n) \in Nat
<1>1. str[n] \in String /\ Stored(str[n]) /\ strheap[str[n]] = n
  BY DEF Inv, TypeOK, MapOK
<1>2. References(n) \in Nat
  BY SharesFinite, ReferencesAreShares
<1> QED BY <1>1, <1>2 DEF Inv, CountsExact

LEMMA HeldCounts ==
    ASSUME Inv, NEW t \in Thread, NEW n \in Node, held[t][n] > 0
    PROVE  reference_count[n] > 0 /\ str[n] # NoString
<1>1. str[n] # NoString
  BY DEF Inv, PointersLive
<1>2. References(n) > 0
  <2> DEFINE g == [held EXCEPT ![t][n] = @ - 1]
  <2>1. HeldType(held) /\ HeldType(g) /\ Changed(held, g, t, n) /\ g[t][n] = held[t][n] - 1
    BY DEF Changed, HeldType, Inv, TypeOK
  <2> HIDE DEF g
  <2>2. Cardinality(Shares(held, n)) > 0
    BY <2>1, ShareReturned
  <2> QED BY <2>2, ReferencesAreShares
<1> QED BY <1>1, <1>2, NodeCount

(* With a second thread about, every string is pinned, so that none is put   *)
(* and none is purged.                                                       *)
LEMMA NothingComesOrGoes ==
    ASSUME Inv, Sheltered, NEW t \in Thread, NEW u \in Thread, t # u
    PROVE  Pinned = String /\ pc[t] \notin {"create", "put", "purge"}
<1>1. Pinned = String
  BY DEF Sheltered
<1>2. pc[t] # "create" /\ pc[t] # "put"
  BY <1>1 DEF Inv, MapOK, LocalsOK, MallocLocals, InMalloc, Stored
<1>3. ASSUME pc[t] = "purge" PROVE FALSE
  <2>1. ptr[t] \in Node /\ str[ptr[t]] # NoString /\ reference_count[ptr[t]] = 0
    BY <1>3 DEF Inv, LocalsOK, FreeLocals
  <2> QED BY <1>1, <2>1, NodeCount
<1> QED BY <1>1, <1>2, <1>3

(* Every node there is has a reference, but for the one t purges.            *)
LEMMA Referenced ==
    ASSUME Inv, Sheltered, NEW t \in Thread, NEW n \in Node, str[n] # NoString
    PROVE  reference_count[n] > 0 \/ (pc[t] = "purge" /\ ptr[t] = n)
<1>1. \/ reference_count[n] > 0
      \/ \E u \in Thread : pc[u] = "purge" /\ existing[u] = n
  BY DEF Inv, NothingLeaks
<1>2. ASSUME NEW u \in Thread, pc[u] = "purge", existing[u] = n
      PROVE  pc[t] = "purge" /\ ptr[t] = n
  <2>1. u = t
    BY <1>2, NothingComesOrGoes
  <2> QED BY <1>2, <2>1 DEF Inv, LocalsOK, FreeLocals
<1> QED BY <1>1, <1>2
-----------------------------------------------------------------------------
(* Steps that only move one thread on.                                       *)

OthersKept(t) == \A u \in Thread \ {t} : /\ pc'[u] = pc[u] /\ key'[u] = key[u]
                                         /\ ptr'[u] = ptr[u] /\ existing'[u] = existing[u]
                                         /\ loaded'[u] = loaded[u]

LocalsTyped == /\ pc \in [Thread -> {"idle"} \cup InMalloc \cup InFree \cup {"purge"}]
               /\ key \in [Thread -> String \cup {NoString}]
               /\ ptr \in [Thread -> Node \cup {NoNode}]
               /\ existing \in [Thread -> Node \cup {NoNode}]
               /\ loaded \in [Thread -> 0..MaxCount]
               /\ mutex \in Thread \cup {NoThread}

LEMMA QuietStep ==
    ASSUME Inv, NEW t \in Thread, OthersKept(t),
           UNCHANGED <<strheap, str, reference_count, held>>,
           pc[t] # "purge",
           LocalsTyped', LockOwner', MallocLocals(t)', FreeLocals(t)'
    PROVE  Inv'
<1>1. TypeOK'
  BY DEF Inv, TypeOK, LocalsTyped, InMalloc, InFree
<1>2. \A s : Stored(s)' = Stored(s)
  BY DEF Stored
<1>3. \A n : References(n)' = References(n)
  BY DEF References
<1>4. MapOK' /\ PointersLive'
  BY <1>2 DEF Inv, MapOK, PointersLive
<1>5. CountsExact'
  BY <1>2, <1>3 DEF Inv, CountsExact
<1>6. NothingLeaks'
  <2> SUFFICES ASSUME NEW n \in Node, str[n] # NoString, ~(reference_count[n] > 0)
               PROVE  \E u \in Thread : pc'[u] = "purge" /\ existing'[u] = n
    BY <1>2 DEF Inv, NothingLeaks
  <2> PICK u \in Thread : pc[u] = "purge" /\ existing[u] = n
    BY DEF Inv, NothingLeaks
  <2> QED BY DEF OthersKept
<1>7. LocalsOK'
  <2> SUFFICES ASSUME NEW u \in Thread, u # t PROVE MallocLocals(u)' /\ FreeLocals(u)'
    BY DEF LocalsOK
  <2>1. MallocLocals(u) /\ FreeLocals(u)
    BY DEF Inv, LocalsOK
  <2>2. MallocLocals(u)'
    BY <1>2, <2>1 DEF MallocLocals, OthersKept
  <2>3. FreeLocals(u)'
    BY <1>2, <2>1 DEF FreeLocals, OthersKept
  <2> QED BY <2>2, <2>3
<1> QED BY <1>1, <1>4, <1>5, <1>6, <1>7 DEF Inv

(* The mutex may change hands.                                               *)
LEMMA LockTaken ==
    ASSUME Inv, NEW t \in Thread, NEW from, NEW to \in HoldsMutex, Lock(t, from, to)
    PROVE  LockOwner'
<1>1. /\ pc \in [Thread -> {"idle"} \cup InMalloc \cup InFree \cup {"purge"}]
      /\ \A u \in Thread : mutex = u <=> pc[u] \in HoldsMutex
  BY DEF Inv, TypeOK, InMalloc, InFree, LockOwner
<1>2. \A u \in Thread : u # t => pc'[u] = pc[u]
  BY <1>1 DEF Lock, Goto
<1>3. pc'[t] = to /\ mutex = NoThread /\ mutex' = t
  BY <1>1 DEF Lock, Goto
<1> QED BY <1>1, <1>2, <1>3 DEF LockOwner

LEMMA NoPointer ==
    ASSUME Inv, NEW t \in Thread, pc[t] \in {"idle"} \cup InMalloc
    PROVE  ptr[t] = NoNode
BY DEF Inv, LocalsOK, FreeLocals, InMalloc, InFree

LEMMA MallocCallKeepsInv ==
    ASSUME Inv, NEW t \in Thread, NEW s \in String, MallocCall(t, s)
    PROVE  Inv'
<1> USE DEF MallocCall, Goto
<1>1. OthersKept(t) /\ LocalsTyped'
  BY DEF OthersKept, LocalsTyped, Inv, TypeOK, InMalloc, InFree
<1>2. LockOwner'
  BY DEF Inv, TypeOK, LockOwner, HoldsMutex
<1>3. pc'[t] \in {"create", "get"} /\ key'[t] = s
      /\ (pc'[t] = "create" => strheap = NULL) /\ (pc'[t] = "get" => strheap # NULL)
  BY DEF Inv, TypeOK
<1>4. MallocLocals(t)' /\ FreeLocals(t)'
  BY <1>3, NoPointer DEF MallocLocals, FreeLocals, InMalloc, InFree
<1> QED BY <1>1, <1>2, <1>4, QuietStep

LEMMA MallocGetKeepsInv ==
    ASSUME Inv, NEW t \in Thread, MallocGet(t)
    PROVE  Inv'
<1> USE DEF MallocGet, Goto
<1>1. /\ key[t] \in String /\ strheap # NULL /\ strheap \in [String -> Node \cup {NoNode}]
      /\ \A n \in Node : held[t][n] < MaxHeld
  BY DEF Inv, TypeOK, LocalsOK, MallocLocals, InMalloc
<1>2. OthersKept(t) /\ LocalsTyped'
  BY <1>1 DEF OthersKept, LocalsTyped, Inv, TypeOK, InMalloc, InFree
<1>3. LockOwner'
  BY DEF Inv, TypeOK, LockOwner, HoldsMutex
<1>4. pc'[t] = (IF Stored(key[t]) THEN "lock" ELSE "put") /\ existing'[t] = strheap[key[t]]
  BY DEF Inv, TypeOK
<1>5. MallocLocals(t)' /\ FreeLocals(t)'
  BY <1>1, <1>4, NoPointer DEF MallocLocals, FreeLocals, InMalloc, InFree, Stored
<1> QED BY <1>2, <1>3, <1>5, QuietStep

LEMMA MallocLockKeepsInv ==
    ASSUME Inv, NEW t \in Thread, MallocLock(t)
    PROVE  Inv'
<1>1. LockOwner'
  BY LockTaken DEF MallocLock, HoldsMutex
<1> USE DEF MallocLock, Lock, Goto
<1>2. OthersKept(t) /\ LocalsTyped'
  BY DEF OthersKept, LocalsTyped, Inv, TypeOK, InMalloc, InFree
<1>3. pc[t] = "lock" /\ pc'[t] = "load"
  BY DEF Inv, TypeOK
<1>4. MallocLocals(t)' /\ FreeLocals(t)'
  BY <1>3 DEF Inv, LocalsOK, MallocLocals, FreeLocals, InMalloc, InFree, Stored
<1> QED BY <1>1, <1>2, <1>3, <1>4, QuietStep

(* The register of ++ and -- gets the count of a node that is there.         *)
LEMMA CountLoaded ==
    ASSUME Inv, NEW t \in Thread, NEW from, NEW to, LoadCount(t, from, to),
           existing[t] \in Node, str[existing[t]] # NoString,
           from \in HoldsMutex, to \in HoldsMutex
    PROVE  /\ OthersKept(t) /\ LocalsTyped' /\ LockOwner'
           /\ pc[t] = from /\ pc'[t] = to /\ loaded'[t] = reference_count[existing[t]]
<1> USE DEF LoadCount, Goto
<1>1. CountAt(existing[t]) = {reference_count[existing[t]]}
  BY DEF CountAt
<1>2. /\ loaded' = [loaded EXCEPT ![t] = reference_count[existing[t]]]
      /\ reference_count[existing[t]] \in 0..MaxCount
  BY <1>1 DEF Inv, TypeOK
<1>3. LockOwner'
  BY DEF Inv, TypeOK, LockOwner
<1>4. to \in {"idle"} \cup InMalloc \cup InFree \cup {"purge"}
  BY DEF HoldsMutex, InMalloc, InFree
<1>5. OthersKept(t) /\ LocalsTyped'
  BY <1>2, <1>4 DEF OthersKept, LocalsTyped, Inv, TypeOK, InMalloc, InFree
<1> QED BY <1>2, <1>3, <1>5 DEF Inv, TypeOK

LEMMA MallocLoadKeepsInv ==
    ASSUME Inv, NEW t \in Thread, MallocLoad(t)
    PROVE  Inv'
<1>1. pc[t] = "load"
  BY DEF MallocLoad, LoadCount, Goto
<1>2. /\ existing[t] \in Node /\ str[existing[t]] # NoString
      /\ existing[t] = strheap[key[t]] /\ Stored(key[t]) /\ key[t] \in String
      /\ \A n \in Node : held[t][n] < MaxHeld
  BY <1>1 DEF Inv, TypeOK, MapOK, LocalsOK, MallocLocals, InMalloc, Stored
<1>3. /\ OthersKept(t) /\ LocalsTyped' /\ LockOwner'
      /\ pc'[t] = "store" /\ loaded'[t] = reference_count[existing[t]]
  BY <1>2, CountLoaded DEF MallocLoad, HoldsMutex
<1>4. UNCHANGED <<strheap, str, reference_count, held, key, existing, ptr>>
  BY DEF MallocLoad, LoadCount
<1>5. MallocLocals(t)' /\ FreeLocals(t)'
  BY <1>2, <1>1, <1>3, <1>4, NoPointer DEF MallocLocals, FreeLocals, InMalloc, InFree, Stored
<1> QED BY <1>1, <1>3, <1>4, <1>5, QuietStep

LEMMA FreeCallKeepsInv ==
    ASSUME Inv, NEW t \in Thread, FreeCall(t)
    PROVE  Inv'
<1> USE DEF FreeCall, Goto
<1>1. PICK n \in Node : held[t][n] > 0 /\ ptr' = [ptr EXCEPT ![t] = n]
  OBVIOUS
<1>2. OthersKept(t) /\ LocalsTyped'
  BY <1>1 DEF OthersKept, LocalsTyped, Inv, TypeOK, InMalloc, InFree
<1>3. LockOwner'
  BY DEF Inv, TypeOK, LockOwner, HoldsMutex
<1>4. pc'[t] = "freeLock" /\ ptr'[t] = n /\ held' = held
  BY <1>1 DEF Inv, TypeOK
<1>5. MallocLocals(t)' /\ FreeLocals(t)'
  BY <1>1, <1>4 DEF MallocLocals, FreeLocals, InMalloc, InFree
<1> QED BY <1>2, <1>3, <1>5, QuietStep

LEMMA FreeOtherKeepsInv ==
    ASSUME Inv, NEW t \in Thread, NEW s \in String, FreeOther(t, s)
    PROVE  Inv'
<1> USE DEF FreeOther, Goto
<1>1. OthersKept(t) /\ LocalsTyped'
  BY DEF OthersKept, LocalsTyped, Inv, TypeOK, InMalloc, InFree
<1>2. LockOwner'
  BY DEF Inv, TypeOK, LockOwner, HoldsMutex
<1>3. pc'[t] = "freeLock" /\ key'[t] = s /\ ~Stored(s)' /\ ptr' = ptr /\ held' = held
  BY DEF Inv, TypeOK, Stored
<1>4. ptr[t] = NoNode
  BY DEF Inv, LocalsOK, FreeLocals, InFree
<1>5. MallocLocals(t)' /\ FreeLocals(t)'
  BY <1>3, <1>4 DEF MallocLocals, FreeLocals, InMalloc
<1> QED BY <1>1, <1>2, <1>5, QuietStep

LEMMA FreeLockKeepsInv ==
    ASSUME Inv, NEW t \in Thread, FreeLock(t)
    PROVE  Inv'
<1>1. LockOwner'
  BY LockTaken DEF FreeLock, HoldsMutex
<1> USE DEF FreeLock, Lock, Goto
<1>2. OthersKept(t) /\ LocalsTyped'
  BY DEF OthersKept, LocalsTyped, Inv, TypeOK, InMalloc, InFree
<1>3. pc[t] = "freeLock" /\ pc'[t] = "freeGet"
  BY DEF Inv, TypeOK
<1>4. MallocLocals(t)' /\ FreeLocals(t)'
  BY <1>3 DEF Inv, LocalsOK, MallocLocals, FreeLocals, InMalloc, InFree, Stored
<1> QED BY <1>1, <1>2, <1>3, <1>4, QuietStep

(* What str_free reads is the string of a node its caller holds, or one that *)
(* is not on the heap.                                                       *)
LEMMA TextRead ==
    ASSUME Inv, NEW t \in Thread, pc[t] \in {"freeGet", "purge"}
    PROVE  /\ ptr[t] \in Node => /\ str[ptr[t]] \in String /\ Text(t) = {str[ptr[t]]}
                                 /\ Stored(str[ptr[t]]) /\ strheap[str[ptr[t]]] = ptr[t]
           /\ ptr[t] \notin Node => /\ Text(t) = {key[t]} /\ ~Stored(key[t]) /\ ptr[t] = NoNode
                                    /\ key[t] \in String /\ pc[t] = "freeGet"
<1>1. ASSUME ptr[t] \in Node PROVE str[ptr[t]] # NoString
  BY <1>1 DEF Inv, PointersLive, LocalsOK, FreeLocals, InFree
<1>2. ASSUME ptr[t] \in Node
      PROVE  /\ str[ptr[t]] \in String /\ Text(t) = {str[ptr[t]]}
             /\ Stored(str[ptr[t]]) /\ strheap[str[ptr[t]]] = ptr[t]
  BY <1>1, <1>2 DEF Inv, TypeOK, MapOK, Text, StringAt
<1>3. ptr[t] \in Node \cup {NoNode}
  BY DEF Inv, TypeOK
<1> QED BY <1>2, <1>3 DEF Inv, LocalsOK, FreeLocals, Text, InFree

LEMMA FreeGetKeepsInv ==
    ASSUME Inv, NEW t \in Thread, FreeGet(t)
    PROVE  Inv'
<1>1. pc[t] = "freeGet"
  BY DEF FreeGet, Goto
<1>2. /\ ptr[t] \in Node /\ str[ptr[t]] # NoString
      /\ existing' = [existing EXCEPT ![t] = ptr[t]]
  <2> PICK s \in Text(t) : Stored(s) /\ existing' = [existing EXCEPT ![t] = strheap[s]]
    BY DEF FreeGet
  <2>1. ptr[t] \in Node /\ s = str[ptr[t]] /\ strheap[s] = ptr[t]
    BY <1>1, TextRead
  <2>2. held[t][ptr[t]] > 0
    BY <1>1, <2>1 DEF Inv, LocalsOK, FreeLocals, InFree
  <2> QED BY <2>1, <2>2 DEF Inv, PointersLive
<1> USE DEF FreeGet, Goto
<1>3. OthersKept(t) /\ LocalsTyped'
  BY <1>2 DEF OthersKept, LocalsTyped, Inv, TypeOK, InMalloc, InFree
<1>4. LockOwner'
  BY DEF Inv, TypeOK, LockOwner, HoldsMutex
<1>5. pc'[t] = "freeLoad" /\ existing'[t] = ptr[t] /\ held[t][ptr[t]] > 0
  BY <1>1, <1>2 DEF Inv, TypeOK, LocalsOK, FreeLocals, InFree
<1>6. MallocLocals(t)' /\ FreeLocals(t)'
  BY <1>2, <1>5 DEF MallocLocals, FreeLocals, InMalloc, InFree
<1> QED BY <1>1, <1>3, <1>4, <1>6, QuietStep

LEMMA FreeNotFoundKeepsInv ==
    ASSUME Inv, NEW t \in Thread, FreeNotFound(t)
    PROVE  Inv'
<1>1. pc[t] = "freeGet"
  BY DEF FreeNotFound
<1>2. ptr[t] = NoNode
  BY <1>1, TextRead DEF FreeNotFound
<1> USE DEF FreeNotFound, GiveBack, Return
<1>3. OthersKept(t) /\ LocalsTyped'
  BY MaxCountIsNat DEF OthersKept, LocalsTyped, Inv, TypeOK, InMalloc, InFree
<1>4. LockOwner'
  BY DEF Inv, TypeOK, LockOwner, HoldsMutex
<1>5. pc'[t] = "idle" /\ ptr'[t] = NoNode
  BY DEF Inv, TypeOK
<1>6. MallocLocals(t)' /\ FreeLocals(t)'
  BY <1>5 DEF MallocLocals, FreeLocals, InMalloc, InFree
<1> QED BY <1>1, <1>2, <1>3, <1>4, <1>6, QuietStep

LEMMA FreeLoadKeepsInv ==
    ASSUME Inv, NEW t \in Thread, FreeLoad(t)
    PROVE  Inv'
<1>1. pc[t] = "freeLoad"
  BY DEF FreeLoad, LoadCount, Goto
<1>2. /\ existing[t] \in Node /\ str[existing[t]] # NoString
      /\ ptr[t] = existing[t] /\ held[t][ptr[t]] > 0
  BY <1>1 DEF Inv, PointersLive, LocalsOK, FreeLocals, InFree
<1>3. /\ OthersKept(t) /\ LocalsTyped' /\ LockOwner'
      /\ pc'[t] = "freeStore" /\ loaded'[t] = reference_count[existing[t]]
  BY <1>2, CountLoaded DEF FreeLoad, HoldsMutex
<1>4. UNCHANGED <<strheap, str, reference_count, held, key, existing, ptr>>
  BY DEF FreeLoad, LoadCount
<1>5. MallocLocals(t)' /\ FreeLocals(t)'
  BY <1>2, <1>3, <1>4 DEF MallocLocals, FreeLocals, InMalloc, InFree
<1> QED BY <1>1, <1>3, <1>4, <1>5, QuietStep
-----------------------------------------------------------------------------
(* Steps that change the map, a node or what a thread holds.                 *)

LEMMA CountBounded ==
    ASSUME NEW h, NEW n, NEW p \in 0..1
    PROVE  Cardinality(Shares(h, n)) + p \in 0..MaxCount
BY SharesFinite DEF MaxCount

(* A thread that returns knows nothing any more and gives the mutex back.    *)
LEMMA Returned ==
    ASSUME Inv, NEW t \in Thread, Return(t), mutex' = NoThread \/ (mutex' = mutex /\ mutex # t),
           \A u \in Thread \ {t} : mutex # u \/ mutex' = mutex
    PROVE  /\ OthersKept(t) /\ LocalsTyped' /\ LockOwner'
           /\ MallocLocals(t)' /\ FreeLocals(t)'
           /\ pc'[t] = "idle"
<1> USE DEF Return
<1>1. OthersKept(t) /\ LocalsTyped'
  BY MaxCountIsNat DEF OthersKept, LocalsTyped, Inv, TypeOK, InMalloc, InFree
<1>2. pc'[t] = "idle" /\ ptr'[t] = NoNode
  BY DEF Inv, TypeOK
<1>3. LockOwner'
  BY <1>1, <1>2 DEF Inv, TypeOK, LockOwner, HoldsMutex, OthersKept
<1>4. MallocLocals(t)' /\ FreeLocals(t)'
  BY <1>2 DEF MallocLocals, FreeLocals, InMalloc, InFree
<1> QED BY <1>1, <1>2, <1>3, <1>4

(* Nobody else is there when t creates the map, puts a node or purges one.   *)
LEMMA AloneLocals ==
    ASSUME Inv, Sheltered, NEW t \in Thread, pc[t] \in {"create", "put", "purge"},
           MallocLocals(t)', FreeLocals(t)'
    PROVE  LocalsOK' /\ \A u \in Thread : u = t
BY NothingComesOrGoes DEF LocalsOK

LEMMA MallocCreateMapKeepsInv ==
    ASSUME Inv, Sheltered, NEW t \in Thread, MallocCreateMap(t)
    PROVE  Inv'
<1> USE DEF MallocCreateMap, Goto
<1>1. pc[t] = "create" /\ pc'[t] = "get" /\ strheap = NULL
  BY DEF Inv, TypeOK, LocalsOK, MallocLocals, InMalloc
<1>2. strheap' \in [String -> Node \cup {NoNode}] /\ strheap' # NULL
  BY DEF EmptyMap
<1>3. \A s \in String : ~Stored(s) /\ ~Stored(s)'
  BY <1>1 DEF Stored, EmptyMap
<1>4. \A n \in Node : str[n] = NoString
  BY <1>3 DEF Inv, TypeOK, MapOK
<1>5. TypeOK'
  BY <1>2 DEF Inv, TypeOK
<1>6. MapOK' /\ PointersLive' /\ CountsExact' /\ NothingLeaks'
  BY <1>3, <1>4 DEF Inv, MapOK, PointersLive, CountsExact, NothingLeaks
<1>7. LockOwner'
  BY DEF Inv, TypeOK, LockOwner, HoldsMutex
<1>8. MallocLocals(t)' /\ FreeLocals(t)'
  BY <1>1, <1>2, NoPointer DEF Inv, LocalsOK, MallocLocals, FreeLocals, InMalloc, InFree
<1>9. LocalsOK'
  BY <1>1, <1>8, AloneLocals
<1> QED BY <1>5, <1>6, <1>7, <1>9 DEF Inv

LEMMA MallocPutKeepsInv ==
    ASSUME Inv, Sheltered, NEW t \in Thread, MallocPut(t)
    PROVE  Inv'
<1>1. /\ pc[t] = "put" /\ Return(t) /\ mutex' = mutex
      /\ key[t] \in String /\ ~Stored(key[t]) /\ strheap # NULL
      /\ held[t] \in [Node -> 0..MaxHeld] /\ \A n \in Node : held[t][n] < MaxHeld
      /\ strheap \in [String -> Node \cup {NoNode}]
  BY DEF MallocPut, Inv, TypeOK, LocalsOK, MallocLocals, InMalloc
<1>2. PICK n \in Node :
            /\ str[n] = NoString
            /\ str' = [str EXCEPT ![n] = key[t]]
            /\ reference_count' = [reference_count EXCEPT ![n] = 1]
            /\ strheap' = [strheap EXCEPT ![key[t]] = n]
            /\ held' = [held EXCEPT ![t][n] = @ + 1]
  BY DEF MallocPut
<1>3. /\ \A u \in Thread : u = t
      /\ mutex # t
      /\ key[t] \notin Pinned
  BY <1>1, NothingComesOrGoes DEF Inv, LockOwner, HoldsMutex, MapOK
<1>4. /\ OthersKept(t) /\ LocalsTyped' /\ LockOwner'
      /\ MallocLocals(t)' /\ FreeLocals(t)' /\ pc'[t] = "idle"
  BY <1>1, <1>3, Returned
<1>5. LocalsOK'
  BY <1>1, <1>4, AloneLocals
<1>6. /\ HeldType(held)
      /\ \A u \in Thread : held[u][n] = 0
  BY <1>2 DEF Inv, TypeOK, PointersLive, HeldType
<1>7. /\ References(n)' = 1 /\ \A m \in Node \ {n} : References(m)' = References(m)
      /\ HeldType(held')
  <2>1. Cardinality(Shares(held, n)) = 0
    BY <1>6, SharesNone
  <2>2. Takes(t, n) /\ held[t][n] < MaxHeld
    BY <1>1, <1>2 DEF Takes
  <2>3. References(n) = 0
    BY <2>1, ReferencesAreShares
  <2>4. /\ References(n)' = References(n) + 1
        /\ \A m \in Node \ {n} : References(m)' = References(m)
        /\ HeldType(held')
    BY <2>2, <1>6, ReferenceTaken
  <2> QED BY <2>3, <2>4
<1>8. TypeOK'
  <2>1. held' \in [Thread -> [Node -> 0..MaxHeld]]
    BY <1>7 DEF HeldType
  <2>2. /\ strheap' \in [String -> Node \cup {NoNode}]
        /\ str' \in [Node -> String \cup {NoString}]
    BY <1>1, <1>2 DEF Inv, TypeOK
  <2>3. reference_count' \in [Node -> 0..MaxCount]
    BY <1>2, MaxCountIsNat DEF Inv, TypeOK
  <2> QED BY <1>4, <2>1, <2>2, <2>3 DEF TypeOK, LocalsTyped, InMalloc, InFree
<1>9. /\ strheap' # NULL
      /\ \A s \in String : Stored(s)' <=> Stored(s) \/ s = key[t]
      /\ \A s \in String \ {key[t]} : strheap'[s] = strheap[s]
      /\ strheap'[key[t]] = n
  BY <1>1, <1>2 DEF Stored
<1>10. /\ str'[n] = key[t]
       /\ \A m \in Node \ {n} : str'[m] = str[m] /\ reference_count'[m] = reference_count[m]
       /\ reference_count'[n] = 1
  BY <1>2 DEF Inv, TypeOK
<1>11. MapOK'
  <2>1. ASSUME NEW m \in Node, str'[m] # NoString
        PROVE  Stored(str[m])' /\ strheap'[str'[m]] = m
    <3>1. CASE m = n
      BY <3>1, <1>9, <1>10 DEF Stored
    <3>2. CASE m # n
      <4>1. str'[m] = str[m] /\ str[m] \in String /\ Stored(str[m]) /\ strheap[str[m]] = m
        BY <2>1, <3>2, <1>10 DEF Inv, TypeOK, MapOK
      <4>2. str[m] # key[t]
        BY <1>1, <4>1
      <4> QED BY <4>1, <4>2, <1>9 DEF Stored
    <3> QED BY <3>1, <3>2
  <2>2. \A s \in String : Stored(s)' => str'[strheap'[s]] = s
    <3> SUFFICES ASSUME NEW s \in String, Stored(s), s # key[t] PROVE str'[strheap'[s]] = s
      BY <1>9, <1>10
    <3>1. strheap[s] \in Node /\ str[strheap[s]] = s
      BY DEF Inv, TypeOK, MapOK, Stored
    <3>2. strheap[s] # n
      BY <1>2, <3>1
    <3> QED BY <1>9, <1>10, <3>1, <3>2
  <2> QED BY <1>9, <2>1, <2>2 DEF Inv, MapOK
<1>12. PointersLive'
  <2> SUFFICES ASSUME NEW u \in Thread, NEW m \in Node, held'[u][m] > 0
               PROVE  str'[m] # NoString /\ Stored(str[m])' /\ strheap'[str'[m]] = m
    BY DEF PointersLive
  <2>1. str'[m] # NoString
    <3>1. CASE m = n
      BY <3>1, <1>1, <1>10
    <3>2. CASE m # n
      <4>1. held[u][m] > 0
        BY <3>2, <1>2, <1>6
      <4> QED BY <4>1, <3>2, <1>10 DEF Inv, PointersLive
    <3> QED BY <3>1, <3>2
  <2> QED BY <2>1, <1>11 DEF MapOK
<1>13. CountsExact'
  <2> SUFFICES ASSUME NEW s \in String, Stored(s)'
               PROVE  reference_count'[strheap'[s]]
                        = References(strheap[s])' + (IF s \in Pinned THEN 1 ELSE 0)
    BY DEF CountsExact
  <2>1. CASE s = key[t]
    BY <2>1, <1>3, <1>7, <1>9, <1>10
  <2>2. CASE s # key[t]
    <3>1. Stored(s) /\ strheap'[s] = strheap[s] /\ strheap[s] \in Node \ {n}
      BY <2>2, <1>2, <1>9 DEF Inv, TypeOK, MapOK, Stored
    <3> QED BY <3>1, <1>7, <1>10 DEF Inv, CountsExact
  <2> QED BY <2>1, <2>2
<1>14. NothingLeaks'
  <2>1. \A m \in Node : str[m] # NoString => reference_count[m] > 0
    BY <1>1, Referenced
  <2> QED BY <1>10, <1>11, <2>1 DEF NothingLeaks, MapOK
<1> QED BY <1>4, <1>5, <1>8, <1>11, <1>12, <1>13, <1>14 DEF Inv

CountBecomes(n, k) == reference_count' = [reference_count EXCEPT ![n] = k]

(* ++ and --: the mutex keeps other threads away from every count, so that   *)
(* the stored value is that of the references after the step.                *)
LEMMA CountStored ==
    ASSUME Inv, NEW t \in Thread, pc[t] \in {"store", "freeStore"},
           NEW e \in Node, NEW k, str[e] # NoString,
           UNCHANGED <<strheap, str>>,
           CountBecomes(e, k),
           k = References(e)' + (IF str[e] \in Pinned THEN 1 ELSE 0),
           k > 0 \/ (pc'[t] = "purge" /\ existing'[t] = e),
           HeldType(held'),
           \A m \in Node \ {e} : References(m)' = References(m),
           \A u \in Thread, m \in Node : u # t \/ m # e => held'[u][m] = held[u][m],
           OthersKept(t), LocalsTyped', LockOwner', MallocLocals(t)', FreeLocals(t)'
    PROVE  Inv'
<1>1. \A s : Stored(s)' = Stored(s)
  BY DEF Stored
<1>2. \A m \in Node \ {e} : reference_count'[m] = reference_count[m]
  BY DEF Inv, TypeOK, CountBecomes
<1>3. reference_count'[e] = k
  BY DEF Inv, TypeOK, CountBecomes
<1>4. TypeOK'
  <2>1. Cardinality(Shares(held', e)) + (IF str[e] \in Pinned THEN 1 ELSE 0) \in 0..MaxCount
    BY CountBounded
  <2>2. k \in 0..MaxCount
    BY <2>1, ReferencesAreShares
  <2>3. reference_count' \in [Node -> 0..MaxCount]
    BY <2>2 DEF Inv, TypeOK, CountBecomes
  <2> QED BY <2>3 DEF Inv, TypeOK, LocalsTyped, InMalloc, InFree, HeldType
<1>5. MapOK'
  BY <1>1 DEF Inv, MapOK
<1>6. PointersLive'
  <2> SUFFICES ASSUME NEW u \in Thread, NEW m \in Node, held'[u][m] > 0, m # e
               PROVE  str[m] # NoString
    BY <1>1 DEF PointersLive, Inv, MapOK
  <2> QED BY DEF Inv, PointersLive
<1>7. CountsExact'
  <2> SUFFICES ASSUME NEW s \in String, Stored(s)
               PROVE  reference_count'[strheap[s]]
                        = References(strheap[s])' + (IF s \in Pinned THEN 1 ELSE 0)
    BY <1>1 DEF CountsExact
  <2>1. CASE strheap[s] = e
    BY <2>1, <1>3 DEF Inv, MapOK
  <2>2. CASE strheap[s] # e
    <3>1. strheap[s] \in Node \ {e}
      BY <2>2 DEF Inv, TypeOK, Stored
    <3> QED BY <3>1, <1>2 DEF Inv, CountsExact
  <2> QED BY <2>1, <2>2
<1>8. NothingLeaks'
  <2> SUFFICES ASSUME NEW m \in Node, str[m] # NoString
               PROVE  \/ reference_count'[m] > 0
                      \/ \E u \in Thread : pc'[u] = "purge" /\ existing'[u] = m
    BY <1>1 DEF NothingLeaks, Inv
  <2>1. CASE m = e
    BY <2>1, <1>3
  <2>2. CASE m # e
    <3>1. \/ reference_count[m] > 0
          \/ \E u \in Thread : pc[u] = "purge" /\ existing[u] = m
      BY DEF Inv, NothingLeaks
    <3> QED BY <2>2, <3>1, <1>2 DEF OthersKept
  <2> QED BY <2>1, <2>2
<1>9. LocalsOK'
  <2> SUFFICES ASSUME NEW u \in Thread, u # t PROVE MallocLocals(u)' /\ FreeLocals(u)'
    BY DEF LocalsOK
  <2>1. MallocLocals(u) /\ FreeLocals(u)
    BY DEF Inv, LocalsOK
  <2>2. pc[u] \notin HoldsMutex
    BY DEF Inv, LockOwner, HoldsMutex
  <2>3. MallocLocals(u)'
    BY <1>1, <2>1, <2>2 DEF MallocLocals, OthersKept, HoldsMutex
  <2>4. FreeLocals(u)'
    BY <1>1, <2>1, <2>2 DEF FreeLocals, OthersKept, HoldsMutex, InFree
  <2> QED BY <2>3, <2>4
<1> QED BY <1>4, <1>5, <1>6, <1>7, <1>8, <1>9 DEF Inv

LEMMA MallocStoreKeepsInv ==
    ASSUME Inv, NEW t \in Thread, MallocStore(t)
    PROVE  Inv'
<1>0. /\ pc[t] = "store" /\ existing[t] \in Node /\ str[existing[t]] # NoString
  BY DEF MallocStore, Inv, TypeOK, MapOK, LocalsOK, MallocLocals, InMalloc, Stored
<1> PICK e \in Node : e = existing[t]
  BY <1>0
<1>1. /\ pc[t] = "store" /\ Return(t) /\ mutex' = NoThread /\ mutex = t
      /\ UNCHANGED <<strheap, str>>
      /\ CountBecomes(e, loaded[t] + 1) /\ Takes(t, e)
  BY DEF CountBecomes, Takes, MallocStore, Inv, LockOwner, HoldsMutex
<1>2. /\ e \in Node /\ held[t][e] < MaxHeld /\ str[e] # NoString
      /\ loaded[t] = reference_count[e]
  BY <1>0 DEF Inv, LocalsOK, MallocLocals, InMalloc
<1>3. HeldType(held)
  BY DEF Inv, TypeOK, HeldType
<1>4. /\ References(e)' = References(e) + 1
      /\ \A m \in Node \ {e} : References(m)' = References(m)
      /\ HeldType(held')
  BY <1>1, <1>2, <1>3, ReferenceTaken
<1>5. \A u \in Thread, m \in Node : u # t \/ m # e => held'[u][m] = held[u][m]
  BY <1>1, <1>2, <1>3 DEF HeldType, Takes
<1>6. /\ OthersKept(t) /\ LocalsTyped' /\ LockOwner' /\ MallocLocals(t)' /\ FreeLocals(t)'
      /\ pc'[t] = "idle"
  BY <1>1, Returned DEF Inv, TypeOK
<1>7. /\ loaded[t] + 1 = References(e)' + (IF str[e] \in Pinned THEN 1 ELSE 0)
      /\ loaded[t] + 1 > 0
  BY <1>2, <1>4, NodeCount
<1> QED BY <1>1, <1>2, <1>4, <1>5, <1>6, <1>7, CountStored

LEMMA FreeStoreKeepsInv ==
    ASSUME Inv, NEW t \in Thread, FreeStore(t)
    PROVE  Inv'
<1>0. pc[t] = "freeStore" /\ ptr[t] \in Node
  BY DEF FreeStore, Inv, LocalsOK, FreeLocals, InFree
<1> PICK e \in Node : e = ptr[t]
  BY <1>0
<1>1. /\ pc[t] = "freeStore" /\ mutex = t
      /\ UNCHANGED <<strheap, str>>
      /\ CountBecomes(existing[t], loaded[t] - 1)
  BY DEF CountBecomes, FreeStore, Inv, LockOwner, HoldsMutex
<1>2. /\ e \in Node /\ existing[t] = e /\ held[t][e] > 0 /\ str[e] # NoString
      /\ loaded[t] = reference_count[e]
  BY <1>1 DEF Inv, LocalsOK, FreeLocals, InFree, PointersLive
<1>3. Returns(t, e) /\ CountBecomes(e, loaded[t] - 1)
  BY <1>1, <1>2 DEF FreeStore, GiveBack, Returns
<1>4. HeldType(held)
  BY DEF Inv, TypeOK, HeldType
<1>5. /\ References(e)' = References(e) - 1
      /\ \A m \in Node \ {e} : References(m)' = References(m)
      /\ HeldType(held')
  BY <1>2, <1>3, <1>4, ReferenceReturned
<1>6. \A u \in Thread, m \in Node : u # t \/ m # e => held'[u][m] = held[u][m]
  BY <1>2, <1>3, <1>4 DEF HeldType, Returns
<1>7. /\ loaded[t] - 1 = References(e)' + (IF str[e] \in Pinned THEN 1 ELSE 0)
      /\ loaded[t] - 1 >= 0 /\ loaded[t] \in Nat
  BY <1>2, <1>5, NodeCount, HeldCounts
<1>8. CASE loaded[t] = 1
  <2>1. /\ pc' = [pc EXCEPT ![t] = "purge"]
        /\ UNCHANGED <<mutex, key, ptr, existing, loaded>>
    BY <1>8 DEF FreeStore
  <2>2. OthersKept(t) /\ LocalsTyped'
    BY <2>1 DEF OthersKept, LocalsTyped, Inv, TypeOK, InMalloc, InFree
  <2>3. pc'[t] = "purge" /\ existing'[t] = e
    BY <2>1, <1>2 DEF Inv, TypeOK
  <2>4. LockOwner'
    BY <1>1, <2>1 DEF Inv, TypeOK, LockOwner, HoldsMutex
  <2>5. reference_count'[e] = 0
    BY <1>3, <1>2, <1>8 DEF Inv, TypeOK, CountBecomes
  <2>6. MallocLocals(t)' /\ FreeLocals(t)'
    BY <1>1, <1>2, <2>1, <2>3, <2>5 DEF MallocLocals, FreeLocals, InMalloc, InFree
  <2> QED BY <1>1, <1>2, <1>3, <1>5, <1>6, <1>7, <2>2, <2>3, <2>4, <2>6, CountStored
<1>9. CASE loaded[t] # 1
  <2>1. mutex' = NoThread /\ Return(t)
    BY <1>9 DEF FreeStore
  <2>2. /\ OthersKept(t) /\ LocalsTyped' /\ LockOwner' /\ MallocLocals(t)' /\ FreeLocals(t)'
    BY <1>1, <2>1, Returned DEF Inv, TypeOK
  <2>3. loaded[t] - 1 > 0
    BY <1>7, <1>9
  <2> QED BY <1>1, <1>2, <1>3, <1>5, <1>6, <1>7, <2>2, <2>3, CountStored
<1> QED BY <1>8, <1>9

LEMMA FreePurgeKeepsInv ==
    ASSUME Inv, Sheltered, NEW t \in Thread, FreePurge(t)
    PROVE  Inv'
<1> DEFINE e == ptr[t]
           s == str[ptr[t]]
<1>1. /\ pc[t] = "purge" /\ mutex = t /\ mutex' = NoThread /\ Return(t) /\ held' = held
      /\ str' = [str EXCEPT ![existing[t]] = NoString]
      /\ reference_count' = [reference_count EXCEPT ![existing[t]] = 0]
  BY DEF FreePurge, Inv, LockOwner, HoldsMutex
<1>2. /\ e \in Node /\ existing[t] = e /\ s # NoString /\ reference_count[e] = 0
  BY <1>1 DEF Inv, LocalsOK, FreeLocals
<1>3. s \in String /\ Text(t) = {s} /\ Stored(s) /\ strheap[s] = e
  BY <1>1, <1>2, TextRead
<1>4. strheap' = [strheap EXCEPT ![s] = NoNode] /\ strheap # NULL
  BY <1>3 DEF FreePurge, Stored
<1> HIDE DEF e, s
<1>5. /\ OthersKept(t) /\ LocalsTyped' /\ LockOwner' /\ MallocLocals(t)' /\ FreeLocals(t)'
      /\ pc'[t] = "idle"
  BY <1>1, Returned DEF Inv, TypeOK
<1>6. LocalsOK' /\ \A u \in Thread : u = t
  BY <1>1, <1>5, AloneLocals
<1>7. \A u \in Thread : held[u][e] = 0
  <2>1. \A u \in Thread : ~(held[u][e] > 0)
    BY <1>2, HeldCounts
  <2> QED BY <2>1, <1>2 DEF Inv, TypeOK
<1>8. /\ strheap' \in [String -> Node \cup {NoNode}] /\ strheap' # NULL
      /\ \A u \in String : Stored(u)' <=> Stored(u) /\ u # s
      /\ \A u \in String \ {s} : strheap'[u] = strheap[u]
  <2>1. strheap \in [String -> Node \cup {NoNode}]
    BY <1>4 DEF Inv, TypeOK
  <2>2. /\ strheap' \in [String -> Node \cup {NoNode}]
        /\ \A u \in String \ {s} : strheap'[u] = strheap[u]
        /\ strheap'[s] = NoNode
    BY <1>3, <1>4, <2>1
  <2>3. strheap' # NULL
    BY <2>2
  <2> QED BY <1>4, <2>2, <2>3 DEF Stored
<1>9. /\ str' \in [Node -> String \cup {NoString}] /\ str'[e] = NoString
      /\ \A m \in Node \ {e} : str'[m] = str[m] /\ reference_count'[m] = reference_count[m]
      /\ reference_count' \in [Node -> 0..MaxCount]
  BY <1>1, <1>2, MaxCountIsNat DEF Inv, TypeOK
<1>10. \A m \in Node \ {e} : str[m] # s
  BY <1>2, <1>3 DEF Inv, MapOK
<1>11. TypeOK'
  BY <1>1, <1>5, <1>8, <1>9 DEF Inv, TypeOK, LocalsTyped, InMalloc, InFree
<1>12. s \notin Pinned
  BY <1>2, <1>3, NodeCount DEF s, e
<1>13. MapOK'
  <2>1. ASSUME NEW m \in Node, str'[m] # NoString
        PROVE  Stored(str[m])' /\ strheap'[str'[m]] = m
    <3>1. m # e /\ str'[m] = str[m] /\ str[m] # s /\ str[m] \in String
      BY <2>1, <1>9, <1>10 DEF Inv, TypeOK
    <3>2. Stored(str[m]) /\ strheap[str[m]] = m
      BY <2>1, <3>1 DEF Inv, MapOK
    <3> QED BY <3>1, <3>2, <1>8 DEF Stored
  <2>2. ASSUME NEW u \in String, Stored(u)' PROVE str'[strheap'[u]] = u
    <3>1. Stored(u) /\ u # s /\ strheap'[u] = strheap[u]
      BY <2>2, <1>8
    <3>2. strheap[u] \in Node /\ str[strheap[u]] = u
      BY <3>1 DEF Inv, TypeOK, MapOK, Stored
    <3>3. strheap[u] # e
      BY <3>1, <3>2 DEF s, e
    <3> QED BY <3>1, <3>2, <3>3, <1>9
  <2> QED BY <2>1, <2>2, <1>8, <1>12 DEF Inv, MapOK
<1>14. PointersLive'
  <2> SUFFICES ASSUME NEW u \in Thread, NEW m \in Node, held[u][m] > 0
               PROVE  str'[m] # NoString
    BY <1>1, <1>13 DEF PointersLive, MapOK
  <2>1. m # e
    BY <1>7
  <2> QED BY <2>1, <1>9 DEF Inv, PointersLive
<1>15. CountsExact'
  <2> SUFFICES ASSUME NEW u \in String, Stored(u)'
               PROVE  reference_count'[strheap'[u]]
                        = References(strheap[u])' + (IF u \in Pinned THEN 1 ELSE 0)
    BY DEF CountsExact
  <2>1. Stored(u) /\ u # s /\ strheap'[u] = strheap[u]
    BY <1>8
  <2>2. strheap[u] \in Node \ {e}
    BY <2>1 DEF Inv, TypeOK, MapOK, Stored, s, e
  <2>3. References(strheap[u])' = References(strheap[u])
    BY <1>1, <2>1 DEF References
  <2> QED BY <2>1, <2>2, <2>3, <1>9 DEF Inv, CountsExact
<1>16. NothingLeaks'
  <2>1. \A m \in Node \ {e} : str[m] # NoString => reference_count[m] > 0
    BY Referenced DEF e
  <2>2. \A m \in Node \ {e} : str'[m] # NoString => reference_count'[m] > 0
    BY <2>1, <1>9
  <2> QED BY <2>2, <1>9, <1>13 DEF NothingLeaks, MapOK
<1> QED BY <1>5, <1>6, <1>11, <1>13, <1>14, <1>15, <1>16 DEF Inv
-----------------------------------------------------------------------------
LEMMA StepKeepsInv == Inv /\ Sheltered /\ [Next]_vars => Inv'
<1> SUFFICES ASSUME Inv, Sheltered, [Next]_vars PROVE Inv'
  OBVIOUS
<1>1. ASSUME NEW t \in Thread, str_malloc(t) PROVE Inv'
  BY <1>1, MallocCallKeepsInv, MallocCreateMapKeepsInv, MallocGetKeepsInv, MallocPutKeepsInv,
     MallocLockKeepsInv, MallocLoadKeepsInv, MallocStoreKeepsInv DEF str_malloc
<1>2. ASSUME NEW t \in Thread, str_free(t) PROVE Inv'
  BY <1>2, FreeCallKeepsInv, FreeOtherKeepsInv, FreeLockKeepsInv, FreeGetKeepsInv,
     FreeNotFoundKeepsInv, FreeLoadKeepsInv, FreeStoreKeepsInv, FreePurgeKeepsInv DEF str_free
<1>3. CASE UNCHANGED vars
  BY <1>3 DEF vars, locals, Inv, TypeOK, MapOK, PointersLive, CountsExact, NothingLeaks,
              LockOwner, LocalsOK, MallocLocals, FreeLocals, Stored, References, MaxCount
<1> QED BY <1>1, <1>2, <1>3 DEF Next

(* In either use the heap is sound at every step, in the middle of calls too. *)
THEOREM Invariance ==
    ASSUME Sheltered
    PROVE  Spec => []Inv
BY InitInv, StepKeepsInv, PTL DEF Spec

(* No call loses another thread's ++ or --.                                  *)
THEOREM CountsStayExact ==
    ASSUME Sheltered
    PROVE  Spec => []CountsExact
<1>1. Inv => CountsExact
  BY DEF Inv
<1> QED BY <1>1, Invariance, PTL

(* A caller's pointer stays good until the caller gives it back.             *)
THEOREM PointersStayLive ==
    ASSUME Sheltered
    PROVE  Spec => []PointersLive
<1>1. Inv => PointersLive
  BY DEF Inv
<1> QED BY <1>1, Invariance, PTL

(* A string without references is purged.                                    *)
THEOREM NothingEverLeaks ==
    ASSUME Sheltered
    PROVE  Spec => []NothingLeaks
<1>1. Inv => NothingLeaks
  BY DEF Inv
<1> QED BY <1>1, Invariance, PTL

(* Counts stay within what the threads can hold.                             *)
THEOREM TypeCorrect ==
    ASSUME Sheltered
    PROVE  Spec => []TypeOK
<1>1. Inv => TypeOK
  BY DEF Inv
<1> QED BY <1>1, Invariance, PTL
-----------------------------------------------------------------------------
(* The refinement.  A call takes effect where it puts the node or stores the *)
(* count; every other step leaves what the callers see alone.                *)

LEMMA NothingSeen ==
    ASSUME UNCHANGED <<strheap, reference_count, held>>
    PROVE  UNCHANGED Heap!svars
BY DEF Heap!svars, count, where, Stored

LEMMA InitRefines == Init => Heap!Init
<1> SUFFICES ASSUME Init PROVE Heap!Init
  OBVIOUS
<1> PICK copy \in [Pinned -> Node] :
            /\ \A s, u \in Pinned : copy[s] = copy[u] => s = u
            /\ strheap = IF Pinned = {} THEN NULL
                         ELSE [s \in String |-> IF s \in Pinned THEN copy[s] ELSE NoNode]
            /\ reference_count = [n \in Node |-> IF \E s \in Pinned : copy[s] = n THEN 1 ELSE 0]
  BY DEF Init
<1>1. \A s \in String : Stored(s) <=> s \in Pinned
  BY DEF Stored
<1>2. \A s \in Pinned : strheap[s] = copy[s] /\ reference_count[strheap[s]] = 1
  OBVIOUS
<1>3. count = [s \in String |-> IF s \in Pinned THEN 1 ELSE 0]
  BY <1>1, <1>2 DEF count
<1>4. where = [s \in String |-> IF s \in Pinned THEN copy[s] ELSE NoNode]
  BY <1>1, <1>2 DEF where
<1>5. held = [t \in Thread |-> [n \in Node |-> 0]]
  BY DEF Init
<1>6. /\ where \in [String -> Node \cup {NoNode}]
      /\ \A s \in String : where[s] = NoNode <=> s \notin Pinned
      /\ \A s, u \in Pinned : where[s] = where[u] => s = u
  BY <1>4
<1> QED BY <1>3, <1>5, <1>6 DEF Heap!Init

(* What the abstract heap has of a string and of another one.                *)
LEMMA SeenOf ==
    ASSUME Inv, NEW s \in String, Stored(s)
    PROVE  /\ strheap[s] \in Node /\ str[strheap[s]] = s /\ reference_count[strheap[s]] \in Nat
           /\ count[s] = reference_count[strheap[s]]
           /\ reference_count[strheap[s]] > 0 => where[s] = strheap[s]
<1>1. strheap[s] \in Node /\ str[strheap[s]] = s
  BY DEF Inv, TypeOK, MapOK, Stored
<1>2. reference_count[strheap[s]] \in Nat
  BY <1>1, NodeCount, MaxCountIsNat DEF Inv, TypeOK
<1> QED BY <1>1, <1>2 DEF count, where

LEMMA SeenFunctions ==
    /\ count = [u \in String |-> count[u]] /\ count' = [u \in String |-> count'[u]]
    /\ where = [u \in String |-> where[u]] /\ where' = [u \in String |-> where'[u]]
BY DEF count, where

LEMMA SeenOfCount ==
    ASSUME Inv, UNCHANGED strheap, NEW s \in String, Stored(s),
           NEW e \in Node, e = strheap[s], NEW k, CountBecomes(e, k)
    PROVE  /\ \A u \in String \ {s} : count'[u] = count[u] /\ where'[u] = where[u]
           /\ count'[s] = k
           /\ where'[s] = IF k > 0 THEN e ELSE NoNode
<1>1. /\ reference_count'[e] = k
      /\ \A m \in Node \ {e} : reference_count'[m] = reference_count[m]
  BY DEF Inv, TypeOK, CountBecomes
<1>2. \A u \in String : Stored(u)' = Stored(u)
  BY DEF Stored
<1>3. \A u \in String \ {s} : Stored(u) => strheap[u] \in Node \ {e}
  BY SeenOf
<1>4. /\ \A u \in String \ {s} : count'[u] = count[u]
      /\ count'[s] = k
  BY <1>1, <1>2, <1>3 DEF count
<1>5. /\ \A u \in String \ {s} : where'[u] = where[u]
      /\ where'[s] = IF k > 0 THEN e ELSE NoNode
  BY <1>1, <1>2, <1>3 DEF where
<1> QED BY <1>4, <1>5

LEMMA PutRefines ==
    ASSUME Inv, Sheltered, NEW t \in Thread, MallocPut(t)
    PROVE  \E s \in String : Heap!Malloc(t, s)
<1>1. pc[t] = "put" /\ key[t] \in String /\ ~Stored(key[t]) /\ strheap # NULL
  BY DEF MallocPut, Inv, LocalsOK, MallocLocals, InMalloc
<1> PICK s \in String : s = key[t]
  BY <1>1
<1>2. PICK n \in Node :
            /\ str[n] = NoString
            /\ reference_count' = [reference_count EXCEPT ![n] = 1]
            /\ strheap' = [strheap EXCEPT ![s] = n]
            /\ held' = [held EXCEPT ![t][n] = @ + 1]
  BY DEF MallocPut
<1>3. /\ reference_count'[n] = 1
      /\ \A m \in Node \ {n} : reference_count'[m] = reference_count[m]
  BY <1>2 DEF Inv, TypeOK
<1>4. /\ strheap' # NULL /\ strheap'[s] = n
      /\ \A u \in String \ {s} : strheap'[u] = strheap[u]
  <2>1. strheap \in [String -> Node \cup {NoNode}]
    BY <1>1 DEF Inv, TypeOK
  <2>2. strheap' \in [String -> Node \cup {NoNode}]
    BY <1>2, <2>1
  <2> QED BY <1>2, <2>1, <2>2
<1>5. Stored(s)' /\ \A u \in String \ {s} : Stored(u)' = Stored(u)
  BY <1>1, <1>4 DEF Stored
<1>6. \A u \in String \ {s} : Stored(u) => strheap[u] \in Node \ {n}
  BY <1>2, SeenOf
<1>7. /\ \A u \in String \ {s} : count'[u] = count[u]
      /\ count'[s] = 1 /\ count[s] = 0
  BY <1>1, <1>3, <1>4, <1>5, <1>6 DEF count
<1>8. /\ \A u \in String \ {s} : where'[u] = where[u]
      /\ where'[s] = n
  BY <1>3, <1>4, <1>5, <1>6 DEF where
<1>10. n \in Node \ Heap!Used
  <2>1. \A u \in String : where[u] # n
    <3> TAKE u \in String
    <3>1. CASE Stored(u)
      BY <3>1, <1>2, SeenOf DEF where
    <3>2. CASE ~Stored(u)
      BY <3>2 DEF where
    <3> QED BY <3>1, <3>2
  <2> QED BY <2>1 DEF Heap!Used
<1>11. count' = [count EXCEPT ![s] = @ + 1] /\ where' = [where EXCEPT ![s] = n]
  BY <1>7, <1>8, SeenFunctions
<1>12. held' = [held EXCEPT ![t][where'[s]] = @ + 1]
  BY <1>2, <1>8
<1>13. \E m \in Node \ Heap!Used : where' = [where EXCEPT ![s] = m]
  BY <1>10, <1>11
<1>14. ~(count[s] > 0) /\ count' = [count EXCEPT ![s] = @ + 1]
  BY <1>7, <1>11
<1> HIDE DEF where, count
<1>15. Heap!Malloc(t, s)
  BY <1>12, <1>13, <1>14, Zenon DEF Heap!Malloc
<1> QED BY <1>15

LEMMA MallocStoreRefines ==
    ASSUME Inv, Sheltered, NEW t \in Thread, MallocStore(t)
    PROVE  \E s \in String : Heap!Malloc(t, s)
<1>1. /\ pc[t] = "store" /\ key[t] \in String /\ Stored(key[t])
      /\ existing[t] = strheap[key[t]]
      /\ loaded[t] = reference_count[existing[t]]
  BY DEF MallocStore, Inv, LocalsOK, MallocLocals, InMalloc
<1> PICK s \in String : s = key[t]
  BY <1>1
<1> PICK e \in Node : e = strheap[s]
  BY <1>1, SeenOf
<1>2. /\ UNCHANGED strheap /\ Stored(s)
      /\ CountBecomes(e, count[s] + 1)
      /\ held' = [held EXCEPT ![t][e] = @ + 1]
  BY <1>1, SeenOf DEF MallocStore, CountBecomes
<1>3. str[e] # NoString
  BY <1>2, SeenOf
<1>4. count[s] = reference_count[e] /\ count[s] > 0 /\ count[s] \in Nat /\ where[s] = e
  BY <1>1, <1>2, <1>3, SeenOf, Referenced
<1>5. PICK k \in Nat : k = count[s] + 1 /\ CountBecomes(e, k)
  BY <1>2, <1>4
<1>11. UNCHANGED strheap /\ Stored(s) /\ CountBecomes(e, k)
  BY <1>2, <1>5
<1>6. /\ \A u \in String \ {s} : count'[u] = count[u] /\ where'[u] = where[u]
      /\ count'[s] = k
      /\ where'[s] = IF k > 0 THEN e ELSE NoNode
  BY <1>11, SeenOfCount
<1>7. \A u \in String : where'[u] = where[u]
  BY <1>4, <1>5, <1>6
<1>8. UNCHANGED where
  BY <1>7, SeenFunctions
<1>9. count' = [count EXCEPT ![s] = @ + 1] /\ held' = [held EXCEPT ![t][where'[s]] = @ + 1]
  BY <1>2, <1>4, <1>5, <1>6, <1>8, SeenFunctions
<1>10. Heap!Malloc(t, s)
  BY <1>4, <1>8, <1>9 DEF Heap!Malloc
<1> QED BY <1>10

LEMMA FreeStoreRefines ==
    ASSUME Inv, NEW t \in Thread, FreeStore(t)
    PROVE  \E s \in String : Heap!Free(t, s)
<1>1. /\ pc[t] = "freeStore" /\ ptr[t] \in Node /\ existing[t] = ptr[t]
      /\ held[t][ptr[t]] > 0
      /\ loaded[t] = reference_count[existing[t]]
  BY DEF FreeStore, Inv, LocalsOK, FreeLocals, InFree
<1> PICK e \in Node : e = ptr[t]
  BY <1>1
<1>2. str[e] # NoString /\ reference_count[e] > 0
  BY <1>1, HeldCounts
<1> PICK s \in String : s = str[e]
  BY <1>2 DEF Inv, TypeOK
<1>3. Stored(s) /\ e = strheap[s]
  BY <1>2, NodeCount
<1>4. count[s] = reference_count[e] /\ count[s] > 0 /\ count[s] \in Nat /\ where[s] = e
  BY <1>2, <1>3, SeenOf
<1>5. /\ UNCHANGED strheap
      /\ CountBecomes(e, count[s] - 1)
      /\ held' = [held EXCEPT ![t][e] = @ - 1]
  BY <1>1, <1>4 DEF FreeStore, GiveBack, CountBecomes
<1>6. PICK k \in Nat : k = count[s] - 1 /\ CountBecomes(e, k)
  BY <1>4, <1>5
<1>7. /\ \A u \in String \ {s} : count'[u] = count[u] /\ where'[u] = where[u]
      /\ count'[s] = k
      /\ where'[s] = IF k > 0 THEN e ELSE NoNode
  BY <1>3, <1>5, <1>6, SeenOfCount
<1>8. where' = [where EXCEPT ![s] = IF count[s] = 1 THEN NoNode ELSE @]
  <2>1. where'[s] = IF count[s] = 1 THEN NoNode ELSE where[s]
    BY <1>4, <1>6, <1>7
  <2> QED BY <2>1, <1>7, SeenFunctions
<1>9. /\ count' = [count EXCEPT ![s] = @ - 1]
      /\ held' = [held EXCEPT ![t][where[s]] = @ - 1]
  BY <1>4, <1>5, <1>6, <1>7, SeenFunctions
<1>10. Heap!Free(t, s)
  BY <1>1, <1>4, <1>8, <1>9 DEF Heap!Free
<1> QED BY <1>10

LEMMA PurgeUnseen ==
    ASSUME Inv, NEW t \in Thread, FreePurge(t)
    PROVE  UNCHANGED Heap!svars
<1>1. /\ pc[t] = "purge" /\ ptr[t] \in Node /\ existing[t] = ptr[t]
      /\ reference_count[ptr[t]] = 0
  BY DEF FreePurge, Inv, LocalsOK, FreeLocals
<1> PICK e \in Node : e = ptr[t]
  BY <1>1
<1> PICK s \in String : s = str[e]
  BY <1>1, TextRead
<1>2. Text(t) = {s} /\ Stored(s) /\ strheap[s] = e
  BY <1>1, TextRead
<1>3. /\ strheap' = [strheap EXCEPT ![s] = NoNode] /\ strheap # NULL
      /\ reference_count' = [reference_count EXCEPT ![e] = 0] /\ held' = held
  BY <1>1, <1>2 DEF FreePurge, Stored
<1>4. /\ strheap' # NULL /\ strheap'[s] = NoNode
      /\ \A u \in String \ {s} : strheap'[u] = strheap[u]
  <2>1. strheap \in [String -> Node \cup {NoNode}]
    BY <1>3 DEF Inv, TypeOK
  <2>2. strheap' \in [String -> Node \cup {NoNode}]
    BY <1>3, <2>1
  <2> QED BY <1>3, <2>1, <2>2
<1>5. ~Stored(s)' /\ \A u \in String \ {s} : Stored(u)' = Stored(u)
  BY <1>3, <1>4 DEF Stored
<1>6. \A u \in String \ {s} : Stored(u) => strheap[u] \in Node \ {e}
  BY SeenOf
<1>7. \A m \in Node \ {e} : reference_count'[m] = reference_count[m]
  BY <1>3 DEF Inv, TypeOK
<1>8. count' = count
  <2>1. \A u \in String : count'[u] = count[u]
    BY <1>1, <1>2, <1>4, <1>5, <1>6, <1>7 DEF count
  <2>2. count = [u \in String |-> count[u]] /\ count' = [u \in String |-> count'[u]]
    BY DEF count
  <2> QED BY <2>1, <2>2
<1>9. where' = where
  <2>1. \A u \in String : where'[u] = where[u]
    BY <1>1, <1>2, <1>4, <1>5, <1>6, <1>7 DEF where
  <2>2. where = [u \in String |-> where[u]] /\ where' = [u \in String |-> where'[u]]
    BY DEF where
  <2> QED BY <2>1, <2>2
<1> QED BY <1>3, <1>8, <1>9 DEF Heap!svars

LEMMA CreateUnseen ==
    ASSUME Inv, NEW t \in Thread, MallocCreateMap(t)
    PROVE  UNCHANGED Heap!svars
<1>1. strheap = NULL
  BY DEF MallocCreateMap, Goto, Inv, LocalsOK, MallocLocals, InMalloc
<1>2. \A s \in String : ~Stored(s) /\ ~Stored(s)'
  BY <1>1 DEF Stored, MallocCreateMap, EmptyMap
<1>3. UNCHANGED <<count, where>>
  BY <1>2 DEF count, where
<1> QED BY <1>3 DEF MallocCreateMap, Heap!svars

LEMMA StepRefines == Inv /\ Sheltered /\ [Next]_vars => [Heap!Next]_Heap!svars
<1> SUFFICES ASSUME Inv, Sheltered, [Next]_vars PROVE [Heap!Next]_Heap!svars
  OBVIOUS
<1>1. ASSUME NEW t \in Thread, str_malloc(t) PROVE [Heap!Next]_Heap!svars
  <2>1. CASE MallocPut(t)
    BY <2>1, PutRefines DEF Heap!Next
  <2>2. CASE MallocStore(t)
    BY <2>2, MallocStoreRefines DEF Heap!Next
  <2>3. CASE MallocCreateMap(t)
    BY <2>3, CreateUnseen
  <2>4. CASE (\E s \in String : MallocCall(t, s)) \/ MallocGet(t) \/ MallocLock(t) \/ MallocLoad(t)
    BY <2>4, NothingSeen DEF MallocCall, MallocGet, MallocLock, Lock, MallocLoad, LoadCount
  <2> QED BY <1>1, <2>1, <2>2, <2>3, <2>4 DEF str_malloc
<1>2. ASSUME NEW t \in Thread, str_free(t) PROVE [Heap!Next]_Heap!svars
  <2>1. CASE FreeStore(t)
    BY <2>1, FreeStoreRefines DEF Heap!Next
  <2>2. CASE FreePurge(t)
    BY <2>2, PurgeUnseen
  <2>3. CASE FreeNotFound(t)
    <3>1. ptr[t] = NoNode
      BY <2>3, TextRead DEF FreeNotFound
    <3> QED BY <2>3, <3>1, NothingSeen DEF FreeNotFound, GiveBack
  <2>4. CASE \/ FreeCall(t) \/ (\E s \in String : FreeOther(t, s)) \/ FreeLock(t) \/ FreeGet(t)
             \/ FreeLoad(t)
    BY <2>4, NothingSeen DEF FreeCall, FreeOther, FreeLock, Lock, FreeGet, FreeLoad, LoadCount
  <2> QED BY <1>2, <2>1, <2>2, <2>3, <2>4 DEF str_free
<1>3. CASE UNCHANGED vars
  BY <1>3, NothingSeen DEF vars
<1> QED BY <1>1, <1>2, <1>3 DEF Next

(* strheap.c is the heap of strheap.h.                                       *)
THEOREM Refinement ==
    ASSUME Sheltered
    PROVE  Spec => ImplementsHeap
<1>1. Init => Heap!Init
  BY InitRefines
<1>2. Inv /\ [Next]_vars => [Heap!Next]_Heap!svars
  BY StepRefines
<1> QED BY <1>1, <1>2, Invariance, PTL DEF Spec, ImplementsHeap, Heap!Spec
=============================================================================
