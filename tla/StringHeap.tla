----------------------------- MODULE StringHeap -----------------------------
(* What strheap.h of Projects/P4 promises: a string is stored once however   *)
(* often it is str_malloc()ed, everybody gets the address of that one copy,  *)
(* a count says how often, and at the str_free() that brings it to 0 the     *)
(* string is purged.  Every call is atomic.                                  *)
EXTENDS Naturals

CONSTANTS Thread, String,
          Node, NoNode,  (* heap addresses, and none                          *)
          Pinned         (* strings held by main since before the threads     *)

VARIABLES count,  (* per string, its reference count                         *)
          where,  (* per string, the address of its copy                     *)
          held    (* per thread and address, the references it holds         *)

svars == <<count, where, held>>

Used == {where[s] : s \in String} \ {NoNode}

Init == /\ count = [s \in String |-> IF s \in Pinned THEN 1 ELSE 0]
        /\ where \in [String -> Node \cup {NoNode}]
        /\ \A s \in String : where[s] = NoNode <=> s \notin Pinned
        /\ \A s, u \in Pinned : where[s] = where[u] => s = u
        /\ held = [t \in Thread |-> [n \in Node |-> 0]]

Malloc(t, s) ==
    /\ count' = [count EXCEPT ![s] = @ + 1]
    /\ IF count[s] > 0
       THEN UNCHANGED where
       ELSE \E n \in Node \ Used : where' = [where EXCEPT ![s] = n]
    /\ held' = [held EXCEPT ![t][where'[s]] = @ + 1]

Free(t, s) ==
    /\ count[s] > 0 /\ held[t][where[s]] > 0
    /\ count' = [count EXCEPT ![s] = @ - 1]
    /\ where' = [where EXCEPT ![s] = IF count[s] = 1 THEN NoNode ELSE @]
    /\ held' = [held EXCEPT ![t][where[s]] = @ - 1]

Next == \E t \in Thread, s \in String : Malloc(t, s) \/ Free(t, s)

Spec == Init /\ [][Next]_svars
=============================================================================
