------------------------------- MODULE LRUHost -------------------------------
(***************************************************************************)
(* The cache of LRU.tla, called with keys the host dict rejects           *)
(* (unhashable Python objects such as lists).  LRU.set(key, value, size)  *)
(* parses any object as its key, so such a key reaches _lru_ass_sub:      *)
(* GET_NODE raises and is cleared, the key is taken for a new one, and    *)
(* the dict insertion PUT_NODE fails after the node has been charged and  *)
(* before it is linked.  The failure is returned, but the node is linked  *)
(* anyway, lru_vacuum runs, and the last reference to the node is dropped.*)
(***************************************************************************)
EXTENDS LRU

CONSTANT BadKeys  \* keys PUT_NODE and GET_NODE raise on

(***************************************************************************)
(* _lru_ass_sub(key, value, m) for an unhashable key: memory += m, the    *)
(* failing PUT_NODE leaves the dict alone, lru_add_node_at_head links the *)
(* node, and lru_vacuum is entered; the result of PUT_NODE is only        *)
(* returned after that.                                                   *)
(***************************************************************************)
SetUnhashable(k, v, m) ==
    /\ pc = "idle"
    /\ clean < MaxStat
    /\ m <= size
    /\ memory' = memory + m
    /\ lru' = Cons([key |-> k, value |-> v, size |-> m], lru)
    /\ pc' = "vacuum"
    /\ key' = k
    /\ UNCHANGED <<dict, size, hits, misses, clean, callback, newSize>>

HostNext ==
    \/ Next
    \/ \E k \in BadKeys, v \in Values, m \in Sizes \cup {0} :
          SetUnhashable(k, v, m)

HostSpec == Init /\ [][HostNext]_vars

(***************************************************************************)
(* The comment of the recency list (lines 63-64): the list never grows    *)
(* beyond the size of the dict.  collect (keys(), values(), items())      *)
(* allocates a Python list of lru_length(self) == len(dict) slots and     *)
(* writes one item per linked node into it, then asserts that the counts  *)
(* agree (line 439); a longer list writes past the allocation.            *)
(***************************************************************************)
ListWithinDict == Len(lru) <= Cardinality(dict)

=============================================================================
