-------------------------------- MODULE LRU --------------------------------
(***************************************************************************)
(* The eviction engine of nucliadb_utils/cache/lru.c: the Python dict      *)
(* self->dict (key -> Node), the doubly linked recency list first..last,   *)
(* the memory accountant (self->memory against self->size) and the stats  *)
(* counters hits, misses and clean.                                        *)
(*                                                                         *)
(* The list is modelled as the sequence of its nodes from self->first to  *)
(* self->last; a node carries its key, value and size.  The dict is the   *)
(* set of keys it holds: the node it maps a key to is the node of the     *)
(* list with that key, and IndexMatchesList says that this is so.         *)
(*                                                                         *)
(* Every public operation runs to completion before the next (the engine  *)
(* is single-threaded); the two loops that invoke the eviction callback,  *)
(* lru_vacuum and the loop of LRU_set_size, take one step per iteration,  *)
(* so that a state between two evictions is a state of the model.         *)
(***************************************************************************)
EXTENDS Integers, SequencesExt

CONSTANTS
    Keys,        \* the hashable keys callers use
    Values,      \* the values callers store
    Sizes,       \* the sizes passed to LRU.set(key, value, size)
    Capacities,  \* the sizes passed to the constructor LRU(size)
    NewSizes,    \* the sizes passed to LRU.set_size(size)
    MaxStat,     \* bound on the hits, misses and clean counters
    NoKey        \* the value of the local `key' outside of a set

ASSUME KeysAssumption == Keys # {} /\ NoKey \notin Keys
ASSUME SizesAssumption == Sizes \subseteq Int
ASSUME CapacitiesAssumption == Capacities \subseteq Nat \ {0} /\ Capacities # {}
ASSUME NewSizesAssumption == NewSizes \subseteq Int
ASSUME MaxStatAssumption == MaxStat \in Nat

VARIABLES
    dict,      \* self->dict: the keys that have a node
    lru,       \* the nodes from self->first (MRU) to self->last (LRU)
    memory,    \* self->memory
    size,      \* self->size, the capacity
    hits,      \* self->hits
    misses,    \* self->misses
    clean,     \* self->clean, the number of vacuum evictions
    callback,  \* self->callback # NULL
    pc,        \* "idle", or the loop being run: "vacuum" or "shrink"
    key,       \* the key argument of _lru_ass_sub while lru_vacuum runs
    newSize    \* the argument of LRU_set_size while its loop runs

vars == <<dict, lru, memory, size, hits, misses, clean, callback, pc, key,
          newSize>>

Node == [key : Keys, value : Values, size : Sizes \cup {0}]

(* The keys of the nodes of a list. *)
KeysOf(s) == {s[i].key : i \in DOMAIN s}

(* The position of the node of key k in the list. *)
IndexOf(k) == CHOOSE i \in DOMAIN lru : lru[i].key = k

(* The sum of the sizes of the nodes of a list, through its prefix sums. *)
MemSum(s) ==
    LET psum[i \in 0..Len(s)] == IF i = 0 THEN 0 ELSE psum[i - 1] + s[i].size
    IN  psum[Len(s)]

(* lru_remove_node of the node at position i, then lru_add_node_at_head  *)
(* of that node carrying nd.                                              *)
MoveToHead(i, nd) == Cons(nd, RemoveAt(lru, i))

(***************************************************************************)
(* lru_delete_last, called with a non-empty list: the last node is unlinked *)
(* and deleted from the dict (the callback it calls first is not state).  *)
(***************************************************************************)
DeleteLast ==
    /\ lru' = Front(lru)
    /\ dict' = dict \ {Last(lru).key}

-----------------------------------------------------------------------------
(***************************************************************************)
(* LRU_init: an empty cache of the given positive size, with or without a *)
(* callback.                                                              *)
(***************************************************************************)
Init ==
    /\ dict = {}
    /\ lru = << >>
    /\ memory = 0
    /\ size \in Capacities
    /\ hits = 0
    /\ misses = 0
    /\ clean = 0
    /\ callback \in BOOLEAN
    /\ pc = "idle"
    /\ key = NoKey
    /\ newSize = 0

(* Mutants of SetExisting: the old size is not refunded; the node is     *)
(* updated where it is instead of being moved to the head; the call      *)
(* returns without running lru_vacuum.                                   *)
SetExistingNoRefund(k, v, m) ==
    /\ pc = "idle"
    /\ clean < MaxStat
    /\ m <= size
    /\ k \in dict
    /\ LET i == IndexOf(k) IN
         /\ memory' = memory + m
         /\ lru' = MoveToHead(i, [key |-> k, value |-> v, size |-> m])
    /\ pc' = "vacuum"
    /\ key' = k
    /\ UNCHANGED <<dict, size, hits, misses, clean, callback, newSize>>

SetExistingInPlace(k, v, m) ==
    /\ pc = "idle"
    /\ clean < MaxStat
    /\ m <= size
    /\ k \in dict
    /\ LET i == IndexOf(k) IN
         /\ memory' = memory - lru[i].size + m
         /\ lru' = [lru EXCEPT ![i] = [key |-> k, value |-> v, size |-> m]]
    /\ pc' = "vacuum"
    /\ key' = k
    /\ UNCHANGED <<dict, size, hits, misses, clean, callback, newSize>>

SetExistingNoVacuum(k, v, m) ==
    /\ pc = "idle"
    /\ clean < MaxStat
    /\ m <= size
    /\ k \in dict
    /\ LET i == IndexOf(k) IN
         /\ memory' = memory - lru[i].size + m
         /\ lru' = MoveToHead(i, [key |-> k, value |-> v, size |-> m])
    /\ UNCHANGED <<dict, size, hits, misses, clean, callback, pc, key, newSize>>

(***************************************************************************)
(* _lru_ass_sub(key, value, m) when key has a node: the node takes the    *)
(* new value and size, memory is adjusted by the difference, the node is  *)
(* moved to the head, and lru_vacuum is entered.  A size above self->size *)
(* returns before anything is changed.                                    *)
(***************************************************************************)
SetExisting(k, v, m) ==
    /\ pc = "idle"
    /\ clean < MaxStat
    /\ m <= size
    /\ k \in dict
    /\ LET i == IndexOf(k) IN
         /\ memory' = memory - lru[i].size + m
         /\ lru' = MoveToHead(i, [key |-> k, value |-> v, size |-> m])
    /\ pc' = "vacuum"
    /\ key' = k
    /\ UNCHANGED <<dict, size, hits, misses, clean, callback, newSize>>

(***************************************************************************)
(* _lru_ass_sub(key, value, m) when key has no node: a new node is        *)
(* charged to memory, put in the dict and added at the head, and          *)
(* lru_vacuum is entered.                                                 *)
(***************************************************************************)
SetNew(k, v, m) ==
    /\ pc = "idle"
    /\ clean < MaxStat
    /\ m <= size
    /\ k \notin dict
    /\ memory' = memory + m
    /\ dict' = dict \cup {k}
    /\ lru' = Cons([key |-> k, value |-> v, size |-> m], lru)
    /\ pc' = "vacuum"
    /\ key' = k
    /\ UNCHANGED <<size, hits, misses, clean, callback, newSize>>

SetItem(k, v, m) == SetExisting(k, v, m) \/ SetNew(k, v, m)

(* Mutant of VacuumStep: the size of the evicted node is not taken off.  *)
VacuumStepNoCharge ==
    /\ pc = "vacuum"
    /\ memory > size
    /\ lru # << >>
    /\ DeleteLast
    /\ clean' = clean + 1
    /\ UNCHANGED <<memory, size, hits, misses, callback, pc, key, newSize>>

(***************************************************************************)
(* One iteration of lru_vacuum: while memory > size, the size of the last *)
(* node is taken off memory and lru_delete_last calls the callback with   *)
(* its key and value, unlinks it and deletes it from the dict.            *)
(***************************************************************************)
VacuumStep ==
    /\ pc = "vacuum"
    /\ memory > size
    /\ lru # << >>
    /\ memory' = memory - Last(lru).size
    /\ DeleteLast
    /\ clean' = clean + 1
    /\ UNCHANGED <<size, hits, misses, callback, pc, key, newSize>>

(* lru_vacuum returns once memory <= size, and so does _lru_ass_sub. *)
VacuumDone ==
    /\ pc = "vacuum"
    /\ memory <= size
    /\ pc' = "idle"
    /\ key' = NoKey
    /\ UNCHANGED <<dict, lru, memory, size, hits, misses, clean, callback,
                   newSize>>

(* Mutant of DelItem: the node is deleted from the dict but not unlinked. *)
DelItemKeepsNode(k) ==
    /\ pc = "idle"
    /\ k \in dict
    /\ memory' = memory - lru[IndexOf(k)].size
    /\ dict' = dict \ {k}
    /\ UNCHANGED <<lru, size, hits, misses, clean, callback, pc, key, newSize>>

(***************************************************************************)
(* _lru_ass_sub(key, NULL, 0), i.e. del l[key]: the node is deleted from  *)
(* the dict, its size taken off memory and it is unlinked.  An absent key *)
(* makes the dict deletion fail and nothing changes.                      *)
(***************************************************************************)
DelItem(k) ==
    /\ pc = "idle"
    /\ k \in dict
    /\ LET i == IndexOf(k) IN
         /\ memory' = memory - lru[i].size
         /\ lru' = RemoveAt(lru, i)
    /\ dict' = dict \ {k}
    /\ UNCHANGED <<size, hits, misses, clean, callback, pc, key, newSize>>

(* Mutant of LookupHit: the node is added at the head without first      *)
(* being unlinked from its place.                                        *)
LookupHitNoUnlink(k) ==
    /\ pc = "idle"
    /\ hits < MaxStat
    /\ k \in dict
    /\ lru' = Cons(lru[IndexOf(k)], lru)
    /\ hits' = hits + 1
    /\ UNCHANGED <<dict, memory, size, misses, clean, callback, pc, key,
                   newSize>>

(***************************************************************************)
(* lru_subscript (l[key], l.get(key)): a hit moves the node to the head   *)
(* (when it is not already there) and counts a hit; a miss counts a miss. *)
(***************************************************************************)
LookupHit(k) ==
    /\ pc = "idle"
    /\ hits < MaxStat
    /\ k \in dict
    /\ LET i == IndexOf(k) IN lru' = MoveToHead(i, lru[i])
    /\ hits' = hits + 1
    /\ UNCHANGED <<dict, memory, size, misses, clean, callback, pc, key,
                   newSize>>

LookupMiss(k) ==
    /\ pc = "idle"
    /\ misses < MaxStat
    /\ k \notin dict
    /\ misses' = misses + 1
    /\ UNCHANGED <<dict, lru, memory, size, hits, clean, callback, pc, key,
                   newSize>>

(* Mutant of SetSize: the `newSize <= 0' check is missing. *)
SetSizeUnchecked(n) ==
    /\ pc = "idle"
    /\ pc' = "shrink"
    /\ newSize' = n
    /\ UNCHANGED <<dict, lru, memory, size, hits, misses, clean, callback,
                   key>>

(***************************************************************************)
(* LRU_set_size(n): a non-positive n raises ValueError; otherwise the     *)
(* loop below runs and self->size is set after it.                        *)
(***************************************************************************)
SetSize(n) ==
    /\ pc = "idle"
    /\ n > 0
    /\ pc' = "shrink"
    /\ newSize' = n
    /\ UNCHANGED <<dict, lru, memory, size, hits, misses, clean, callback,
                   key>>

(* Mutants of ShrinkStep: the first node is evicted instead of the last; *)
(* the node is unlinked but not deleted from the dict.                    *)
ShrinkStepEvictsHead ==
    /\ pc = "shrink"
    /\ Cardinality(dict) > newSize
    /\ lru # << >>
    /\ lru' = Tail(lru)
    /\ dict' = dict \ {Head(lru).key}
    /\ UNCHANGED <<memory, size, hits, misses, clean, callback, pc, key,
                   newSize>>

ShrinkStepKeepsDict ==
    /\ pc = "shrink"
    /\ Cardinality(dict) > newSize
    /\ lru # << >>
    /\ lru' = Front(lru)
    /\ UNCHANGED <<dict, memory, size, hits, misses, clean, callback, pc, key,
                   newSize>>

(***************************************************************************)
(* One iteration of `while (lru_length(self) > newSize)                   *)
(* lru_delete_last(self)': the last node is passed to the callback,       *)
(* unlinked and deleted from the dict.  Neither memory nor clean changes. *)
(***************************************************************************)
ShrinkStep ==
    /\ pc = "shrink"
    /\ Cardinality(dict) > newSize
    /\ lru # << >>
    /\ DeleteLast
    /\ UNCHANGED <<memory, size, hits, misses, clean, callback, pc, key,
                   newSize>>

ShrinkDone ==
    /\ pc = "shrink"
    /\ Cardinality(dict) <= newSize
    /\ size' = newSize
    /\ pc' = "idle"
    /\ newSize' = 0
    /\ UNCHANGED <<dict, lru, memory, hits, misses, clean, callback, key>>

(***************************************************************************)
(* LRU_clear: every node is unlinked, the dict emptied, and hits, misses  *)
(* and memory are reset; clean is not.                                    *)
(***************************************************************************)
Clear ==
    /\ pc = "idle"
    /\ dict' = {}
    /\ lru' = << >>
    /\ hits' = 0
    /\ misses' = 0
    /\ memory' = 0
    /\ UNCHANGED <<size, clean, callback, pc, key, newSize>>

(* set_callback(None) drops the callback, set_callback(f) installs f. *)
SetCallback(c) ==
    /\ pc = "idle"
    /\ callback' = c
    /\ UNCHANGED <<dict, lru, memory, size, hits, misses, clean, pc, key,
                   newSize>>

-----------------------------------------------------------------------------
(***************************************************************************)
(* The operations of a cache used only in size mode (LRU.set and dict     *)
(* assignment, never set_size), and of a cache that may use them all.     *)
(***************************************************************************)
SizeModeNext ==
    \/ \E k \in Keys, v \in Values, m \in Sizes : SetItem(k, v, m)
    \/ \E k \in Keys, v \in Values : SetItem(k, v, 0)
    \/ VacuumStep
    \/ VacuumDone
    \/ \E k \in Keys : DelItem(k) \/ LookupHit(k) \/ LookupMiss(k)
    \/ Clear
    \/ \E c \in BOOLEAN : SetCallback(c)

Next ==
    \/ SizeModeNext
    \/ \E n \in NewSizes : SetSize(n)
    \/ ShrinkStep
    \/ ShrinkDone

SizeModeSpec == Init /\ [][SizeModeNext]_vars

Spec == Init /\ [][Next]_vars

(***************************************************************************)
(* The two loops run on the thread of the call that entered them, with no *)
(* lock or wait in between: a loop step that stays enabled is taken.      *)
(* Nothing obliges a client to call the cache, so the operations          *)
(* themselves get no fairness.                                            *)
(***************************************************************************)
FairSpec ==
    /\ Spec
    /\ WF_vars(VacuumStep) /\ WF_vars(VacuumDone)
    /\ WF_vars(ShrinkStep) /\ WF_vars(ShrinkDone)

-----------------------------------------------------------------------------
(* Every variable holds a value of its type. *)
TypeOK ==
    /\ dict \subseteq Keys
    /\ lru \in Seq(Node)
    /\ memory \in Int
    /\ size \in Nat \ {0}
    /\ hits \in Nat
    /\ misses \in Nat
    /\ clean \in Nat
    /\ callback \in BOOLEAN
    /\ pc \in {"idle", "vacuum", "shrink"}
    /\ key \in Keys \cup {NoKey}
    /\ newSize \in Int

(***************************************************************************)
(* Invariant 1 of the cache: the dict and the recency list hold the same  *)
(* keys, and no key has two nodes in the list.  Every operation updates   *)
(* the two structures separately (PUT_NODE and the list splices of        *)
(* _lru_ass_sub, lru_delete_last and LRU_clear).                          *)
(***************************************************************************)
IndexMatchesList ==
    /\ dict = KeysOf(lru)
    /\ \A i, j \in DOMAIN lru : i # j => lru[i].key # lru[j].key

(***************************************************************************)
(* Invariant 3: self->memory is the sum of the sizes of the live nodes,   *)
(* which _lru_ass_sub, lru_vacuum, LRU_set_size and LRU_clear must each   *)
(* keep up to date.                                                       *)
(***************************************************************************)
MemoryAccounting == memory = MemSum(lru)

(***************************************************************************)
(* Invariant 4 in size mode: once an operation has returned, memory does  *)
(* not exceed the capacity.                                               *)
(***************************************************************************)
CapacityRespected == pc = "idle" => memory <= size

(***************************************************************************)
(* lru_vacuum never runs out of nodes: whenever its loop condition        *)
(* memory > size holds there is a last node, so `self->last->size' never  *)
(* dereferences NULL.                                                     *)
(***************************************************************************)
VacuumHasVictim == (pc = "vacuum" /\ memory > size) => lru # << >>

(***************************************************************************)
(* The entry that _lru_ass_sub has just inserted or updated is never      *)
(* evicted by the vacuum that this same call runs (spec 4.2).             *)
(***************************************************************************)
SetKeyNotSelfEvicted == pc = "vacuum" => key \in dict

(***************************************************************************)
(* The class docstring of LRU (lines 691-703) and the count-mode scenario *)
(* of the spec: an LRU(n) holds at most n entries.                        *)
(***************************************************************************)
CountBounded == pc = "idle" => Cardinality(dict) <= size

-----------------------------------------------------------------------------
(***************************************************************************)
(* Liveness (spec section 5: every operation completes before returning): *)
(* once LRU_set_size has entered its eviction loop, the loop ends and     *)
(* set_size returns.  Its loop runs on len(dict), which an eviction that  *)
(* fails to delete from the dict would never lower.                       *)
(***************************************************************************)
ShrinkReturns == pc = "shrink" ~> pc = "idle"

-----------------------------------------------------------------------------
(***************************************************************************)
(* Refinement of the promise of AbstractLRU: the keys of the list, from   *)
(* self->first to self->last, are the recency order, and the dict maps    *)
(* each key to the value of its node.                                     *)
(***************************************************************************)
KeyOrder == [i \in DOMAIN lru |-> lru[i].key]

Contents == [k \in dict |-> lru[IndexOf(k)].value]

Abstract == INSTANCE AbstractLRU
    WITH order <- KeyOrder, content <- Contents, busy <- pc # "idle",
         pinned <- key

(***************************************************************************)
(* Every step of the cache is a step of AbstractLRU or leaves the map,   *)
(* the order and the running call alone: a set puts its key in front     *)
(* with its value, a hit promotes its key, and both eviction loops        *)
(* (lru_vacuum and set_size's) only take out the least recently used key, *)
(* never the key their set is writing.                                    *)
(***************************************************************************)
ImplementsAbstract == Abstract!ASpec

=============================================================================
