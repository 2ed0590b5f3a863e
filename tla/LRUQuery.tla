------------------------------- MODULE LRUQuery -------------------------------
(***************************************************************************)
(* The read-only accessors of the cache of LRU.tla, with the value each   *)
(* hands back to Python.  A query changes no state of the cache; answer   *)
(* records the result of the last one, and any other call clears it.     *)
(* evictions counts the nodes taken off the tail by either loop, the      *)
(* count spec section 4.4 calls evictions; it is not a field of the code. *)
(***************************************************************************)
EXTENDS LRU

CONSTANTS
    NoAnswer,
    IntBits    \* the width of a C int: 32 on the builds of the code

VARIABLES
    answer,     \* [op, val] of the last query, or NoAnswer
    evictions   \* the number of lru_delete_last calls of the two loops

qvars == <<vars, answer, evictions>>

(***************************************************************************)
(* Py_BuildValue("i", x) of a Py_ssize_t x: the vararg is read back as a  *)
(* C int, which on the LP64 builds keeps the low IntBits bits of x, read  *)
(* as a two's-complement number.                                          *)
(***************************************************************************)
AsCInt(x) == ((x + 2^(IntBits - 1)) % 2^IntBits) - 2^(IntBits - 1)

(* LRU_get_size: Py_BuildValue("i", self->size). *)
GetSize ==
    /\ pc = "idle"
    /\ answer' = [op |-> "get_size", val |-> AsCInt(size)]
    /\ UNCHANGED <<vars, evictions>>

(* LRU_memory: Py_BuildValue("l", self->memory), no conversion. *)
GetMemory ==
    /\ pc = "idle"
    /\ answer' = [op |-> "get_memory", val |-> memory]
    /\ UNCHANGED <<vars, evictions>>

(* lru_length: PyDict_Size(self->dict). *)
Length ==
    /\ pc = "idle"
    /\ answer' = [op |-> "len", val |-> Cardinality(dict)]
    /\ UNCHANGED <<vars, evictions>>

(* LRU_get_stats: Py_BuildValue("nnn", hits, misses, clean). *)
GetStats ==
    /\ pc = "idle"
    /\ answer' = [op |-> "get_stats", val |-> <<hits, misses, clean>>]
    /\ UNCHANGED <<vars, evictions>>

(* LRU_peek_first_item and LRU_peek_last_item: the (key, value) of       *)
(* self->first or self->last, or None on an empty list.                   *)
Peek(op) ==
    /\ pc = "idle"
    /\ LET nd == IF op = "peek_first_item" THEN Head(lru) ELSE Last(lru)
       IN  answer' = [op |-> op,
                      val |-> IF lru = << >> THEN "None"
                                             ELSE <<nd.key, nd.value>>]
    /\ UNCHANGED <<vars, evictions>>

(* collect(self, getter) for keys(), values() and items(): one item per  *)
(* node from self->first along next, without reordering.                 *)
Collect(op) ==
    /\ pc = "idle"
    /\ LET item(nd) == CASE op = "keys"   -> nd.key
                          [] op = "values" -> nd.value
                          [] op = "items"  -> <<nd.key, nd.value>>
       IN  answer' = [op |-> op, val |-> [i \in DOMAIN lru |-> item(lru[i])]]
    /\ UNCHANGED <<vars, evictions>>

(* LRU_contains, LRU_seq_contains (key in l): PyDict_Contains. *)
HasKey(k) ==
    /\ pc = "idle"
    /\ answer' = [op |-> "contains", val |-> k \in dict]
    /\ UNCHANGED <<vars, evictions>>

(* A call of LRU.tla; each step of either loop evicts one node. *)
CacheStep ==
    /\ Next
    /\ answer' = NoAnswer
    /\ evictions' = IF VacuumStep \/ ShrinkStep THEN evictions + 1
                                                ELSE evictions

QInit == Init /\ answer = NoAnswer /\ evictions = 0

QNext ==
    \/ GetSize \/ GetMemory \/ Length \/ GetStats
    \/ \E op \in {"peek_first_item", "peek_last_item"} : Peek(op)
    \/ \E op \in {"keys", "values", "items"} : Collect(op)
    \/ \E k \in Keys : HasKey(k)
    \/ CacheStep

QSpec == QInit /\ [][QNext]_qvars

(***************************************************************************)
(* Spec section 4.6: get_size() returns the capacity, which set_size(n)   *)
(* sets to any positive n its 'l' format accepts.                         *)
(***************************************************************************)
SizeReported == answer # NoAnswer /\ answer.op = "get_size" => answer.val = size

(***************************************************************************)
(* Spec sections 4.4 and 4.6: every eviction, by lru_vacuum or by         *)
(* set_size, increments evictions, and get_stats() returns (hits,        *)
(* misses, evictions).                                                    *)
(***************************************************************************)
StatsReported ==
    answer # NoAnswer /\ answer.op = "get_stats" =>
        answer.val = <<hits, misses, evictions>>

=============================================================================
