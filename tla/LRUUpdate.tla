------------------------------ MODULE LRUUpdate ------------------------------
(***************************************************************************)
(* LRU.update(arg, **kwargs) (LRU_update) on the cache of LRU.tla.  The   *)
(* call walks the positional argument, when it is a dict, and then the    *)
(* keyword dict with PyDict_Next, passing each entry to _lru_ass_sub with *)
(* size 0; each of those runs its own lru_vacuum.  Both walks share the   *)
(* cursor pos, which is not reset between them.  A dict is a sequence of  *)
(* (key, value) entries in insertion order, and pos indexes it.           *)
(***************************************************************************)
EXTENDS LRU

CONSTANT ArgKinds  \* what the positional argument is: "none", "dict", "pairs"

VARIABLES
    pending,    \* the entries LRU_update has still to pass to _lru_ass_sub
    requested   \* the keys the running or last update was given

uvars == <<vars, pending, requested>>

(* The dicts of at most two entries over distinct keys. *)
Dicts ==
    {<< >>} \cup {<<<<k, v>>>> : k \in Keys, v \in Values}
      \cup {d \in {<<<<k, v>>, <<j, w>>>> : k, j \in Keys, v, w \in Values} :
               d[1][1] # d[2][1]}

(* The keys of a sequence of entries. *)
EntryKeys(d) == {d[i][1] : i \in DOMAIN d}

(***************************************************************************)
(* The entries the two PyDict_Next loops hand to _lru_ass_sub: all of a   *)
(* dict argument, from pos = 0 to its end, then the keyword dict from the *)
(* pos the first loop stopped at.  An argument that is not a dict is      *)
(* skipped and leaves pos at 0.                                           *)
(***************************************************************************)
Walked(kind, a, kw) ==
    LET first == IF kind = "dict" THEN a ELSE << >>
    IN  first \o SubSeq(kw, Len(first) + 1, Len(kw))

(* LRU_update(arg, kwargs) is entered. *)
UpdateStart(kind, a, kw) ==
    /\ pc = "idle"
    /\ pending = << >>
    /\ kind = "none" => a = << >>
    /\ pending' = Walked(kind, a, kw)
    /\ requested' = EntryKeys(a) \cup EntryKeys(kw)
    /\ UNCHANGED vars

(* One _lru_ass_sub(key, value, 0) of the update, up to its lru_vacuum. *)
UpdateStep ==
    /\ pending # << >>
    /\ SetItem(Head(pending)[1], Head(pending)[2], 0)
    /\ pending' = Tail(pending)
    /\ UNCHANGED requested

(* The steps of the loops of a call in progress. *)
LoopStep ==
    /\ \/ VacuumStep \/ VacuumDone \/ ShrinkStep \/ ShrinkDone
    /\ UNCHANGED <<pending, requested>>

(* Another call, made once the update has returned. *)
OtherCall ==
    /\ pending = << >>
    /\ \/ \E k \in Keys, v \in Values : SetItem(k, v, 0)
       \/ \E k \in Keys : DelItem(k) \/ LookupHit(k) \/ LookupMiss(k)
       \/ Clear
       \/ \E c \in BOOLEAN : SetCallback(c)
       \/ \E n \in NewSizes : SetSize(n)
    /\ UNCHANGED pending
    /\ requested' = {}

UInit == Init /\ pending = << >> /\ requested = {}

UNext ==
    \/ \E kind \in ArgKinds, a, kw \in Dicts : UpdateStart(kind, a, kw)
    \/ UpdateStep
    \/ LoopStep
    \/ OtherCall

USpec == UInit /\ [][UNext]_uvars

(***************************************************************************)
(* Spec section 6: update(entries) stores each of its (key, value) pairs  *)
(* as an implicit set would; when it returns, in count mode (where        *)
(* nothing is evicted by size), every key it was given is cached.         *)
(***************************************************************************)
UpdateStoresAll == (pending = << >> /\ pc = "idle") => requested \subseteq dict

=============================================================================
