----------------------------- MODULE AbstractLRU -----------------------------
(***************************************************************************)
(* What the cache promises its callers (spec sections 4, 5 and 8): a      *)
(* partial map from keys to values whose keys are kept in recency order,  *)
(* most recently used first.  A write or a successful lookup puts the key *)
(* at the front; a deletion takes the key out; clear empties the cache.   *)
(* Evictions happen only inside a write or a resize, only ever take out   *)
(* the key at the back (strict LRU), and never the key being written.     *)
(* When an eviction is due, and how sizes are counted, is left to the     *)
(* implementation.                                                        *)
(***************************************************************************)
EXTENDS SequencesExt

CONSTANTS Keys, Values, NoKey

VARIABLES
    order,    \* the cached keys, most recently used first
    content,  \* the value cached for each key
    busy,     \* a write or a resize is running its evictions
    pinned    \* the key being written, or NoKey

avars == <<order, content, busy, pinned>>

(* The sequence s of distinct keys without the key k, if s holds it. *)
Drop(s, k) ==
    IF k \in Range(s) THEN RemoveAt(s, CHOOSE i \in DOMAIN s : s[i] = k)
                      ELSE s

(* The key k put at the front of the recency order. *)
Promote(k) == <<k>> \o Drop(order, k)

AInit ==
    /\ order = << >>
    /\ content = << >>
    /\ busy = FALSE
    /\ pinned = NoKey

(* set(key, value, size) or l[key] = value, not rejected: the entry is    *)
(* written and put in front, and evictions may follow.                    *)
Put(k, v) ==
    /\ ~busy
    /\ order' = Promote(k)
    /\ content' = [x \in DOMAIN content \cup {k} |->
                     IF x = k THEN v ELSE content[x]]
    /\ busy' = TRUE
    /\ pinned' = k

(* set_size(n), n > 0: evictions may follow. *)
Resize ==
    /\ ~busy
    /\ busy' = TRUE
    /\ UNCHANGED <<order, content, pinned>>

(* An eviction: the least recently used key, never the one being written. *)
EvictTail ==
    /\ busy
    /\ order # << >>
    /\ Last(order) # pinned
    /\ order' = Front(order)
    /\ content' = Restrict(content, DOMAIN content \ {Last(order)})
    /\ UNCHANGED <<busy, pinned>>

(* The write or the resize returns. *)
Return ==
    /\ busy
    /\ busy' = FALSE
    /\ pinned' = NoKey
    /\ UNCHANGED <<order, content>>

(* A lookup that finds its key. *)
Touch(k) ==
    /\ ~busy
    /\ k \in DOMAIN content
    /\ order' = Promote(k)
    /\ UNCHANGED <<content, busy, pinned>>

(* del l[key] of a cached key. *)
Delete(k) ==
    /\ ~busy
    /\ k \in DOMAIN content
    /\ order' = Drop(order, k)
    /\ content' = Restrict(content, DOMAIN content \ {k})
    /\ UNCHANGED <<busy, pinned>>

AClear ==
    /\ ~busy
    /\ order' = << >>
    /\ content' = << >>
    /\ UNCHANGED <<busy, pinned>>

ANext ==
    \/ \E k \in Keys, v \in Values : Put(k, v)
    \/ Resize
    \/ EvictTail
    \/ Return
    \/ \E k \in Keys : Touch(k) \/ Delete(k)
    \/ AClear

ASpec == AInit /\ [][ANext]_avars

=============================================================================
