------------------------ MODULE LRU_refinement_proofs ------------------------
(***************************************************************************)
(* Proofs that the cache of LRU.tla implements the abstract cache of      *)
(* AbstractLRU.tla under the refinement mapping of LRU.tla (KeyOrder,     *)
(* Contents, busy = pc # "idle", pinned = key).                           *)
(*                                                                         *)
(* Every step of the cache maps to a step of the abstract cache, except   *)
(* one that the mapping cannot decide by itself: a VacuumStep whose       *)
(* victim is the key that the running _lru_ass_sub has just set, which    *)
(* AbstractLRU forbids (EvictTail never takes the pinned key).  Whether   *)
(* that happens depends on the sizes the nodes carry and on memory, so    *)
(* the general theorem assumes SetKeyNotSelfEvicted, and the count-mode   *)
(* theorem proves it: with every size 0, memory stays 0 and lru_vacuum    *)
(* never evicts.                                                          *)
(***************************************************************************)
EXTENDS LRU_proofs

(* The refinement mapping's two functions, for any list of nodes. *)
KS(s) == [i \in DOMAIN s |-> s[i].key]
CT(s) == [x \in KeysOf(s) |-> s[CHOOSE i \in DOMAIN s : s[i].key = x].value]

-----------------------------------------------------------------------------
(* The key sequence of a list of nodes. *)

LEMMA KSType ==
  ASSUME NEW s \in Seq(Node)
  PROVE  /\ KS(s) \in Seq(Keys)
         /\ Len(KS(s)) = Len(s)
         /\ \A j \in 1..Len(s) : KS(s)[j] = s[j].key
<1>1. DOMAIN s = 1..Len(s) /\ Len(s) \in Nat
  BY LenProperties
<1>2. \A j \in 1..Len(s) : s[j].key \in Keys
  <2> SUFFICES ASSUME NEW j \in 1..Len(s) PROVE s[j].key \in Keys
    OBVIOUS
  <2>1. s[j] \in Node
    BY ElementOfSeq
  <2>. QED  BY <2>1, Zenon DEF Node
<1>3. KS(s) \in [1..Len(s) -> Keys]
  BY <1>1, <1>2 DEF KS
<1>. QED
  BY <1>1, <1>3, LenProperties, SeqDef DEF KS

(* Two key sequences are equal when they agree position by position. *)
(* The elements of Cons(e, s) after the first. *)
LEMMA ConsAt ==
  ASSUME NEW S, NEW e \in S, NEW s \in Seq(S)
  PROVE  \A j \in 2..Len(s) + 1 : Cons(e, s)[j] = s[j - 1]
BY ConsProps

LEMMA KSEq ==
  ASSUME NEW t \in Seq(Node), NEW u \in Seq(Keys), Len(u) = Len(t),
         \A j \in 1..Len(t) : u[j] = t[j].key
  PROVE  KS(t) = u
<1>1. DOMAIN t = 1..Len(t) /\ DOMAIN u = 1..Len(u)
  BY LenProperties
<1>. QED
  BY <1>1 DEF KS

LEMMA KSCons ==
  ASSUME NEW s \in Seq(Node), NEW e \in Node
  PROVE  KS(Cons(e, s)) = <<e.key>> \o KS(s)
<1>1. KS(s) \in Seq(Keys) /\ Len(KS(s)) = Len(s)
      /\ \A j \in 1..Len(s) : KS(s)[j] = s[j].key
  BY KSType
<1>2. e.key \in Keys
  BY DEF Node
<1> DEFINE ks == KS(s)
<1> HIDE DEF ks
<1>3. /\ Cons(e.key, ks) \in Seq(Keys)
      /\ Len(Cons(e.key, ks)) = Len(ks) + 1
      /\ Cons(e.key, ks)[1] = e.key
      /\ \A j \in 2..Len(ks) + 1 : Cons(e.key, ks)[j] = ks[j - 1]
  <2>1. ks \in Seq(Keys)  BY <1>1 DEF ks
  <2>2. Cons(e.key, ks) \in Seq(Keys)  BY <1>2, <2>1, ConsProps
  <2>3. Len(Cons(e.key, ks)) = Len(ks) + 1  BY <1>2, <2>1, ConsProps
  <2>4. Cons(e.key, ks)[1] = e.key  BY <1>2, <2>1, ConsProps
  <2>5. \A j \in 2..Len(ks) + 1 : Cons(e.key, ks)[j] = ks[j - 1]
    <3> SUFFICES ASSUME NEW j \in 2..Len(ks) + 1
                 PROVE  Cons(e.key, ks)[j] = ks[j - 1]
      OBVIOUS
    <3>1. \A x \in Keys, t \in Seq(Keys) :
             \A i \in 2..Len(t) + 1 : Cons(x, t)[i] = t[i - 1]
      BY ConsProps
    <3>. QED  BY <1>2, <2>1, <3>1
  <2>. QED  BY <2>2, <2>3, <2>4, <2>5
<1>4. /\ Cons(e, s) \in Seq(Node)
      /\ Len(Cons(e, s)) = Len(s) + 1
      /\ Cons(e, s)[1] = e
      /\ \A j \in 2..Len(s) + 1 : Cons(e, s)[j] = s[j - 1]
  BY ConsProps
<1>5. Len(s) \in Nat
  BY LenProperties
<1>6. \A j \in 1..Len(Cons(e, s)) : Cons(e.key, ks)[j] = Cons(e, s)[j].key
  <2> SUFFICES ASSUME NEW j \in 1..Len(Cons(e, s))
               PROVE  Cons(e.key, ks)[j] = Cons(e, s)[j].key
    OBVIOUS
  <2>1. CASE j = 1
    BY <2>1, <1>3, <1>4
  <2>2. CASE j # 1
    <3>1. j \in 2..Len(ks) + 1 /\ j - 1 \in 1..Len(s)
      BY <2>2, <1>1, <1>4, <1>5 DEF ks
    <3>2. Cons(e.key, ks)[j] = ks[j - 1] /\ Cons(e, s)[j] = s[j - 1]
      BY <3>1, <1>3, <1>4, <1>5, <1>1 DEF ks
    <3>3. ks[j - 1] = s[j - 1].key
      BY <3>1, <1>1 DEF ks
    <3>. QED  BY <3>2, <3>3
  <2>. QED  BY <2>1, <2>2
<1>7. Len(Cons(e.key, ks)) = Len(Cons(e, s))
  BY <1>1, <1>3, <1>4 DEF ks
<1>8. KS(Cons(e, s)) = Cons(e.key, ks)
  BY <1>3, <1>4, <1>6, <1>7, KSEq
<1>. QED
  BY <1>8 DEF Cons, ks

LEMMA KSRemoveAt ==
  ASSUME NEW s \in Seq(Node), NEW i \in 1..Len(s)
  PROVE  KS(RemoveAt(s, i)) = RemoveAt(KS(s), i)
<1>1. KS(s) \in Seq(Keys) /\ Len(KS(s)) = Len(s)
      /\ \A j \in 1..Len(s) : KS(s)[j] = s[j].key
  BY KSType
<1>2. /\ RemoveAt(KS(s), i) \in Seq(Keys)
      /\ Len(RemoveAt(KS(s), i)) = Len(KS(s)) - 1
      /\ \A j \in 1..Len(KS(s)) - 1 :
            RemoveAt(KS(s), i)[j] = IF j < i THEN KS(s)[j] ELSE KS(s)[j + 1]
  BY <1>1, RemoveAtProps
<1>3. /\ RemoveAt(s, i) \in Seq(Node)
      /\ Len(RemoveAt(s, i)) = Len(s) - 1
      /\ \A j \in 1..Len(s) - 1 :
            RemoveAt(s, i)[j] = IF j < i THEN s[j] ELSE s[j + 1]
  BY RemoveAtProps
<1>4. \A j \in 1..Len(RemoveAt(s, i)) :
         RemoveAt(KS(s), i)[j] = RemoveAt(s, i)[j].key
  BY <1>1, <1>2, <1>3
<1>. QED
  BY <1>1, <1>2, <1>3, <1>4, KSEq

LEMMA KSFront ==
  ASSUME NEW s \in Seq(Node), s # << >>
  PROVE  /\ KS(Front(s)) = Front(KS(s))
         /\ KS(s) # << >>
         /\ Last(KS(s)) = Last(s).key
<1>1. KS(s) \in Seq(Keys) /\ Len(KS(s)) = Len(s)
      /\ \A j \in 1..Len(s) : KS(s)[j] = s[j].key
  BY KSType
<1>2. Len(s) \in Nat \ {0}
  BY EmptySeq
<1>3. KS(s) # << >>
  BY <1>1, <1>2, EmptySeq
<1>4. /\ Front(KS(s)) \in Seq(Keys)
      /\ Len(Front(KS(s))) = Len(KS(s)) - 1
      /\ \A j \in 1..Len(KS(s)) - 1 : Front(KS(s))[j] = KS(s)[j]
  BY <1>1, <1>3, FrontProps
<1>5. /\ Front(s) \in Seq(Node)
      /\ Len(Front(s)) = Len(s) - 1
      /\ \A j \in 1..Len(s) - 1 : Front(s)[j] = s[j]
  BY FrontProps
<1>6. \A j \in 1..Len(Front(s)) : Front(KS(s))[j] = Front(s)[j].key
  BY <1>1, <1>4, <1>5
<1>7. Last(KS(s)) = Last(s).key
  BY <1>1, <1>2 DEF Last
<1>8. Len(Front(KS(s))) = Len(Front(s))
  BY <1>1, <1>4, <1>5
<1>9. KS(Front(s)) = Front(KS(s))
  BY <1>4, <1>5, <1>6, <1>8, KSEq
<1>. QED
  BY <1>3, <1>7, <1>9

-----------------------------------------------------------------------------
(* AbstractLRU's Drop on the key sequence of a list with distinct keys. *)

(* In a list with distinct keys, the node of a key is the only one. *)
LEMMA ChooseKey ==
  ASSUME NEW s \in Seq(Node), DistinctKeys(s), NEW j \in DOMAIN s
  PROVE  (CHOOSE i \in DOMAIN s : s[i].key = s[j].key) = j
<1> DEFINE c == CHOOSE i \in DOMAIN s : s[i].key = s[j].key
<1>1. c \in DOMAIN s /\ s[c].key = s[j].key
  OBVIOUS
<1>. QED
  BY <1>1 DEF DistinctKeys

(* The sequence and function operators AbstractLRU takes from its own  *)
(* instance of SequencesExt are those of LRU.                             *)
LEMMA AbstractOps ==
  /\ \A s : Abstract!Last(s) = Last(s)
  /\ \A s : Abstract!Front(s) = Front(s)
  /\ \A f, S : Abstract!Restrict(f, S) = Restrict(f, S)
BY DEF Abstract!Last, Last, Abstract!Front, Front, Abstract!Restrict,
       Restrict

LEMMA DropAt ==
  ASSUME NEW s \in Seq(Node), DistinctKeys(s), NEW i \in 1..Len(s)
  PROVE  Abstract!Drop(KS(s), s[i].key) = RemoveAt(KS(s), i)
<1>1. DOMAIN s = 1..Len(s) /\ DOMAIN KS(s) = DOMAIN s
  BY LenProperties DEF KS
<1>2. s[i].key \in Range(KS(s))
  BY <1>1 DEF Range, KS
<1>3. (CHOOSE j \in DOMAIN KS(s) : KS(s)[j] = s[i].key) = i
  <2>1. (CHOOSE j \in DOMAIN KS(s) : KS(s)[j] = s[i].key)
          = (CHOOSE j \in DOMAIN s : s[j].key = s[i].key)
    BY <1>1 DEF KS
  <2>2. i \in DOMAIN s
    BY <1>1
  <2>3. (CHOOSE j \in DOMAIN s : s[j].key = s[i].key) = i
    BY <2>2, ChooseKey
  <2>. QED  BY <2>1, <2>3
<1>4. Abstract!Range(KS(s)) = Range(KS(s))
  BY DEF Abstract!Range, Range
<1>. QED
  BY <1>2, <1>3, <1>4 DEF Abstract!Drop, Abstract!RemoveAt, RemoveAt

LEMMA DropAbsent ==
  ASSUME NEW s \in Seq(Node), NEW k, k \notin KeysOf(s)
  PROVE  Abstract!Drop(KS(s), k) = KS(s)
BY DEF Abstract!Drop, Abstract!Range, KS, KeysOf

-----------------------------------------------------------------------------
(* The contents of a list with distinct keys. *)

LEMMA CTAt ==
  ASSUME NEW s \in Seq(Node), DistinctKeys(s), NEW j \in DOMAIN s
  PROVE  CT(s)[s[j].key] = s[j].value
<1>1. s[j].key \in KeysOf(s)
  BY DEF KeysOf
<1>. QED
  BY <1>1, ChooseKey DEF CT

(* A function on the keys of the list that gives each node's value is CT. *)
LEMMA CTChar ==
  ASSUME NEW s \in Seq(Node), DistinctKeys(s), NEW f,
         f = [x \in KeysOf(s) |-> f[x]],
         \A j \in DOMAIN s : f[s[j].key] = s[j].value
  PROVE  CT(s) = f
<1>1. \A x \in KeysOf(s) : CT(s)[x] = f[x]
  <2> SUFFICES ASSUME NEW j \in DOMAIN s PROVE CT(s)[s[j].key] = f[s[j].key]
    BY DEF KeysOf
  <2>. QED  BY CTAt
<1>2. CT(s) = [x \in KeysOf(s) |-> CT(s)[x]]
  BY DEF CT
<1>. QED
  BY <1>1, <1>2

(* The refinement mapping of LRU.tla in terms of KS and CT. *)
LEMMA MappingOfList ==
  ASSUME Inv
  PROVE  KeyOrder = KS(lru) /\ Contents = CT(lru)
BY DEF KeyOrder, KS, Contents, CT, IndexOf, Inv, IndexMatchesList

-----------------------------------------------------------------------------
(* Where the nodes of a spliced list come from. *)

LEMMA RemoveAtFrom ==
  ASSUME NEW s \in Seq(Node), NEW i \in 1..Len(s)
  PROVE  \A j \in DOMAIN RemoveAt(s, i) :
            \E p \in DOMAIN s : p # i /\ RemoveAt(s, i)[j] = s[p]
<1>1. /\ RemoveAt(s, i) \in Seq(Node)
      /\ Len(RemoveAt(s, i)) = Len(s) - 1
      /\ \A j \in 1..Len(s) - 1 :
            RemoveAt(s, i)[j] = IF j < i THEN s[j] ELSE s[j + 1]
  BY RemoveAtProps
<1>2. DOMAIN RemoveAt(s, i) = 1..Len(s) - 1 /\ DOMAIN s = 1..Len(s)
  BY <1>1, LenProperties
<1> SUFFICES ASSUME NEW j \in DOMAIN RemoveAt(s, i)
             PROVE  \E p \in DOMAIN s : p # i /\ RemoveAt(s, i)[j] = s[p]
  OBVIOUS
<1>3. CASE j < i
  <2>. j \in DOMAIN s /\ j # i /\ RemoveAt(s, i)[j] = s[j]
    BY <1>1, <1>2, <1>3
  <2>. QED  OBVIOUS
<1>4. CASE ~(j < i)
  <2>. j + 1 \in DOMAIN s /\ j + 1 # i /\ RemoveAt(s, i)[j] = s[j + 1]
    BY <1>1, <1>2, <1>4
  <2>. QED  OBVIOUS
<1>. QED  BY <1>3, <1>4

(* lru_remove_node then lru_add_node_at_head of a node nd for key k. *)
LEMMA MoveToHeadFrom ==
  ASSUME NEW s \in Seq(Node), DistinctKeys(s), NEW i \in 1..Len(s),
         NEW nd \in Node, nd.key = s[i].key
  PROVE  LET t == Cons(nd, RemoveAt(s, i))
         IN  /\ t \in Seq(Node)
             /\ DistinctKeys(t)
             /\ KeysOf(t) = KeysOf(s)
             /\ KS(t) = <<nd.key>> \o Abstract!Drop(KS(s), nd.key)
             /\ t[1] = nd
             /\ \A j \in DOMAIN t :
                   j = 1 \/ \E p \in DOMAIN s : p # i /\ t[j] = s[p]
<1> DEFINE r == RemoveAt(s, i)
           t == Cons(nd, r)
<1>1. /\ r \in Seq(Node)
      /\ KeysOf(r) = KeysOf(s) \ {s[i].key}
      /\ DistinctKeys(r)
  BY RemoveAtProps, KeysRemoveAt
<1>2. nd.key \notin KeysOf(r)
  BY <1>1
<1>3. /\ t \in Seq(Node)
      /\ Len(t) = Len(r) + 1
      /\ t[1] = nd
      /\ \A j \in 2..Len(r) + 1 : t[j] = r[j - 1]
  BY <1>1, ConsProps
<1>4. KeysOf(t) = KeysOf(s) /\ DistinctKeys(t)
  <2>1. KeysOf(t) = KeysOf(r) \cup {nd.key} /\ DistinctKeys(t)
    BY <1>1, <1>2, KeysCons
  <2>2. s[i].key \in KeysOf(s)
    BY DEF KeysOf
  <2>. QED  BY <1>1, <2>1, <2>2
<1>5. KS(t) = <<nd.key>> \o Abstract!Drop(KS(s), nd.key)
  <2>1. KS(t) = <<nd.key>> \o KS(r)
    BY <1>1, KSCons
  <2>2. KS(r) = RemoveAt(KS(s), i)
    BY KSRemoveAt
  <2>3. Abstract!Drop(KS(s), nd.key) = RemoveAt(KS(s), i)
    BY DropAt
  <2>. QED  BY <2>1, <2>2, <2>3
<1>6. \A j \in DOMAIN t : j = 1 \/ \E p \in DOMAIN s : p # i /\ t[j] = s[p]
  <2> SUFFICES ASSUME NEW j \in DOMAIN t, j # 1
               PROVE  \E p \in DOMAIN s : p # i /\ t[j] = s[p]
    OBVIOUS
  <2>1. Len(r) \in Nat /\ DOMAIN t = 1..Len(r) + 1 /\ DOMAIN r = 1..Len(r)
    BY <1>1, <1>3, LenProperties
  <2>2. j - 1 \in DOMAIN r /\ t[j] = r[j - 1]
    BY <2>1, <1>3
  <2>. QED  BY <2>2, RemoveAtFrom
<1>. QED  BY <1>3, <1>4, <1>5, <1>6

-----------------------------------------------------------------------------
(***************************************************************************)
(* While no lru_vacuum runs, no key is pinned: the key argument is set by *)
(* _lru_ass_sub for its own vacuum and cleared when that vacuum returns,  *)
(* and set_size's loop runs with no key at all.                           *)
(***************************************************************************)
KeyIdle == pc # "vacuum" => key = NoKey

RInv == Inv /\ KeyIdle

LEMMA RInvInit == Init => RInv
BY InitInv DEF Init, RInv, KeyIdle

LEMMA RInvNext == RInv /\ [Next]_vars => RInv'
<1> SUFFICES ASSUME RInv, [Next]_vars PROVE RInv'
  OBVIOUS
<1>1. Inv'
  BY NextInv DEF RInv
<1>2. KeyIdle'
  <2>1. CASE \E k \in Keys, v \in Values, m \in Sizes \cup {0} : SetItem(k, v, m)
    BY <2>1 DEF SetItem, SetExisting, SetNew, KeyIdle
  <2>2. CASE VacuumStep \/ VacuumDone
    BY <2>2 DEF VacuumStep, VacuumDone, KeyIdle
  <2>3. CASE \E k \in Keys : DelItem(k) \/ LookupHit(k) \/ LookupMiss(k)
    BY <2>3 DEF DelItem, LookupHit, LookupMiss, KeyIdle, RInv
  <2>4. CASE Clear \/ \E c \in BOOLEAN : SetCallback(c)
    BY <2>4 DEF Clear, SetCallback, KeyIdle, RInv
  <2>5. CASE \E n \in NewSizes : SetSize(n)
    BY <2>5 DEF SetSize, KeyIdle, RInv
  <2>6. CASE ShrinkStep \/ ShrinkDone
    BY <2>6 DEF ShrinkStep, ShrinkDone, KeyIdle, RInv
  <2>7. CASE UNCHANGED vars
    BY <2>7 DEF vars, KeyIdle, RInv
  <2>. QED
    BY <2>1, <2>2, <2>3, <2>4, <2>5, <2>6, <2>7 DEF Next, SizeModeNext
<1>. QED  BY <1>1, <1>2 DEF RInv

-----------------------------------------------------------------------------
(* The mapping after a step, once the dict and the list agree again. *)
LEMMA MappingPrimed ==
  ASSUME dict' = KeysOf(lru')
  PROVE  KeyOrder' = KS(lru') /\ Contents' = CT(lru')
BY DEF KeyOrder, KS, Contents, CT, IndexOf

(* A step that leaves the list and the dict alone leaves the map alone. *)
LEMMA MappingUnchanged ==
  ASSUME Inv, lru' = lru, dict' = dict
  PROVE  KeyOrder' = KeyOrder /\ Contents' = Contents
<1>1. dict = KeysOf(lru)
  BY InvFacts
<1>2. KeyOrder' = KS(lru') /\ Contents' = CT(lru')
  BY <1>1, MappingPrimed
<1>. QED  BY <1>2, MappingOfList

(* _lru_ass_sub on a cached key is a Put of AbstractLRU. *)
LEMMA SetExistingRefines ==
  ASSUME Inv, NEW k \in Keys, NEW v \in Values, NEW m \in Sizes \cup {0},
         SetExisting(k, v, m)
  PROVE  Abstract!Put(k, v)
<1> DEFINE i == IndexOf(k)
           nd == [key |-> k, value |-> v, size |-> m]
           t == Cons(nd, RemoveAt(lru, i))
<1>1. /\ TypeOK /\ IndexMatchesList
      /\ lru \in Seq(Node) /\ dict = KeysOf(lru) /\ DistinctKeys(lru)
  BY InvFacts DEF Inv
<1>2. k \in dict
  BY DEF SetExisting
<1>3. i \in 1..Len(lru) /\ lru[i].key = k
  BY <1>1, <1>2, IndexOfProps
<1>4. nd \in Node /\ nd.key = lru[i].key
  BY <1>3 DEF Node
<1>5. lru' = t /\ dict' = dict /\ pc = "idle" /\ pc' = "vacuum" /\ key' = k
  BY DEF SetExisting, MoveToHead
<1>6. /\ t \in Seq(Node)
      /\ DistinctKeys(t)
      /\ KeysOf(t) = KeysOf(lru)
      /\ KS(t) = <<nd.key>> \o Abstract!Drop(KS(lru), nd.key)
      /\ t[1] = nd
      /\ \A j \in DOMAIN t :
            j = 1 \/ \E p \in DOMAIN lru : p # i /\ t[j] = lru[p]
  BY <1>1, <1>3, <1>4, MoveToHeadFrom
<1>7. KeyOrder = KS(lru) /\ Contents = CT(lru)
  BY MappingOfList
<1>8. KeyOrder' = KS(t) /\ Contents' = CT(t)
  BY <1>1, <1>5, <1>6, MappingPrimed
<1>9. KeyOrder' = <<k>> \o Abstract!Drop(KeyOrder, k)
  BY <1>6, <1>7, <1>8
<1>10. Contents' = [x \in DOMAIN Contents \cup {k} |->
                      IF x = k THEN v ELSE Contents[x]]
  <2> DEFINE f == [x \in DOMAIN Contents \cup {k} |->
                     IF x = k THEN v ELSE Contents[x]]
  <2>1. DOMAIN Contents \cup {k} = KeysOf(t)
    BY <1>1, <1>2, <1>6 DEF Contents
  <2>2. f = [x \in KeysOf(t) |-> f[x]]
    BY <2>1
  <2>3. \A j \in DOMAIN t : f[t[j].key] = t[j].value
    <3> SUFFICES ASSUME NEW j \in DOMAIN t PROVE f[t[j].key] = t[j].value
      OBVIOUS
    <3>1. CASE j = 1
      BY <3>1, <1>6, <2>1
    <3>2. CASE j # 1
      <4>1. PICK p \in DOMAIN lru : p # i /\ t[j] = lru[p]
        BY <3>2, <1>6
      <4>2. lru[p].key # k /\ lru[p].key \in KeysOf(t)
        BY <4>1, <1>1, <1>3, <1>6 DEF DistinctKeys, KeysOf
      <4>3. Contents[lru[p].key] = lru[p].value
        BY <1>1, <1>7, CTAt
      <4>. QED  BY <4>1, <4>2, <4>3, <2>1
    <3>. QED  BY <3>1, <3>2
  <2>4. CT(t) = f
    <3> HIDE DEF f
    <3>. QED  BY <1>6, <2>2, <2>3, CTChar
  <2>. QED  BY <2>4, <1>8
<1>. QED
  BY <1>5, <1>9, <1>10 DEF Abstract!Put, Abstract!Promote

(* _lru_ass_sub on a key not cached is a Put of AbstractLRU. *)
LEMMA SetNewRefines ==
  ASSUME Inv, NEW k \in Keys, NEW v \in Values, NEW m \in Sizes \cup {0},
         SetNew(k, v, m)
  PROVE  Abstract!Put(k, v)
<1> DEFINE nd == [key |-> k, value |-> v, size |-> m]
           t == Cons(nd, lru)
<1>1. /\ lru \in Seq(Node) /\ dict = KeysOf(lru) /\ DistinctKeys(lru)
  BY InvFacts
<1>2. k \notin KeysOf(lru) /\ nd \in Node
  BY <1>1 DEF SetNew, Node
<1>3. lru' = t /\ dict' = dict \cup {k} /\ pc = "idle" /\ pc' = "vacuum"
      /\ key' = k
  BY DEF SetNew
<1>4. KeysOf(t) = KeysOf(lru) \cup {k} /\ DistinctKeys(t)
  BY <1>1, <1>2, KeysCons
<1>5. /\ t \in Seq(Node)
      /\ Len(t) = Len(lru) + 1
      /\ t[1] = nd
      /\ \A j \in 2..Len(lru) + 1 : t[j] = lru[j - 1]
  <2>1. t \in Seq(Node) /\ Len(t) = Len(lru) + 1 /\ t[1] = nd
    BY <1>1, <1>2, ConsProps
  <2>2. \A j \in 2..Len(lru) + 1 : t[j] = lru[j - 1]
    BY <1>1, <1>2, ConsAt
  <2>. QED  BY <2>1, <2>2
<1>6. KeyOrder = KS(lru) /\ Contents = CT(lru)
  BY MappingOfList
<1>7. KeyOrder' = KS(t) /\ Contents' = CT(t)
  BY <1>1, <1>3, <1>4, MappingPrimed
<1>8. KeyOrder' = <<k>> \o Abstract!Drop(KeyOrder, k)
  <2>1. KS(t) = <<k>> \o KS(lru)
    BY <1>1, <1>2, KSCons
  <2>2. Abstract!Drop(KS(lru), k) = KS(lru)
    BY <1>1, <1>2, DropAbsent
  <2>. QED  BY <1>6, <1>7, <2>1, <2>2
<1>9. Contents' = [x \in DOMAIN Contents \cup {k} |->
                     IF x = k THEN v ELSE Contents[x]]
  <2> DEFINE f == [x \in DOMAIN Contents \cup {k} |->
                     IF x = k THEN v ELSE Contents[x]]
  <2>1. DOMAIN Contents \cup {k} = KeysOf(t)
    BY <1>1, <1>4 DEF Contents
  <2>2. f = [x \in KeysOf(t) |-> f[x]]
    BY <2>1
  <2>3. \A j \in DOMAIN t : f[t[j].key] = t[j].value
    <3> SUFFICES ASSUME NEW j \in DOMAIN t PROVE f[t[j].key] = t[j].value
      OBVIOUS
    <3>0. Len(lru) \in Nat /\ DOMAIN t = 1..Len(lru) + 1
          /\ DOMAIN lru = 1..Len(lru)
      BY <1>1, <1>5, LenProperties
    <3>1. CASE j = 1
      BY <3>1, <1>5, <2>1
    <3>2. CASE j # 1
      <4>1. j - 1 \in DOMAIN lru /\ t[j] = lru[j - 1]
        BY <3>0, <3>2, <1>5
      <4>2. lru[j - 1].key # k /\ lru[j - 1].key \in KeysOf(t)
        BY <4>1, <1>2, <2>1 DEF KeysOf
      <4>3. Contents[lru[j - 1].key] = lru[j - 1].value
        BY <4>1, <1>1, <1>6, CTAt
      <4>. QED  BY <4>1, <4>2, <4>3, <2>1
    <3>. QED  BY <3>1, <3>2
  <2>4. CT(t) = f
    <3> HIDE DEF f
    <3>. QED  BY <1>4, <1>5, <2>2, <2>3, CTChar
  <2>. QED  BY <2>4, <1>7
<1>. QED
  BY <1>3, <1>8, <1>9 DEF Abstract!Put, Abstract!Promote

(* LRU_get of a cached key is a Touch of AbstractLRU. *)
LEMMA LookupHitRefines ==
  ASSUME Inv, NEW k \in Keys, LookupHit(k)
  PROVE  Abstract!Touch(k)
<1> DEFINE i == IndexOf(k)
           t == Cons(lru[i], RemoveAt(lru, i))
<1>1. /\ TypeOK /\ IndexMatchesList
      /\ lru \in Seq(Node) /\ dict = KeysOf(lru) /\ DistinctKeys(lru)
  BY InvFacts DEF Inv
<1>2. k \in dict
  BY DEF LookupHit
<1>3. i \in 1..Len(lru) /\ lru[i].key = k
  BY <1>1, <1>2, IndexOfProps
<1>4. lru[i] \in Node
  BY <1>1, <1>3, ElementOfSeq
<1>5. lru' = t /\ dict' = dict /\ pc = "idle" /\ pc' = pc /\ key' = key
  BY DEF LookupHit, MoveToHead
<1>6. /\ t \in Seq(Node)
      /\ DistinctKeys(t)
      /\ KeysOf(t) = KeysOf(lru)
      /\ KS(t) = <<lru[i].key>> \o Abstract!Drop(KS(lru), lru[i].key)
      /\ t[1] = lru[i]
      /\ \A j \in DOMAIN t :
            j = 1 \/ \E p \in DOMAIN lru : p # i /\ t[j] = lru[p]
  BY <1>1, <1>3, <1>4, MoveToHeadFrom
<1>7. KeyOrder = KS(lru) /\ Contents = CT(lru)
  BY MappingOfList
<1>8. KeyOrder' = KS(t) /\ Contents' = CT(t)
  BY <1>1, <1>5, <1>6, MappingPrimed
<1>9. KeyOrder' = <<k>> \o Abstract!Drop(KeyOrder, k)
  BY <1>3, <1>6, <1>7, <1>8
<1>10. Contents' = Contents
  <2>1. Contents = [x \in KeysOf(t) |-> Contents[x]]
    BY <1>1, <1>6 DEF Contents
  <2>2. \A j \in DOMAIN t : Contents[t[j].key] = t[j].value
    <3> SUFFICES ASSUME NEW j \in DOMAIN t
                 PROVE  Contents[t[j].key] = t[j].value
      OBVIOUS
    <3>1. PICK p \in DOMAIN lru : t[j] = lru[p]
      BY <1>3, <1>6
    <3>2. Contents[lru[p].key] = lru[p].value
      BY <1>1, <1>7, CTAt
    <3>. QED  BY <3>1, <3>2
  <2>. QED  BY <1>6, <1>8, <2>1, <2>2, CTChar
<1>11. k \in DOMAIN Contents
  BY <1>2 DEF Contents
<1>. QED
  BY <1>5, <1>9, <1>10, <1>11 DEF Abstract!Touch, Abstract!Promote

(* del l[key] of a cached key is a Delete of AbstractLRU. *)
LEMMA DelItemRefines ==
  ASSUME Inv, NEW k \in Keys, DelItem(k)
  PROVE  Abstract!Delete(k)
<1> DEFINE i == IndexOf(k)
           t == RemoveAt(lru, i)
<1>1. /\ TypeOK /\ IndexMatchesList
      /\ lru \in Seq(Node) /\ dict = KeysOf(lru) /\ DistinctKeys(lru)
  BY InvFacts DEF Inv
<1>2. k \in dict
  BY DEF DelItem
<1>3. i \in 1..Len(lru) /\ lru[i].key = k
  BY <1>1, <1>2, IndexOfProps
<1>4. lru' = t /\ dict' = dict \ {k} /\ pc = "idle" /\ pc' = pc
      /\ key' = key
  BY DEF DelItem
<1>5. /\ t \in Seq(Node)
      /\ KeysOf(t) = KeysOf(lru) \ {k}
      /\ DistinctKeys(t)
  BY <1>1, <1>3, RemoveAtProps, KeysRemoveAt
<1>6. KeyOrder = KS(lru) /\ Contents = CT(lru)
  BY MappingOfList
<1>7. KeyOrder' = KS(t) /\ Contents' = CT(t)
  BY <1>1, <1>4, <1>5, MappingPrimed
<1>8. KeyOrder' = Abstract!Drop(KeyOrder, k)
  <2>1. KS(t) = RemoveAt(KS(lru), i)
    BY <1>1, <1>3, KSRemoveAt
  <2>2. Abstract!Drop(KS(lru), k) = RemoveAt(KS(lru), i)
    BY <1>1, <1>3, DropAt
  <2>. QED  BY <1>6, <1>7, <2>1, <2>2
<1>9. Contents' = Restrict(Contents, DOMAIN Contents \ {k})
  <2> DEFINE f == Restrict(Contents, DOMAIN Contents \ {k})
  <2>1. DOMAIN Contents \ {k} = KeysOf(t)
    BY <1>1, <1>5 DEF Contents
  <2>2. f = [x \in KeysOf(t) |-> f[x]]
    BY <2>1 DEF Restrict
  <2>3. \A j \in DOMAIN t : f[t[j].key] = t[j].value
    <3> SUFFICES ASSUME NEW j \in DOMAIN t PROVE f[t[j].key] = t[j].value
      OBVIOUS
    <3>1. PICK p \in DOMAIN lru : p # i /\ t[j] = lru[p]
      BY <1>1, <1>3, RemoveAtFrom
    <3>2. lru[p].key \in KeysOf(t)
      BY <3>1, <1>1, <1>3, <1>5 DEF DistinctKeys, KeysOf
    <3>3. Contents[lru[p].key] = lru[p].value
      BY <1>1, <1>6, CTAt
    <3>. QED  BY <3>1, <3>2, <3>3, <2>1 DEF Restrict
  <2>. QED  BY <1>5, <1>7, <2>2, <2>3, CTChar
<1>10. k \in DOMAIN Contents
  BY <1>2 DEF Contents
<1>. QED
  BY <1>4, <1>8, <1>9, <1>10, AbstractOps DEF Abstract!Delete

(* lru_delete_last maps to taking the last key out of the abstract map. *)
LEMMA DeleteLastRefines ==
  ASSUME Inv, lru # << >>, DeleteLast
  PROVE  /\ KeyOrder # << >>
         /\ Last(KeyOrder) = Last(lru).key
         /\ KeyOrder' = Front(KeyOrder)
         /\ Contents' = Restrict(Contents, DOMAIN Contents \ {Last(KeyOrder)})
<1> DEFINE t == Front(lru)
           n == Len(lru)
<1>1. /\ lru \in Seq(Node) /\ dict = KeysOf(lru) /\ DistinctKeys(lru)
  BY InvFacts
<1>2. /\ t \in Seq(Node)
      /\ Len(t) = n - 1
      /\ \A j \in 1..n - 1 : t[j] = lru[j]
      /\ Last(lru) \in Node
  BY <1>1, FrontProps
<1>3. KeysOf(t) = KeysOf(lru) \ {Last(lru).key} /\ DistinctKeys(t)
  BY <1>1, KeysFront
<1>4. lru' = t /\ dict' = dict \ {Last(lru).key}
  BY DEF DeleteLast
<1>5. KeyOrder = KS(lru) /\ Contents = CT(lru)
  BY MappingOfList
<1>6. KeyOrder' = KS(t) /\ Contents' = CT(t)
  BY <1>1, <1>3, <1>4, MappingPrimed
<1>7. /\ KS(t) = Front(KS(lru))
      /\ KS(lru) # << >>
      /\ Last(KS(lru)) = Last(lru).key
  BY <1>1, KSFront
<1>8. Contents' = Restrict(Contents, DOMAIN Contents \ {Last(lru).key})
  <2> DEFINE f == Restrict(Contents, DOMAIN Contents \ {Last(lru).key})
  <2>1. DOMAIN Contents \ {Last(lru).key} = KeysOf(t)
    BY <1>1, <1>3 DEF Contents
  <2>2. f = [x \in KeysOf(t) |-> f[x]]
    BY <2>1 DEF Restrict
  <2>3. \A j \in DOMAIN t : f[t[j].key] = t[j].value
    <3> SUFFICES ASSUME NEW j \in DOMAIN t PROVE f[t[j].key] = t[j].value
      OBVIOUS
    <3>0. n \in Nat /\ DOMAIN t = 1..n - 1 /\ DOMAIN lru = 1..n
      BY <1>1, <1>2, LenProperties
    <3>1. j \in DOMAIN lru /\ t[j] = lru[j]
      BY <3>0, <1>2
    <3>2. lru[j].key \in KeysOf(t)
      BY <3>1, <1>2 DEF KeysOf
    <3>3. Contents[lru[j].key] = lru[j].value
      BY <3>1, <1>1, <1>5, CTAt
    <3>. QED  BY <3>1, <3>2, <3>3, <2>1 DEF Restrict
  <2>4. CT(t) = f
    <3>1. t \in Seq(Node) /\ DistinctKeys(t)
      BY <1>2, <1>3
    <3> HIDE DEF f, t, n
    <3>. QED  BY <3>1, <2>2, <2>3, CTChar
  <2>. QED  BY <2>4, <1>6
<1>. QED  BY <1>5, <1>6, <1>7, <1>8

(* One iteration of lru_vacuum, when it does not evict the key being set, *)
(* is an EvictTail of AbstractLRU.                                        *)
LEMMA VacuumStepRefines ==
  ASSUME Inv, VacuumStep, SetKeyNotSelfEvicted'
  PROVE  Abstract!EvictTail
<1>1. lru # << >> /\ DeleteLast /\ pc = "vacuum" /\ pc' = pc /\ key' = key
  BY DEF VacuumStep
<1>2. /\ KeyOrder # << >>
      /\ Last(KeyOrder) = Last(lru).key
      /\ KeyOrder' = Front(KeyOrder)
      /\ Contents' = Restrict(Contents, DOMAIN Contents \ {Last(KeyOrder)})
  BY <1>1, DeleteLastRefines
<1>3. Last(lru).key # key
  BY <1>1 DEF SetKeyNotSelfEvicted, DeleteLast
<1>. QED  BY <1>1, <1>2, <1>3, AbstractOps DEF Abstract!EvictTail

(* One iteration of set_size's loop is an EvictTail of AbstractLRU: no   *)
(* key is pinned while it runs.                                           *)
LEMMA ShrinkStepRefines ==
  ASSUME RInv, ShrinkStep
  PROVE  Abstract!EvictTail
<1>1. lru # << >> /\ DeleteLast /\ pc = "shrink" /\ pc' = pc /\ key' = key
  BY DEF ShrinkStep
<1>2. /\ KeyOrder # << >>
      /\ Last(KeyOrder) = Last(lru).key
      /\ KeyOrder' = Front(KeyOrder)
      /\ Contents' = Restrict(Contents, DOMAIN Contents \ {Last(KeyOrder)})
  BY <1>1, DeleteLastRefines DEF RInv
<1>3. Last(lru) \in Node
  BY <1>1, FrontProps, InvFacts DEF RInv
<1>4. Last(lru).key \in Keys
  BY <1>3 DEF Node
<1>5. key = NoKey
  BY <1>1 DEF RInv, KeyIdle
<1>. QED  BY <1>1, <1>2, <1>4, <1>5, KeysAssumption, AbstractOps
          DEF Abstract!EvictTail

(* LRU_clear is an AClear of AbstractLRU. *)
LEMMA ClearRefines ==
  ASSUME Clear
  PROVE  Abstract!AClear
<1>1. KeyOrder' = << >>
  BY DEF Clear, KeyOrder
<1>2. Contents' = << >>
  BY DEF Clear, Contents
<1>. QED  BY <1>1, <1>2 DEF Clear, Abstract!AClear

(* set_size(n) entering its loop is a Resize of AbstractLRU. *)
LEMMA SetSizeRefines ==
  ASSUME NEW n \in NewSizes, SetSize(n)
  PROVE  Abstract!Resize
BY DEF SetSize, Abstract!Resize, KeyOrder, Contents, IndexOf

(* lru_vacuum and set_size returning are a Return of AbstractLRU. *)
LEMMA DoneRefines ==
  ASSUME RInv, VacuumDone \/ ShrinkDone
  PROVE  Abstract!Return
<1>1. /\ lru' = lru /\ dict' = dict
      /\ pc # "idle" /\ pc' = "idle" /\ key' = NoKey
  BY DEF VacuumDone, ShrinkDone, RInv, KeyIdle
<1>2. KeyOrder' = KeyOrder /\ Contents' = Contents
  BY <1>1, MappingUnchanged DEF RInv
<1>. QED  BY <1>1, <1>2 DEF Abstract!Return

(* Lookups that miss, set_callback and stuttering leave the map as it is. *)
LEMMA StutterRefines ==
  ASSUME Inv,
         \/ \E k \in Keys : LookupMiss(k)
         \/ \E c \in BOOLEAN : SetCallback(c)
         \/ UNCHANGED vars
  PROVE  UNCHANGED Abstract!avars
<1>1. lru' = lru /\ dict' = dict /\ pc' = pc /\ key' = key
  BY DEF LookupMiss, SetCallback, vars
<1>2. KeyOrder' = KeyOrder /\ Contents' = Contents
  BY <1>1, MappingUnchanged
<1>. QED  BY <1>1, <1>2 DEF Abstract!avars

-----------------------------------------------------------------------------
(* LRU_init is an AInit of AbstractLRU. *)
LEMMA InitRefines == Init => Abstract!AInit
BY DEF Init, Abstract!AInit, KeyOrder, Contents

(* Every step of the cache, if it does not evict the key being set, is a  *)
(* step of AbstractLRU or leaves the map unchanged.                      *)
LEMMA StepRefines ==
  ASSUME RInv, [Next]_vars, SetKeyNotSelfEvicted'
  PROVE  [Abstract!ANext]_Abstract!avars
<1>0. Inv
  BY DEF RInv
<1>1. CASE \E k \in Keys, v \in Values, m \in Sizes \cup {0} : SetItem(k, v, m)
  <2>1. PICK k \in Keys, v \in Values, m \in Sizes \cup {0} : SetItem(k, v, m)
    BY <1>1
  <2>2. Abstract!Put(k, v)
    BY <1>0, <2>1, SetExistingRefines, SetNewRefines DEF SetItem
  <2>. QED  BY <2>2 DEF Abstract!ANext
<1>2. CASE VacuumStep
  BY <1>0, <1>2, VacuumStepRefines DEF Abstract!ANext
<1>3. CASE ShrinkStep
  BY <1>3, ShrinkStepRefines DEF Abstract!ANext
<1>4. CASE VacuumDone \/ ShrinkDone
  BY <1>4, DoneRefines DEF Abstract!ANext
<1>5. CASE \E k \in Keys : LookupHit(k)
  BY <1>0, <1>5, LookupHitRefines DEF Abstract!ANext
<1>6. CASE \E k \in Keys : DelItem(k)
  BY <1>0, <1>6, DelItemRefines DEF Abstract!ANext
<1>7. CASE Clear
  BY <1>7, ClearRefines DEF Abstract!ANext
<1>8. CASE \E n \in NewSizes : SetSize(n)
  BY <1>8, SetSizeRefines DEF Abstract!ANext
<1>9. CASE \/ \E k \in Keys : LookupMiss(k)
           \/ \E c \in BOOLEAN : SetCallback(c)
           \/ UNCHANGED vars
  BY <1>0, <1>9, StutterRefines
<1>. QED
  BY <1>1, <1>2, <1>3, <1>4, <1>5, <1>6, <1>7, <1>8, <1>9
  DEF Next, SizeModeNext

-----------------------------------------------------------------------------
(***************************************************************************)
(* THEOREM RefinementUnlessSelfEvicted.  In every behaviour of the cache  *)
(* (LRU.set, dict assignment and set_size mixed) in which lru_vacuum      *)
(* never evicts the key its _lru_ass_sub has just written, the cache      *)
(* implements AbstractLRU: its recency list and dict seen as a recency    *)
(* order and a map make only the moves the spec promises, evictions only  *)
(* ever take the least recently used key.  The hypothesis is needed: the  *)
(* nullderef run shows a vacuum, after set_size has let memory drift      *)
(* above a smaller size, evicting the key it was called for.              *)
(***************************************************************************)
THEOREM RefinementUnlessSelfEvicted ==
  Spec /\ []SetKeyNotSelfEvicted => Abstract!ASpec
<1>1. Spec => []RInv
  BY RInvInit, RInvNext, PTL DEF Spec
<1>2. RInv /\ [Next]_vars /\ SetKeyNotSelfEvicted'
        => [Abstract!ANext]_Abstract!avars
  BY StepRefines
<1>. QED
  BY <1>1, <1>2, InitRefines, PTL DEF Spec, Abstract!ASpec

-----------------------------------------------------------------------------
(***************************************************************************)
(* Count mode: every node has size 0 (dict assignment only), so memory    *)
(* stays 0, no lru_vacuum iteration ever runs, and the key an             *)
(* _lru_ass_sub has written is still cached while its vacuum runs.        *)
(***************************************************************************)
CountInv == Inv /\ memory = 0 /\ SetKeyNotSelfEvicted

LEMMA CountInvInit == Init => CountInv
BY InitInv DEF Init, CountInv, SetKeyNotSelfEvicted

LEMMA CountInvNext ==
  ASSUME Sizes \subseteq {0}
  PROVE  CountInv /\ [Next]_vars => CountInv'
<1> SUFFICES ASSUME CountInv, [Next]_vars PROVE CountInv'
  OBVIOUS
<1>0. Inv /\ memory = 0
  BY DEF CountInv
<1>1. Inv'
  BY <1>0, NextInv
<1>2. \A nd \in Node : nd.size = 0
  BY DEF Node
<1>3. (memory = 0)' /\ SetKeyNotSelfEvicted'
  <2>1. CASE \E k \in Keys, v \in Values, m \in Sizes \cup {0} :
               SetExisting(k, v, m)
    <3>1. PICK k \in Keys, v \in Values, m \in Sizes \cup {0} :
                 SetExisting(k, v, m)
      BY <2>1
    <3>2. k \in dict /\ IndexOf(k) \in 1..Len(lru)
      BY <3>1, <1>0, IndexOfProps DEF SetExisting, Inv
    <3>3. lru[IndexOf(k)] \in Node
      BY <3>2, <1>0, ElementOfSeq, InvFacts
    <3>4. lru[IndexOf(k)].size = 0 /\ m = 0
      BY <3>3, <1>2
    <3>. QED  BY <1>0, <3>1, <3>2, <3>4 DEF SetExisting, SetKeyNotSelfEvicted
  <2>2. CASE \E k \in Keys, v \in Values, m \in Sizes \cup {0} :
               SetNew(k, v, m)
    BY <2>2, <1>0 DEF SetNew, SetKeyNotSelfEvicted
  <2>3. CASE VacuumStep
    <3>1. size \in Nat \ {0}
      BY <1>0, InvFacts DEF TypeOK
    <3>. QED  BY <2>3, <3>1, <1>0 DEF VacuumStep
  <2>4. CASE \E k \in Keys : DelItem(k)
    <3>1. PICK k \in Keys : DelItem(k)
      BY <2>4
    <3>2. IndexOf(k) \in 1..Len(lru)
      BY <3>1, <1>0, IndexOfProps DEF DelItem, Inv
    <3>3. lru[IndexOf(k)] \in Node
      BY <3>2, <1>0, ElementOfSeq, InvFacts
    <3>. QED  BY <3>1, <3>3, <1>0, <1>2 DEF DelItem, SetKeyNotSelfEvicted
  <2>5. CASE \/ VacuumDone \/ Clear \/ ShrinkStep \/ ShrinkDone
             \/ \E n \in NewSizes : SetSize(n)
    BY <2>5, <1>0 DEF VacuumDone, Clear, ShrinkStep, ShrinkDone, SetSize,
                      SetKeyNotSelfEvicted
  <2>6. CASE \E k \in Keys : LookupHit(k)
    BY <2>6, <1>0 DEF LookupHit, SetKeyNotSelfEvicted
  <2>7. CASE \E k \in Keys : LookupMiss(k)
    BY <2>7, <1>0 DEF LookupMiss, SetKeyNotSelfEvicted
  <2>8. CASE \E c \in BOOLEAN : SetCallback(c)
    BY <2>8, <1>0 DEF SetCallback, SetKeyNotSelfEvicted
  <2>9. CASE UNCHANGED vars
    BY <2>9, <1>0 DEF vars, SetKeyNotSelfEvicted, CountInv
  <2>. QED
    BY <2>1, <2>2, <2>3, <2>4, <2>5, <2>6, <2>7, <2>8, <2>9
    DEF Next, SizeModeNext, SetItem
<1>. QED  BY <1>1, <1>3 DEF CountInv

(***************************************************************************)
(* THEOREM CountModeKeyKept.  In count mode, while lru_vacuum runs for an *)
(* _lru_ass_sub, the key it wrote is in the dict: the borrowed reference  *)
(* that _lru_ass_sub hands back is never to a node it has freed.          *)
(***************************************************************************)
THEOREM CountModeKeyKept ==
  ASSUME Sizes \subseteq {0}
  PROVE  Spec => []SetKeyNotSelfEvicted
<1>1. Spec => []CountInv
  BY CountInvInit, CountInvNext, PTL DEF Spec
<1>. QED  BY <1>1, PTL DEF CountInv

(***************************************************************************)
(* THEOREM CountModeRefinement.  A cache used in count mode, with dict    *)
(* assignment and set_size, implements AbstractLRU: the property          *)
(* ImplementsAbstract that the count run checks, for every set of keys,   *)
(* values and capacities.                                                  *)
(***************************************************************************)
THEOREM CountModeRefinement ==
  ASSUME Sizes \subseteq {0}
  PROVE  Spec => ImplementsAbstract
<1>1. Spec => []SetKeyNotSelfEvicted
  BY CountModeKeyKept
<1>. QED  BY <1>1, RefinementUnlessSelfEvicted DEF ImplementsAbstract

=============================================================================
