----------------------------- MODULE LRU_proofs -----------------------------
(***************************************************************************)
(* Proofs about the eviction engine of LRU, for every value of the        *)
(* constants: type correctness, invariant 1 (the dict and the recency     *)
(* list hold the same keys, each once) and, in size mode with             *)
(* non-negative sizes, invariant 4 (memory within size between calls).    *)
(*                                                                         *)
(* Neither is inductive alone.  TypeOK needs IndexMatchesList because the *)
(* operations on an existing key read the node at IndexOf(k), which is   *)
(* a position of the list only when k, being in the dict, is also in the  *)
(* list; it also needs ShrinkArgPositive, because the loop of set_size    *)
(* ends by storing its argument in self->size.  IndexMatchesList needs    *)
(* TypeOK for the shapes of the sequences.  Their conjunction Inv is      *)
(* inductive.                                                             *)
(***************************************************************************)
EXTENDS LRU, SequenceTheorems, TLAPS

(* No two nodes of a list have the same key. *)
DistinctKeys(s) == \A i, j \in DOMAIN s : i # j => s[i].key # s[j].key

(* While the loop of set_size runs, its argument has passed the check. *)
ShrinkArgPositive == pc = "shrink" => newSize \in Nat \ {0}

Inv == TypeOK /\ IndexMatchesList /\ ShrinkArgPositive

-----------------------------------------------------------------------------
(* The sequence operators of SequencesExt the actions use. *)

LEMMA ConsProps ==
  ASSUME NEW S, NEW e \in S, NEW s \in Seq(S)
  PROVE  /\ Cons(e, s) \in Seq(S)
         /\ Len(Cons(e, s)) = Len(s) + 1
         /\ Cons(e, s)[1] = e
         /\ \A j \in 2..Len(s) + 1 : Cons(e, s)[j] = s[j - 1]
BY ConcatProperties DEF Cons

LEMMA RemoveAtProps ==
  ASSUME NEW S, NEW s \in Seq(S), NEW i \in 1..Len(s)
  PROVE  /\ RemoveAt(s, i) \in Seq(S)
         /\ Len(RemoveAt(s, i)) = Len(s) - 1
         /\ \A j \in 1..Len(s) - 1 :
               RemoveAt(s, i)[j] = IF j < i THEN s[j] ELSE s[j + 1]
<1> DEFINE A == SubSeq(s, 1, i - 1)
           B == SubSeq(s, i + 1, Len(s))
<1>0. \A j \in 1..Len(s) : s[j] \in S
  BY ElementOfSeq
<1>1. /\ A \in Seq(S)
      /\ Len(A) = i - 1
      /\ \A j \in 1..i - 1 : A[j] = s[j]
  BY <1>0, SubSeqProperties
<1>2. /\ B \in Seq(S)
      /\ Len(B) = Len(s) - i
      /\ \A j \in 1..Len(s) - i : B[j] = s[i + j]
  <2>1. \A j \in i + 1..Len(s) : s[j] \in S
    BY <1>0
  <2>. QED  BY <2>1, SubSeqProperties
<1>3. \A j \in 1..Len(A) + Len(B) :
            (A \o B)[j] = IF j <= Len(A) THEN A[j] ELSE B[j - Len(A)]
  BY <1>1, <1>2, ConcatProperties
<1>4. Len(s) \in Nat
  BY LenProperties
<1> HIDE DEF A, B
<1>5. ASSUME NEW j \in 1..Len(s) - 1, j < i PROVE (A \o B)[j] = s[j]
  BY <1>1, <1>3, <1>4, <1>5
<1>6. ASSUME NEW j \in 1..Len(s) - 1, ~(j < i) PROVE (A \o B)[j] = s[j + 1]
  <2>1. j - Len(A) \in 1..Len(s) - i /\ i + (j - Len(A)) = j + 1 /\ j \in 1..Len(A) + Len(B) /\ ~(j <= Len(A))
    BY <1>1, <1>2, <1>4, <1>6
  <2>2. B[j - Len(A)] = s[j + 1]
    BY <2>1, <1>2
  <2>3. (A \o B)[j] = B[j - Len(A)]
    BY <2>1, <1>3
  <2>. QED BY <2>2, <2>3
<1>7. \A j \in 1..Len(s) - 1 : (A \o B)[j] = IF j < i THEN s[j] ELSE s[j + 1]
  <2> SUFFICES ASSUME NEW j \in 1..Len(s) - 1
               PROVE  (A \o B)[j] = IF j < i THEN s[j] ELSE s[j + 1]
    OBVIOUS
  <2>1. CASE j < i
    <3>1. (A \o B)[j] = s[j]  BY <2>1, <1>5
    <3>. QED  BY <3>1, <2>1
  <2>2. CASE ~(j < i)
    <3>1. (A \o B)[j] = s[j + 1]  BY <2>2, <1>6, Zenon
    <3>. QED  BY <3>1, <2>2
  <2>. QED  BY <2>1, <2>2
<1>8. /\ A \o B \in Seq(S)
      /\ Len(A \o B) = Len(s) - 1
  <2>1. A \o B \in Seq(S) /\ Len(A \o B) = Len(A) + Len(B)
    BY <1>1, <1>2, ConcatProperties, Zenon
  <2>. QED  BY <2>1, <1>1, <1>2, <1>4
<1>. QED
  BY <1>7, <1>8 DEF RemoveAt, A, B

LEMMA FrontProps ==
  ASSUME NEW S, NEW s \in Seq(S), s # << >>
  PROVE  /\ Front(s) \in Seq(S)
         /\ Len(Front(s)) = Len(s) - 1
         /\ \A j \in 1..Len(s) - 1 : Front(s)[j] = s[j]
         /\ Last(s) \in S
<1>0. Len(s) \in Nat \ {0}
  BY EmptySeq
<1> DEFINE n == Len(s) - 1
<1>1. n \in Nat /\ \A j \in 1..n : s[j] \in S
  BY <1>0, ElementOfSeq
<1> HIDE DEF n
<1>2. /\ SubSeq(s, 1, n) \in Seq(S)
      /\ Len(SubSeq(s, 1, n)) = IF 1 <= n THEN n - 1 + 1 ELSE 0
      /\ \A j \in 1..n - 1 + 1 : SubSeq(s, 1, n)[j] = s[1 + j - 1]
  BY <1>1, SubSeqProperties
<1>3. Len(SubSeq(s, 1, n)) = n /\ \A j \in 1..n : SubSeq(s, 1, n)[j] = s[j]
  BY <1>1, <1>2
<1>4. Last(s) \in S
  BY <1>0, ElementOfSeq DEF Last
<1>. QED
  BY <1>2, <1>3, <1>4 DEF Front, n

-----------------------------------------------------------------------------
(* How the keys of the list change under the three splices. *)

LEMMA KeysCons ==
  ASSUME NEW s \in Seq(Node), NEW e \in Node, DistinctKeys(s),
         e.key \notin KeysOf(s)
  PROVE  /\ KeysOf(Cons(e, s)) = KeysOf(s) \cup {e.key}
         /\ DistinctKeys(Cons(e, s))
<1>1. /\ Cons(e, s) \in Seq(Node)
      /\ Len(Cons(e, s)) = Len(s) + 1
      /\ Cons(e, s)[1] = e
      /\ \A j \in 2..Len(s) + 1 : Cons(e, s)[j] = s[j - 1]
  <2>1. Cons(e, s) \in Seq(Node)  BY ConsProps
  <2>2. Len(Cons(e, s)) = Len(s) + 1  BY ConsProps
  <2>3. Cons(e, s)[1] = e  BY ConsProps
  <2>4. \A j \in 2..Len(s) + 1 : Cons(e, s)[j] = s[j - 1]  BY ConsProps
  <2>. QED  BY <2>1, <2>2, <2>3, <2>4
<1> DEFINE c == Cons(e, s)
<1>0. DOMAIN c = 1..Len(s) + 1 /\ DOMAIN s = 1..Len(s) /\ Len(s) \in Nat
  BY <1>1, LenProperties
<1>2. \A j \in DOMAIN c : c[j].key \in KeysOf(s) \cup {e.key}
  <2> SUFFICES ASSUME NEW j \in DOMAIN c, j # 1
               PROVE  c[j].key \in KeysOf(s)
    BY <1>1
  <2>1. j - 1 \in DOMAIN s /\ c[j] = s[j - 1]
    BY <1>0, <1>1
  <2>. QED  BY <2>1 DEF KeysOf
<1>3. \A i \in DOMAIN s : s[i].key \in KeysOf(c)
  <2> SUFFICES ASSUME NEW i \in DOMAIN s
               PROVE  s[i].key \in KeysOf(c)
    OBVIOUS
  <2>1. i + 1 \in DOMAIN c /\ c[i + 1] = s[i]
    BY <1>0, <1>1
  <2>. QED  BY <2>1 DEF KeysOf
<1>4. e.key \in KeysOf(c)
  BY <1>0, <1>1 DEF KeysOf
<1>5. KeysOf(c) = KeysOf(s) \cup {e.key}
  BY <1>2, <1>3, <1>4 DEF KeysOf
<1>6. DistinctKeys(c)
  <2> SUFFICES ASSUME NEW i \in DOMAIN c, NEW j \in DOMAIN c, i # j
               PROVE  c[i].key # c[j].key
    BY DEF DistinctKeys
  <2>1. CASE i = 1
    <3>1. j - 1 \in DOMAIN s /\ c[j] = s[j - 1]
      BY <2>1, <1>0, <1>1
    <3>. QED  BY <3>1, <2>1, <1>1 DEF KeysOf
  <2>2. CASE j = 1
    <3>1. i - 1 \in DOMAIN s /\ c[i] = s[i - 1]
      BY <2>2, <1>0, <1>1
    <3>. QED  BY <3>1, <2>2, <1>1 DEF KeysOf
  <2>3. CASE i # 1 /\ j # 1
    <3>1. /\ i - 1 \in DOMAIN s /\ c[i] = s[i - 1]
          /\ j - 1 \in DOMAIN s /\ c[j] = s[j - 1]
          /\ i - 1 # j - 1
      BY <2>3, <1>0, <1>1
    <3>. QED  BY <3>1 DEF DistinctKeys
  <2>. QED  BY <2>1, <2>2, <2>3
<1>. QED  BY <1>5, <1>6

LEMMA KeysRemoveAt ==
  ASSUME NEW s \in Seq(Node), NEW i \in 1..Len(s), DistinctKeys(s)
  PROVE  /\ KeysOf(RemoveAt(s, i)) = KeysOf(s) \ {s[i].key}
         /\ DistinctKeys(RemoveAt(s, i))
<1> DEFINE r == RemoveAt(s, i)
<1>1. /\ r \in Seq(Node)
      /\ Len(r) = Len(s) - 1
      /\ \A j \in 1..Len(s) - 1 : r[j] = IF j < i THEN s[j] ELSE s[j + 1]
  BY RemoveAtProps
<1>0. DOMAIN r = 1..Len(s) - 1 /\ DOMAIN s = 1..Len(s) /\ Len(s) \in Nat
  BY <1>1, LenProperties
(* The position in s of the node at position j of r. *)
<1> DEFINE pos(j) == IF j < i THEN j ELSE j + 1
<1>2. \A j \in DOMAIN r : pos(j) \in DOMAIN s /\ pos(j) # i /\ r[j] = s[pos(j)]
  BY <1>0, <1>1
<1>3. \A j \in DOMAIN r : r[j].key \in KeysOf(s) \ {s[i].key}
  BY <1>2 DEF KeysOf, DistinctKeys
<1>4. \A m \in DOMAIN s : m # i => s[m].key \in KeysOf(r)
  <2> SUFFICES ASSUME NEW m \in DOMAIN s, m # i
               PROVE  s[m].key \in KeysOf(r)
    OBVIOUS
  <2>1. CASE m < i
    <3>1. m \in DOMAIN r /\ r[m] = s[m]
      BY <2>1, <1>0, <1>1
    <3>. QED  BY <3>1 DEF KeysOf
  <2>2. CASE m > i
    <3>1. m - 1 \in DOMAIN r /\ r[m - 1] = s[m]
      BY <2>2, <1>0, <1>1
    <3>. QED  BY <3>1 DEF KeysOf
  <2>. QED  BY <2>1, <2>2, <1>0
<1>5. KeysOf(r) = KeysOf(s) \ {s[i].key}
  BY <1>3, <1>4 DEF KeysOf
<1>6. DistinctKeys(r)
  <2> SUFFICES ASSUME NEW a \in DOMAIN r, NEW b \in DOMAIN r, a # b
               PROVE  r[a].key # r[b].key
    BY DEF DistinctKeys
  <2>1. pos(a) # pos(b)
    BY <1>0
  <2>. QED  BY <1>2, <2>1 DEF DistinctKeys
<1>. QED  BY <1>5, <1>6

LEMMA KeysFront ==
  ASSUME NEW s \in Seq(Node), s # << >>, DistinctKeys(s)
  PROVE  /\ KeysOf(Front(s)) = KeysOf(s) \ {Last(s).key}
         /\ DistinctKeys(Front(s))
<1>0. Len(s) \in Nat \ {0}
  BY EmptySeq
<1>1. Front(s) = RemoveAt(s, Len(s))
  <2>1. SubSeq(s, Len(s) + 1, Len(s)) = << >>
    BY <1>0, SubSeqEmpty
  <2>2. SubSeq(s, 1, Len(s) - 1) \in Seq(Node)
    BY <1>0, ElementOfSeq, SubSeqProperties
  <2>. QED  BY <2>1, <2>2, ConcatEmptySeq DEF Front, RemoveAt
<1>. QED  BY <1>0, <1>1, KeysRemoveAt DEF Last

(* The node that IndexOf(k) picks for a key of the dict. *)
LEMMA IndexOfProps ==
  ASSUME TypeOK, IndexMatchesList, NEW k \in dict
  PROVE  /\ IndexOf(k) \in 1..Len(lru)
         /\ lru[IndexOf(k)].key = k
BY DEF IndexOf, IndexMatchesList, KeysOf, TypeOK

-----------------------------------------------------------------------------
(* Inv restated as the facts the action lemmas use. *)

LEMMA InvFacts ==
  ASSUME Inv
  PROVE  /\ TypeOK
         /\ lru \in Seq(Node)
         /\ dict = KeysOf(lru)
         /\ DistinctKeys(lru)
BY DEF Inv, TypeOK, IndexMatchesList, DistinctKeys

(* Sizes of nodes are integers. *)
LEMMA NodeSize ==
  ASSUME NEW nd \in Node
  PROVE  nd.size \in Int
<1>1. nd.size \in Sizes \/ nd.size = 0
  BY DEF Node
<1>2. CASE nd.size = 0
  BY <1>2
<1>3. CASE nd.size \in Sizes
  BY <1>3, SizesAssumption
<1>. QED
  BY <1>1, <1>2, <1>3

(* Each action preserves Inv. *)

LEMMA SetExistingInv ==
  ASSUME Inv, NEW k \in Keys, NEW v \in Values, NEW m \in Sizes \cup {0},
         SetExisting(k, v, m)
  PROVE  Inv'
<1>1. /\ TypeOK /\ lru \in Seq(Node) /\ dict = KeysOf(lru) /\ DistinctKeys(lru)
  BY InvFacts
<1> DEFINE i == IndexOf(k)
           nd == [key |-> k, value |-> v, size |-> m]
           r == RemoveAt(lru, i)
<1>2. k \in dict
  BY DEF SetExisting
<1>3. i \in 1..Len(lru) /\ lru[i].key = k
  BY <1>1, <1>2, IndexOfProps DEF Inv, IndexMatchesList
<1>4. nd \in Node /\ nd.key = k
  BY DEF Node
<1>5. /\ r \in Seq(Node)
      /\ KeysOf(r) = KeysOf(lru) \ {k}
      /\ DistinctKeys(r)
  BY <1>1, <1>3, RemoveAtProps, KeysRemoveAt
<1>6. /\ Cons(nd, r) \in Seq(Node)
      /\ KeysOf(Cons(nd, r)) = KeysOf(r) \cup {k}
      /\ DistinctKeys(Cons(nd, r))
  BY <1>4, <1>5, ConsProps, KeysCons
<1>7. lru' = Cons(nd, r) /\ memory' = memory - lru[i].size + m
  BY DEF SetExisting, MoveToHead
<1>8. lru[i].size \in Int /\ memory \in Int /\ m \in Int
  BY <1>1, <1>3, ElementOfSeq, NodeSize, SizesAssumption DEF TypeOK
<1>9. dict' = KeysOf(lru')
  BY <1>1, <1>2, <1>5, <1>6, <1>7 DEF SetExisting
<1>. QED
  BY <1>1, <1>6, <1>7, <1>8, <1>9
     DEF SetExisting, MoveToHead, Inv, TypeOK, IndexMatchesList, DistinctKeys,
         ShrinkArgPositive

LEMMA SetNewInv ==
  ASSUME Inv, NEW k \in Keys, NEW v \in Values, NEW m \in Sizes \cup {0},
         SetNew(k, v, m)
  PROVE  Inv'
<1>1. /\ TypeOK /\ lru \in Seq(Node) /\ dict = KeysOf(lru) /\ DistinctKeys(lru)
  BY InvFacts
<1> DEFINE nd == [key |-> k, value |-> v, size |-> m]
<1>2. nd \in Node /\ nd.key = k /\ k \notin KeysOf(lru)
  BY <1>1 DEF Node, SetNew
<1>3. /\ Cons(nd, lru) \in Seq(Node)
      /\ KeysOf(Cons(nd, lru)) = KeysOf(lru) \cup {k}
      /\ DistinctKeys(Cons(nd, lru))
  BY <1>1, <1>2, ConsProps, KeysCons
<1>4. memory' \in Int
  BY <1>1, SizesAssumption DEF SetNew, TypeOK
<1>. QED
  BY <1>1, <1>3, <1>4
     DEF SetNew, Inv, TypeOK, IndexMatchesList, DistinctKeys,
         ShrinkArgPositive

(* The two loops take the last node off the list and out of the dict. *)
LEMMA DeleteLastKeys ==
  ASSUME Inv, lru # << >>, lru' = Front(lru), dict' = dict \ {Last(lru).key}
  PROVE  /\ lru' \in Seq(Node)
         /\ dict' = KeysOf(lru')
         /\ DistinctKeys(lru')
         /\ Last(lru) \in Node
<1>1. /\ lru \in Seq(Node) /\ dict = KeysOf(lru) /\ DistinctKeys(lru)
  BY InvFacts
<1>. QED
  BY <1>1, FrontProps, KeysFront

LEMMA VacuumStepInv ==
  ASSUME Inv, VacuumStep
  PROVE  Inv'
<1>1. /\ lru' \in Seq(Node)
      /\ dict' = KeysOf(lru')
      /\ DistinctKeys(lru')
      /\ Last(lru) \in Node
  BY DeleteLastKeys DEF VacuumStep, DeleteLast
<1>2. memory' \in Int /\ clean' \in Nat
  BY <1>1, NodeSize, InvFacts DEF VacuumStep, TypeOK
<1>. QED
  BY <1>1, <1>2, InvFacts
     DEF VacuumStep, DeleteLast, Inv, TypeOK, IndexMatchesList, DistinctKeys,
         ShrinkArgPositive

LEMMA ShrinkStepInv ==
  ASSUME Inv, ShrinkStep
  PROVE  Inv'
<1>1. /\ lru' \in Seq(Node)
      /\ dict' = KeysOf(lru')
      /\ DistinctKeys(lru')
  BY DeleteLastKeys DEF ShrinkStep, DeleteLast
<1>. QED
  BY <1>1, InvFacts
     DEF ShrinkStep, DeleteLast, Inv, TypeOK, IndexMatchesList, DistinctKeys,
         ShrinkArgPositive

LEMMA DelItemInv ==
  ASSUME Inv, NEW k \in Keys, DelItem(k)
  PROVE  Inv'
<1>1. /\ TypeOK /\ lru \in Seq(Node) /\ dict = KeysOf(lru) /\ DistinctKeys(lru)
  BY InvFacts
<1> DEFINE i == IndexOf(k)
<1>2. k \in dict
  BY DEF DelItem
<1>3. i \in 1..Len(lru) /\ lru[i].key = k
  BY <1>1, <1>2, IndexOfProps DEF Inv, IndexMatchesList
<1>4. /\ RemoveAt(lru, i) \in Seq(Node)
      /\ KeysOf(RemoveAt(lru, i)) = KeysOf(lru) \ {k}
      /\ DistinctKeys(RemoveAt(lru, i))
  BY <1>1, <1>3, RemoveAtProps, KeysRemoveAt
<1>5. lru[i].size \in Int
  BY <1>1, <1>3, ElementOfSeq, NodeSize
<1>. QED
  BY <1>1, <1>4, <1>5
     DEF DelItem, Inv, TypeOK, IndexMatchesList, DistinctKeys,
         ShrinkArgPositive

LEMMA LookupHitInv ==
  ASSUME Inv, NEW k \in Keys, LookupHit(k)
  PROVE  Inv'
<1>1. /\ TypeOK /\ lru \in Seq(Node) /\ dict = KeysOf(lru) /\ DistinctKeys(lru)
  BY InvFacts
<1> DEFINE i == IndexOf(k)
           r == RemoveAt(lru, i)
<1>2. k \in dict
  BY DEF LookupHit
<1>3. i \in 1..Len(lru) /\ lru[i].key = k /\ lru[i] \in Node
  BY <1>1, <1>2, IndexOfProps, ElementOfSeq DEF Inv, IndexMatchesList
<1>4. /\ r \in Seq(Node)
      /\ KeysOf(r) = KeysOf(lru) \ {k}
      /\ DistinctKeys(r)
  BY <1>1, <1>3, RemoveAtProps, KeysRemoveAt
<1>5. /\ Cons(lru[i], r) \in Seq(Node)
      /\ KeysOf(Cons(lru[i], r)) = KeysOf(r) \cup {k}
      /\ DistinctKeys(Cons(lru[i], r))
  <2>1. lru[i] \in Node /\ lru[i].key = k /\ k \notin KeysOf(r)
    BY <1>3, <1>4
  <2>2. Cons(lru[i], r) \in Seq(Node)
    BY <2>1, <1>4, ConsProps
  <2>3. /\ KeysOf(Cons(lru[i], r)) = KeysOf(r) \cup {lru[i].key}
        /\ DistinctKeys(Cons(lru[i], r))
    BY <2>1, <1>4, KeysCons
  <2>. QED
    BY <2>1, <2>2, <2>3
<1>6. dict' = KeysOf(lru')
  BY <1>1, <1>2, <1>4, <1>5 DEF LookupHit, MoveToHead
<1>. QED
  BY <1>1, <1>5, <1>6
     DEF LookupHit, MoveToHead, Inv, TypeOK, IndexMatchesList, DistinctKeys,
         ShrinkArgPositive

LEMMA ClearInv ==
  ASSUME Inv, Clear
  PROVE  Inv'
<1>1. KeysOf(<< >>) = {} /\ << >> \in Seq(Node)
  BY EmptySeq DEF KeysOf
<1>. QED
  BY <1>1, InvFacts
     DEF Clear, Inv, TypeOK, IndexMatchesList, DistinctKeys, ShrinkArgPositive

LEMMA SetSizeInv ==
  ASSUME Inv, NEW n \in NewSizes, SetSize(n)
  PROVE  Inv'
BY InvFacts, NewSizesAssumption
   DEF SetSize, Inv, TypeOK, IndexMatchesList, ShrinkArgPositive

LEMMA ShrinkDoneInv ==
  ASSUME Inv, ShrinkDone
  PROVE  Inv'
BY InvFacts DEF ShrinkDone, Inv, TypeOK, IndexMatchesList, ShrinkArgPositive

(* The steps that change neither the dict nor the list. *)
LEMMA OtherStepsInv ==
  ASSUME Inv,
         \/ VacuumDone
         \/ \E k \in Keys : LookupMiss(k)
         \/ \E c \in BOOLEAN : SetCallback(c)
         \/ UNCHANGED vars
  PROVE  Inv'
BY KeysAssumption
   DEF VacuumDone, LookupMiss, SetCallback, vars, Inv, TypeOK,
       IndexMatchesList, ShrinkArgPositive

-----------------------------------------------------------------------------
(* Inv holds in every reachable state of the cache. *)

LEMMA InitInv == Init => Inv
<1>1. KeysOf(<< >>) = {} /\ << >> \in Seq(Node)
  BY EmptySeq DEF KeysOf
<1>. QED
  BY <1>1, CapacitiesAssumption, KeysAssumption
     DEF Init, Inv, TypeOK, IndexMatchesList, ShrinkArgPositive

LEMMA NextInv == Inv /\ [Next]_vars => Inv'
<1> SUFFICES ASSUME Inv, [Next]_vars PROVE Inv'
  OBVIOUS
<1>1. CASE \E k \in Keys, v \in Values, m \in Sizes \cup {0} : SetItem(k, v, m)
  BY <1>1, SetExistingInv, SetNewInv DEF SetItem
<1>2. CASE \E k \in Keys : DelItem(k)
  BY <1>2, DelItemInv
<1>3. CASE \E k \in Keys : LookupHit(k)
  BY <1>3, LookupHitInv
<1>4. CASE \E n \in NewSizes : SetSize(n)
  BY <1>4, SetSizeInv
<1>. QED
  BY <1>1, <1>2, <1>3, <1>4, VacuumStepInv, ShrinkStepInv, ClearInv,
     ShrinkDoneInv, OtherStepsInv DEF Next, SizeModeNext

(***************************************************************************)
(* Every state reached by the cache, with any mix of operations, has      *)
(* variables of the right type, and its dict and recency list agree.      *)
(***************************************************************************)
THEOREM Invariance == Spec => []Inv
BY InitInv, NextInv, PTL DEF Spec

(* Type correctness of every operation of lru.c. *)
THEOREM TypeCorrect == Spec => []TypeOK
BY Invariance, PTL DEF Inv

(***************************************************************************)
(* Invariant 1 of the cache: no sequence of operations, including         *)
(* set_size and clear, makes the dict and the recency list disagree or    *)
(* links a key twice.                                                     *)
(***************************************************************************)
THEOREM IndexListBijection == Spec => []IndexMatchesList
BY Invariance, PTL DEF Inv

(* The same for a cache used in size mode only. *)
THEOREM SizeModeIndexListBijection == SizeModeSpec => []IndexMatchesList
<1>1. [SizeModeNext]_vars => [Next]_vars
  BY DEF Next
<1>. QED
  BY <1>1, Invariance, PTL DEF Inv, Spec, SizeModeSpec

-----------------------------------------------------------------------------
(***************************************************************************)
(* Invariant 4 in size mode.  Spec 4.2 makes a non-negative size a        *)
(* precondition of set(key, value, size), and the code does not check it *)
(* (LRU_set parses any Py_ssize_t).  Under that precondition a node never *)
(* carries a negative size, so del l[key] (_lru_ass_sub with value NULL)  *)
(* can only lower self->memory, and every call that raises it ends in    *)
(* lru_vacuum, which returns only once memory <= size.                   *)
(***************************************************************************)

(* With non-negative sizes, the size a node carries is a natural. *)
LEMMA NodeSizeNat ==
  ASSUME Sizes \subseteq Nat, NEW nd \in Node
  PROVE  nd.size \in Nat
<1>1. nd.size \in Sizes \/ nd.size = 0
  BY DEF Node
<1>2. CASE nd.size = 0
  BY <1>2
<1>3. CASE nd.size \in Sizes
  BY <1>3
<1>. QED
  BY <1>1, <1>2, <1>3

(* del l[key] does not raise memory, nor change the capacity. *)
LEMMA DelItemCapacity ==
  ASSUME Sizes \subseteq Nat, Inv, CapacityRespected, NEW k \in Keys, DelItem(k)
  PROVE  CapacityRespected'
<1>1. /\ TypeOK /\ lru \in Seq(Node) /\ dict = KeysOf(lru)
  BY InvFacts
<1> DEFINE i == IndexOf(k)
<1>2. i \in 1..Len(lru)
  BY <1>1, IndexOfProps DEF DelItem, Inv
<1>3. lru[i] \in Node
  BY <1>1, <1>2, ElementOfSeq
<1>4. lru[i].size \in Nat
  BY <1>3, NodeSizeNat
<1>5. memory <= size /\ memory \in Int /\ size \in Int
  BY <1>1 DEF DelItem, CapacityRespected, TypeOK
<1>. QED
  BY <1>4, <1>5 DEF DelItem, CapacityRespected

(* One step of a size-mode cache keeps CapacityRespected. *)
LEMMA SizeModeCapacityStep ==
  ASSUME Sizes \subseteq Nat, Inv, CapacityRespected, [SizeModeNext]_vars
  PROVE  CapacityRespected'
<1>1. CASE \E k \in Keys, v \in Values, m \in Sizes \cup {0} : SetItem(k, v, m)
  BY <1>1 DEF SetItem, SetExisting, SetNew, CapacityRespected
<1>2. CASE VacuumStep
  BY <1>2 DEF VacuumStep, CapacityRespected
<1>3. CASE VacuumDone
  BY <1>3 DEF VacuumDone, CapacityRespected
<1>4. CASE \E k \in Keys : DelItem(k)
  BY <1>4, DelItemCapacity
<1>5. CASE \E k \in Keys : LookupHit(k) \/ LookupMiss(k)
  BY <1>5 DEF LookupHit, LookupMiss, CapacityRespected
<1>6. CASE Clear
  BY <1>6, InvFacts DEF Clear, CapacityRespected, TypeOK
<1>7. CASE \E c \in BOOLEAN : SetCallback(c)
  BY <1>7 DEF SetCallback, CapacityRespected
<1>8. CASE UNCHANGED vars
  BY <1>8 DEF vars, CapacityRespected
<1>. QED
  BY <1>1, <1>2, <1>3, <1>4, <1>5, <1>6, <1>7, <1>8 DEF SizeModeNext

(***************************************************************************)
(* Invariant 4: in a cache used in size mode with non-negative sizes, no  *)
(* sequence of sets, deletions, lookups and clears leaves self->memory    *)
(* above self->size once the call has returned.  The invariant is not     *)
(* inductive alone: it is carried with Inv, which gives the node of       *)
(* IndexOf(k) that del reads and the types of memory and size.            *)
(***************************************************************************)
THEOREM SizeModeCapacity ==
  ASSUME Sizes \subseteq Nat
  PROVE  SizeModeSpec => []CapacityRespected
<1>1. Init => Inv /\ CapacityRespected
  BY InitInv, CapacitiesAssumption DEF Init, CapacityRespected
<1>2. [SizeModeNext]_vars => [Next]_vars
  BY DEF Next
<1>3. Inv /\ CapacityRespected /\ [SizeModeNext]_vars
        => Inv' /\ CapacityRespected'
  BY <1>2, NextInv, SizeModeCapacityStep
<1>. QED
  BY <1>1, <1>3, PTL DEF SizeModeSpec


=============================================================================
