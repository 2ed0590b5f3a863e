------------------------- MODULE LRU_memory_proofs -------------------------
(***************************************************************************)
(* Proofs about the memory accounting of LRU in size mode (LRU.set and    *)
(* dict assignment, no set_size), for every value of the constants:       *)
(* memory is the sum of the sizes of the linked nodes (invariant 3),      *)
(* lru_vacuum always finds a last node to evict, it never evicts the key  *)
(* its _lru_ass_sub has just written, and so the cache implements         *)
(* AbstractLRU.                                                            *)
(*                                                                         *)
(* MemSum is defined through its prefix sums.  What it computes is        *)
(* reached here without an induction rule taking a predicate: induction   *)
(* over the naturals is done by hand, taking the least counterexample     *)
(* that WFMin gives for the well-founded order < on Nat.                  *)
(***************************************************************************)
EXTENDS LRU_refinement_proofs, WellFoundedInduction

(* g is the function of prefix sums of the sizes of the nodes of s. *)
PSum(g, s) ==
    g = [i \in 0..Len(s) |-> IF i = 0 THEN 0 ELSE g[i - 1] + s[i].size]

-----------------------------------------------------------------------------
(* A non-empty set of naturals has a least element. *)
LEMMA NatMin ==
  ASSUME NEW T, T \subseteq Nat, T # {}
  PROVE  \E m \in T : \A n \in T : m <= n
<1>1. \E x \in T : \A y \in T : ~(<<y, x>> \in OpToRel(<, Nat))
  BY WFMin, NatLessThanWellFounded
<1>2. \A x, y \in Nat : <<y, x>> \in OpToRel(<, Nat) <=> y < x
  BY Zenon DEF OpToRel
<1>3. \A x, y \in T : ~(y < x) => x <= y
  OBVIOUS
<1>. QED  BY <1>1, <1>2, <1>3

(* Prefix sums of sizes are integers. *)
LEMMA PSumInt ==
  ASSUME NEW s \in Seq(Node), NEW g, PSum(g, s)
  PROVE  \A i \in 0..Len(s) : g[i] \in Int
<1> DEFINE T == {i \in 0..Len(s) : g[i] \notin Int}
<1> SUFFICES ASSUME T # {} PROVE FALSE
  OBVIOUS
<1>0. T \subseteq Nat
  OBVIOUS
<1>1. PICK m \in T : \A n \in T : m <= n
  BY <1>0, NatMin
<1>2. m # 0
  BY <1>1 DEF PSum
<1>3. m - 1 \in 0..Len(s) /\ m - 1 \notin T
  BY <1>1, <1>2
<1>4. s[m] \in Node
  BY <1>1, <1>2, ElementOfSeq
<1>5. s[m].size \in Int
  BY <1>4, NodeSize
<1>6. g[m] = g[m - 1] + s[m].size
  BY <1>1, <1>2 DEF PSum
<1>. QED  BY <1>1, <1>3, <1>5, <1>6

(* A list has at most one function of prefix sums. *)
LEMMA PSumUnique ==
  ASSUME NEW s \in Seq(Node), NEW g, NEW h, PSum(g, s), PSum(h, s)
  PROVE  g = h
<1> DEFINE T == {i \in 0..Len(s) : g[i] # h[i]}
<1>1. SUFFICES \A i \in 0..Len(s) : g[i] = h[i]
  <2>1. g = [i \in 0..Len(s) |-> g[i]] /\ h = [i \in 0..Len(s) |-> h[i]]
    BY Zenon DEF PSum
  <2>. QED  BY <2>1
<1> SUFFICES ASSUME T # {} PROVE FALSE
  OBVIOUS
<1>0. T \subseteq Nat
  OBVIOUS
<1>2. PICK m \in T : \A n \in T : m <= n
  BY <1>0, NatMin
<1>3. m # 0
  BY <1>2 DEF PSum
<1>4. m - 1 \in 0..Len(s) /\ m - 1 \notin T
  BY <1>2, <1>3
<1>5. g[m] = g[m - 1] + s[m].size /\ h[m] = h[m - 1] + s[m].size
  BY <1>2, <1>3 DEF PSum
<1>. QED  BY <1>2, <1>4, <1>5

(* Every list has a function of prefix sums. *)
LEMMA PSumExists ==
  ASSUME NEW s \in Seq(Node)
  PROVE  \E g : PSum(g, s)
<1> DEFINE T == {n \in Nat : \E t \in Seq(Node) : Len(t) = n /\ ~\E g : PSum(g, t)}
<1> SUFFICES ASSUME T # {} PROVE FALSE
  BY LenProperties
<1>0. T \subseteq Nat
  OBVIOUS
<1>1. PICK m \in T : \A n \in T : m <= n
  BY <1>0, NatMin
<1>2. PICK t \in Seq(Node) : Len(t) = m /\ ~\E g : PSum(g, t)
  BY <1>1
<1>3. CASE m = 0
  <2>1. t = << >>
    BY <1>2, <1>3, EmptySeq
  <2>2. PSum([i \in {0} |-> 0], t)
    BY <2>1 DEF PSum
  <2>. QED  BY <1>2, <2>2
<1>4. CASE m # 0
  <2>1. t # << >>
    BY <1>2, <1>4
  <2>2. Front(t) \in Seq(Node) /\ Len(Front(t)) = m - 1
        /\ \A j \in 1..m - 1 : Front(t)[j] = t[j]
    BY <1>2, <2>1, FrontProps
  <2>3. m - 1 \in Nat /\ m - 1 \notin T
    BY <1>1, <1>4
  <2>4. PICK g0 : PSum(g0, Front(t))
    BY <2>2, <2>3
  <2> DEFINE g == [i \in 0..m |-> IF i < m THEN g0[i] ELSE g0[m - 1] + t[m].size]
  <2>5. PSum(g, t)
    <3>1. \A i \in 0..m : g[i] = IF i = 0 THEN 0 ELSE g[i - 1] + t[i].size
      <4> SUFFICES ASSUME NEW i \in 0..m
                   PROVE  g[i] = IF i = 0 THEN 0 ELSE g[i - 1] + t[i].size
        OBVIOUS
      <4>1. CASE i = 0
        BY <4>1, <1>4, <2>2, <2>4 DEF PSum
      <4>2. CASE i # 0 /\ i < m
        <5>1. g0[i] = g0[i - 1] + Front(t)[i].size
          BY <4>2, <2>2, <2>4 DEF PSum
        <5>. QED  BY <4>2, <5>1, <2>2
      <4>3. CASE i = m
        BY <4>3, <1>4
      <4>. QED  BY <4>1, <4>2, <4>3
    <3>. QED  BY <3>1, <1>2 DEF PSum
  <2>. QED  BY <1>2, <2>5
<1>. QED  BY <1>3, <1>4

(* MemSum is the last prefix sum. *)
LEMMA MemSumIs ==
  ASSUME NEW s \in Seq(Node), NEW g, PSum(g, s)
  PROVE  MemSum(s) = g[Len(s)]
<1> DEFINE F == CHOOSE f : PSum(f, s)
<1>1. PSum(F, s)
  OBVIOUS
<1>2. F = g
  BY <1>1, PSumUnique
<1>3. MemSum(s) = F[Len(s)]
  BY DEF MemSum, PSum
<1>. QED  BY <1>2, <1>3

-----------------------------------------------------------------------------
(* What the list operations of the recency list do to the sum of sizes. *)

LEMMA MemSumEmpty == MemSum(<< >>) = 0
<1>1. PSum([i \in {0} |-> 0], << >>)
  BY DEF PSum
<1>. QED  BY <1>1, MemSumIs

LEMMA MemSumOne ==
  ASSUME NEW s \in Seq(Node), Len(s) = 1
  PROVE  MemSum(s) = s[1].size
<1>1. s[1] \in Node
  BY ElementOfSeq
<1>2. s[1].size \in Int
  BY <1>1, NodeSize
<1>3. PSum([i \in 0..1 |-> IF i = 0 THEN 0 ELSE s[1].size], s)
  BY <1>2 DEF PSum
<1>. QED  BY <1>3, MemSumIs

(* lru_add_node_at_head adds the size of the new node. *)
LEMMA MemSumCons ==
  ASSUME NEW s \in Seq(Node), NEW nd \in Node
  PROVE  MemSum(Cons(nd, s)) = nd.size + MemSum(s)
<1> DEFINE n == Len(s)
           t == Cons(nd, s)
<1>1. PICK g : PSum(g, s)
  BY PSumExists
<1>2. \A i \in 0..n : g[i] \in Int
  BY <1>1, PSumInt
<1>3. n \in Nat
  BY LenProperties
<1>4. t \in Seq(Node) /\ Len(t) = n + 1 /\ t[1] = nd
  BY ConsProps
<1>5. \A j \in 2..n + 1 : t[j] = s[j - 1]
  <2>1. \A x \in Node, u \in Seq(Node) :
          \A j \in 2..Len(u) + 1 : Cons(x, u)[j] = u[j - 1]
    BY ConsProps
  <2>. QED  BY <2>1
<1>6. nd.size \in Int /\ \A j \in 1..n : s[j].size \in Int
  <2>1. \A j \in 1..n : s[j] \in Node
    BY ElementOfSeq
  <2>. QED  BY <2>1, NodeSize
<1> DEFINE h == [j \in 0..n + 1 |-> IF j = 0 THEN 0 ELSE nd.size + g[j - 1]]
<1>7. PSum(h, t)
  <2>1. \A j \in 0..n + 1 : h[j] = IF j = 0 THEN 0 ELSE h[j - 1] + t[j].size
    <3> SUFFICES ASSUME NEW j \in 0..n + 1
                 PROVE  h[j] = IF j = 0 THEN 0 ELSE h[j - 1] + t[j].size
      OBVIOUS
    <3>1. CASE j = 0
      BY <3>1
    <3>2. CASE j = 1
      <4>1. g[0] = 0
        BY <1>1, <1>3 DEF PSum
      <4>. QED  BY <3>2, <4>1, <1>3, <1>4, <1>6
    <3>3. CASE j > 1
      <4>1. g[j - 1] = g[j - 2] + s[j - 1].size
        BY <3>3, <1>1, <1>3 DEF PSum
      <4>2. t[j] = s[j - 1]
        BY <3>3, <1>3, <1>5
      <4>. QED  BY <3>3, <4>1, <4>2, <1>2, <1>3, <1>6
    <3>. QED  BY <3>1, <3>2, <3>3, <1>3
  <2>. QED  BY <2>1, <1>4 DEF PSum
<1>8. MemSum(t) = h[n + 1] /\ MemSum(s) = g[n]
  BY <1>1, <1>4, <1>7, MemSumIs
<1>. QED  BY <1>3, <1>8

(* lru_remove_node takes off the size of the node it unlinks. *)
LEMMA MemSumRemoveAt ==
  ASSUME NEW s \in Seq(Node), NEW i \in 1..Len(s)
  PROVE  MemSum(RemoveAt(s, i)) = MemSum(s) - s[i].size
<1> DEFINE n == Len(s)
           t == RemoveAt(s, i)
           x == s[i].size
<1>1. PICK g : PSum(g, s)
  BY PSumExists
<1>2. \A j \in 0..n : g[j] \in Int
  BY <1>1, PSumInt
<1>3. n \in Nat
  BY LenProperties
<1>4. /\ t \in Seq(Node)
      /\ Len(t) = n - 1
      /\ \A j \in 1..n - 1 : t[j] = IF j < i THEN s[j] ELSE s[j + 1]
  BY RemoveAtProps
<1>5. \A j \in 1..n : s[j].size \in Int
  <2>1. \A j \in 1..n : s[j] \in Node
    BY ElementOfSeq
  <2>. QED  BY <2>1, NodeSize
<1>6. \A j \in 1..n : g[j] = g[j - 1] + s[j].size
  BY <1>1, <1>3 DEF PSum
<1> DEFINE h == [j \in 0..n - 1 |-> IF j < i THEN g[j] ELSE g[j + 1] - x]
<1>7. PSum(h, t)
  <2>1. \A j \in 0..n - 1 : h[j] = IF j = 0 THEN 0 ELSE h[j - 1] + t[j].size
    <3> SUFFICES ASSUME NEW j \in 0..n - 1
                 PROVE  h[j] = IF j = 0 THEN 0 ELSE h[j - 1] + t[j].size
      OBVIOUS
    <3>1. CASE j = 0
      <4>1. g[0] = 0
        BY <1>1, <1>3 DEF PSum
      <4>. QED  BY <3>1, <4>1
    <3>2. CASE j # 0 /\ j < i
      BY <3>2, <1>2, <1>3, <1>4, <1>5, <1>6
    <3>3. CASE j # 0 /\ j = i
      <4>1. g[i + 1] = g[i] + s[i + 1].size /\ g[i] = g[i - 1] + x
        BY <3>3, <1>3, <1>6
      <4>2. h[j] = g[i + 1] - x /\ h[j - 1] = g[i - 1] /\ t[j] = s[i + 1]
        BY <3>3, <1>3, <1>4
      <4>3. /\ g[i - 1] \in Int /\ g[i] \in Int
            /\ x \in Int /\ s[i + 1].size \in Int
        BY <3>3, <1>2, <1>3, <1>5
      <4>. QED  BY <3>3, <4>1, <4>2, <4>3
    <3>4. CASE j # 0 /\ j > i
      <4>1. g[j + 1] = g[j] + s[j + 1].size
        BY <3>4, <1>3, <1>6
      <4>2. h[j] = g[j + 1] - x /\ h[j - 1] = g[j] - x /\ t[j] = s[j + 1]
        BY <3>4, <1>3, <1>4
      <4>3. g[j] \in Int /\ x \in Int /\ s[j + 1].size \in Int
        BY <3>4, <1>2, <1>3, <1>5
      <4>. QED  BY <3>4, <4>1, <4>2, <4>3
    <3>. QED  BY <3>1, <3>2, <3>3, <3>4
  <2>. QED  BY <2>1, <1>4 DEF PSum
<1>8. MemSum(t) = h[n - 1] /\ MemSum(s) = g[n]
  BY <1>1, <1>4, <1>7, MemSumIs
<1>9. h[n - 1] = g[n] - x
  <2>1. CASE i = n
    BY <2>1, <1>2, <1>3, <1>5, <1>6
  <2>2. CASE i < n
    BY <2>2, <1>3
  <2>. QED  BY <2>1, <2>2
<1>. QED  BY <1>8, <1>9

(* lru_delete_last takes off the size of the last node. *)
LEMMA MemSumFront ==
  ASSUME NEW s \in Seq(Node), s # << >>
  PROVE  MemSum(Front(s)) = MemSum(s) - Last(s).size
<1>0. Len(s) \in Nat \ {0}
  BY EmptySeq
<1>1. Front(s) = RemoveAt(s, Len(s))
  <2>1. SubSeq(s, Len(s) + 1, Len(s)) = << >>
    BY <1>0, SubSeqEmpty
  <2>2. SubSeq(s, 1, Len(s) - 1) \in Seq(Node)
    BY <1>0, ElementOfSeq, SubSeqProperties
  <2>. QED  BY <2>1, <2>2, ConcatEmptySeq DEF Front, RemoveAt
<1>. QED  BY <1>0, <1>1, MemSumRemoveAt DEF Last

-----------------------------------------------------------------------------
(***************************************************************************)
(* While lru_vacuum runs for an _lru_ass_sub, the node that call wrote is *)
(* still at the head of the list, and its size is within the capacity    *)
(* (LRU_set and _lru_ass_sub reject a size above self->size).            *)
(***************************************************************************)
HeadPinned ==
    pc = "vacuum" => /\ lru # << >>
                     /\ lru[1].key = key
                     /\ lru[1].size <= size

MInv == Inv /\ MemoryAccounting /\ HeadPinned

LEMMA MInvInit == Init => MInv
BY InitInv, MemSumEmpty DEF Init, MInv, MemoryAccounting, HeadPinned

(* The node written by _lru_ass_sub and put at the head. *)
LEMMA SetItemStep ==
  ASSUME Inv, MemoryAccounting, NEW k \in Keys, NEW v \in Values,
         NEW m \in Sizes \cup {0}, SetItem(k, v, m)
  PROVE  MemoryAccounting' /\ HeadPinned'
<1> DEFINE nd == [key |-> k, value |-> v, size |-> m]
<1>1. /\ TypeOK /\ IndexMatchesList /\ lru \in Seq(Node)
  BY InvFacts DEF Inv
<1>2. nd \in Node /\ m \in Int /\ memory \in Int
  BY <1>1, SizesAssumption DEF Node, TypeOK
<1>3. CASE SetExisting(k, v, m)
  <2> DEFINE i == IndexOf(k)
             r == RemoveAt(lru, i)
  <2>1. i \in 1..Len(lru) /\ lru[i] \in Node
    BY <1>1, <1>3, IndexOfProps, ElementOfSeq DEF SetExisting
  <2>2. lru[i].size \in Int
    BY <2>1, NodeSize
  <2>3. r \in Seq(Node)
    BY <1>1, <2>1, RemoveAtProps
  <2>4. lru' = Cons(nd, r) /\ memory' = memory - lru[i].size + m
    BY <1>3 DEF SetExisting, MoveToHead
  <2>5. MemSum(Cons(nd, r)) = m + (MemSum(lru) - lru[i].size)
    BY <1>1, <2>1, <2>3, <1>2, MemSumCons, MemSumRemoveAt
  <2>6. MemoryAccounting'
    BY <2>2, <2>4, <2>5, <1>2 DEF MemoryAccounting
  <2>7. Cons(nd, r) # << >> /\ Cons(nd, r)[1] = nd
    BY <2>3, <1>2, ConsProps, EmptySeq
  <2>. QED  BY <1>3, <2>4, <2>6, <2>7 DEF SetExisting, HeadPinned
<1>4. CASE SetNew(k, v, m)
  <2>1. lru' = Cons(nd, lru) /\ memory' = memory + m
    BY <1>4 DEF SetNew
  <2>2. MemoryAccounting'
    BY <1>1, <1>2, <2>1, MemSumCons DEF MemoryAccounting
  <2>3. Cons(nd, lru) # << >> /\ Cons(nd, lru)[1] = nd
    BY <1>1, <1>2, ConsProps, EmptySeq
  <2>. QED  BY <1>4, <2>1, <2>2, <2>3 DEF SetNew, HeadPinned
<1>. QED  BY <1>3, <1>4 DEF SetItem

(* One iteration of lru_vacuum: the head node is never the last one while *)
(* memory is above the capacity, so it stays at the head.                 *)
LEMMA VacuumStepMem ==
  ASSUME Inv, MemoryAccounting, HeadPinned, VacuumStep
  PROVE  MemoryAccounting' /\ HeadPinned'
<1>1. /\ TypeOK /\ lru \in Seq(Node)
  BY InvFacts
<1>2. lru # << >> /\ memory > size /\ pc = "vacuum" /\ pc' = pc
      /\ key' = key /\ size' = size /\ lru' = Front(lru)
      /\ memory' = memory - Last(lru).size
  BY DEF VacuumStep, DeleteLast
<1>3. MemoryAccounting'
  BY <1>1, <1>2, MemSumFront DEF MemoryAccounting
<1>4. Len(lru) # 1
  <2> SUFFICES ASSUME Len(lru) = 1 PROVE FALSE
    OBVIOUS
  <2>1. memory = lru[1].size
    BY <1>1, MemSumOne DEF MemoryAccounting
  <2>. QED  BY <1>1, <1>2, <2>1 DEF HeadPinned, TypeOK
<1>5. Len(lru) \in Nat \ {0, 1}
  BY <1>1, <1>2, <1>4, EmptySeq
<1>6. Front(lru) \in Seq(Node) /\ Len(Front(lru)) = Len(lru) - 1
      /\ \A j \in 1..Len(lru) - 1 : Front(lru)[j] = lru[j]
  BY <1>1, <1>2, FrontProps
<1>7. Front(lru) # << >> /\ Front(lru)[1] = lru[1]
  BY <1>5, <1>6, EmptySeq
<1>. QED  BY <1>2, <1>3, <1>7 DEF HeadPinned

LEMMA MInvNext ==
  ASSUME MInv, [SizeModeNext]_vars
  PROVE  MInv'
<1>0. Inv /\ MemoryAccounting /\ HeadPinned
  BY DEF MInv
<1>1. Inv'
  BY <1>0, NextInv DEF Next
<1>2. MemoryAccounting' /\ HeadPinned'
  <2>1. CASE \E k \in Keys, v \in Values, m \in Sizes \cup {0} : SetItem(k, v, m)
    BY <2>1, <1>0, SetItemStep
  <2>2. CASE VacuumStep
    BY <2>2, <1>0, VacuumStepMem
  <2>3. CASE VacuumDone
    BY <2>3, <1>0 DEF VacuumDone, MemoryAccounting, HeadPinned
  <2>4. CASE \E k \in Keys : DelItem(k)
    <3>1. PICK k \in Keys : DelItem(k)
      BY <2>4
    <3>2. /\ TypeOK /\ IndexMatchesList /\ lru \in Seq(Node)
      BY <1>0, InvFacts DEF Inv
    <3>3. IndexOf(k) \in 1..Len(lru) /\ lru[IndexOf(k)] \in Node
      BY <3>1, <3>2, IndexOfProps, ElementOfSeq DEF DelItem
    <3>4. MemSum(RemoveAt(lru, IndexOf(k))) = MemSum(lru) - lru[IndexOf(k)].size
      BY <3>2, <3>3, MemSumRemoveAt
    <3>. QED  BY <3>1, <3>4, <1>0 DEF DelItem, MemoryAccounting, HeadPinned
  <2>5. CASE \E k \in Keys : LookupHit(k)
    <3>1. PICK k \in Keys : LookupHit(k)
      BY <2>5
    <3>2. /\ TypeOK /\ IndexMatchesList /\ lru \in Seq(Node)
      BY <1>0, InvFacts DEF Inv
    <3> DEFINE i == IndexOf(k)
    <3>3. i \in 1..Len(lru) /\ lru[i] \in Node
      BY <3>1, <3>2, IndexOfProps, ElementOfSeq DEF LookupHit
    <3>4. lru[i].size \in Int /\ memory \in Int
      BY <3>2, <3>3, NodeSize DEF TypeOK
    <3>5. RemoveAt(lru, i) \in Seq(Node)
      BY <3>2, <3>3, RemoveAtProps
    <3>6. MemSum(Cons(lru[i], RemoveAt(lru, i)))
            = lru[i].size + (MemSum(lru) - lru[i].size)
      BY <3>2, <3>3, <3>5, MemSumCons, MemSumRemoveAt
    <3>. QED  BY <3>1, <3>4, <3>6, <1>0
              DEF LookupHit, MoveToHead, MemoryAccounting, HeadPinned
  <2>6. CASE \/ \E k \in Keys : LookupMiss(k)
             \/ \E c \in BOOLEAN : SetCallback(c)
             \/ UNCHANGED vars
    BY <2>6, <1>0 DEF LookupMiss, SetCallback, vars, MemoryAccounting,
                      HeadPinned
  <2>7. CASE Clear
    BY <2>7, <1>0, MemSumEmpty DEF Clear, MemoryAccounting, HeadPinned
  <2>. QED
    BY <2>1, <2>2, <2>3, <2>4, <2>5, <2>6, <2>7 DEF SizeModeNext
<1>. QED  BY <1>1, <1>2 DEF MInv

LEMMA SizeModeMInv == SizeModeSpec => []MInv
BY MInvInit, MInvNext, PTL DEF SizeModeSpec

(***************************************************************************)
(* THEOREM SizeModeMemoryAccounting.  Invariant 3: in a cache used in     *)
(* size mode, self->memory is always the sum of the sizes of the linked   *)
(* nodes: _lru_ass_sub refunds the old size of a node it replaces,        *)
(* lru_vacuum and del take off the size of the node they unlink, and      *)
(* clear resets memory with the list.  No bound on the sizes is needed.   *)
(***************************************************************************)
THEOREM SizeModeMemoryAccounting == SizeModeSpec => []MemoryAccounting
BY SizeModeMInv, PTL DEF MInv

(***************************************************************************)
(* THEOREM SizeModeVacuumHasVictim.  In size mode, lru_vacuum never reads *)
(* `self->last->size' of an empty list: while it runs, the node its       *)
(* _lru_ass_sub wrote is still linked.                                     *)
(***************************************************************************)
THEOREM SizeModeVacuumHasVictim == SizeModeSpec => []VacuumHasVictim
<1>1. MInv => VacuumHasVictim
  BY DEF MInv, HeadPinned, VacuumHasVictim
<1>. QED  BY <1>1, SizeModeMInv, PTL

(***************************************************************************)
(* THEOREM SizeModeKeyKept.  In size mode, lru_vacuum never evicts the    *)
(* key its _lru_ass_sub has just written (spec 4.2): that node stays at   *)
(* the head, and with a size within the capacity it is never the last     *)
(* node while memory is above the capacity.                               *)
(***************************************************************************)
THEOREM SizeModeKeyKept == SizeModeSpec => []SetKeyNotSelfEvicted
<1>1. MInv => SetKeyNotSelfEvicted
  <2> SUFFICES ASSUME MInv, pc = "vacuum" PROVE key \in dict
    BY DEF SetKeyNotSelfEvicted
  <2>1. lru \in Seq(Node) /\ dict = KeysOf(lru) /\ lru # << >>
        /\ lru[1].key = key
    BY InvFacts DEF MInv, HeadPinned
  <2>2. 1 \in DOMAIN lru
    BY <2>1, EmptySeq
  <2>. QED  BY <2>1, <2>2 DEF KeysOf
<1>. QED  BY <1>1, SizeModeMInv, PTL

(***************************************************************************)
(* THEOREM SizeModeRefinement.  A cache used in size mode (LRU.set, dict  *)
(* assignment, get, del, clear) implements AbstractLRU, for every value   *)
(* of the constants: the property ImplementsAbstract the size run checks. *)
(***************************************************************************)
THEOREM SizeModeRefinement == SizeModeSpec => ImplementsAbstract
<1>1. [SizeModeNext]_vars => [Next]_vars
  BY DEF Next
<1>2. SizeModeSpec => Spec
  BY <1>1, PTL DEF SizeModeSpec, Spec
<1>. QED
  BY <1>2, SizeModeKeyKept, RefinementUnlessSelfEvicted DEF ImplementsAbstract

=============================================================================
