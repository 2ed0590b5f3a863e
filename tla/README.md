# TLA+ verification of the LRU cache of nucliadb_utils

The system is `src/nucliadb_utils/nucliadb_utils/cache/lru.c`. It is a CPython
extension type `LRU`: a dict that remembers recency, evicts the least recently
used entries, and optionally tracks a caller-supplied size per entry.

## The system's parts and how they interact

| Part | In lru.c | Role |
|---|---|---|
| Node | `Node` (90-97) | key, value, size, prev, next |
| Entry index | `self->dict`, `GET_NODE`/`PUT_NODE` | Python dict key -> Node |
| Recency list | `first`, `last`, `lru_remove_node`, `lru_add_node_at_head`, `lru_delete_last` | doubly linked list, MRU at `first` |
| Capacity accountant | `memory`, `size`, `lru_vacuum` | evicts from `last` while `memory > size` |
| Capacity change | `LRU_set_size` | evicts from `last` while `len(dict) > newSize`, then sets `size` |
| Eviction notifier | `callback`, called by `lru_delete_last` | told (key, value) of every eviction |
| Stats | `hits`, `misses`, `clean` | read by `get_stats` |
| Operations | `lru_subscript`, `LRU_get`, `_lru_ass_sub`, `LRU_set`, `LRU_clear`, `LRU_update`, `set_callback` | the Python API |
| Introspection | `keys`, `values`, `items`, `peek_*`, `has_key`, `get_size`, `get_memory` | read only |

Every write goes through `_lru_ass_sub`:
- An assignment edits or creates a node, moves it to the head, and then runs
  `lru_vacuum`.
- A deletion removes the node from the dict and unlinks it.

Both eviction loops go through `lru_delete_last`. That helper calls the
callback, unlinks the node and deletes it from the dict. **It does not touch
`memory`.** `lru_vacuum` subtracts the size itself before calling it;
`LRU_set_size` does not.

There are two usage modes:
- **Size mode:** `l.set(k, v, size)`.
- **Count mode:** `l[k] = v`, which charges size 0.

## Modules

- `LRU.tla`: the cache.
  - **State:**
    - `dict` is the set of keys of `self->dict`.
    - `lru` is the sequence of nodes `[key, value, size]` from `first` to `last`.
    - `memory`, `size`, `hits`, `misses`, `clean` are the fields of the same name.
    - `callback` says whether a callback is installed.
    - `pc`, `key` and `newSize` record which loop is running, with the
      arguments that loop uses.
  - **Actions:** one per operation.
    - `SetExisting` and `SetNew` are the two branches of `_lru_ass_sub` with a
      value. `SetItem` (for `LRU.set`) is their disjunction; dict assignment is
      `SetItem` with size 0.
    - `DelItem` models `del l[k]`.
    - `LookupHit` and `LookupMiss` model `lru_subscript`, used by `l[k]` and
      `get`.
    - `Clear`, `SetCallback`.
    - `SetSize` starts `set_size`.
  - **Loops:** each loop takes one step per iteration, so the states between
    two evictions, where the callback runs, are states of the model.
    - `lru_vacuum`: `VacuumStep`, then `VacuumDone`.
    - The `set_size` loop: `ShrinkStep`, then `ShrinkDone`.
  - **Helpers:**
    - `MoveToHead` models `lru_remove_node` followed by
      `lru_add_node_at_head`.
    - `DeleteLast` models `lru_delete_last`.
  - **Changes nothing:** a size above `self->size`, and deleting an absent key.
    Both return before any change, so they are stutters.
  - **Bounds:** the counters are bounded by the constant `MaxStat` in the
    guards of the steps that increment them.
  - **Refinement:** `Abstract == INSTANCE AbstractLRU` with
    - `order <- KeyOrder`, the keys of `lru`;
    - `content <- Contents`, the value of each cached key;
    - `busy <- pc # "idle"`;
    - `pinned <- key`.
- `AbstractLRU.tla`: what the cache promises, written from the spec
  (sections 4, 5 and 8).
  - A map whose keys are kept in recency order.
  - `Put` and `Touch` move a key to the front; `Delete` and `AClear` take keys
    out.
  - Evictions (`EvictTail`) happen only between a `Put` or `Resize` and its
    `Return`. Each takes the last key, never the key being written.
  - `Drop(s, k)` is the order without k. It is written with `Range` and
    `RemoveAt`, not with `Remove` of SequencesExt. `Remove` filters with
    `SelectSeq` and an operator argument, which the provers cannot reason
    through. For a sequence of distinct keys the two are equal.
- `LRUHost.tla`: `LRU` plus keys the host dict rejects (`BadKeys`:
  unhashable objects). `SetUnhashable` is the new-node branch of
  `_lru_ass_sub` when `PUT_NODE` fails:
  - memory is charged and the node linked;
  - the dict is unchanged;
  - `lru_vacuum` runs.
- `LRUUpdate.tla`: `LRU.update(arg, **kwargs)`.
  - `UpdateStart` computes, with `Walked`, the entries the two `PyDict_Next`
    loops hand to `_lru_ass_sub`. They share `pos`, and an argument that is
    not a dict is skipped.
  - `UpdateStep` is one `_lru_ass_sub(key, value, 0)`. The loop steps of its
    vacuum follow before the next entry.
  - `requested` records the keys the call was given.
- `LRUQuery.tla`: the read-only accessors. Each is an action that records its
  result in `answer` and changes nothing else:
  - `GetSize`, with the C `int` conversion `AsCInt` of the `'i'` format;
  - `GetMemory`, `Length`, `GetStats`;
  - `Peek` for `peek_first_item` and `peek_last_item`;
  - `Collect` for `keys`, `values` and `items`;
  - `HasKey`.

  The ghost `evictions` counts every `lru_delete_last` of either loop: the
  spec's eviction counter, which the code does not have.
- `MC_LRU.tla`: for TLC. It adds a symmetry set over keys and values, both
  interchangeable model values.
- `LRU_proofs.tla`: the TLAPS proofs of the invariants.
- `LRU_refinement_proofs.tla`: the TLAPS proofs of the refinement of
  `AbstractLRU`.
- `LRU_memory_proofs.tla`: the TLAPS proofs about `memory` in size mode
  (`MemoryAccounting`, `VacuumHasVictim`, `SetKeyNotSelfEvicted`) and the
  size-mode refinement that rests on them.

## Runs

| Run | cfg | Expect | Checks |
|---|---|---|---|
| size | `MC_LRU_size.cfg` | pass | `IndexMatchesList`, `MemoryAccounting`, `CapacityRespected`, `VacuumHasVictim`, `SetKeyNotSelfEvicted`, `ImplementsAbstract` under `SizeModeSpec` |
| count | `MC_LRU_count.cfg` | pass | `TypeOK`, `IndexMatchesList`, `ImplementsAbstract` under `Spec` (dict assignment plus `set_size`) |
| count_live | `MC_LRU_count_live.cfg` | pass | `ShrinkReturns` under `FairSpec` |
| drift | `MC_LRU_drift.cfg` | violation | `MemoryAccounting` under `Spec` |
| nullderef | `MC_LRU_nullderef.cfg` | violation | `VacuumHasVictim` under `Spec` |
| countbound | `MC_LRU_countbound.cfg` | violation | `CountBounded` under `Spec` |
| unhashable | `MC_LRUHost_unhashable.cfg` | violation | `ListWithinDict` under `HostSpec` |
| update_kwargs | `MC_LRUUpdate_kwargs.cfg` | violation | `UpdateStoresAll`, with dict arguments |
| update_pairs | `MC_LRUUpdate_pairs.cfg` | violation | `UpdateStoresAll`, with pair-iterable arguments |
| getsize | `MC_LRUQuery_getsize.cfg` | violation | `SizeReported` |
| stats | `MC_LRUQuery_stats.cfg` | violation | `StatsReported` |

The properties:
- **`IndexMatchesList`:** the dict's keys are exactly the keys of the list, and
  each key is linked once.
- **`MemoryAccounting`:** `memory` equals the sum of the node sizes.
- **`CapacityRespected`:** when no operation is running, `memory <= size`.
- **`VacuumHasVictim`:** whenever `lru_vacuum` iterates, `self->last` is
  non-NULL.
- **`SetKeyNotSelfEvicted`:** the key being set survives its own vacuum.
- **`ImplementsAbstract`:** every step of the cache is a step of
  `AbstractLRU` or a stutter. So:
  - writes and hits move their key to the front;
  - deletions and clears remove exactly what they should;
  - every eviction takes the tail, only inside a set or `set_size`, and never
    the key being set.
- **`ShrinkReturns`:** every `set_size` loop that starts also returns. The
  loop runs on `len(dict)`, so it ends only if each eviction also deletes
  from the dict. There is no such property for `lru_vacuum`: each of its
  passes unlinks a node, so it can only fail to return by reaching an empty
  list, which is exactly what `VacuumHasVictim` reports.
- **`CountBounded`:** the docstring's claim that `LRU(n)` holds at most n keys.
- **`ListWithinDict`:** the list is never longer than the dict, as the comment
  at lines 63-64 says. `collect` relies on it.
- **`UpdateStoresAll`:** when `update` has returned, every key it was given is
  cached. This is checked in count mode, where nothing is evicted by size.
- **`SizeReported`, `StatsReported`:** `get_size()` returns the capacity;
  `get_stats()` returns the evictions of both loops.

Bounds:
- Three keys with capacity 3 and sizes 0..3 give:
  - a set whose size equals the capacity, which evicts everything else;
  - a re-set that grows or shrinks a node;
  - vacuums of one, two and three nodes.
- `MaxStat = 2` caps `hits` and `misses`. It also stops new sets once
  `clean` reaches 2, but a vacuum already running still evicts as many nodes
  as it needs. This leaves room for repeated hits that reorder the list, and
  for sets after evictions.
- In count mode, `NewSizes = {0, 1, 2, 3}` covers:
  - the rejected `set_size(0)`;
  - shrinks by one and by two entries;
  - a growth.
- `update` arguments are dicts of up to two entries over two keys. A dict
  argument followed by a kwargs dict of two entries is the smallest case where
  `pos` skips an entry.
- The `int` of `get_size` is scaled to `IntBits = 4`, because TLC's own
  integers are 32 bits wide. `set_size(9)` is then reported as -7, as
  `set_size(2**32 - 7)` is on a 64-bit build.

Distinct states reached by the passing runs:

| Run | Distinct states |
|---|---|
| size | 11,826 |
| count | 2,106 |
| count_live | 21,276 |

### Findings

1. **`set_size` leaves evicted sizes in `memory`** (drift).
   - `set_size` evicts through `lru_delete_last`, at line 553.
   - `lru_delete_last` adjusts neither `memory` nor `clean`.
2. **NULL dereference in `lru_vacuum`** (nullderef). After finding 1, `memory`
   can exceed `size` with an empty list, and `lru_vacuum` then reads
   `self->last->size` with `self->last == NULL` (line 336). Trace:
   1. `LRU(2)`
   2. `set(k1, v, 2)`
   3. `l[k2] = v`
   4. `set_size(1)` evicts k1; `memory` stays 2.
   5. `l[k2] = v`
   6. The vacuum evicts k2 and the list is empty, while `memory` is 2 > 1.
3. **Count mode never evicts** (countbound). Dict assignment charges size 0,
   so count mode never evicts. The docstring example of `LRU(3)` holding 3 of
   5 keys does not hold.
4. **An unhashable key corrupts the list** (unhashable). `LRU.set([], v, 0)`:
   - `PUT_NODE` fails (line 376);
   - the node is still linked at the head (line 378) and then freed by
     `Py_XDECREF`;
   - `LRU_set` returns `None` with the `TypeError` still pending, which
     Python reports as a `SystemError`.

   The list is then longer than the dict, and `collect` writes past the list
   it allocated with `len(dict)` slots.
5. **`update(d, **kw)` skips keyword entries** (update_kwargs). `pos` is not
   reset between the two walks (line 465), so `update({'a': 1}, b=2)` stores
   only `'a'`.
6. **`update(pairs)` stores nothing** (update_pairs). Only a dict argument is
   walked (line 458), while spec section 6 lists an iterable of pairs.
7. **`get_size` truncates** (getsize). `Py_BuildValue("i", self->size)`
   converts a `Py_ssize_t` to a C `int` (line 580).
8. **`get_stats` misses `set_size`'s evictions** (stats). This contradicts
   spec sections 4.4 and 4.6.

Each property of a passing run has a mutant in `PROJECT.json`: a plausible bug
in a mapped action that TLC catches with that run. Examples:
- an eviction that does not refund the size breaks `ImplementsAbstract`;
- a `set_size` eviction from the head breaks `ImplementsAbstract`;
- one that unlinks without deleting from the dict breaks `ShrinkReturns`.

## Fairness and liveness

`FairSpec` adds weak fairness on the loop steps only:
`VacuumStep`, `VacuumDone`, `ShrinkStep` and `ShrinkDone`.

The code justifies this:
- both loops run on the thread of the call that entered them;
- there is no lock, wait or suspension point between their iterations
  (spec section 5);
- a step that stays enabled is therefore taken.

Client operations get no fairness, because nothing obliges a client to call
the cache.

The liveness cfg says `CHECK_DEADLOCK FALSE`:
- with bounded counters, a cache that no client calls any more stops, and
  that stop is legitimate;
- TLC would report it as a deadlock before checking the temporal property;
- a loop stuck with no enabled step still violates `ShrinkReturns`.

## What is proved (TLAPS, `LRU_proofs.tla`, `LRU_refinement_proofs.tla`, `LRU_memory_proofs.tla`)

The proofs hold for every value of the constants that satisfies the named
assumptions of `LRU.tla`:
- `Keys` is non-empty.
- `Sizes` and `NewSizes` are sets of integers.
- `Capacities` is a set of positive naturals.

The theorems:
- **`Invariance`:** `Spec => []Inv`, where
  `Inv == TypeOK /\ IndexMatchesList /\ ShrinkArgPositive`.
- **`TypeCorrect`:** `Spec => []TypeOK`.
- **`IndexListBijection`:** `Spec => []IndexMatchesList`.
- **`SizeModeIndexListBijection`:** the same for `SizeModeSpec`.
- **`SizeModeCapacity`:** `SizeModeSpec => []CapacityRespected`, for
  `Sizes \subseteq Nat` (below).

`TypeOK` alone is not inductive, and neither is `IndexMatchesList`:
- `ShrinkDone` sets `size' = newSize`. It stays a positive natural only
  because `SetSize` checked `n > 0`; `ShrinkArgPositive` records this.
- The eviction and lookup steps stay typed only because the node they find is
  in the list, and that needs `IndexMatchesList`.

TLC checked `Inv` as an invariant on the mixed-mode instance, with 52,578
states.

The argument:
1. One lemma per action, resting on lemmas about the sequence operators.
2. `ConsProps`, `RemoveAtProps` and `FrontProps` give the length and elements
   of `Cons`, `RemoveAt` and `Front`.
3. `KeysCons`, `KeysRemoveAt` and `KeysFront` give what these operators do to
   the key set and to key distinctness.
4. `IndexOfProps` says that `IndexOf(k)` is the position of k when k is in the
   dict.

`SizeModeCapacity` proves `CapacityRespected` for `SizeModeSpec` under the
hypothesis `Sizes \subseteq Nat`, which is spec 4.2's precondition that sizes
are non-negative. The code does not check it.
- The inductive invariant is `Inv /\ CapacityRespected`.
- `CapacityRespected` alone is not inductive. `del` reads the node at
  `IndexOf(k)`, which `Inv` guarantees is a node of the list.
- With a non-negative size on every node (`NodeSizeNat`), `del` can only
  lower `memory` (`DelItemCapacity`).
- Every other step either leaves `memory` and `size` alone, or moves to a loop
  (`pc # "idle"`). `VacuumDone` returns only when `memory <= size`.

The proofs do not use `MemoryAccounting`.

### Refinement (`LRU_refinement_proofs.tla`)

The mapping is restated with two operators on node lists:
- `KS(s)` is the keys of `s`.
- `CT(s)` is the map from each key of `s` to its value.

`MappingOfList` shows `KeyOrder = KS(lru)` and `Contents = CT(lru)` when `Inv`
holds. Lemmas then show what `Cons`, `RemoveAt` and `Front` do to `KS` and
`CT`, and that `Drop` of a key at position i is `RemoveAt` at i.

The theorems:
- **`RefinementUnlessSelfEvicted`:**
  `Spec /\ []SetKeyNotSelfEvicted => Abstract!ASpec`.
  - Each step is mapped to an abstract step or a stutter (`StepRefines`):
    - `SetExisting` and `SetNew` to `Put`;
    - `LookupHit` to `Touch`;
    - `DelItem` to `Delete`;
    - `Clear` to `AClear`;
    - `SetSize` to `Resize`;
    - `VacuumStep` and `ShrinkStep` to `EvictTail`;
    - `VacuumDone` and `ShrinkDone` to `Return`;
    - `LookupMiss`, `SetCallback` and stutters to stutters.
  - The invariant used is `RInv == Inv /\ KeyIdle`, where
    `KeyIdle == pc # "vacuum" => key = NoKey`.
  - `KeyIdle` is needed for `ShrinkStep`. `EvictTail` may not evict the
    pinned key, and during set_size's loop the pinned key is `NoKey`, which is
    not a key.
  - The hypothesis is needed for `VacuumStep`. An eviction of the key that
    `_lru_ass_sub` is writing is not a step of `AbstractLRU`. After
    set_size, memory can drift above a smaller size, and the nullderef run
    shows such an eviction really happens. With
    `SetKeyNotSelfEvicted'`, the evicted key is not the pinned one.
- **`CountModeKeyKept`:** for `Sizes \subseteq {0}` (count mode),
  `Spec => []SetKeyNotSelfEvicted`.
  - The inductive invariant is
    `CountInv == Inv /\ memory = 0 /\ SetKeyNotSelfEvicted`.
  - Every node has size 0, so `memory` stays 0.
  - A `VacuumStep` needs `memory > size >= 1`, so it never happens.
  - While the vacuum runs, the written key stays in the dict.
- **`CountModeRefinement`:** for `Sizes \subseteq {0}`,
  `Spec => ImplementsAbstract`. This is what the count run checks, here for
  every value of the constants.

TLC checked `RInv` and `CountInv` as invariants before they were proved:
- `RInv` on the size and count instances;
- `CountInv` on the count instance.

### Memory accounting (`LRU_memory_proofs.tla`)

`MemSum(s)`, the sum of the node sizes of a list, is written in `LRU.tla` as
a recursive function over prefix sums, `psum[i]` for `i \in 0..Len(s)`,
rather than a RECURSIVE operator or a fold: the provers can unfold a
function defined by `CHOOSE` once it is known to exist, and never an operator
recursion. The library's induction rules take a predicate as an operator
parameter, which the installed provers cannot instantiate, so the induction
is done by hand:
- `NatMin`: a non-empty set of naturals has a least element, from `WFMin`
  and the well-foundedness of `<` on `Nat`.
- `PSum(g, s)` says g is the prefix-sum function of s. `PSumExists`,
  `PSumUnique` and `PSumInt` are proved by a least counterexample, and
  `MemSumIs` gives `MemSum(s) = g[Len(s)]` for any such g.
- `MemSumEmpty`, `MemSumOne`, `MemSumCons`, `MemSumRemoveAt` and
  `MemSumFront` give the sum after each list operation the cache uses.

The inductive invariant is `MInv == Inv /\ MemoryAccounting /\ HeadPinned`,
with `HeadPinned == pc = "vacuum" => lru # << >> /\ lru[1].key = key /\
lru[1].size <= size`. `MemoryAccounting` alone is not inductive for the loop of
`lru_vacuum`: an eviction keeps the sum right, but whether the loop may empty
the list, and so whether `lru_delete_last` has a victim, depends on the node
`_lru_ass_sub` just put at the head having a size no larger than the
capacity. In size mode `size` does not change during the loop (no `set_size`),
and `SetItem` only enters the loop after checking the new node's size
against `size` (the spec's "too large" branch). TLC checked `MInv` on the size
run (11,826 states) before it was proved. No assumption that sizes are
non-negative is needed.

The theorems, all for `SizeModeSpec` and every value of the constants:
- **`SizeModeMemoryAccounting`:** `[]MemoryAccounting`.
- **`SizeModeVacuumHasVictim`:** `[]VacuumHasVictim`.
- **`SizeModeKeyKept`:** `[]SetKeyNotSelfEvicted`: the pinned node is at the
  head, so the key is in the dict.
- **`SizeModeRefinement`:** `ImplementsAbstract`, from `SizeModeKeyKept`
  and `RefinementUnlessSelfEvicted`. This is what the size run checks.

Only model-checked:
- `MemoryAccounting` and `VacuumHasVictim` under the full `Spec` (with
  `set_size`): they are false there, and the drift and nullderef violation
  runs show the behaviours; so they are proved only for `SizeModeSpec`.
- Liveness (`ShrinkReturns`) and everything about `ENABLED`,
  which TLAPS does not handle.

## Not modelled

- **The callback's body.** Spec section 5 makes a callback that re-enters
  the cache undefined behaviour, since there is no reentrancy guard.
  - A callback that raises leaves the loop running, since its result is only
    `Py_XDECREF`ed.
  - The callback changes no cache state, so it is a no-op in the model.
- **Negative sizes.** `LRU.set` accepts them, but spec 4.2 excludes them.
  `SizeModeCapacity` states where that precondition is needed.
- **Integer width of `memory` and `size`.** They are 64-bit and the model's
  values are far from overflow. Only the 32-bit `int` conversion of
  `get_size` is modelled.
- **Pointer-level `prev`/`next`.** The sequence `lru` is the list those
  pointers describe.
- **Reference counting, `repr`, `dealloc` and the type glue.** They carry no
  cache state.
