----------------------------- MODULE Containers -----------------------------
(***************************************************************************)
(* The data structures of KaHyPar under any sequence of calls, each shown  *)
(* to be the Container it stands for: the priority queues (the heap with   *)
(* handles of binary_heap.h, the bucket queue that a build may take        *)
(* instead, bucket_queue.h, and the queue of several parts that one array  *)
(* maps to queues, kway_priority_queue.h), and the sets, maps and flags    *)
(* that forget without being cleared entry by entry (sparse_set.h,         *)
(* sparse_map.h, fast_reset_flag_array.h, fast_reset_array.h,              *)
(* connectivity_sets.h, hash_table.h).  Callers keep to what the classes   *)
(* assert: they insert what is not contained into queues and connectivity  *)
(* sets, and remove or update what is; one call of a hash table that its   *)
(* class does not exclude is left out too (TableNext).                     *)
(***************************************************************************)
EXTENDS Integers, Sequences, FiniteSetsExt, TLC

CONSTANTS
  Kinds,          \* the structures of this instance
  IDs,            \* elements of sets and maps, from 0
  HeapKeys,       \* the keys that an element of the heap may have
  MaxCleared,     \* bound on the heaps that are cleared
  BucketIDs,      \* elements of the bucket queue
  MaxKey,         \* keys of queues are above -MaxKey and up to MaxKey
  Parts,          \* the parts of a k-way queue, from 0
  PartIDs,        \* the elements of each
  MaxEntries,     \* bound on their number
  MaxThreshold,   \* the largest number of the type of a threshold
  MaxUsed,        \* bound on the list of used entries of a reset array
  HashKeys,       \* keys of hash tables
  MaxSize,        \* the size a hash table is made for
  EmptyElement,   \* the largest number of the type of a key
  MaxValue        \* bound on the values of maps

VARIABLES kind, structure, call

Present == 1
Nothing == -9
QueueKeys == 1 - MaxKey .. MaxKey
Increased(threshold) == (threshold + 1) % (MaxThreshold + 1)

-----------------------------------------------------------------------------
(* Binary heap.  Positions start at 1, behind the sentinel; what stands    *)
(* behind the last element is never read, so it is left out.  Handles of   *)
(* elements that have left may be any.                                     *)

NewHeap(ids) == [slots |-> <<>>, handles |-> [v \in ids |-> 0]]
heapContains(h, id) == h.handles[id] \in DOMAIN h.slots /\ h.slots[h.handles[id]].id = id
getKey(h, id) == h.slots[h.handles[id]].key

(* Elements are moved to positions.                                        *)
Placed(h, moved) ==
  [slots |-> [i \in DOMAIN h.slots |-> IF i \in DOMAIN moved THEN moved[i] ELSE h.slots[i]],
   handles |-> [v \in DOMAIN h.handles |->
                  IF \E i \in DOMAIN moved : moved[i].id = v
                  THEN CHOOSE i \in DOMAIN moved : moved[i].id = v ELSE h.handles[v]]]

upHeap(h, position) ==
  LET rising == h.slots[position]
      path[i \in 1 .. position] ==
        IF i > 1 /\ h.slots[i \div 2].key < rising.key THEN {i} \cup path[i \div 2] ELSE {i}
  IN Placed(h, [i \in path[position] |->
                  IF i = Min(path[position]) THEN rising ELSE h.slots[i \div 2]])

downHeap(h, position) ==
  LET dropping == h.slots[position]
      n == Len(h.slots)
      child(i) == IF 2 * i + 1 <= n /\ h.slots[2 * i + 1].key >= h.slots[2 * i].key
                  THEN 2 * i + 1 ELSE 2 * i
      path[i \in position .. n] ==
        IF 2 * i <= n /\ dropping.key < h.slots[child(i)].key THEN {i} \cup path[child(i)] ELSE {i}
  IN Placed(h, [i \in path[position] |->
                  IF i = Max(path[position]) THEN dropping ELSE h.slots[child(i)]])

push(h, id, key) ==
  LET n == Len(h.slots) + 1
  IN upHeap([slots |-> Append(h.slots, [id |-> id, key |-> key]),
             handles |-> [h.handles EXCEPT ![id] = n]], n)

updateKey(h, id, new_key) ==
  LET changed == [h EXCEPT !.slots[h.handles[id]].key = new_key]
  IN IF new_key < getKey(h, id) THEN downHeap(changed, h.handles[id]) ELSE upHeap(changed, h.handles[id])
updateKeyBy(h, id, delta) ==
  LET changed == [h EXCEPT !.slots[h.handles[id]].key = @ + delta]
  IN IF delta < 0 THEN downHeap(changed, h.handles[id]) ELSE upHeap(changed, h.handles[id])

(* The last element takes the place of the one removed, and from there may *)
(* have to move either way: it need not be below it.                       *)
heapRemove(h, id) ==
  LET n == Len(h.slots)
      i == h.handles[id]
      last == h.slots[n]
      front == SubSeq(h.slots, 1, n - 1)
      swapped == [slots |-> [front EXCEPT ![i] = last],
                  handles |-> [h.handles EXCEPT ![last.id] = i, ![id] = 0]]
  IN IF i = n THEN [slots |-> front, handles |-> [h.handles EXCEPT ![id] = 0]]
     ELSE IF h.slots[i].key < last.key THEN upHeap(swapped, i)
     ELSE IF last.key < h.slots[i].key THEN downHeap(swapped, i)
     ELSE swapped

top(h) == h.slots[1].id
pop(h) ==
  LET n == Len(h.slots)
      rest == [slots |-> [SubSeq(h.slots, 1, n - 1) EXCEPT ![1] = h.slots[n]],
               handles |-> [h.handles EXCEPT ![h.slots[n].id] = 1, ![top(h)] = 0]]
  IN IF n = 1 THEN [slots |-> <<>>, handles |-> [h.handles EXCEPT ![top(h)] = 0]]
     ELSE downHeap(rest, 1)
heapClear(h) == [h EXCEPT !.slots = <<>>]

-----------------------------------------------------------------------------
(* Bucket queue: a stack of elements for each key, shifted by the largest. *)
(* Buckets that are not in the index are emptied before they are used, and *)
(* the repository is read for elements of the queue only: what stays there *)
(* of earlier times is left out.                                           *)

NoAddress == -1
NewBuckets(range) ==
  [buckets |-> [a \in 0 .. 2 * range |-> <<>>], index |-> {}, max_address |-> NoAddress,
   repository |-> [v \in {} |-> 0], range |-> range]
bucketContains(q, id) == id \in DOMAIN q.repository
address(q, id) == q.repository[id].key + q.range

Opened(q, a) == [q EXCEPT !.index = @ \cup {a}, !.max_address = Max({@, a})]
PushedBack(q, id, key) ==
  LET a == key + q.range
      place == [index |-> Len(q.buckets[a]) + 1, key |-> key]
  IN [q EXCEPT !.buckets[a] = Append(@, id),
               !.repository = [v \in DOMAIN @ \cup {id} |-> IF v = id THEN place ELSE @[v]]]
(* The last of the bucket takes the place; an empty bucket is invalidated. *)
TakenOut(q, id) ==
  LET a == address(q, id)
      i == q.repository[id].index
      bucket == q.buckets[a]
      last == bucket[Len(bucket)]
  IN [q EXCEPT !.repository[last].index = i,
               !.buckets[a] = SubSeq([bucket EXCEPT ![i] = last], 1, Len(bucket) - 1),
               !.index = IF Len(bucket) > 1 THEN @ ELSE @ \ {a}]
Gone(q, id) == [q EXCEPT !.repository = [v \in DOMAIN @ \ {id} |-> @[v]]]
(* Was the largest bucket invalidated, another one is now.                 *)
updateMaxAddress(q, a) ==
  IF a # q.max_address \/ a \in q.index THEN q
  ELSE [q EXCEPT !.max_address = IF q.index = {} THEN NoAddress ELSE Max(q.index)]

bucketPush(q, id, key) == PushedBack(Opened(q, key + q.range), id, key)
bucketTop(q) == q.buckets[q.max_address][Len(q.buckets[q.max_address])]
bucketRemove(q, id) == Gone(updateMaxAddress(TakenOut(q, id), address(q, id)), id)
bucketPop(q) ==
  LET a == q.max_address
      rest == [q EXCEPT !.buckets[a] = SubSeq(@, 1, Len(@) - 1),
                        !.index = IF Len(q.buckets[a]) > 1 THEN @ ELSE @ \ {a}]
  IN Gone(updateMaxAddress(rest, a), bucketTop(q))
updateKeyInternal(q, id, new_key) ==
  PushedBack(updateMaxAddress(TakenOut(Opened(q, new_key + q.range), id), address(q, id)), id, new_key)
bucketClear(q) == NewBuckets(q.range)

-----------------------------------------------------------------------------
(* k-way queue: the queues stand in the order enabled, disabled but not    *)
(* empty, unused.  Entry i of the mapping says whose the queue i is and    *)
(* which queue part i has; the last one is a sentinel.  A queue is what a  *)
(* heap promises, a function from its elements to their keys.              *)

Invalid == -1
NoElement == [v \in {} |-> 0]
NewKway(k) ==
  [queues |-> [i \in 0 .. k - 1 |-> NoElement],
   mapping |-> [i \in 0 .. k |-> [part |-> Invalid, index |-> Invalid]],
   num_entries |-> 0, num_nonempty_pqs |-> 0, num_enabled_pqs |-> 0]
isUnused(q, part) == q.mapping[part].index = Invalid
isEnabled(q, part) == ~isUnused(q, part) /\ q.mapping[part].index < q.num_enabled_pqs
QueueOf(q, part) == IF isUnused(q, part) THEN NoElement ELSE q.queues[q.mapping[part].index]

swap(q, a, b) ==
  LET p == q.mapping[a].part
      r == q.mapping[b].part
      parts == [q.mapping EXCEPT ![a].part = r, ![b].part = p]
  IN [q EXCEPT !.queues = [@ EXCEPT ![a] = q.queues[b], ![b] = q.queues[a]],
               !.mapping = [parts EXCEPT ![p].index = q.mapping[r].index,
                                         ![r].index = q.mapping[p].index]]
markUnused(q, part) ==
  [q EXCEPT !.mapping = [@ EXCEPT ![q.mapping[part].index].part = Invalid, ![part].index = Invalid]]

enablePart(q, part) ==
  IF isUnused(q, part) \/ isEnabled(q, part) THEN q
  ELSE [swap(q, q.mapping[part].index, q.num_enabled_pqs) EXCEPT !.num_enabled_pqs = @ + 1]
disablePart(q, part) ==
  IF ~isEnabled(q, part) THEN q
  ELSE [swap(q, q.mapping[part].index, q.num_enabled_pqs - 1) EXCEPT !.num_enabled_pqs = @ - 1]

kwayInsert(q, id, part, key) ==
  LET n == q.num_nonempty_pqs
      used == IF ~isUnused(q, part) THEN q
              ELSE [q EXCEPT !.mapping = [@ EXCEPT ![n].part = part, ![part].index = n],
                             !.num_nonempty_pqs = n + 1]
      i == used.mapping[part].index
  IN [used EXCEPT !.queues[i] = [v \in DOMAIN @ \cup {id} |-> IF v = id THEN key ELSE @[v]],
                  !.num_entries = @ + 1]
kwayUpdateKey(q, id, part, key) == [q EXCEPT !.queues[q.mapping[part].index][id] = key]

(* A part that runs empty is disabled first, by the swap with the last     *)
(* enabled one, and then taken to the unused ones behind the last not      *)
(* empty one.                                                              *)
kwayRemove(q, id, part) ==
  LET i == q.mapping[part].index
      less == [q EXCEPT !.queues[i] = [v \in DOMAIN @ \ {id} |-> @[v]], !.num_entries = @ - 1]
      disabled == disablePart(less, part)
      last == disabled.num_nonempty_pqs - 1
  IN IF less.queues[i] # NoElement THEN less
     ELSE markUnused([swap(disabled, disabled.mapping[part].index, last)
                        EXCEPT !.num_nonempty_pqs = last], part)

Tops(queue) == {v \in DOMAIN queue : \A w \in DOMAIN queue : queue[w] <= queue[v]}
topKey(queue) == Max({queue[v] : v \in DOMAIN queue})
(* The first of the best queues, or any of them when ties are broken at    *)
(* random.                                                                 *)
maxIndices(q) ==
  LET asked == 0 .. q.num_enabled_pqs - 1
  IN {i \in asked : \A j \in asked : topKey(q.queues[j]) <= topKey(q.queues[i])}
maxIndex(q) == Min(maxIndices(q))
kwayClear(q) == NewKway(Cardinality(DOMAIN q.queues))

-----------------------------------------------------------------------------
(* Sparse set: the elements are listed without gaps, and a number is an    *)
(* element if the list has it where its entry says.  Entries are never     *)
(* reset.                                                                  *)

NewSparse == [sparse |-> [v \in IDs |-> MaxThreshold], dense |-> <<>>]
sparseContains(s, v) == s.sparse[v] \in DOMAIN s.dense /\ s.dense[s.sparse[v]] = v
sparseAdd(s, v) ==
  IF sparseContains(s, v) THEN s
  ELSE [sparse |-> [s.sparse EXCEPT ![v] = Len(s.dense) + 1], dense |-> Append(s.dense, v)]
sparseRemove(s, v) ==
  LET n == Len(s.dense)
      e == s.dense[n]
  IN IF ~sparseContains(s, v) THEN s
     ELSE [sparse |-> [s.sparse EXCEPT ![e] = s.sparse[v]],
           dense |-> SubSeq([s.dense EXCEPT ![s.sparse[v]] = e], 1, n - 1)]
sparseClear(s) == [s EXCEPT !.dense = <<>>]

(* Set without removals: an element has the threshold as its entry.  The   *)
(* threshold grows with each clear, and starts anew before it is the       *)
(* number of entries that never were elements.                             *)
NewInsertOnly == [sparse |-> [v \in IDs |-> MaxThreshold], dense |-> <<>>, threshold |-> 0]
insertOnlyContains(s, v) == s.sparse[v] = s.threshold
insertOnlyAdd(s, v) ==
  IF insertOnlyContains(s, v) THEN s
  ELSE [s EXCEPT !.sparse[v] = s.threshold, !.dense = Append(@, v)]
insertOnlyClear(s) ==
  IF s.threshold + 1 = MaxThreshold THEN NewInsertOnly
  ELSE [s EXCEPT !.dense = <<>>, !.threshold = Increased(@)]

(* Sparse map: a sparse set of pairs; the subscript inserts the default.   *)
NewMap == [sparse |-> [v \in IDs |-> MaxThreshold], dense |-> <<>>]
mapContains(m, k) == m.sparse[k] \in DOMAIN m.dense /\ m.dense[m.sparse[k]].key = k
mapAdd(m, k, value) ==
  IF mapContains(m, k) THEN m
  ELSE [sparse |-> [m.sparse EXCEPT ![k] = Len(m.dense) + 1],
        dense |-> Append(m.dense, [key |-> k, value |-> value])]
mapAssign(m, k, value) ==
  LET found == mapAdd(m, k, 0) IN [found EXCEPT !.dense[found.sparse[k]].value = value]
mapRemove(m, k) ==
  LET n == Len(m.dense)
      last == m.dense[n]
  IN IF ~mapContains(m, k) THEN m
     ELSE [sparse |-> [m.sparse EXCEPT ![last.key] = m.sparse[k]],
           dense |-> SubSeq([m.dense EXCEPT ![m.sparse[k]] = last], 1, n - 1)]

(* Flags: set if they have the threshold.                                  *)
NewFlags == [v |-> [i \in IDs |-> 0], threshold |-> 1]
flagSet(f, i, value) == [f EXCEPT !.v[i] = IF value THEN f.threshold ELSE 0]
flagsReset(f) ==
  IF f.threshold = MaxThreshold THEN NewFlags ELSE [f EXCEPT !.threshold = Increased(@)]

(* Entries with an initial value, here 0, and the list of those changed    *)
(* since; an entry that was changed back and again is listed twice.        *)
NewArray == [entries |-> [i \in IDs |-> 0], used |-> <<>>]
arraySet(a, i, value) ==
  [entries |-> [a.entries EXCEPT ![i] = value],
   used |-> IF a.entries[i] = 0 THEN Append(a.used, i) ELSE a.used]
arrayUpdate(a, i, delta) == arraySet(a, i, a.entries[i] + delta)
uncheckedSet(a, i, value) == [a EXCEPT !.entries[i] = value]
(* From the last used entry to the first, each is added to the container   *)
(* and reset.                                                              *)
resetUsedEntries(a) ==
  LET step[n \in 0 .. Len(a.used)] ==
        IF n = 0 THEN [entries |-> a.entries, sums |-> [i \in IDs |-> 0]]
        ELSE LET s == step[n - 1]
                 i == a.used[Len(a.used) + 1 - n]
             IN [entries |-> [s.entries EXCEPT ![i] = 0], sums |-> [s.sums EXCEPT ![i] = @ + s.entries[i]]]
  IN [entries |-> step[Len(a.used)].entries, used |-> <<>>, sums |-> step[Len(a.used)].sums]

(* The blocks of a net, in a list.                                         *)
connectivityContains(parts, p) == \E i \in DOMAIN parts : parts[i] = p
connectivityAdd(parts, p) == Append(parts, p)
connectivityRemove(parts, p) ==
  LET i == Min({j \in DOMAIN parts : parts[j] = p})
  IN SubSeq([parts EXCEPT ![i] = parts[Len(parts)]], 1, Len(parts) - 1)

-----------------------------------------------------------------------------
(* Hash tables: linear probing from the hash on, into a tail that takes    *)
(* the place of wrapping around.  Two numbers mark slots; as keys they are *)
(* kept aside, one of them only where keys can be deleted.  Nothing is     *)
(* deleted by any caller.  The last key looked up is cached.  In a set     *)
(* made for insertions only, a marking number that is inserted again is    *)
(* taken for an ordinary key: an empty slot is listed for it.              *)

TableSize == MaxSize * 2
DeletedElement == EmptyElement - 1
Slots == 0 .. TableSize + (MaxSize * 11) \div 10 - 1
Specials == IF kind = "hash_map" THEN {EmptyElement, DeletedElement} ELSE {EmptyElement}
Cache == kind # "insert_only_map"
NewTable ==
  [ht |-> [i \in Slots |-> [key |-> EmptyElement, value |-> 0]], poses |-> <<>>, special |-> NoElement,
   last_key |-> EmptyElement, last_position |-> 0]

(* There is no such position when the table overflows: the program ends.   *)
findPosition(t, key) ==
  IF Cache /\ key = t.last_key THEN t.last_position
  ELSE Min({i \in Slots : i >= key % TableSize /\ t.ht[i].key \in {EmptyElement, key}})
Looked(t, key) ==
  IF Cache THEN [t EXCEPT !.last_key = key, !.last_position = findPosition(t, key)] ELSE t
tableContains(t, key) ==
  IF key \in Specials THEN key \in DOMAIN t.special
  ELSE t.ht[findPosition(t, key)].key # EmptyElement
KeptAside(t, key) == key \in Specials /\ (kind = "insert_only_set" => key \notin DOMAIN t.special)
tableInsert(t, key, value) ==
  LET i == findPosition(t, key)
  IN IF KeptAside(t, key) THEN [t EXCEPT !.special = @ @@ (key :> value)]
     ELSE IF t.ht[i].key # EmptyElement THEN Looked(t, key)
     ELSE [Looked(t, key) EXCEPT !.ht[i] = [key |-> key, value |-> value],
                                 !.poses = Append(@, i)]
tableAssign(t, key, value) ==
  LET found == tableInsert(t, key, 0)
  IN IF key \in Specials THEN [found EXCEPT !.special[key] = value]
     ELSE [found EXCEPT !.ht[findPosition(found, key)].value = value]
tableClear(t) ==
  [t EXCEPT !.ht = [i \in Slots |-> IF \E n \in DOMAIN t.poses : t.poses[n] = i
                                    THEN [@[i] EXCEPT !.key = EmptyElement] ELSE @[i]],
            !.poses = <<>>, !.special = NoElement, !.last_key = EmptyElement, !.last_position = 0]

-----------------------------------------------------------------------------
(* Calls.                                                                  *)

Do(next, op, p, k, v) == structure' = next /\ call' = <<op, p, k, v>> /\ UNCHANGED kind
Look(p, k, contained, value) == Do(structure, "lookup", p, k, IF contained THEN value ELSE Nothing)
ClearTo(next) == Do(next, "clear", Nothing, Nothing, Nothing)
SizeIs(n) == Do(structure, "size", Nothing, Nothing, n)

HeapNext ==
  \/ \E id \in DOMAIN HeapKeys :
       \/ Look(0, id, heapContains(structure, id), getKey(structure, id))
       \/ /\ ~heapContains(structure, id)
          /\ \E key \in HeapKeys[id] : Do(push(structure, id, key), "insert", 0, id, key)
       \/ /\ heapContains(structure, id)
          /\ \/ \E key \in HeapKeys[id] : Do(updateKey(structure, id, key), "assign", 0, id, key)
             \/ \E key \in HeapKeys[id] :
                  Do(updateKeyBy(structure, id, key - getKey(structure, id)), "assign", 0, id, key)
             \/ Do(heapRemove(structure, id), "remove", 0, id, Nothing)
  \/ /\ structure.slots # <<>>
     /\ Do(pop(structure), "pop_from", 0, top(structure), getKey(structure, top(structure)))
  \/ Len(structure.slots) <= MaxCleared /\ ClearTo(heapClear(structure))

(* A key that is written is another one.                                   *)
BucketNext ==
  \/ \E id \in BucketIDs :
       LET contained == bucketContains(structure, id)
           old == structure.repository[id].key
       IN \/ Look(0, id, contained, old)
          \/ /\ ~contained
             /\ \E key \in QueueKeys : Do(bucketPush(structure, id, key), "insert", 0, id, key)
          \/ /\ contained
             /\ \/ \E key \in QueueKeys \ {old} :
                     Do(updateKeyInternal(structure, id, key), "assign", 0, id, key)
                \/ Do(bucketRemove(structure, id), "remove", 0, id, Nothing)
  \/ /\ structure.index # {}
     /\ Do(bucketPop(structure), "pop_from", 0, bucketTop(structure),
           structure.max_address - structure.range)
  \/ ClearTo(bucketClear(structure))

(* The best entry of all open parts is asked for, or that of an open part. *)
KwayNext ==
  LET deleteMax(op, i) ==
        LET part == structure.mapping[i].part
        IN \E id \in Tops(structure.queues[i]) :
             Do(kwayRemove(structure, id, part), op, part, id, structure.queues[i][id])
  IN \/ \E part \in Parts :
          \/ Do(enablePart(structure, part), "enable", part, Nothing, Nothing)
          \/ Do(disablePart(structure, part), "disable", part, Nothing, Nothing)
          \/ isEnabled(structure, part) /\ deleteMax("pop_from", structure.mapping[part].index)
          \/ \E id \in PartIDs[part] :
               LET queue == QueueOf(structure, part)
                   contained == id \in DOMAIN queue
               IN \/ Look(part, id, contained, queue[id])
                  \/ /\ ~contained /\ structure.num_entries < MaxEntries
                     /\ \E key \in QueueKeys : Do(kwayInsert(structure, id, part, key), "insert", part, id, key)
                  \/ /\ contained
                     /\ \/ \E key \in QueueKeys :
                             Do(kwayUpdateKey(structure, id, part, key), "assign", part, id, key)
                        \/ Do(kwayRemove(structure, id, part), "remove", part, id, Nothing)
     \/ structure.num_enabled_pqs > 0 /\ deleteMax("pop", maxIndex(structure))
     \/ \E i \in maxIndices(structure) : deleteMax("pop", i)
     \/ SizeIs(structure.num_entries)
     \/ ClearTo(kwayClear(structure))

SparseNext ==
  \/ \E v \in IDs :
       \/ Look(0, v, sparseContains(structure, v), Present)
       \/ Do(sparseAdd(structure, v), "insert", 0, v, Present)
       \/ Do(sparseRemove(structure, v), "remove", 0, v, Nothing)
  \/ SizeIs(Len(structure.dense)) \/ ClearTo(sparseClear(structure))

InsertOnlyNext ==
  \/ \E v \in IDs :
       \/ Look(0, v, insertOnlyContains(structure, v), Present)
       \/ Do(insertOnlyAdd(structure, v), "insert", 0, v, Present)
  \/ SizeIs(Len(structure.dense)) \/ ClearTo(insertOnlyClear(structure))

MapNext ==
  \/ \E k \in IDs :
       \/ Look(0, k, mapContains(structure, k), structure.dense[structure.sparse[k]].value)
       \/ \E value \in 0 .. MaxValue :
            \/ Do(mapAdd(structure, k, value), "insert", 0, k, value)
            \/ Do(mapAssign(structure, k, value), "assign", 0, k, value)
       \/ Do(mapRemove(structure, k), "remove", 0, k, Nothing)
  \/ SizeIs(Len(structure.dense)) \/ ClearTo(sparseClear(structure))

FlagsNext ==
  \/ \E i \in IDs :
       \/ Look(0, i, structure.v[i] = structure.threshold, Present)
       \/ Do(flagSet(structure, i, TRUE), "insert", 0, i, Present)
       \/ Do(flagSet(structure, i, FALSE), "remove", 0, i, Nothing)
  \/ ClearTo(flagsReset(structure))

ArrayNext ==
  LET reset == resetUsedEntries(structure)
      next == [entries |-> reset.entries, used |-> reset.used]
      written(a, i, value) ==
        Len(a.used) <= MaxUsed /\ Do(a, IF value = 0 THEN "remove" ELSE "assign", 0, i,
                                    IF value = 0 THEN Nothing ELSE value)
  IN \/ \E i \in IDs, value \in 0 .. MaxValue :
          \/ written(arraySet(structure, i, value), i, value)
          \/ written(arrayUpdate(structure, i, value - structure.entries[i]), i, value)
          \/ structure.entries[i] # 0 /\ written(uncheckedSet(structure, i, value), i, value)
     \/ ClearTo(next)
     \/ Do(next, "collect", Nothing,
           [x \in {<<0, i>> : i \in {j \in IDs : reset.sums[j] # 0}} |-> reset.sums[x[2]]], Nothing)

ConnectivityNext ==
  \/ \E p \in IDs :
       LET contained == connectivityContains(structure, p)
       IN \/ Look(0, p, contained, Present)
          \/ ~contained /\ Do(connectivityAdd(structure, p), "insert", 0, p, Present)
          \/ contained /\ Do(connectivityRemove(structure, p), "remove", 0, p, Nothing)
  \/ SizeIs(Len(structure)) \/ ClearTo(<<>>)

(* A table is made for all keys that are inserted.  No class asserts it,   *)
(* but a set made for insertions only is not given its marking number      *)
(* again: the program puts into it numbers of clusters, which are smaller. *)
TableNext ==
  \/ \E key \in HashKeys :
       LET contained == tableContains(structure, key)
           fits == /\ contained \/ key \in Specials \/ Len(structure.poses) < MaxSize
                   /\ kind = "insert_only_set" /\ key = EmptyElement => ~contained
           value == IF key \in Specials THEN structure.special[key]
                    ELSE structure.ht[findPosition(structure, key)].value
       IN \/ Do(IF key \in Specials THEN structure ELSE Looked(structure, key), "lookup", 0, key,
                IF contained THEN value ELSE Nothing)
          \/ fits /\ Do(tableInsert(structure, key, Present), "insert", 0, key, Present)
          \/ /\ fits /\ kind # "insert_only_set"
             /\ \E v \in 0 .. MaxValue : Do(tableAssign(structure, key, v), "assign", 0, key, v)
  \/ SizeIs(Len(structure.poses) + Cardinality(DOMAIN structure.special))
  \/ kind = "hash_map" /\ ClearTo(tableClear(structure))

-----------------------------------------------------------------------------
NewStructure ==
  CASE kind = "heap" -> NewHeap(DOMAIN HeapKeys)
    [] kind = "buckets" -> NewBuckets(MaxKey)
    [] kind = "kway" -> NewKway(Cardinality(Parts))
    [] kind = "sparse_set" -> NewSparse
    [] kind = "insert_only" -> NewInsertOnly
    [] kind = "sparse_map" -> NewMap
    [] kind = "flags" -> NewFlags
    [] kind = "reset_array" -> NewArray
    [] kind = "connectivity" -> <<>>
    [] OTHER -> NewTable
Init == kind \in Kinds /\ structure = NewStructure /\ call = <<"new", Nothing, Nothing, Nothing>>
Next ==
  \/ kind = "heap" /\ HeapNext
  \/ kind = "buckets" /\ BucketNext
  \/ kind = "kway" /\ KwayNext
  \/ kind = "sparse_set" /\ SparseNext
  \/ kind = "insert_only" /\ InsertOnlyNext
  \/ kind = "sparse_map" /\ MapNext
  \/ kind = "flags" /\ FlagsNext
  \/ kind = "reset_array" /\ ArrayNext
  \/ kind = "connectivity" /\ ConnectivityNext
  \/ kind \in {"hash_map", "insert_only_map", "insert_only_set"} /\ TableNext
vars == <<kind, structure, call>>
Spec == Init /\ [][Next]_vars

-----------------------------------------------------------------------------
(* What is in a structure, as its own lists give it; what a lookup finds   *)
(* is the answer of a call.                                                *)

FromList(n, key(_), value(_)) ==
  [x \in {<<0, key(i)>> : i \in 1 .. n} |-> value(CHOOSE i \in 1 .. n : key(i) = x[2])]
HeapContent ==
  FromList(Len(structure.slots), LAMBDA i : structure.slots[i].id, LAMBDA i : structure.slots[i].key)
BucketContent ==
  LET listed(a) == {structure.buckets[a][i] : i \in DOMAIN structure.buckets[a]}
      holders(v) == {a \in structure.index : v \in listed(a)}
  IN [x \in {<<0, v>> : v \in UNION {listed(a) : a \in structure.index}} |-> Max(holders(x[2])) - structure.range]
PartAt(i) == structure.mapping[i].part
KwayContent ==
  LET nonempty == 0 .. structure.num_nonempty_pqs - 1
      index(part) == CHOOSE i \in nonempty : PartAt(i) = part
  IN [x \in UNION {{<<PartAt(i), v>> : v \in DOMAIN structure.queues[i]} : i \in nonempty} |->
        structure.queues[index(x[1])][x[2]]]
SetContent(list) == FromList(Len(list), LAMBDA i : list[i], LAMBDA i : Present)
TableContent ==
  LET at(n) == structure.ht[structure.poses[n]]
  IN FromList(Len(structure.poses), LAMBDA n : at(n).key, LAMBDA n : at(n).value)
     @@ [x \in {<<0, key>> : key \in DOMAIN structure.special} |-> structure.special[x[2]]]
Content ==
  CASE kind = "heap" -> HeapContent
    [] kind = "buckets" -> BucketContent
    [] kind = "kway" -> KwayContent
    [] kind \in {"sparse_set", "insert_only"} -> SetContent(structure.dense)
    [] kind = "sparse_map" ->
         FromList(Len(structure.dense), LAMBDA i : structure.dense[i].key, LAMBDA i : structure.dense[i].value)
    [] kind = "flags" ->
         [x \in {<<0, i>> : i \in {j \in IDs : structure.v[j] = structure.threshold}} |-> Present]
    [] kind = "reset_array" ->
         [x \in {<<0, i>> : i \in {j \in IDs : structure.entries[j] # 0}} |-> structure.entries[x[2]]]
    [] kind = "connectivity" -> SetContent(structure)
    [] OTHER -> TableContent
Open == IF kind = "kway" THEN {PartAt(i) : i \in 0 .. structure.num_enabled_pqs - 1} ELSE {}

(* Every structure implements a container: whatever was called before (of  *)
(* the calls above: no key that is a marking number is inserted again into *)
(* a set made for insertions only), an answer is the one its entries give, *)
(* its lists have exactly the entries that lookups find, and a call        *)
(* changes the entries it names and no other.                              *)
Abstract == INSTANCE Container WITH content <- Content, open <- Open, call <- call
=============================================================================
