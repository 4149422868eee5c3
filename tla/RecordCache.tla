----------------------------- MODULE RecordCache -----------------------------
(***************************************************************************)
(* CachedNodeReader: routing records of published snapshots, shared by all *)
(* readers, evicted first in first out across snapshots.  A read looks its *)
(* nodes up under the cache mutex, fetches what is missing from storage    *)
(* without it, and inserts what it fetched under the mutex again; other    *)
(* readers may look up, insert and evict in between.                       *)
(*                                                                         *)
(* A published snapshot is what its manifest resolves to (nodes) and the   *)
(* fields of the manifest that the cache key is made of.                   *)
(***************************************************************************)
EXTENDS Integers, Sequences

CONSTANTS
  Readers,
  MaxEntries   \* the capacity: 0 caches nothing, no capacity is a large one

ASSUME CacheAssumption == MaxEntries \in Nat

VARIABLES
  published,  \* the snapshots, by manifest version
  cache,      \* the cached reads, by snapshot key and node id
  order,      \* insertion_order: the keys of the cache, oldest first
  holder,     \* the reader that holds the mutex between two insertions
  request     \* request[r]: the call of read_nodes reader r is in

cacheVars == <<published, cache, order, holder, request>>

Nobody == "nobody"
NoRequest == [pc |-> "idle"]
EmptyFn == [x \in {} |-> x]
With(f, x, y) == [z \in DOMAIN f \cup {x} |-> IF z = x THEN y ELSE f[z]]
Without(f, x) == [z \in DOMAIN f \ {x} |-> f[z]]

\* Mutant of SnapshotKey: the segments alone.
SnapshotKeyOfSegments(s) == s.segments

\* SnapshotCacheKey::from_snapshot
SnapshotKey(s) == <<s.version, s.segments, s.hotDelta, s.epoch, s.quantizers>>

Key(version, n) == <<SnapshotKey(published[version]), n>>

------------------------------------------------------------------------------
(* read_nodes *)

\* A snapshot becomes readable: its version is its place in the sequence.
Publish(snapshot) ==
  /\ snapshot.version = Len(published) + 1
  /\ published' = Append(published, snapshot)
  /\ UNCHANGED <<cache, order, holder, request>>

Request(pc, version, ids, missing, reads) ==
  [pc |-> pc, version |-> version, ids |-> ids, missing |-> missing, reads |-> reads]

Elements(ids) == {ids[i] : i \in DOMAIN ids}

\* Called with ids that differ: the lookup, under the mutex.
StartRead(r, version, ids) ==
  /\ request[r] = NoRequest
  /\ holder = Nobody
  /\ LET hits == {n \in Elements(ids) : Key(version, n) \in DOMAIN cache}
         missing == Elements(ids) \ hits
     IN  request' = [request EXCEPT ![r] =
           Request(IF missing = {} THEN "done" ELSE "fetch", version, ids, missing,
                   [n \in hits |-> cache[Key(version, n)]])]
  /\ UNCHANGED <<published, cache, order, holder>>

\* The inner reader answers for every missing node.
Fetch(r) ==
  /\ request[r].pc = "fetch"
  /\ LET q == request[r]
         nodes == published[q.version].nodes
     IN  request' = [request EXCEPT ![r] =
           Request("insert", q.version, q.ids, q.missing,
                   [n \in DOMAIN q.reads \cup q.missing |->
                      IF n \in q.missing THEN nodes[n] ELSE q.reads[n]])]
  /\ UNCHANGED <<published, cache, order, holder>>

\* Mutant of Inserted: an entry another reader has put there is counted again.
InsertedAgain(key, read) ==
  /\ cache' = With(IF Len(order) < MaxEntries THEN cache ELSE Without(cache, Head(order)), key, read)
  /\ order' = IF Len(order) < MaxEntries THEN Append(order, key) ELSE Append(Tail(order), key)

\* CachedNodeReaderState::insert: one more entry, and the oldest one evicted
\* if that is one too many (evicting one is enough: CacheConsistent).
Inserted(key, read) ==
  IF MaxEntries = 0 THEN UNCHANGED <<cache, order>>
  ELSE IF key \in DOMAIN cache
       THEN cache' = With(cache, key, read) /\ UNCHANGED order
       ELSE IF Len(order) < MaxEntries
            THEN cache' = With(cache, key, read) /\ order' = Append(order, key)
            ELSE /\ cache' = With(Without(cache, Head(order)), key, read)
                 /\ order' = Append(Tail(order), key)

\* What was fetched is inserted in the order of the call; the mutex is held
\* from the first insertion to the last.
Insert(r) ==
  /\ request[r].pc = "insert"
  /\ holder \in {Nobody, r}
  /\ \E i \in DOMAIN request[r].ids :
       LET q == request[r]
           n == q.ids[i]
           left == q.missing \ {n}
       IN  /\ n \in q.missing
           /\ \A j \in 1 .. i - 1 : q.ids[j] \notin q.missing
           /\ Inserted(Key(q.version, n), q.reads[n])
           /\ request' = [request EXCEPT ![r] =
                Request(IF left = {} THEN "done" ELSE "insert", q.version, q.ids, left, q.reads)]
           /\ holder' = IF left = {} THEN Nobody ELSE r
  /\ UNCHANGED published

\* The inner reader fails, and read_nodes with it.
FailFetch(r) ==
  /\ request[r].pc = "fetch"
  /\ request' = [request EXCEPT ![r] = NoRequest]
  /\ UNCHANGED <<published, cache, order, holder>>

FinishRead(r) ==
  /\ request[r].pc = "done"
  /\ request' = [request EXCEPT ![r] = NoRequest]
  /\ UNCHANGED <<published, cache, order, holder>>

------------------------------------------------------------------------------
(* Specification *)

CacheInit ==
  /\ published = <<>>
  /\ cache = EmptyFn /\ order = <<>> /\ holder = Nobody
  /\ request = [r \in Readers |-> NoRequest]

CacheWork(r) == Fetch(r) \/ Insert(r)

------------------------------------------------------------------------------
(* Properties *)

\* Every entry is what its snapshot resolves the node to, whichever snapshots
\* share the cache; and so is every answer, evicted meanwhile or not.
CacheExact ==
  /\ \A v \in DOMAIN published : \A n \in DOMAIN published[v].nodes :
       Key(v, n) \in DOMAIN cache => cache[Key(v, n)] = published[v].nodes[n]
  /\ \A r \in Readers : request[r].pc = "done" =>
       \A n \in Elements(request[r].ids) :
         request[r].reads[n] = published[request[r].version].nodes[n]

\* The eviction order lists every entry once and nothing else, and the
\* capacity holds: entry_count, the maps and the queue never drift apart,
\* though two readers may insert the same entry.
CacheConsistent ==
  /\ Len(order) <= MaxEntries
  /\ DOMAIN cache = {order[i] : i \in DOMAIN order}
  /\ \A i, j \in DOMAIN order : order[i] = order[j] => i = j

==============================================================================
