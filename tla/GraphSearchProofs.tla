-------------------------- MODULE GraphSearchProofs --------------------------
(***************************************************************************)
(* The record cache, used in any way: whatever snapshots are published and *)
(* whatever is read, of any number of readers and at any capacity.         *)
(*                                                                         *)
(* Then the searches, whatever is built, deleted and searched: they use    *)
(* the record cache in such a way, and a query is encoded as the rows it   *)
(* is compared with.                                                       *)
(*                                                                         *)
(* Last the walks: what is accounted is what is held, and the hits are     *)
(* those of a scan.  They need sums of sizes, the links nobody has seen,   *)
(* the merge of labels and the links a walk may follow, which is proved    *)
(* first, of recursive functions by the least counterexample.              *)
(***************************************************************************)
EXTENDS GraphSearch, FiniteSetTheorems, SequenceTheorems, WellFoundedInduction, TLAPS

CacheNext ==
  \/ \E snapshot : Publish(snapshot)
  \/ \E r \in Readers :
       \/ \E version \in DOMAIN published : \E ids : StartRead(r, version, ids)
       \/ Fetch(r) \/ FailFetch(r) \/ Insert(r) \/ FinishRead(r)

CacheSpec == CacheInit /\ [][CacheNext]_cacheVars

------------------------------------------------------------------------------
(* The inductive invariant of the cache *)

IsSeq(s) == \E S : s \in Seq(S)

\* The version of a snapshot is its place: so no two have a key in common.
VersionsInOrder ==
  /\ IsSeq(published)
  /\ \A v \in DOMAIN published : published[v].version = v

\* An entry, whoever reads it and under whatever id, is what was published.
EntriesExact ==
  /\ \A v \in DOMAIN published : \A n :
       Key(v, n) \in DOMAIN cache => cache[Key(v, n)] = published[v].nodes[n]
  /\ \A key \in DOMAIN cache : \E v \in DOMAIN published : \E n : key = Key(v, n)

\* What request q has read so far is what its snapshot resolves to; before
\* the fetch, what is missing is left out.
RequestExact(q) ==
  /\ q.version \in DOMAIN published
  /\ q.pc \in {"fetch", "insert", "done"}
  /\ q.missing \subseteq Elements(q.ids)
  /\ Elements(q.ids) \ q.missing \subseteq DOMAIN q.reads
  /\ q.pc # "fetch" => q.missing \subseteq DOMAIN q.reads
  /\ \A n \in DOMAIN q.reads : q.reads[n] = published[q.version].nodes[n]

RequestsExact ==
  /\ request = [r \in Readers |-> request[r]]
  /\ \A r \in Readers : request[r] = NoRequest \/ RequestExact(request[r])

CacheInv ==
  /\ VersionsInOrder /\ EntriesExact /\ RequestsExact
  /\ IsSeq(order) /\ CacheConsistent

------------------------------------------------------------------------------
(* Sequences of anything *)

LEMMA SeqFacts ==
  ASSUME NEW s, IsSeq(s)
  PROVE  Len(s) \in Nat /\ DOMAIN s = 1 .. Len(s)
BY DEF IsSeq

LEMMA AppendFacts ==
  ASSUME NEW s, IsSeq(s), NEW e
  PROVE  /\ IsSeq(Append(s, e))
         /\ Len(Append(s, e)) = Len(s) + 1
         /\ DOMAIN Append(s, e) = 1 .. Len(s) + 1
         /\ \A i \in 1 .. Len(s) : Append(s, e)[i] = s[i]
         /\ Append(s, e)[Len(s) + 1] = e
<1>1. PICK S : s \in Seq(S)
  BY DEF IsSeq
<1>2. s \in Seq(S \cup {e}) /\ e \in S \cup {e}
  BY <1>1
<1>. QED
  BY <1>2 DEF IsSeq

LEMMA TailFacts ==
  ASSUME NEW s, IsSeq(s), Len(s) # 0
  PROVE  /\ IsSeq(Tail(s))
         /\ Len(Tail(s)) = Len(s) - 1
         /\ DOMAIN Tail(s) = 1 .. Len(s) - 1
         /\ \A i \in 1 .. Len(s) - 1 : Tail(s)[i] = s[i + 1]
         /\ Head(s) = s[1]
<1>1. PICK S : s \in Seq(S)
  BY DEF IsSeq
<1>2. s # <<>>
  BY <1>1
<1>3. Tail(s) \in Seq(S)
  BY <1>1, <1>2
<1>. QED
  BY <1>1, <1>2, <1>3 DEF IsSeq

------------------------------------------------------------------------------
(* Keys *)

LEMMA KeyInjective ==
  ASSUME VersionsInOrder, NEW v \in DOMAIN published, NEW w \in DOMAIN published,
         NEW n, NEW m, Key(v, n) = Key(w, m)
  PROVE  v = w /\ n = m
<1>1. SnapshotKey(published[v]) = SnapshotKey(published[w]) /\ n = m
  BY DEF Key
<1>2. published[v].version = published[w].version
  BY <1>1 DEF SnapshotKey
<1>. QED
  BY <1>1, <1>2 DEF VersionsInOrder

\* A snapshot once published is never replaced.
LEMMA PublishedStay ==
  ASSUME VersionsInOrder, NEW snapshot, Publish(snapshot)
  PROVE  /\ VersionsInOrder'
         /\ DOMAIN published \subseteq DOMAIN published'
         /\ \A v \in DOMAIN published : published'[v] = published[v]
         /\ \A v \in DOMAIN published : \A n : Key(v, n)' = Key(v, n)
         /\ \A v \in DOMAIN published' \ DOMAIN published : v = snapshot.version
<1>1. IsSeq(published) /\ published' = Append(published, snapshot)
      /\ snapshot.version = Len(published) + 1
  BY DEF VersionsInOrder, Publish
<1>2. /\ IsSeq(published')
      /\ DOMAIN published' = 1 .. Len(published) + 1
      /\ \A i \in 1 .. Len(published) : published'[i] = published[i]
      /\ published'[Len(published) + 1] = snapshot
  BY <1>1, AppendFacts
<1>3. Len(published) \in Nat /\ DOMAIN published = 1 .. Len(published)
  BY <1>1, SeqFacts
<1>4. \A v \in DOMAIN published : published'[v] = published[v]
  BY <1>2, <1>3
<1>5. VersionsInOrder'
  BY <1>1, <1>2, <1>3 DEF VersionsInOrder
<1>6. \A v \in DOMAIN published : \A n : Key(v, n)' = Key(v, n)
  BY <1>4 DEF Key
<1>. QED
  BY <1>1, <1>2, <1>3, <1>4, <1>5, <1>6

------------------------------------------------------------------------------
(* Each action keeps the invariant *)

LEMMA PublishKeeps ==
  ASSUME CacheInv, NEW snapshot, Publish(snapshot)
  PROVE  CacheInv'
<1>. USE DEF CacheInv
<1>u. UNCHANGED <<cache, order, holder, request>>
  BY DEF Publish
<1>p. /\ VersionsInOrder'
      /\ DOMAIN published \subseteq DOMAIN published'
      /\ \A v \in DOMAIN published : published'[v] = published[v]
      /\ \A v \in DOMAIN published : \A n : Key(v, n)' = Key(v, n)
  BY PublishedStay
<1>1. EntriesExact'
  <2>1. \A key \in DOMAIN cache' : \E v \in DOMAIN published : \E n : key = Key(v, n)'
    BY <1>u, <1>p DEF EntriesExact
  <2>2. ASSUME NEW v \in DOMAIN published', NEW n, Key(v, n)' \in DOMAIN cache'
        PROVE  cache'[Key(v, n)'] = published'[v].nodes[n]
    <3>w. PICK w \in DOMAIN published : \E m : Key(v, n)' = Key(w, m)'
      BY <2>1, <2>2
    <3>1. PICK m : Key(v, n)' = Key(w, m)'
      BY <3>w
    <3>2. v = w /\ n = m
      <4>1. SnapshotKey(published'[v]) = SnapshotKey(published'[w]) /\ n = m
        BY <3>1 DEF Key
      <4>2. published'[v].version = published'[w].version
        BY <4>1 DEF SnapshotKey
      <4>. QED
        BY <1>p, <4>1, <4>2 DEF VersionsInOrder
    <3>. QED
      BY <1>u, <1>p, <2>2, <3>2 DEF EntriesExact
  <2>. QED
    BY <1>p, <2>1, <2>2 DEF EntriesExact
<1>2. RequestsExact'
  <2>1. ASSUME NEW r \in Readers, RequestExact(request[r])
        PROVE  RequestExact(request[r])'
    BY <1>u, <1>p, <2>1 DEF RequestExact
  <2>. QED
    BY <1>u, <2>1 DEF RequestsExact
<1>. QED
  BY <1>u, <1>p, <1>1, <1>2 DEF CacheConsistent

\* A step of one reader's own request.
LEMMA OneRequest ==
  ASSUME RequestsExact, NEW r \in Readers, NEW q, q = NoRequest \/ RequestExact(q),
         UNCHANGED published, request' = [request EXCEPT ![r] = q]
  PROVE  RequestsExact'
<1>1. ASSUME NEW s \in Readers
      PROVE  request'[s] = NoRequest \/ RequestExact(request'[s])
  <2>1. CASE s = r
    BY <2>1 DEF RequestsExact
  <2>2. CASE s # r
    BY <2>2 DEF RequestsExact
  <2>. QED
    BY <2>1, <2>2
<1>2. \A s \in Readers : RequestExact(request'[s]) => RequestExact(request[s])'
  BY DEF RequestExact
<1>3. request' = [s \in Readers |-> request'[s]]
  BY DEF RequestsExact
<1>. QED
  BY <1>1, <1>2, <1>3 DEF RequestsExact

LEMMA StartReadKeeps ==
  ASSUME CacheInv, NEW r \in Readers, NEW version \in DOMAIN published, NEW ids,
         StartRead(r, version, ids)
  PROVE  CacheInv'
<1>. USE DEF CacheInv
<1>u. UNCHANGED <<published, cache, order, holder>>
  BY DEF StartRead
<1>. DEFINE hits == {n \in Elements(ids) : Key(version, n) \in DOMAIN cache}
            missing == Elements(ids) \ hits
            q == Request(IF missing = {} THEN "done" ELSE "fetch", version, ids, missing,
                         [n \in hits |-> cache[Key(version, n)]])
<1>q. request' = [request EXCEPT ![r] = q]
  BY DEF StartRead
<1>1. RequestExact(q)
  <2>1. \A n \in hits : q.reads[n] = published[version].nodes[n]
    BY DEF EntriesExact, Request
  <2>. QED
    BY <2>1 DEF RequestExact, Request
<1>. HIDE DEF q
<1>3. RequestsExact'
  BY <1>u, <1>q, <1>1, OneRequest
<1>. QED
  BY <1>u, <1>3 DEF VersionsInOrder, EntriesExact, Key, CacheConsistent

LEMMA FetchKeeps ==
  ASSUME CacheInv, NEW r \in Readers, Fetch(r)
  PROVE  CacheInv'
<1>. USE DEF CacheInv
<1>u. UNCHANGED <<published, cache, order, holder>>
  BY DEF Fetch
<1>e. RequestExact(request[r])
  BY DEF Fetch, RequestsExact, NoRequest
<1>. DEFINE e == request[r]
            nodes == published[e.version].nodes
            reads == [n \in DOMAIN e.reads \cup e.missing |->
                        IF n \in e.missing THEN nodes[n] ELSE e.reads[n]]
            q == Request("insert", e.version, e.ids, e.missing, reads)
<1>q. request' = [request EXCEPT ![r] = q]
  BY DEF Fetch
<1>1. RequestExact(q)
  <2>1. \A n \in DOMAIN reads : reads[n] = nodes[n]
    BY <1>e DEF RequestExact
  <2>2. Elements(e.ids) \ e.missing \subseteq DOMAIN reads /\ e.missing \subseteq DOMAIN reads
    BY <1>e DEF RequestExact
  <2>. QED
    BY <1>e, <2>1, <2>2 DEF RequestExact, Request
<1>. HIDE DEF q
<1>3. RequestsExact'
  BY <1>u, <1>q, <1>1, OneRequest
<1>. QED
  BY <1>u, <1>3 DEF VersionsInOrder, EntriesExact, Key, CacheConsistent

\* The request is over, failed or answered.
LEMMA EndKeeps ==
  ASSUME CacheInv, NEW r \in Readers, FailFetch(r) \/ FinishRead(r)
  PROVE  CacheInv'
<1>. USE DEF CacheInv
<1>1. /\ UNCHANGED <<published, cache, order, holder>>
      /\ request' = [request EXCEPT ![r] = NoRequest]
  BY DEF FailFetch, FinishRead
<1>2. RequestsExact'
  BY <1>1, OneRequest
<1>. QED
  BY <1>1, <1>2 DEF VersionsInOrder, EntriesExact, Key, CacheConsistent

\* CacheConsistent of a cache with these keys in this order.
Listed(keys, list) ==
  /\ IsSeq(list) /\ Len(list) <= MaxEntries
  /\ keys = {list[i] : i \in DOMAIN list}
  /\ \A i, j \in DOMAIN list : list[i] = list[j] => i = j

LEMMA ListedAppend ==
  ASSUME NEW keys, NEW list, Listed(keys, list), Len(list) < MaxEntries,
         NEW key, key \notin keys
  PROVE  Listed(keys \cup {key}, Append(list, key))
<1>1. Len(list) \in Nat /\ DOMAIN list = 1 .. Len(list)
  BY SeqFacts DEF Listed
<1>. DEFINE more == Append(list, key)
<1>2. /\ IsSeq(more) /\ Len(more) = Len(list) + 1 /\ DOMAIN more = 1 .. Len(list) + 1
      /\ \A i \in 1 .. Len(list) : more[i] = list[i]
      /\ more[Len(list) + 1] = key
  BY AppendFacts DEF Listed
<1>. HIDE DEF more
<1>3. Len(more) <= MaxEntries
  BY <1>1, <1>2, CacheAssumption
<1>4. keys \cup {key} = {more[i] : i \in DOMAIN more}
  BY <1>1, <1>2 DEF Listed
<1>5. ASSUME NEW i \in DOMAIN more, NEW j \in DOMAIN more, more[i] = more[j]
      PROVE  i = j
  <2>1. \A k \in 1 .. Len(list) : more[k] # key
    BY <1>1, <1>2 DEF Listed
  <2>. QED
    BY <1>1, <1>2, <1>5, <2>1 DEF Listed
<1>. QED
  BY <1>2, <1>3, <1>4, <1>5 DEF Listed, more

LEMMA ListedTail ==
  ASSUME NEW keys, NEW list, Listed(keys, list), Len(list) # 0
  PROVE  Listed(keys \ {Head(list)}, Tail(list)) /\ Head(list) \in keys
<1>1. Len(list) \in Nat /\ DOMAIN list = 1 .. Len(list)
  BY SeqFacts DEF Listed
<1>. DEFINE less == Tail(list)
<1>2. /\ IsSeq(less) /\ Len(less) = Len(list) - 1 /\ DOMAIN less = 1 .. Len(list) - 1
      /\ \A i \in 1 .. Len(list) - 1 : less[i] = list[i + 1]
      /\ Head(list) = list[1]
  BY TailFacts DEF Listed
<1>. HIDE DEF less
<1>3. Len(less) <= MaxEntries
  BY <1>1, <1>2, CacheAssumption DEF Listed
<1>4. keys \ {Head(list)} = {less[i] : i \in DOMAIN less}
  <2>1. ASSUME NEW key \in keys, key # Head(list)
        PROVE  \E i \in DOMAIN less : key = less[i]
    <3>1. PICK i \in DOMAIN list : key = list[i]
      BY DEF Listed
    <3>2. i - 1 \in DOMAIN less /\ less[i - 1] = list[i]
      BY <1>1, <1>2, <2>1, <3>1
    <3>. QED
      BY <3>1, <3>2
  <2>2. ASSUME NEW i \in DOMAIN less
        PROVE  less[i] \in keys /\ less[i] # Head(list)
    <3>1. i + 1 \in DOMAIN list /\ less[i] = list[i + 1] /\ i + 1 # 1 /\ 1 \in DOMAIN list
      BY <1>1, <1>2
    <3>. QED
      BY <1>2, <3>1 DEF Listed
  <2>. QED
    BY <2>1, <2>2
<1>5. ASSUME NEW i \in DOMAIN less, NEW j \in DOMAIN less, less[i] = less[j]
      PROVE  i = j
  <2>1. i + 1 \in DOMAIN list /\ j + 1 \in DOMAIN list /\ list[i + 1] = list[j + 1]
    BY <1>1, <1>2, <1>5
  <2>. QED
    BY <1>1, <1>2, <2>1 DEF Listed
<1>6. Head(list) \in keys
  BY <1>1, <1>2 DEF Listed
<1>. QED
  BY <1>2, <1>3, <1>4, <1>5, <1>6 DEF Listed, less

\* Nothing in a cache but what was in the old one, and this entry.
Extends(new, old, key, read) ==
  \A k \in DOMAIN new :
    \/ k \in DOMAIN old /\ new[k] = old[k]
    \/ k = key /\ new[k] = read

LEMMA WithFacts ==
  ASSUME NEW f, NEW x, NEW y
  PROVE  Extends(With(f, x, y), f, x, y)
BY DEF With, Extends

LEMMA WithoutFacts ==
  ASSUME NEW f, NEW z, NEW x, NEW y
  PROVE  Extends(With(Without(f, z), x, y), f, x, y)
BY DEF With, Without, Extends

\* Whichever entry is put in, and whichever one goes for it, the list agrees.
LEMMA InsertedListed ==
  ASSUME Listed(DOMAIN cache, order), NEW key, NEW read, Inserted(key, read)
  PROVE  Listed(DOMAIN cache', order') /\ Extends(cache', cache, key, read)
<1>n. Len(order) \in Nat
  BY SeqFacts DEF Listed
<1>1. CASE MaxEntries = 0
  BY <1>1 DEF Inserted, Extends
<1>2. CASE MaxEntries # 0 /\ key \in DOMAIN cache
  <2>1. cache' = With(cache, key, read) /\ order' = order
    BY <1>2 DEF Inserted
  <2>2. DOMAIN cache' = DOMAIN cache
    BY <1>2, <2>1 DEF With
  <2>. QED
    BY <2>1, <2>2, WithFacts
<1>3. CASE MaxEntries # 0 /\ key \notin DOMAIN cache /\ Len(order) < MaxEntries
  <2>1. cache' = With(cache, key, read) /\ order' = Append(order, key)
    BY <1>3 DEF Inserted
  <2>2. DOMAIN cache' = DOMAIN cache \cup {key}
    BY <2>1 DEF With
  <2>3. Listed(DOMAIN cache', order')
    BY <1>3, <2>1, <2>2, ListedAppend
  <2>. QED
    BY <2>1, <2>3, WithFacts
<1>4. CASE MaxEntries # 0 /\ key \notin DOMAIN cache /\ ~(Len(order) < MaxEntries)
  <2>1. /\ cache' = With(Without(cache, Head(order)), key, read)
        /\ order' = Append(Tail(order), key)
    BY <1>4 DEF Inserted
  <2>2. Len(order) # 0
    BY <1>n, <1>4, CacheAssumption
  <2>. DEFINE keys == DOMAIN cache \ {Head(order)}
              list == Tail(order)
  <2>3. Listed(keys, list)
    BY <2>2, ListedTail
  <2>4. Len(list) < MaxEntries
    BY <1>n, <2>2, TailFacts, CacheAssumption DEF Listed
  <2>5. DOMAIN cache' = keys \cup {key} /\ key \notin keys
    BY <1>4, <2>1 DEF With, Without
  <2>. HIDE DEF keys, list
  <2>6. Listed(keys \cup {key}, Append(list, key))
    BY <2>3, <2>4, <2>5, ListedAppend
  <2>7. Listed(DOMAIN cache', order')
    BY <2>1, <2>5, <2>6 DEF list
  <2>. QED
    BY <2>1, <2>7, WithoutFacts
<1>. QED
  BY <1>1, <1>2, <1>3, <1>4

LEMMA InsertedKeeps ==
  ASSUME VersionsInOrder, EntriesExact, IsSeq(order), CacheConsistent,
         NEW v \in DOMAIN published, NEW n, UNCHANGED published,
         Inserted(Key(v, n), published[v].nodes[n])
  PROVE  EntriesExact' /\ IsSeq(order') /\ CacheConsistent'
<1>. DEFINE key == Key(v, n)
            read == published[v].nodes[n]
<1>1. Listed(DOMAIN cache', order') /\ Extends(cache', cache, key, read)
  <2>1. Listed(DOMAIN cache, order)
    BY DEF Listed, CacheConsistent
  <2>. QED
    BY <2>1, InsertedListed
<1>2. IsSeq(order') /\ CacheConsistent'
  BY <1>1 DEF Listed, CacheConsistent
<1>3. \A w \in DOMAIN published : \A m : Key(w, m)' = Key(w, m)
  BY DEF Key
<1>4. ASSUME NEW w \in DOMAIN published, NEW m, Key(w, m) \in DOMAIN cache'
      PROVE  cache'[Key(w, m)] = published[w].nodes[m]
  <2>1. CASE Key(w, m) \in DOMAIN cache /\ cache'[Key(w, m)] = cache[Key(w, m)]
    BY <2>1 DEF EntriesExact
  <2>2. CASE Key(w, m) = key /\ cache'[Key(w, m)] = read
    <3>1. w = v /\ m = n
      BY <2>2, KeyInjective
    <3>. QED
      BY <2>2, <3>1
  <2>. QED
    BY <1>1, <1>4, <2>1, <2>2 DEF Extends
<1>5. \A k \in DOMAIN cache' : \E w \in DOMAIN published : \E m : k = Key(w, m)
  BY <1>1 DEF EntriesExact, Extends
<1>6. EntriesExact'
  BY <1>3, <1>4, <1>5 DEF EntriesExact
<1>. QED
  BY <1>2, <1>6

LEMMA InsertKeeps ==
  ASSUME CacheInv, NEW r \in Readers, Insert(r)
  PROVE  CacheInv'
<1>. USE DEF CacheInv
<1>u. UNCHANGED published
  BY DEF Insert
<1>. DEFINE e == request[r]
            q(n) == Request(IF e.missing \ {n} = {} THEN "done" ELSE "insert",
                            e.version, e.ids, e.missing \ {n}, e.reads)
<1>e. RequestExact(e)
  BY DEF Insert, RequestsExact, NoRequest
<1>n. PICK n \in e.missing : /\ Inserted(Key(e.version, n), e.reads[n])
                             /\ request' = [request EXCEPT ![r] = q(n)]
  BY DEF Insert
<1>1. e.version \in DOMAIN published /\ e.pc = "insert" /\ n \in DOMAIN e.reads
  BY <1>e DEF Insert, RequestExact
<1>2. e.reads[n] = published[e.version].nodes[n]
  BY <1>e, <1>1 DEF RequestExact
<1>3. EntriesExact' /\ IsSeq(order') /\ CacheConsistent'
  BY <1>u, <1>n, <1>1, <1>2, InsertedKeeps
<1>4. RequestExact(q(n))
  <2>1. Elements(e.ids) \ (e.missing \ {n}) \subseteq DOMAIN e.reads
    BY <1>e, <1>1 DEF RequestExact
  <2>. QED
    BY <1>e, <1>1, <2>1 DEF RequestExact, Request
<1>. HIDE DEF q
<1>5. RequestsExact'
  BY <1>u, <1>n, <1>4, OneRequest
<1>. QED
  BY <1>u, <1>3, <1>5 DEF VersionsInOrder

------------------------------------------------------------------------------
(* The theorem *)

LEMMA InitKeeps == CacheInit => CacheInv
<1>. SUFFICES ASSUME CacheInit PROVE CacheInv
  OBVIOUS
<1>1. IsSeq(<<>>) /\ DOMAIN <<>> = {} /\ Len(<<>>) = 0
  BY DEF IsSeq
<1>2. DOMAIN cache = {}
  BY DEF CacheInit, EmptyFn
<1>3. VersionsInOrder /\ EntriesExact
  BY <1>1, <1>2 DEF CacheInit, VersionsInOrder, EntriesExact
<1>4. RequestsExact
  BY DEF CacheInit, RequestsExact
<1>5. CacheConsistent
  BY <1>1, <1>2, CacheAssumption DEF CacheInit, CacheConsistent
<1>. QED
  BY <1>1, <1>3, <1>4, <1>5 DEF CacheInit, CacheInv

LEMMA CacheStutter == CacheInv /\ UNCHANGED cacheVars => CacheInv'
BY DEF cacheVars, CacheInv, VersionsInOrder, EntriesExact, Key, RequestsExact, RequestExact,
       CacheConsistent

LEMMA NextKeeps == CacheInv /\ [CacheNext]_cacheVars => CacheInv'
<1>. SUFFICES ASSUME CacheInv, [CacheNext]_cacheVars PROVE CacheInv'
  OBVIOUS
<1>1. CASE CacheNext
  BY <1>1, PublishKeeps, StartReadKeeps, FetchKeeps, EndKeeps, InsertKeeps DEF CacheNext
<1>2. CASE UNCHANGED cacheVars
  BY <1>2, CacheStutter
<1>. QED
  BY <1>1, <1>2

LEMMA InvImplies == CacheInv => CacheExact /\ CacheConsistent
<1>. SUFFICES ASSUME CacheInv PROVE CacheExact /\ CacheConsistent
  OBVIOUS
<1>1. ASSUME NEW r \in Readers, request[r].pc = "done", NEW n \in Elements(request[r].ids)
      PROVE  request[r].reads[n] = published[request[r].version].nodes[n]
  <2>1. RequestExact(request[r])
    BY <1>1 DEF CacheInv, RequestsExact, NoRequest
  <2>2. n \in DOMAIN request[r].reads
    BY <1>1, <2>1 DEF RequestExact
  <2>. QED
    BY <2>1, <2>2 DEF RequestExact
<1>. QED
  BY <1>1 DEF CacheInv, EntriesExact, CacheExact

\* CachedNodeReader: whatever is published and read, an entry is what its
\* snapshot resolves the node to, an answer too, and the eviction order lists
\* the entries; at every capacity, for every number of readers.
THEOREM CacheCorrect == CacheSpec => [](CacheExact /\ CacheConsistent)
BY InitKeeps, NextKeeps, InvImplies, PTL DEF CacheSpec

------------------------------------------------------------------------------
(* The inductive invariant of the searches *)

\* What stays the same of a search while it walks.
Walking(s) == {"pc", "version", "asked", "code"} \subseteq DOMAIN s
SameQuery(s, t) ==
  /\ Walking(t)
  /\ t.version = s.version /\ t.asked = s.asked /\ t.code = s.code

\* A search under way is of a snapshot that is there.
SearchesPublished ==
  /\ search = [r \in Readers |-> search[r]]
  /\ \A r \in Readers : search[r].pc \in {"encode", "starts", "walk", "neighbors"} =>
       search[r].version \in DOMAIN published
  /\ \A r \in Readers : search[r].pc \in {"starts", "walk", "neighbors"} => Walking(search[r])

\* What a snapshot refers to is the model of the rows it was built from.
ModelsStored ==
  /\ config \in Configs
  /\ IsSeq(quantizers)
  /\ \A v \in DOMAIN published :
       /\ published[v].rows \in Inputs
       /\ NeedsModel(published[v].rows) =>
            /\ published[v].quantizers[1] \in DOMAIN quantizers
            /\ quantizers[published[v].quantizers[1]] = Models[config][published[v].rows]

\* The quantizer cache holds nothing, or what its reference stands for.
QuantizerCacheExact ==
  quantizerCache = NoModel \/
    /\ quantizerCache.reference \in DOMAIN quantizers
    /\ quantizerCache.model = quantizers[quantizerCache.reference]

\* Only over rows is there a walk, and its code is of their model.
SearchesEncoded ==
  /\ \A r \in Readers : search[r].pc = "encode" => published[search[r].version].rows # <<>>
  /\ QueryEncodedLikeRows

SearchInv ==
  /\ CacheInv
  /\ SearchesPublished /\ ModelsStored /\ QuantizerCacheExact /\ SearchesEncoded

------------------------------------------------------------------------------
(* Publishing *)

LEMMA PublishBuildKeeps ==
  ASSUME SearchInv, NEW rows \in Inputs, PublishBuild(rows)
  PROVE  SearchInv'
<1>. USE DEF SearchInv
<1>. DEFINE version == Len(published) + 1
            reference == Len(quantizers) + 1
            snapshot == [version |-> version, segments |-> <<version>>, hotDelta |-> 0, epoch |-> 0,
                         quantizers |-> IF NeedsModel(rows) THEN <<reference>> ELSE <<>>,
                         rows |-> rows, starts |-> StartsOf(rows),
                         nodes |-> Built[config][rows]]
<1>1. /\ Publish(snapshot)
      /\ quantizers' = IF NeedsModel(rows) THEN Append(quantizers, Models[config][rows])
                       ELSE quantizers
      /\ UNCHANGED <<config, quantizerCache, search>>
  BY DEF PublishBuild
<1>2. CacheInv'
  BY <1>1, PublishKeeps
<1>3. /\ DOMAIN published \subseteq DOMAIN published'
      /\ \A v \in DOMAIN published : published'[v] = published[v]
      /\ \A v \in DOMAIN published' \ DOMAIN published : v = version
      /\ published' = Append(published, snapshot)
  BY <1>1, PublishedStay DEF CacheInv, Publish
<1>4. /\ IsSeq(quantizers')
      /\ DOMAIN quantizers \subseteq DOMAIN quantizers'
      /\ \A k \in DOMAIN quantizers : quantizers'[k] = quantizers[k]
      /\ NeedsModel(rows) => /\ reference \in DOMAIN quantizers'
                             /\ quantizers'[reference] = Models[config][rows]
  BY <1>1, SeqFacts, AppendFacts DEF ModelsStored
<1>5. published'[version] = snapshot
  BY <1>3, AppendFacts DEF CacheInv, VersionsInOrder
<1>6. \A x : NeedsModel(x)' = NeedsModel(x)
  BY <1>1 DEF NeedsModel
<1>7. ModelsStored'
  <2>1. ASSUME NEW v \in DOMAIN published'
        PROVE  /\ published'[v].rows \in Inputs
               /\ NeedsModel(published'[v].rows) =>
                    /\ published'[v].quantizers[1] \in DOMAIN quantizers'
                    /\ quantizers'[published'[v].quantizers[1]] = Models[config][published'[v].rows]
    <3>1. CASE v \in DOMAIN published
      BY <1>3, <1>4, <3>1 DEF ModelsStored
    <3>2. CASE v \notin DOMAIN published
      <4>1. published'[v] = snapshot
        BY <1>3, <1>5, <3>2
      <4>2. snapshot.rows = rows /\ (NeedsModel(rows) => snapshot.quantizers[1] = reference)
        OBVIOUS
      <4>. HIDE DEF snapshot, reference
      <4>. QED
        BY <1>4, <4>1, <4>2
    <3>. QED
      BY <3>1, <3>2
  <2>. QED
    BY <1>1, <1>4, <1>6, <2>1 DEF ModelsStored
<1>8. SearchesPublished' /\ QuantizerCacheExact' /\ SearchesEncoded'
  BY <1>1, <1>3, <1>4 DEF SearchesPublished, QuantizerCacheExact, SearchesEncoded,
                          QueryEncodedLikeRows, NoModel
<1>. QED
  BY <1>2, <1>7, <1>8

LEMMA PublishDeleteKeeps ==
  ASSUME SearchInv, NEW n, PublishDelete(n)
  PROVE  SearchInv'
<1>. USE DEF SearchInv
<1>. DEFINE last == published[Len(published)]
            snapshot == [version |-> last.version + 1, segments |-> last.segments,
                         hotDelta |-> last.hotDelta + 1, epoch |-> last.epoch + 1,
                         quantizers |-> last.quantizers, rows |-> last.rows, starts |-> last.starts,
                         nodes |-> [last.nodes EXCEPT ![n] = Tombstone]]
<1>1. Publish(snapshot) /\ UNCHANGED searchVars /\ Len(published) \in DOMAIN published
  <2>1. Len(published) \in Nat /\ DOMAIN published = 1 .. Len(published)
    BY SeqFacts DEF CacheInv, VersionsInOrder
  <2>. QED
    BY <2>1 DEF PublishDelete
<1>2. CacheInv'
  BY <1>1, PublishKeeps
<1>3. /\ DOMAIN published \subseteq DOMAIN published'
      /\ \A v \in DOMAIN published : published'[v] = published[v]
      /\ \A v \in DOMAIN published' \ DOMAIN published : published'[v] = snapshot
  <2>1. IsSeq(published) /\ published' = Append(published, snapshot)
    BY <1>1 DEF CacheInv, VersionsInOrder, Publish
  <2>. HIDE DEF snapshot
  <2>. QED
    BY <2>1, SeqFacts, AppendFacts
<1>4. snapshot.rows = last.rows /\ snapshot.quantizers = last.quantizers
  OBVIOUS
<1>. HIDE DEF snapshot
<1>5. ModelsStored'
  BY <1>1, <1>3, <1>4 DEF ModelsStored, NeedsModel, searchVars
<1>6. SearchesPublished' /\ QuantizerCacheExact' /\ SearchesEncoded'
  BY <1>1, <1>3 DEF SearchesPublished, QuantizerCacheExact, SearchesEncoded, QueryEncodedLikeRows,
                    NoModel, searchVars
<1>. QED
  BY <1>2, <1>5, <1>6

------------------------------------------------------------------------------
(* Searching *)

\* A search goes on, its snapshot the same, or starts or ends.
LEMMA GotoKeeps ==
  ASSUME SearchInv, NEW r \in Readers, NEW s, Goto(r, s),
         UNCHANGED <<published, config, quantizers>>,
         s.pc \in {"encode", "starts", "walk", "neighbors"} => s.version \in DOMAIN published,
         s.pc \in {"starts", "walk", "neighbors"} => Walking(s),
         s.pc = "encode" => published[s.version].rows # <<>>,
         s.pc \in {"starts", "walk", "neighbors"} =>
           s.code = RoutingVector(config, Models[config][published[s.version].rows], s.asked.query)
  PROVE  SearchesPublished' /\ ModelsStored' /\ SearchesEncoded'
<1>1. \A q \in Readers : search'[q] = IF q = r THEN s ELSE search[q]
  BY DEF Goto, SearchInv, SearchesPublished
<1>2. search' = [q \in Readers |-> search'[q]]
  BY DEF Goto, SearchInv, SearchesPublished
<1>. QED
  BY <1>1, <1>2 DEF SearchInv, SearchesPublished, ModelsStored, NeedsModel, SearchesEncoded,
                    QueryEncodedLikeRows

LEMMA ParkedSame == ASSUME NEW s, Walking(s) PROVE SameQuery(s, Parked(s)) /\ Parked(s).pc = "walk"
BY DEF Walking, SameQuery, Parked

LEMMA TakenSame ==
  ASSUME NEW s, Walking(s), NEW n
  PROVE  SameQuery(s, Taken(s, n)) /\ Taken(s, n).pc \in {"walk", "neighbors"}
BY DEF Walking, SameQuery, Taken

LEMMA ChunkSame ==
  ASSUME NEW s, Walking(s), NEW ids, NEW records
  PROVE  LET t == [s EXCEPT !.toRead = ids, !.records = records]
         IN  SameQuery(s, t) /\ t.pc = s.pc
BY DEF Walking, SameQuery

\* A step of a walk: the search fails, or its query stays the same.
LEMMA WalkKeeps ==
  ASSUME SearchInv, NEW r \in Readers, NEW s, Goto(r, s), CacheInv',
         UNCHANGED <<published, config, quantizers, quantizerCache>>,
         search[r].pc \in {"starts", "walk", "neighbors"},
         \/ s.pc \in {"failed", "done"}
         \/ s.pc \in {"starts", "walk", "neighbors"} /\ SameQuery(search[r], s)
  PROVE  SearchInv'
<1>1. SearchesPublished' /\ ModelsStored' /\ SearchesEncoded'
  BY GotoKeeps DEF SearchInv, SearchesPublished, SearchesEncoded, QueryEncodedLikeRows, SameQuery
<1>. QED
  BY <1>1 DEF SearchInv, QuantizerCacheExact, NoModel

LEMMA BeginKeeps ==
  ASSUME SearchInv, NEW r \in Readers, NEW version \in DOMAIN published, NEW asked,
         Begin(r, version, asked)
  PROVE  SearchInv'
<1>1. PICK s : /\ Goto(r, s)
               /\ \/ s.pc = "done"
                  \/ s.pc = "encode" /\ s.version = version /\ published[version].rows # <<>>
  BY DEF Begin
<1>2. UNCHANGED <<cacheVars, config, quantizers, quantizerCache>>
  BY DEF Begin
<1>3. SearchesPublished' /\ ModelsStored' /\ SearchesEncoded'
  BY <1>1, <1>2, GotoKeeps DEF cacheVars
<1>4. CacheInv'
  BY <1>2, CacheStutter DEF SearchInv
<1>. QED
  BY <1>2, <1>3, <1>4 DEF SearchInv, QuantizerCacheExact, NoModel

\* The quantizer of the snapshot comes from the cache or replaces what is there.
LEMMA EncodeKeeps ==
  ASSUME SearchInv, NEW r \in Readers, Encode(r)
  PROVE  SearchInv'
<1>. DEFINE s == search[r]
            reference == published[s.version].quantizers[1]
            entry == IF config.sbq THEN SnapshotQuantizer(reference) ELSE NoModel
            t == [pc |-> "starts", version |-> s.version, asked |-> s.asked,
                  code |-> RoutingVector(config, entry.model, s.asked.query),
                  queue |-> {}, seen |-> {}, parked |-> EmptyFn, candidates |-> EmptyFn,
                  toRead |-> SearchStarts(published[s.version].starts, s.asked.filter),
                  records |-> EmptyFn,
                  cachedBytes |-> 0, slots |-> 0, candidateBytes |-> 0]
<1>1. /\ s.pc = "encode" /\ Goto(r, t)
      /\ quantizerCache' = IF config.sbq THEN entry ELSE quantizerCache
      /\ UNCHANGED <<cacheVars, config, quantizers>>
  BY DEF Encode, At
<1>2. s.version \in DOMAIN published /\ published[s.version].rows # <<>>
  BY <1>1 DEF SearchInv, SearchesPublished, SearchesEncoded
<1>3. ASSUME config.sbq
      PROVE  /\ QuantizerCacheExact'
             /\ t.code = RoutingVector(config, Models[config][published[s.version].rows], s.asked.query)
  <2>1. /\ reference \in DOMAIN quantizers
        /\ quantizers[reference] = Models[config][published[s.version].rows]
    BY <1>2, <1>3 DEF SearchInv, ModelsStored, NeedsModel
  <2>2. reference # 0
    BY <2>1, SeqFacts DEF SearchInv, ModelsStored
  <2>3. entry.reference = reference /\ entry.model = quantizers[reference]
    BY <1>3, <2>2 DEF SearchInv, SnapshotQuantizer, QuantizerCacheExact, NoModel
  <2>4. QuantizerCacheExact'
    BY <1>1, <1>3, <2>1, <2>3 DEF QuantizerCacheExact
  <2>5. t.code = RoutingVector(config, Models[config][published[s.version].rows], s.asked.query)
    BY <2>1, <2>3
  <2>. QED
    BY <2>4, <2>5
<1>4. ASSUME ~config.sbq
      PROVE  /\ QuantizerCacheExact'
             /\ t.code = RoutingVector(config, Models[config][published[s.version].rows], s.asked.query)
  BY <1>1, <1>4 DEF SearchInv, QuantizerCacheExact, NoModel, RoutingVector
<1>5. /\ QuantizerCacheExact'
      /\ t.code = RoutingVector(config, Models[config][published[s.version].rows], s.asked.query)
  BY <1>3, <1>4
<1>6. t.pc = "starts" /\ t.version = s.version /\ t.asked = s.asked /\ Walking(t)
  BY DEF Walking
<1>. HIDE DEF t
<1>7. SearchesPublished' /\ ModelsStored' /\ SearchesEncoded'
  BY <1>1, <1>2, <1>5, <1>6, GotoKeeps DEF cacheVars
<1>8. CacheInv'
  BY <1>1, CacheStutter DEF SearchInv
<1>. QED
  BY <1>5, <1>7, <1>8 DEF SearchInv

LEMMA TakeChunkKeeps ==
  ASSUME SearchInv, NEW r \in Readers, TakeChunk(r)
  PROVE  SearchInv'
<1>1. /\ FinishRead(r) /\ search[r].pc \in {"starts", "neighbors"}
      /\ UNCHANGED <<config, quantizers, quantizerCache>>
  BY DEF TakeChunk, Reading
<1>2. CacheInv' /\ UNCHANGED published
  BY <1>1, EndKeeps DEF SearchInv, FinishRead
<1>3. Walking(search[r])
  BY <1>1 DEF SearchInv, SearchesPublished
<1>4. PICK ids, records :
        LET s == [search[r] EXCEPT !.toRead = ids, !.records = records]
        IN  Goto(r, s) \/ Goto(r, Parked(s)) \/ Failed(r)
  BY DEF TakeChunk
<1>. DEFINE s == [search[r] EXCEPT !.toRead = ids, !.records = records]
<1>5. SameQuery(search[r], s) /\ s.pc = search[r].pc
  BY <1>3, ChunkSame
<1>. HIDE DEF s
<1>6. SameQuery(search[r], Parked(s)) /\ Parked(s).pc = "walk"
  BY <1>5, ParkedSame DEF SameQuery
<1>7. CASE Goto(r, s)
  BY <1>1, <1>2, <1>5, <1>7, WalkKeeps
<1>8. CASE Goto(r, Parked(s))
  BY <1>1, <1>2, <1>6, <1>8, WalkKeeps
<1>9. CASE Failed(r)
  BY <1>1, <1>2, <1>9, WalkKeeps DEF Failed
<1>. QED
  BY <1>4, <1>7, <1>8, <1>9 DEF s

LEMMA ReadFailsKeeps ==
  ASSUME SearchInv, NEW r \in Readers, ReadFails(r)
  PROVE  SearchInv'
<1>1. CacheInv' /\ UNCHANGED published
  BY EndKeeps DEF SearchInv, ReadFails, FailFetch
<1>. QED
  BY <1>1, WalkKeeps DEF ReadFails, Reading, Failed

\* A step of the cache alone.
LEMMA CacheStepKeeps ==
  ASSUME SearchInv, NEW r \in Readers,
         ReadChunk(r) \/ (CacheWork(r) /\ UNCHANGED searchVars)
  PROVE  SearchInv'
<1>1. UNCHANGED <<published, searchVars>>
  BY DEF ReadChunk, StartRead, CacheWork, Fetch, Insert
<1>2. ASSUME ReadChunk(r) PROVE CacheInv'
  <2>1. search[r].version \in DOMAIN published
    BY <1>2 DEF SearchInv, SearchesPublished, ReadChunk, Reading
  <2>2. \E ids : StartRead(r, search[r].version, ids)
    BY <1>2 DEF ReadChunk
  <2>. QED
    BY <2>1, <2>2, StartReadKeeps DEF SearchInv
<1>3. ASSUME CacheWork(r) PROVE CacheInv'
  BY <1>3, FetchKeeps, InsertKeeps DEF SearchInv, CacheWork
<1>4. CacheInv'
  BY <1>2, <1>3 DEF SearchInv
<1>. QED
  BY <1>1, <1>4 DEF SearchInv, SearchesPublished, ModelsStored, NeedsModel, QuantizerCacheExact, NoModel,
                    SearchesEncoded, QueryEncodedLikeRows, searchVars

LEMMA VisitKeeps ==
  ASSUME SearchInv, NEW r \in Readers, Visit(r) \/ Rescore(r)
  PROVE  SearchInv'
<1>1. search[r].pc = "walk" /\ UNCHANGED <<cacheVars, config, quantizers, quantizerCache>>
  BY DEF Visit, Rescore, At
<1>2. CacheInv' /\ UNCHANGED published
  BY <1>1, CacheStutter DEF SearchInv, cacheVars
<1>3. Walking(search[r])
  BY <1>1 DEF SearchInv, SearchesPublished
<1>4. CASE \E n : Goto(r, Taken(search[r], n))
  <2>1. PICK n : Goto(r, Taken(search[r], n))
    BY <1>4
  <2>2. SameQuery(search[r], Taken(search[r], n)) /\ Taken(search[r], n).pc \in {"walk", "neighbors"}
    BY <1>3, TakenSame
  <2>. QED
    BY <1>1, <1>2, <2>1, <2>2, WalkKeeps
<1>5. CASE \E s : Goto(r, s) /\ s.pc \in {"failed", "done"}
  BY <1>1, <1>2, <1>5, WalkKeeps
<1>6. \/ \E n : Goto(r, Taken(search[r], n))
      \/ \E s : Goto(r, s) /\ s.pc \in {"failed", "done"}
  BY DEF Visit, Rescore, Failed
<1>. QED
  BY <1>4, <1>5, <1>6

------------------------------------------------------------------------------
(* The theorem *)

LEMMA SearchInit == Init => SearchInv
<1>. SUFFICES ASSUME Init PROVE SearchInv
  OBVIOUS
<1>1. CacheInv
  BY InitKeeps DEF Init
<1>2. DOMAIN published = {} /\ IsSeq(quantizers)
  BY DEF Init, CacheInit, IsSeq
<1>. QED
  BY <1>1, <1>2 DEF Init, SearchInv, SearchesPublished, ModelsStored, QuantizerCacheExact,
                    SearchesEncoded, QueryEncodedLikeRows, NoSearch

LEMMA SearchNext == SearchInv /\ [Next]_vars => SearchInv'
<1>. SUFFICES ASSUME SearchInv, [Next]_vars PROVE SearchInv'
  OBVIOUS
<1>1. CASE PublishNext
  BY <1>1, PublishBuildKeeps, PublishDeleteKeeps, SearchAssumption DEF PublishNext
<1>2. ASSUME NEW r \in Readers, Search(r)
      PROVE  SearchInv'
  BY <1>2, BeginKeeps, EncodeKeeps, TakeChunkKeeps, ReadFailsKeeps, CacheStepKeeps, VisitKeeps
     DEF Search
<1>3. CASE UNCHANGED vars
  <2>1. CacheInv'
    BY <1>3, CacheStutter DEF vars, SearchInv
  <2>. QED
    BY <1>3, <2>1 DEF vars, cacheVars, searchVars, SearchInv, SearchesPublished, ModelsStored, NeedsModel,
                      QuantizerCacheExact, NoModel, SearchesEncoded, QueryEncodedLikeRows
<1>. QED
  BY <1>1, <1>2, <1>3 DEF Next

LEMMA SearchInvImplies == SearchInv => CacheExact /\ CacheConsistent /\ QueryEncodedLikeRows
BY InvImplies DEF SearchInv, SearchesEncoded

\* search_with_snapshot: whatever is built, deleted and searched, in whatever
\* order the searches interleave, the record cache stays exact.
THEOREM SearchesKeepCacheExact == Spec => [](CacheExact /\ CacheConsistent)
BY SearchInit, SearchNext, SearchInvImplies, PTL DEF Spec

\* routing_query_for_snapshot: every search compares codes of one quantizer.
THEOREM QueriesEncodedLikeRows == Spec => []QueryEncodedLikeRows
BY SearchInit, SearchNext, SearchInvImplies, PTL DEF Spec

------------------------------------------------------------------------------
(* Sums over finite sets *)

\* A set of naturals that is not empty has a least element.
LEMMA LeastExists ==
  ASSUME NEW S, S \subseteq Nat, S # {}
  PROVE  \E n \in S : \A m \in Nat : m < n => m \notin S
<1>. DEFINE less == {p \in Nat \X Nat : p[1] < p[2]}
<1>1. IsWellFoundedOn(less, Nat)
  BY NatLessThanWellFounded DEF OpToRel
<1>2. PICK n \in S : \A m \in S : <<m, n>> \notin less
  <2>. HIDE DEF less
  <2>. QED
    BY <1>1, WFMin
<1>. QED
  BY <1>2

AnyOf(S) == CHOOSE x \in S : TRUE

\* t gives for every set of indices the sum of their weights.
Sums(w, t) ==
  t = [S \in SUBSET DOMAIN w |-> IF S = {} THEN 0 ELSE w[AnyOf(S)] + t[S \ {AnyOf(S)}]]

\* The sets of at most n elements.
UpTo(D, n) == {S \in SUBSET D : Cardinality(S) <= n}
SumsUpTo(w, n, t) ==
  t = [S \in UpTo(DOMAIN w, n) |-> IF S = {} THEN 0 ELSE w[AnyOf(S)] + t[S \ {AnyOf(S)}]]

LEMMA AnyIs ==
  ASSUME NEW D, IsFiniteSet(D), NEW S \in SUBSET D, S # {}
  PROVE  /\ IsFiniteSet(S) /\ Cardinality(S) \in Nat \ {0}
         /\ AnyOf(S) \in S /\ S \ {AnyOf(S)} \in SUBSET D
         /\ Cardinality(S \ {AnyOf(S)}) = Cardinality(S) - 1
<1>1. IsFiniteSet(S)
  BY FS_Subset
<1>2. Cardinality(S) \in Nat /\ Cardinality(S) # 0
  BY <1>1, FS_CardinalityType, FS_EmptySet
<1>3. AnyOf(S) \in S
  BY DEF AnyOf
<1>4. Cardinality(S \ {AnyOf(S)}) = Cardinality(S) - 1
  BY <1>1, <1>3, FS_RemoveElement
<1>. QED
  BY <1>1, <1>2, <1>3, <1>4

\* The sums of one element more, from those of one less.
LEMMA SumsGrow ==
  ASSUME NEW w, IsFiniteSet(DOMAIN w), NEW n \in Nat \ {0}, NEW t, SumsUpTo(w, n - 1, t)
  PROVE  \E u : SumsUpTo(w, n, u)
<1>. DEFINE D == DOMAIN w
            u == [S \in UpTo(D, n) |-> IF S = {} THEN 0 ELSE w[AnyOf(S)] + t[S \ {AnyOf(S)}]]
<1>1. ASSUME NEW S \in UpTo(D, n), S # {}
      PROVE  u[S \ {AnyOf(S)}] = t[S \ {AnyOf(S)}]
  <2>. DEFINE R == S \ {AnyOf(S)}
  <2>1. S \in SUBSET D /\ Cardinality(S) <= n
    BY DEF UpTo
  <2>2. R \in SUBSET D /\ Cardinality(R) = Cardinality(S) - 1 /\ Cardinality(S) \in Nat
    BY <1>1, <2>1, AnyIs
  <2>3. Cardinality(R) <= n - 1 /\ Cardinality(R) <= n
    BY <2>1, <2>2
  <2>4. R \in UpTo(D, n - 1) /\ R \in UpTo(D, n)
    BY <2>2, <2>3 DEF UpTo
  <2>. HIDE DEF R, D
  <2>5. t[R] = IF R = {} THEN 0 ELSE w[AnyOf(R)] + t[R \ {AnyOf(R)}]
    BY <2>4 DEF SumsUpTo, D
  <2>6. u[R] = IF R = {} THEN 0 ELSE w[AnyOf(R)] + t[R \ {AnyOf(R)}]
    BY <2>4
  <2>. QED
    BY <2>5, <2>6 DEF R
<1>2. u = [S \in UpTo(D, n) |-> IF S = {} THEN 0 ELSE w[AnyOf(S)] + u[S \ {AnyOf(S)}]]
  BY <1>1
<1>. QED
  BY <1>2 DEF SumsUpTo

LEMMA SumsUpToExist ==
  ASSUME NEW w, IsFiniteSet(DOMAIN w), NEW n \in Nat
  PROVE  \E t : SumsUpTo(w, n, t)
<1>. DEFINE Bad == {m \in Nat : ~ \E t : SumsUpTo(w, m, t)}
<1>1. SUFFICES ASSUME Bad # {} PROVE FALSE
  OBVIOUS
<1>2. PICK m \in Bad : \A k \in Nat : k < m => k \notin Bad
  <2>1. Bad \subseteq Nat
    OBVIOUS
  <2>. HIDE DEF Bad
  <2>. QED
    BY <1>1, <2>1, LeastExists
<1>3. m # 0
  <2>. DEFINE t == [S \in UpTo(DOMAIN w, 0) |-> 0]
  <2>1. ASSUME NEW S \in UpTo(DOMAIN w, 0) PROVE S = {}
    <3>1. IsFiniteSet(S) /\ Cardinality(S) <= 0
      BY FS_Subset DEF UpTo
    <3>. QED
      BY <3>1, FS_CardinalityType, FS_EmptySet
  <2>2. SumsUpTo(w, 0, t)
    BY <2>1 DEF SumsUpTo
  <2>. QED
    BY <2>2
<1>4. m - 1 \in Nat /\ m - 1 < m
  BY <1>3
<1>5. PICK t : SumsUpTo(w, m - 1, t)
  BY <1>2, <1>4
<1>. QED
  BY <1>3, <1>5, SumsGrow

LEMMA SumsExist ==
  ASSUME NEW w, IsFiniteSet(DOMAIN w)
  PROVE  \E t : Sums(w, t)
<1>. DEFINE n == Cardinality(DOMAIN w)
<1>1. n \in Nat
  BY FS_CardinalityType
<1>2. PICK t : SumsUpTo(w, n, t)
  BY <1>1, SumsUpToExist
<1>3. UpTo(DOMAIN w, n) = SUBSET DOMAIN w
  BY FS_Subset DEF UpTo
<1>. QED
  BY <1>2, <1>3 DEF Sums, SumsUpTo

\* Weights are integers, and so are their sums.
LEMMA SumsTyped ==
  ASSUME NEW w, IsFiniteSet(DOMAIN w), \A x \in DOMAIN w : w[x] \in Int,
         NEW t, Sums(w, t), NEW S \in SUBSET DOMAIN w
  PROVE  t[S] \in Int
<1>. DEFINE Bad == {n \in Nat : \E R \in SUBSET DOMAIN w : Cardinality(R) = n /\ t[R] \notin Int}
<1>1. IsFiniteSet(S) /\ Cardinality(S) \in Nat
  BY FS_Subset, FS_CardinalityType
<1>2. SUFFICES ASSUME Bad # {} PROVE FALSE
  BY <1>1
<1>3. PICK n \in Bad : \A m \in Nat : m < n => m \notin Bad
  <2>1. Bad \subseteq Nat
    OBVIOUS
  <2>. HIDE DEF Bad
  <2>. QED
    BY <1>2, <2>1, LeastExists
<1>4. PICK R \in SUBSET DOMAIN w : Cardinality(R) = n /\ t[R] \notin Int
  BY <1>3
<1>5. t[R] = IF R = {} THEN 0 ELSE w[AnyOf(R)] + t[R \ {AnyOf(R)}]
  BY DEF Sums
<1>6. R # {}
  BY <1>4, <1>5
<1>7. /\ AnyOf(R) \in DOMAIN w /\ R \ {AnyOf(R)} \in SUBSET DOMAIN w
      /\ Cardinality(R \ {AnyOf(R)}) = n - 1 /\ n - 1 \in Nat /\ n - 1 < n
  BY <1>4, <1>6, AnyIs
<1>8. t[R \ {AnyOf(R)}] \in Int
  BY <1>3, <1>7
<1>. QED
  BY <1>4, <1>5, <1>6, <1>7, <1>8

\* A sum depends on the weights of its elements alone.
LEMMA SumsAgree ==
  ASSUME NEW w, IsFiniteSet(DOMAIN w), NEW t, Sums(w, t),
         NEW v, IsFiniteSet(DOMAIN v), NEW u, Sums(v, u),
         NEW S, S \subseteq DOMAIN w, S \subseteq DOMAIN v, \A x \in S : w[x] = v[x]
  PROVE  t[S] = u[S]
<1>. DEFINE Bad == {n \in Nat : \E R \in SUBSET S : Cardinality(R) = n /\ t[R] # u[R]}
<1>1. IsFiniteSet(S) /\ Cardinality(S) \in Nat
  BY FS_Subset, FS_CardinalityType
<1>2. SUFFICES ASSUME Bad # {} PROVE FALSE
  BY <1>1
<1>3. PICK n \in Bad : \A m \in Nat : m < n => m \notin Bad
  <2>1. Bad \subseteq Nat
    OBVIOUS
  <2>. HIDE DEF Bad
  <2>. QED
    BY <1>2, <2>1, LeastExists
<1>4. PICK R \in SUBSET S : Cardinality(R) = n /\ t[R] # u[R]
  BY <1>3
<1>5. R \in SUBSET DOMAIN w /\ R \in SUBSET DOMAIN v
  OBVIOUS
<1>6. /\ t[R] = IF R = {} THEN 0 ELSE w[AnyOf(R)] + t[R \ {AnyOf(R)}]
      /\ u[R] = IF R = {} THEN 0 ELSE v[AnyOf(R)] + u[R \ {AnyOf(R)}]
  BY <1>5 DEF Sums
<1>7. R # {}
  BY <1>4, <1>6
<1>8. /\ AnyOf(R) \in S /\ R \ {AnyOf(R)} \in SUBSET S
      /\ Cardinality(R \ {AnyOf(R)}) = n - 1 /\ n - 1 \in Nat /\ n - 1 < n
  BY <1>1, <1>4, <1>7, AnyIs
<1>9. t[R \ {AnyOf(R)}] = u[R \ {AnyOf(R)}]
  BY <1>3, <1>8
<1>. QED
  BY <1>4, <1>6, <1>7, <1>8, <1>9

\* One element more, one weight more, whichever element is taken first.
LEMMA SumsAdd ==
  ASSUME NEW w, IsFiniteSet(DOMAIN w), \A x \in DOMAIN w : w[x] \in Int, NEW t, Sums(w, t),
         NEW S \in SUBSET DOMAIN w, NEW y \in DOMAIN w \ S
  PROVE  t[S \cup {y}] = t[S] + w[y]
<1>. DEFINE Bad == {n \in Nat : \E R \in SUBSET DOMAIN w : \E x \in DOMAIN w \ R :
                      Cardinality(R) = n /\ t[R \cup {x}] # t[R] + w[x]}
<1>1. IsFiniteSet(S) /\ Cardinality(S) \in Nat
  BY FS_Subset, FS_CardinalityType
<1>2. SUFFICES ASSUME Bad # {} PROVE FALSE
  BY <1>1
<1>3. PICK n \in Bad : \A m \in Nat : m < n => m \notin Bad
  <2>1. Bad \subseteq Nat
    OBVIOUS
  <2>. HIDE DEF Bad
  <2>. QED
    BY <1>2, <2>1, LeastExists
<1>4. PICK R \in SUBSET DOMAIN w : \E x \in DOMAIN w \ R :
        Cardinality(R) = n /\ t[R \cup {x}] # t[R] + w[x]
  BY <1>3
<1>5. PICK x \in DOMAIN w \ R : Cardinality(R) = n /\ t[R \cup {x}] # t[R] + w[x]
  BY <1>4
<1>. DEFINE U == R \cup {x}
            z == AnyOf(U)
<1>6. U \in SUBSET DOMAIN w /\ U # {}
  OBVIOUS
<1>7. t[U] = w[z] + t[U \ {z}]
  BY <1>6 DEF Sums
<1>8. z \in U
  BY <1>6 DEF AnyOf
<1>9. \A Q \in SUBSET DOMAIN w : t[Q] \in Int
  BY SumsTyped
<1>. HIDE DEF z
<1>10. z # x
  <2>. SUFFICES ASSUME z = x PROVE FALSE
    OBVIOUS
  <2>1. U \ {z} = R
    OBVIOUS
  <2>2. t[R] \in Int /\ w[x] \in Int
    BY <1>9
  <2>3. t[U] = w[x] + t[R]
    BY <1>7, <2>1
  <2>4. t[U] # t[R] + w[x]
    BY <1>5
  <2>. HIDE DEF U
  <2>. QED
    BY <2>2, <2>3, <2>4
<1>. DEFINE P == R \ {z}
<1>11. /\ z \in R /\ P \in SUBSET DOMAIN w /\ x \notin P /\ z \notin P
       /\ U \ {z} = P \cup {x} /\ R = P \cup {z}
  BY <1>8, <1>10
<1>12. Cardinality(P) = n - 1 /\ n - 1 \in Nat /\ n - 1 < n
  <2>1. IsFiniteSet(R)
    BY FS_Subset
  <2>2. Cardinality(R) \in Nat /\ Cardinality(R) # 0
    BY <1>11, <2>1, FS_CardinalityType, FS_EmptySet
  <2>3. Cardinality(P) = Cardinality(R) - 1
    BY <1>11, <2>1, FS_RemoveElement
  <2>. QED
    BY <1>5, <2>2, <2>3
<1>. HIDE DEF P, U
<1>13. n - 1 \notin Bad
  BY <1>3, <1>12
<1>14. t[P \cup {x}] = t[P] + w[x]
  BY <1>11, <1>12, <1>13
<1>15. t[P \cup {z}] = t[P] + w[z]
  BY <1>11, <1>12, <1>13
<1>16. t[P] \in Int /\ w[x] \in Int /\ w[z] \in Int
  BY <1>9, <1>11
<1>17. t[U] = w[z] + (t[P] + w[x]) /\ t[R] = t[P] + w[z]
  BY <1>7, <1>11, <1>14, <1>15
<1>18. t[U] # t[R] + w[x]
  BY <1>5 DEF U
<1>. HIDE DEF Bad
<1>. QED
  BY <1>16, <1>17, <1>18

\* The sum of a disjoint union.
LEMMA SumsUnion ==
  ASSUME NEW w, IsFiniteSet(DOMAIN w), \A x \in DOMAIN w : w[x] \in Int, NEW t, Sums(w, t),
         NEW S \in SUBSET DOMAIN w, NEW T \in SUBSET DOMAIN w, S \cap T = {}
  PROVE  t[S \cup T] = t[S] + t[T]
<1>. DEFINE Bad == {n \in Nat : \E R \in SUBSET T : Cardinality(R) = n /\ t[S \cup R] # t[S] + t[R]}
<1>1. IsFiniteSet(T) /\ Cardinality(T) \in Nat
  BY FS_Subset, FS_CardinalityType
<1>2. SUFFICES ASSUME Bad # {} PROVE FALSE
  BY <1>1
<1>3. PICK n \in Bad : \A m \in Nat : m < n => m \notin Bad
  <2>1. Bad \subseteq Nat
    OBVIOUS
  <2>. HIDE DEF Bad
  <2>. QED
    BY <1>2, <2>1, LeastExists
<1>4. PICK R \in SUBSET T : Cardinality(R) = n /\ t[S \cup R] # t[S] + t[R]
  BY <1>3
<1>5. \A Q \in SUBSET DOMAIN w : t[Q] \in Int
  BY SumsTyped
<1>6. R # {}
  <2>. SUFFICES ASSUME R = {} PROVE FALSE
    OBVIOUS
  <2>1. S \cup R = S
    OBVIOUS
  <2>2. t[R] = 0
    BY DEF Sums
  <2>. QED
    BY <1>4, <1>5, <2>1, <2>2
<1>. DEFINE z == AnyOf(R)
            P == R \ {z}
<1>7. z \in R /\ Cardinality(P) = n - 1 /\ n - 1 \in Nat /\ n - 1 < n
  <2>1. IsFiniteSet(R) /\ n \in Nat \ {0}
    BY <1>1, <1>4, <1>6, AnyIs
  <2>2. z \in R
    BY <1>6 DEF AnyOf
  <2>. HIDE DEF z
  <2>3. Cardinality(P) = Cardinality(R) - 1
    BY <2>1, <2>2, FS_RemoveElement
  <2>. QED
    BY <1>4, <2>1, <2>2, <2>3
<1>8. /\ P \in SUBSET T /\ P \in SUBSET DOMAIN w /\ z \in DOMAIN w \ P
      /\ S \cup P \in SUBSET DOMAIN w /\ z \in DOMAIN w \ (S \cup P)
      /\ R = P \cup {z} /\ S \cup R = (S \cup P) \cup {z}
  BY <1>7
<1>. HIDE DEF z, P
<1>9. t[S \cup P] = t[S] + t[P]
  BY <1>3, <1>7, <1>8
<1>10. t[R] = t[P] + w[z]
  BY <1>8, SumsAdd
<1>11. t[S \cup R] = t[S \cup P] + w[z]
  BY <1>8, SumsAdd
<1>12. t[S] \in Int /\ t[P] \in Int /\ w[z] \in Int
  BY <1>5, <1>8
<1>. HIDE DEF Bad
<1>. QED
  BY <1>4, <1>9, <1>10, <1>11, <1>12

------------------------------------------------------------------------------
(* Sizes of records *)

Sizes(records) == [n \in DOMAIN records |-> RecordSize(records[n])]

LEMMA SizeIs ==
  ASSUME NEW records, IsFiniteSet(DOMAIN records)
  PROVE  \E t : Sums(Sizes(records), t) /\ Size(records) = t[DOMAIN records]
<1>. DEFINE D == DOMAIN records
            Is(t) == t = [s \in SUBSET D |->
                            IF s = {} THEN 0
                            ELSE RecordSize(records[CHOOSE x \in s : TRUE])
                                   + t[s \ {CHOOSE x \in s : TRUE}]]
<1>1. Size(records) = (CHOOSE t : Is(t))[D]
  BY DEF Size, MapThenSumSet, MapThenFoldSet
<1>2. ASSUME NEW t PROVE Is(t) <=> Sums(Sizes(records), t)
  <2>1. DOMAIN Sizes(records) = D /\ \A x \in D : Sizes(records)[x] = RecordSize(records[x])
    BY DEF Sizes
  <2>2. ASSUME NEW s \in SUBSET D, s # {}
        PROVE  Sizes(records)[AnyOf(s)] = RecordSize(records[CHOOSE x \in s : TRUE])
    BY <2>1, <2>2 DEF AnyOf
  <2>. QED
    BY <2>1, <2>2 DEF Sums, AnyOf
<1>3. \E t : Is(t)
  <2>1. IsFiniteSet(DOMAIN Sizes(records))
    BY DEF Sizes
  <2>2. PICK t : Sums(Sizes(records), t)
    BY <2>1, SumsExist
  <2>. HIDE DEF Is
  <2>. QED
    BY <1>2, <2>2
<1>4. Is(CHOOSE t : Is(t))
  <2>. HIDE DEF Is
  <2>. QED
    BY <1>3
<1>. HIDE DEF Is
<1>. QED
  BY <1>1, <1>2, <1>4

Sized(records) ==
  IsFiniteSet(DOMAIN records) /\ \A n \in DOMAIN records : RecordSize(records[n]) \in Int

LEMMA SizesAre ==
  ASSUME NEW f, Sized(f)
  PROVE  /\ DOMAIN Sizes(f) = DOMAIN f /\ IsFiniteSet(DOMAIN Sizes(f))
         /\ \A x \in DOMAIN f : Sizes(f)[x] = RecordSize(f[x]) /\ Sizes(f)[x] \in Int
BY DEF Sized, Sizes

\* The records of f are those of g and those of h.
Splits(f, g, h) ==
  /\ DOMAIN g \cap DOMAIN h = {} /\ DOMAIN f = DOMAIN g \cup DOMAIN h
  /\ \A x \in DOMAIN g : f[x] = g[x]
  /\ \A x \in DOMAIN h : f[x] = h[x]

\* The size of records that are some records and some others.
LEMMA SizeSplit ==
  ASSUME NEW f, Sized(f), NEW g, NEW h, Splits(f, g, h)
  PROVE  Size(f) = Size(g) + Size(h) /\ Size(g) \in Int /\ Size(h) \in Int
<1>. USE DEF Splits
<1>1. Sized(g) /\ Sized(h)
  BY FS_Subset DEF Sized
<1>2. PICK t : Sums(Sizes(f), t) /\ Size(f) = t[DOMAIN f]
  BY SizeIs DEF Sized
<1>3. PICK u : Sums(Sizes(g), u) /\ Size(g) = u[DOMAIN g]
  BY <1>1, SizeIs DEF Sized
<1>4. PICK v : Sums(Sizes(h), v) /\ Size(h) = v[DOMAIN h]
  BY <1>1, SizeIs DEF Sized
<1>5. t[DOMAIN g] = u[DOMAIN g]
  <2>1. \A x \in DOMAIN g : Sizes(f)[x] = Sizes(g)[x]
    BY <1>1, SizesAre
  <2>. QED
    BY <1>1, <1>2, <1>3, <2>1, SizesAre, SumsAgree
<1>6. t[DOMAIN h] = v[DOMAIN h]
  <2>1. \A x \in DOMAIN h : Sizes(f)[x] = Sizes(h)[x]
    BY <1>1, SizesAre
  <2>. QED
    BY <1>1, <1>2, <1>4, <2>1, SizesAre, SumsAgree
<1>7. t[DOMAIN g \cup DOMAIN h] = t[DOMAIN g] + t[DOMAIN h]
  <2>1. /\ IsFiniteSet(DOMAIN Sizes(f)) /\ \A x \in DOMAIN Sizes(f) : Sizes(f)[x] \in Int
    BY SizesAre
  <2>2. DOMAIN g \in SUBSET DOMAIN Sizes(f) /\ DOMAIN h \in SUBSET DOMAIN Sizes(f)
    BY SizesAre
  <2>3. DOMAIN g \cap DOMAIN h = {}
    OBVIOUS
  <2>. QED
    BY <1>2, <2>1, <2>2, <2>3, SumsUnion
<1>8. t[DOMAIN g] \in Int /\ t[DOMAIN h] \in Int
  BY <1>2, SizesAre, SumsTyped
<1>. QED
  BY <1>2, <1>3, <1>4, <1>5, <1>6, <1>7, <1>8

LEMMA SizeNone == ASSUME NEW f, DOMAIN f = {} PROVE Size(f) = 0
<1>1. IsFiniteSet(DOMAIN f)
  BY FS_EmptySet
<1>2. PICK t : Sums(Sizes(f), t) /\ Size(f) = t[DOMAIN f]
  BY <1>1, SizeIs
<1>. QED
  BY <1>2 DEF Sums

LEMMA SizeOne == ASSUME NEW f, NEW n, DOMAIN f = {n}, RecordSize(f[n]) \in Int
                 PROVE  Size(f) = RecordSize(f[n])
<1>1. IsFiniteSet(DOMAIN f)
  BY FS_Singleton
<1>2. PICK t : Sums(Sizes(f), t) /\ Size(f) = t[DOMAIN f]
  BY <1>1, SizeIs
<1>3. AnyOf({n}) = n
  BY DEF AnyOf
<1>4. DOMAIN Sizes(f) = {n} /\ Sizes(f)[n] = RecordSize(f[n])
  BY DEF Sizes
<1>5. t[{n}] = Sizes(f)[n] + t[{n} \ {n}] /\ t[{}] = 0
  BY <1>2, <1>3, <1>4 DEF Sums
<1>6. {n} \ {n} = {}
  OBVIOUS
<1>7. t[{n}] = Sizes(f)[n] + 0
  BY <1>5, <1>6
<1>. QED
  BY <1>2, <1>4, <1>7

\* A record is taken from some records and given to others.
LEMMA SizeWith ==
  ASSUME NEW f, NEW n, n \notin DOMAIN f, NEW record, Sized(With(f, n, record))
  PROVE  Size(With(f, n, record)) = Size(f) + RecordSize(record)
<1>. DEFINE one == [x \in {n} |-> record]
            g == With(f, n, record)
<1>1. RecordSize(record) \in Int
  BY DEF Sized, With
<1>2. Size(one) = RecordSize(record)
  BY <1>1, SizeOne
<1>3. Splits(g, f, one)
  BY DEF Splits, With
<1>. HIDE DEF one, g
<1>4. Size(g) = Size(f) + Size(one)
  <2>1. Sized(g)
    BY DEF g
  <2>. QED
    BY <1>3, <2>1, SizeSplit
<1>. QED
  BY <1>2, <1>4 DEF g

LEMMA SizeWithout ==
  ASSUME NEW f, NEW n \in DOMAIN f, Sized(f)
  PROVE  Size(Without(f, n)) = Size(f) - RecordSize(f[n])
<1>. DEFINE one == [x \in {n} |-> f[n]]
            g == Without(f, n)
<1>1. RecordSize(f[n]) \in Int
  BY DEF Sized
<1>2. Size(one) = RecordSize(f[n])
  BY <1>1, SizeOne
<1>3. Splits(f, g, one)
  BY DEF Splits, Without
<1>. HIDE DEF one, g
<1>4. Size(f) = Size(g) + Size(one) /\ Size(g) \in Int /\ Size(one) \in Int
  BY <1>3, SizeSplit
<1>. QED
  BY <1>1, <1>2, <1>4 DEF g

------------------------------------------------------------------------------
(* Iteration *)

\* f goes from the start, n times, to what step makes of the number and the last.
Iterates(step, start, n, f) ==
  DOMAIN f = 0 .. n /\ f[0] = start /\ \A i \in 1 .. n : f[i] = step[<<i, f[i - 1]>>]

LEMMA IteratesExist ==
  ASSUME NEW n \in Nat, NEW S, NEW start \in S, NEW step \in [(1 .. n) \X S -> S]
  PROVE  \E f \in [0 .. n -> S] : Iterates(step, start, n, f)
<1>. DEFINE Bad == {m \in Nat : m <= n /\ ~ \E f \in [0 .. m -> S] : Iterates(step, start, m, f)}
<1>1. SUFFICES ASSUME Bad # {} PROVE FALSE
  OBVIOUS
<1>2. PICK m \in Bad : \A k \in Nat : k < m => k \notin Bad
  <2>1. Bad \subseteq Nat
    OBVIOUS
  <2>. HIDE DEF Bad
  <2>. QED
    BY <1>1, <2>1, LeastExists
<1>3. m # 0
  <2>. DEFINE f == [i \in 0 .. 0 |-> start]
  <2>1. f \in [0 .. 0 -> S] /\ Iterates(step, start, 0, f)
    BY DEF Iterates
  <2>. HIDE DEF f
  <2>. QED
    BY <2>1
<1>4. m \in Nat /\ m <= n /\ m - 1 \in Nat /\ m - 1 < m
  BY <1>3
<1>5. PICK f \in [0 .. m - 1 -> S] : Iterates(step, start, m - 1, f)
  BY <1>2, <1>4
<1>. DEFINE g == [i \in 0 .. m |-> IF i = m THEN step[<<m, f[m - 1]>>] ELSE f[i]]
<1>6. step[<<m, f[m - 1]>>] \in S
  BY <1>3, <1>4
<1>7. g \in [0 .. m -> S]
  BY <1>4, <1>6
<1>8. Iterates(step, start, m, g)
  <2>1. DOMAIN g = 0 .. m /\ g[0] = start
    BY <1>3, <1>4, <1>5 DEF Iterates
  <2>2. ASSUME NEW i \in 1 .. m PROVE g[i] = step[<<i, g[i - 1]>>]
    <3>1. g[i - 1] = f[i - 1]
      BY <1>4
    <3>2. CASE i = m
      BY <1>4, <3>1, <3>2
    <3>3. CASE i # m
      <4>1. i \in 1 .. m - 1 /\ g[i] = f[i]
        BY <1>4, <3>3
      <4>. QED
        BY <1>5, <3>1, <4>1 DEF Iterates
    <3>. QED
      BY <3>2, <3>3
  <2>. HIDE DEF g
  <2>. QED
    BY <2>1, <2>2 DEF Iterates
<1>. HIDE DEF g
<1>. QED
  BY <1>2, <1>7, <1>8

------------------------------------------------------------------------------
(* Neighbors nobody has seen *)

LEMMA ToSetAppend ==
  ASSUME NEW S, NEW s \in Seq(S), NEW e \in S
  PROVE  Append(s, e) \in Seq(S) /\ ToSet(Append(s, e)) = ToSet(s) \cup {e}
<1>1. /\ Append(s, e) \in Seq(S) /\ Len(Append(s, e)) = Len(s) + 1
      /\ Len(s) \in Nat
      /\ \A i \in 1 .. Len(s) : Append(s, e)[i] = s[i]
      /\ Append(s, e)[Len(s) + 1] = e
  OBVIOUS
<1>. DEFINE t == Append(s, e)
<1>. HIDE DEF t
<1>2. DOMAIN t = 1 .. Len(s) + 1 /\ DOMAIN s = 1 .. Len(s)
  BY <1>1 DEF t
<1>3. \A i \in 1 .. Len(s) : t[i] = s[i]
  BY <1>1 DEF t
<1>4. t[Len(s) + 1] = e
  BY <1>1 DEF t
<1>5. ToSet(t) = ToSet(s) \cup {e}
  BY <1>1, <1>2, <1>3, <1>4 DEF ToSet
<1>. QED
  BY <1>1, <1>5 DEF t

LEMMA UnseenIs ==
  ASSUME NEW S, NEW neighbors \in Seq(S), NEW seen
  PROVE  /\ Unseen(neighbors, seen) \in Seq(S)
         /\ ToSet(Unseen(neighbors, seen)) = ToSet(neighbors) \ seen
<1>. DEFINE n == Len(neighbors)
            Is(f) == f = [i \in 0 .. n |->
                            IF i = 0 THEN <<>>
                            ELSE IF neighbors[i] \in seen \cup ToSet(f[i - 1]) THEN f[i - 1]
                            ELSE Append(f[i - 1], neighbors[i])]
            step == [p \in (1 .. n) \X Seq(S) |->
                       IF neighbors[p[1]] \in seen \cup ToSet(p[2]) THEN p[2]
                       ELSE Append(p[2], neighbors[p[1]])]
            upTo == CHOOSE f : Is(f)
<1>1. Unseen(neighbors, seen) = upTo[n]
  BY DEF Unseen
<1>2. n \in Nat /\ \A i \in 1 .. n : neighbors[i] \in S
  OBVIOUS
<1>3. Is(upTo)
  <2>1. step \in [(1 .. n) \X Seq(S) -> Seq(S)]
    BY <1>2
  <2>2. <<>> \in Seq(S)
    OBVIOUS
  <2>3. PICK f \in [0 .. n -> Seq(S)] : Iterates(step, <<>>, n, f)
    <3>. HIDE DEF step, n
    <3>. QED
      BY <1>2, <2>1, <2>2, IteratesExist
  <2>4. \A i \in 1 .. n : f[i] = IF neighbors[i] \in seen \cup ToSet(f[i - 1]) THEN f[i - 1]
                                 ELSE Append(f[i - 1], neighbors[i])
    <3>1. ASSUME NEW i \in 1 .. n PROVE <<i, f[i - 1]>> \in (1 .. n) \X Seq(S)
      <4>1. i - 1 \in 0 .. n
        BY <1>2
      <4>. HIDE DEF n
      <4>. QED
        BY <2>3, <4>1
    <3>. QED
      BY <2>3, <3>1 DEF Iterates
  <2>5. f[0] = <<>> /\ DOMAIN f = 0 .. n
    BY <2>3 DEF Iterates
  <2>. HIDE DEF step
  <2>6. Is(f)
    <3>1. f = [i \in 0 .. n |-> f[i]]
      BY <2>3
    <3>2. \A i \in 0 .. n : i = 0 \/ i \in 1 .. n
      BY <1>2
    <3>. HIDE DEF n
    <3>. QED
      BY <2>4, <2>5, <3>1, <3>2
  <2>. HIDE DEF Is
  <2>. QED
    BY <2>6
<1>. HIDE DEF upTo
<1>4. /\ upTo[0] = <<>>
      /\ \A i \in 1 .. n : upTo[i] = IF neighbors[i] \in seen \cup ToSet(upTo[i - 1]) THEN upTo[i - 1]
                                     ELSE Append(upTo[i - 1], neighbors[i])
  <2>1. 0 \in 0 .. n /\ \A i \in 1 .. n : i \in 0 .. n /\ i # 0
    BY <1>2
  <2>2. \A i \in 0 .. n : upTo[i] =
          IF i = 0 THEN <<>>
          ELSE IF neighbors[i] \in seen \cup ToSet(upTo[i - 1]) THEN upTo[i - 1]
          ELSE Append(upTo[i - 1], neighbors[i])
    <3>. HIDE DEF n
    <3>. QED
      BY <1>3, Zenon
  <2>. HIDE DEF n, Is
  <2>. QED
    BY <2>1, <2>2
<1>. HIDE DEF Is
<1>. DEFINE Good(i) == /\ upTo[i] \in Seq(S)
                       /\ ToSet(upTo[i]) = {neighbors[j] : j \in 1 .. i} \ seen
            Bad == {i \in Nat : i <= n /\ ~Good(i)}
<1>5. ASSUME NEW i \in 1 .. n, Good(i - 1) PROVE Good(i)
  <2>1. {neighbors[j] : j \in 1 .. i} = {neighbors[j] : j \in 1 .. i - 1} \cup {neighbors[i]}
    BY <1>2
  <2>2. CASE neighbors[i] \in seen \cup ToSet(upTo[i - 1])
    BY <1>4, <1>5, <2>1, <2>2
  <2>3. CASE neighbors[i] \notin seen \cup ToSet(upTo[i - 1])
    <3>1. upTo[i] = Append(upTo[i - 1], neighbors[i])
      BY <1>4, <2>3
    <3>2. upTo[i] \in Seq(S) /\ ToSet(upTo[i]) = ToSet(upTo[i - 1]) \cup {neighbors[i]}
      BY <1>2, <1>5, <3>1, ToSetAppend
    <3>. QED
      BY <1>5, <2>1, <2>3, <3>2
  <2>. QED
    BY <2>2, <2>3
<1>6. Good(0)
  BY <1>4 DEF ToSet
<1>. HIDE DEF Good, n
<1>7. Bad = {}
  <2>. SUFFICES ASSUME Bad # {} PROVE FALSE
    OBVIOUS
  <2>1. PICK i \in Bad : \A k \in Nat : k < i => k \notin Bad
    <3>1. Bad \subseteq Nat
      OBVIOUS
    <3>. HIDE DEF Bad
    <3>. QED
      BY <3>1, LeastExists
  <2>2. i # 0
    BY <1>6
  <2>3. i \in 1 .. n /\ i - 1 \in Nat /\ i - 1 < i /\ i - 1 <= n
    BY <1>2, <2>2
  <2>4. Good(i - 1)
    BY <2>1, <2>3
  <2>. QED
    BY <1>5, <2>3, <2>4
<1>8. Good(n)
  BY <1>2, <1>7
<1>9. DOMAIN neighbors = 1 .. n
  BY DEF n
<1>. QED
  BY <1>1, <1>8, <1>9 DEF Good, ToSet

------------------------------------------------------------------------------
(* Snapshots and the graphs in them *)

\* What the searches of a snapshot p build on: links to its rows, sorted
\* labels, distances.  A deleted row is there, but not present.
GraphSound(c, p, asked, code) ==
  /\ IsSeq(p.nodes) /\ p.nodes # <<>>
  /\ Sorted(asked.filter)
  /\ SearchStarts(p.starts, asked.filter) \in Seq(DOMAIN p.nodes)
  /\ \A n \in DOMAIN p.nodes : Present(p.nodes[n]) =>
       /\ p.nodes[n].neighbors \in Seq(DOMAIN p.nodes)
       /\ Sorted(p.nodes[n].labels)
       /\ RoutingDistance(c, code, p.nodes[n].code) \in Int

\* A snapshot resolves its nodes to what was built, or to tombstones.
SnapshotBuilt(p) ==
  /\ IsSeq(p.nodes) /\ DOMAIN p.nodes = DOMAIN p.rows /\ p.rows \in Inputs
  /\ p.starts = StartsOf(p.rows)
  /\ \A n \in DOMAIN p.nodes : Present(p.nodes[n]) => p.nodes[n] = Built[config][p.rows][n]

SnapshotsBuilt == \A v \in DOMAIN published : SnapshotBuilt(published[v])

LEMMA RowsAre ==
  ASSUME NEW rows \in Inputs
  PROVE  IsSeq(rows) /\ Len(rows) \in Nat /\ DOMAIN rows = 1 .. Len(rows)
BY SearchAssumption DEF IsSeq

\* A function on 1 .. n is a sequence.
LEMMA FunctionIsSeq ==
  ASSUME NEW n \in Nat, NEW f, f = [i \in 1 .. n |-> f[i]]
  PROVE  IsSeq(f) /\ Len(f) = n
<1>. DEFINE S == {f[i] : i \in 1 .. n}
<1>1. f \in [1 .. n -> S]
  <2>1. \A i \in 1 .. n : f[i] \in S
    OBVIOUS
  <2>. HIDE DEF S
  <2>. QED
    BY <2>1
<1>. HIDE DEF S
<1>2. f \in Seq(S)
  BY <1>1, SeqDef
<1>3. Len(f) = n
  BY <1>1, <1>2, LenProperties
<1>. QED
  BY <1>2, <1>3 DEF IsSeq

LEMMA GraphIsSound ==
  ASSUME SnapshotsBuilt, config \in Configs, NEW v \in DOMAIN published,
         published[v].rows \in Searched, published[v].rows # <<>>, NEW asked \in Searches,
         NEW code, code = RoutingVector(config, Models[config][published[v].rows], asked.query)
  PROVE  GraphSound(config, published[v], asked, code)
<1>. DEFINE p == published[v]
            rows == p.rows
<1>1. SnapshotBuilt(p)
  BY DEF SnapshotsBuilt
<1>2. p.nodes # <<>>
  <2>1. IsSeq(rows) /\ rows # <<>>
    BY <1>1, RowsAre DEF SnapshotBuilt
  <2>2. DOMAIN rows # {}
    <3>1. PICK S : rows \in Seq(S)
      BY <2>1 DEF IsSeq
    <3>2. Len(rows) # 0
      BY <2>1, <3>1, EmptySeq
    <3>3. Len(rows) \in Nat /\ DOMAIN rows = 1 .. Len(rows)
      BY <2>1, SeqFacts
    <3>4. 1 \in DOMAIN rows
      BY <3>2, <3>3
    <3>. QED
      BY <3>4
  <2>. QED
    BY <1>1, <2>2 DEF SnapshotBuilt
<1>3. /\ Sorted(asked.filter)
      /\ SearchStarts(StartsOf(rows), asked.filter) \in Seq(DOMAIN rows)
      /\ \A n \in DOMAIN rows :
           /\ Built[config][rows][n].neighbors \in Seq(DOMAIN rows)
           /\ Sorted(Built[config][rows][n].labels)
           /\ RoutingDistance(config, code, Built[config][rows][n].code) \in Int
  BY GraphsAssumption
<1>. QED
  BY <1>1, <1>2, <1>3 DEF SnapshotBuilt, GraphSound

LEMMA PublishBuildBuilds ==
  ASSUME SearchInv, SnapshotsBuilt, NEW rows \in Inputs, PublishBuild(rows)
  PROVE  SnapshotsBuilt'
<1>. DEFINE version == Len(published) + 1
            reference == Len(quantizers) + 1
            snapshot == [version |-> version, segments |-> <<version>>, hotDelta |-> 0, epoch |-> 0,
                         quantizers |-> IF NeedsModel(rows) THEN <<reference>> ELSE <<>>,
                         rows |-> rows, starts |-> StartsOf(rows),
                         nodes |-> Built[config][rows]]
<1>1. published' = Append(published, snapshot) /\ UNCHANGED config
  BY DEF PublishBuild, Publish
<1>2. snapshot.rows = rows /\ snapshot.starts = StartsOf(rows) /\ snapshot.nodes = Built[config][rows]
  OBVIOUS
<1>3. Built[config][rows] = BuiltRecords(config, rows)
  BY DEF SearchInv, ModelsStored, Built
<1>4. /\ BuiltRecords(config, rows) = [n \in DOMAIN rows |-> BuiltRecords(config, rows)[n]]
      /\ IsSeq(BuiltRecords(config, rows))
  <2>1. /\ BuiltRecords(config, rows) = [n \in DOMAIN rows |-> BuiltRecords(config, rows)[n]]
    BY DEF BuiltRecords
  <2>2. Len(rows) \in Nat /\ DOMAIN rows = 1 .. Len(rows)
    BY RowsAre
  <2>. QED
    BY <2>1, <2>2, FunctionIsSeq
<1>. HIDE DEF snapshot
<1>5. SnapshotBuilt(snapshot)
  <2>1. DOMAIN snapshot.nodes = DOMAIN rows
    BY <1>2, <1>3, <1>4
  <2>. QED
    BY <1>2, <1>3, <1>4, <2>1 DEF SnapshotBuilt
<1>6. ASSUME NEW v \in DOMAIN published'
      PROVE  \/ v \in DOMAIN published /\ published'[v] = published[v]
             \/ published'[v] = snapshot
  <2>1. IsSeq(published)
    BY DEF SearchInv, CacheInv, VersionsInOrder
  <2>. QED
    BY <1>1, <2>1, SeqFacts, AppendFacts
<1>. QED
  BY <1>1, <1>5, <1>6 DEF SnapshotsBuilt, SnapshotBuilt

LEMMA PublishDeleteBuilds ==
  ASSUME SearchInv, SnapshotsBuilt, NEW n, PublishDelete(n)
  PROVE  SnapshotsBuilt'
<1>. DEFINE last == published[Len(published)]
            snapshot == [version |-> last.version + 1, segments |-> last.segments,
                         hotDelta |-> last.hotDelta + 1, epoch |-> last.epoch + 1,
                         quantizers |-> last.quantizers, rows |-> last.rows, starts |-> last.starts,
                         nodes |-> [last.nodes EXCEPT ![n] = Tombstone]]
<1>1. published' = Append(published, snapshot) /\ UNCHANGED config /\ Len(published) \in DOMAIN published
  <2>1. Len(published) \in Nat /\ DOMAIN published = 1 .. Len(published)
    BY SeqFacts DEF SearchInv, CacheInv, VersionsInOrder
  <2>. QED
    BY <2>1 DEF PublishDelete, Publish, searchVars
<1>2. /\ snapshot.rows = last.rows /\ snapshot.starts = last.starts
      /\ snapshot.nodes = [last.nodes EXCEPT ![n] = Tombstone]
  OBVIOUS
<1>. HIDE DEF snapshot
<1>3. SnapshotBuilt(last)
  BY <1>1 DEF SnapshotsBuilt
<1>. HIDE DEF last
<1>4. /\ snapshot.nodes = [m \in 1 .. Len(last.nodes) |-> snapshot.nodes[m]]
      /\ DOMAIN snapshot.nodes = DOMAIN last.nodes /\ Len(last.nodes) \in Nat
      /\ \A m \in DOMAIN last.nodes : Present(snapshot.nodes[m]) => snapshot.nodes[m] = last.nodes[m]
  <2>1. Len(last.nodes) \in Nat /\ DOMAIN last.nodes = 1 .. Len(last.nodes)
    BY <1>3, SeqFacts DEF SnapshotBuilt
  <2>. QED
    BY <1>2, <2>1 DEF Present
<1>5. IsSeq(snapshot.nodes)
  BY <1>4, FunctionIsSeq
<1>6. SnapshotBuilt(snapshot)
  BY <1>2, <1>3, <1>4, <1>5 DEF SnapshotBuilt
<1>7. ASSUME NEW v \in DOMAIN published'
      PROVE  \/ v \in DOMAIN published /\ published'[v] = published[v]
             \/ published'[v] = snapshot
  <2>1. IsSeq(published)
    BY DEF SearchInv, CacheInv, VersionsInOrder
  <2>. QED
    BY <1>1, <2>1, SeqFacts, AppendFacts
<1>. QED
  BY <1>1, <1>6, <1>7 DEF SnapshotsBuilt, SnapshotBuilt

------------------------------------------------------------------------------
(* What a walk holds *)

Held(s) == DOMAIN s.parked \cup DOMAIN s.candidates
Coming(s) == DOMAIN s.records \cup ToSet(s.toRead)

\* Records of present nodes, as the snapshot has them.
OfGraph(records, nodes) ==
  /\ IsFiniteSet(DOMAIN records)
  /\ \A n \in DOMAIN records : n \in DOMAIN nodes /\ Present(nodes[n]) /\ records[n] = nodes[n]

Accounts(s) ==
  /\ s.cachedBytes = Size(s.parked) /\ s.candidateBytes = Size(s.candidates)
  /\ s.slots = Cardinality(Held(s))
  /\ s.queue = DOMAIN s.parked /\ DOMAIN s.parked \cap DOMAIN s.candidates = {}

WalkFields == {"pc", "version", "asked", "code", "queue", "seen", "parked", "candidates", "toRead",
               "records", "cachedBytes", "slots", "candidateBytes"}

\* A walk over snapshot p: what is held is held once, what is to come is not
\* held yet, and nothing is to come between two visits.
WalkSound(p, s) ==
  /\ WalkFields \subseteq DOMAIN s
  /\ OfGraph(s.parked, p.nodes) /\ OfGraph(s.candidates, p.nodes) /\ OfGraph(s.records, p.nodes)
  /\ s.toRead \in Seq(DOMAIN p.nodes)
  /\ Held(s) \cap Coming(s) = {} /\ Held(s) \subseteq s.seen
  /\ Accounts(s)
  /\ s.pc = "walk" => Coming(s) = {}

\* Records, and those read for the present nodes.
Merged(records, present, reads) ==
  [n \in DOMAIN records \cup present |-> IF n \in present THEN reads[n] ELSE records[n]]

\* Steps of the walk change these fields and no others.
LEMMA ParkedFields ==
  ASSUME NEW s, WalkFields \subseteq DOMAIN s, NEW t, t = Parked(s)
  PROVE  /\ DOMAIN t = DOMAIN s /\ t.pc = "walk"
         /\ t.version = s.version /\ t.asked = s.asked /\ t.code = s.code
         /\ t.seen = s.seen \cup DOMAIN s.records
         /\ t.queue = s.queue \cup DOMAIN s.records
         /\ t.parked = Merged(s.parked, DOMAIN s.records, s.records)
         /\ t.cachedBytes = s.cachedBytes + Size(s.records)
         /\ t.slots = s.slots + Cardinality(DOMAIN s.records)
         /\ t.records = EmptyFn
         /\ t.candidates = s.candidates /\ t.toRead = s.toRead /\ t.candidateBytes = s.candidateBytes
BY DEF Parked, WalkFields, Merged

LEMMA TakenFields ==
  ASSUME NEW s, WalkFields \subseteq DOMAIN s, NEW n, NEW t, t = Taken(s, n),
         NEW record, record = s.parked[n],
         NEW found, found = Unseen(record.neighbors, s.seen)
  PROVE  /\ DOMAIN t = DOMAIN s /\ t.pc = IF found = <<>> THEN "walk" ELSE "neighbors"
         /\ t.version = s.version /\ t.asked = s.asked /\ t.code = s.code
         /\ t.seen = s.seen \cup ToSet(found)
         /\ t.queue = s.queue \ {n}
         /\ t.parked = Without(s.parked, n)
         /\ t.cachedBytes = s.cachedBytes - RecordSize(record)
         /\ t.slots = s.slots
         /\ t.records = s.records
         /\ t.candidates = With(s.candidates, n, record) /\ t.toRead = found
         /\ t.candidateBytes = s.candidateBytes + RecordSize(record)
BY DEF Taken, WalkFields

LEMMA OfGraphSized ==
  ASSUME NEW c, NEW p, NEW asked, NEW code, GraphSound(c, p, asked, code),
         NEW f, OfGraph(f, p.nodes)
  PROVE  Sized(f)
<1>1. ASSUME NEW n \in DOMAIN f PROVE RecordSize(f[n]) \in Int
  <2>1. f[n].neighbors \in Seq(DOMAIN p.nodes) /\ f[n].labels \in Seq(Int)
    BY DEF OfGraph, GraphSound, Sorted
  <2>2. Len(f[n].neighbors) \in Nat /\ Len(f[n].labels) \in Nat
    BY <2>1
  <2>. QED
    BY <2>2 DEF RecordSize
<1>. QED
  BY <1>1 DEF OfGraph, Sized

LEMMA ParkedSound ==
  ASSUME NEW c, NEW p, NEW asked, NEW code, GraphSound(c, p, asked, code),
         NEW s, WalkSound(p, s), s.toRead = <<>>, NEW t, t = Parked(s)
  PROVE  WalkSound(p, t)
<1>1. /\ DOMAIN t = DOMAIN s
      /\ t.seen = s.seen \cup DOMAIN s.records
      /\ t.queue = s.queue \cup DOMAIN s.records
      /\ t.parked = Merged(s.parked, DOMAIN s.records, s.records)
      /\ t.cachedBytes = s.cachedBytes + Size(s.records)
      /\ t.slots = s.slots + Cardinality(DOMAIN s.records)
      /\ t.records = EmptyFn
      /\ t.candidates = s.candidates /\ t.toRead = s.toRead /\ t.candidateBytes = s.candidateBytes
  BY ParkedFields DEF WalkSound
<1>2. DOMAIN EmptyFn = {} /\ ToSet(<<>>) = {}
  BY DEF EmptyFn, ToSet
<1>3. /\ DOMAIN t.parked = DOMAIN s.parked \cup DOMAIN s.records
      /\ Held(t) = Held(s) \cup DOMAIN s.records /\ Coming(t) = {}
      /\ Coming(s) = DOMAIN s.records
  BY <1>1, <1>2 DEF Held, Coming, Merged
<1>4. Held(s) \cap DOMAIN s.records = {}
  BY <1>3 DEF WalkSound
<1>5. /\ \A n \in DOMAIN s.parked : t.parked[n] = s.parked[n]
      /\ \A n \in DOMAIN s.records : t.parked[n] = s.records[n]
  BY <1>1, <1>4 DEF Held, Merged
<1>6. IsFiniteSet(DOMAIN s.parked) /\ IsFiniteSet(DOMAIN s.records) /\ IsFiniteSet(DOMAIN s.candidates)
  BY DEF WalkSound, OfGraph
<1>7. OfGraph(t.parked, p.nodes)
  <2>1. IsFiniteSet(DOMAIN t.parked)
    <3>1. IsFiniteSet(DOMAIN s.parked \cup DOMAIN s.records)
      BY <1>6, FS_Union
    <3>. QED
      BY <1>3, <3>1
  <2>2. OfGraph(s.parked, p.nodes) /\ OfGraph(s.records, p.nodes)
    BY DEF WalkSound
  <2>. QED
    BY <1>3, <1>5, <2>1, <2>2 DEF OfGraph
<1>8. OfGraph(t.candidates, p.nodes) /\ OfGraph(t.records, p.nodes) /\ t.toRead \in Seq(DOMAIN p.nodes)
  BY <1>1, <1>2, FS_EmptySet DEF WalkSound, OfGraph
<1>9. Accounts(t)
  <2>1. Size(t.parked) = Size(s.parked) + Size(s.records)
    <3>1. Sized(t.parked)
      BY <1>7, OfGraphSized
    <3>2. DOMAIN s.parked \cap DOMAIN s.records = {}
      BY <1>4 DEF Held
    <3>3. DOMAIN t.parked = DOMAIN s.parked \cup DOMAIN s.records
      BY <1>3
    <3>4. Splits(t.parked, s.parked, s.records)
      BY <1>5, <3>2, <3>3 DEF Splits
    <3>. QED
      BY <3>1, <3>4, SizeSplit
  <2>2. Cardinality(Held(s) \cup DOMAIN s.records) = Cardinality(Held(s)) + Cardinality(DOMAIN s.records)
    <3>1. IsFiniteSet(Held(s))
      BY <1>6, FS_Union DEF Held
    <3>2. Cardinality(Held(s) \cap DOMAIN s.records) = 0
      BY <1>4, FS_EmptySet
    <3>3. Cardinality(Held(s)) \in Nat /\ Cardinality(DOMAIN s.records) \in Nat
      BY <1>6, <3>1, FS_CardinalityType
    <3>4. Cardinality(Held(s) \cup DOMAIN s.records)
            = Cardinality(Held(s)) + Cardinality(DOMAIN s.records)
              - Cardinality(Held(s) \cap DOMAIN s.records)
      BY <1>6, <3>1, FS_Union
    <3>. QED
      BY <3>2, <3>3, <3>4
  <2>3. Accounts(s)
    BY DEF WalkSound
  <2>4. t.cachedBytes = Size(t.parked) /\ t.candidateBytes = Size(t.candidates)
    BY <1>1, <2>1, <2>3 DEF Accounts
  <2>5. t.slots = Cardinality(Held(t))
    BY <1>1, <1>3, <2>2, <2>3 DEF Accounts
  <2>6. t.queue = DOMAIN t.parked /\ DOMAIN t.parked \cap DOMAIN t.candidates = {}
    BY <1>1, <1>3, <1>4, <2>3 DEF Accounts, Held
  <2>. QED
    BY <2>4, <2>5, <2>6 DEF Accounts
<1>. QED
  BY <1>1, <1>3, <1>7, <1>8, <1>9 DEF WalkSound

LEMMA TakenSound ==
  ASSUME NEW c, NEW p, NEW asked, NEW code, GraphSound(c, p, asked, code),
         NEW s, WalkSound(p, s), s.pc = "walk", NEW n \in s.queue, NEW t, t = Taken(s, n)
  PROVE  WalkSound(p, t)
<1>. DEFINE record == s.parked[n]
            found == Unseen(record.neighbors, s.seen)
<1>1. /\ DOMAIN t = DOMAIN s /\ t.pc = IF found = <<>> THEN "walk" ELSE "neighbors"
      /\ t.seen = s.seen \cup ToSet(found)
      /\ t.queue = s.queue \ {n}
      /\ t.parked = Without(s.parked, n)
      /\ t.cachedBytes = s.cachedBytes - RecordSize(record)
      /\ t.slots = s.slots
      /\ t.records = s.records
      /\ t.candidates = With(s.candidates, n, record) /\ t.toRead = found
      /\ t.candidateBytes = s.candidateBytes + RecordSize(record)
  BY TakenFields DEF WalkSound
<1>2. /\ n \in DOMAIN s.parked /\ n \notin DOMAIN s.candidates
      /\ n \in DOMAIN p.nodes /\ Present(p.nodes[n]) /\ record = p.nodes[n]
  BY DEF WalkSound, Accounts, OfGraph
<1>3. found \in Seq(DOMAIN p.nodes) /\ ToSet(found) = ToSet(record.neighbors) \ s.seen
  <2>1. record.neighbors \in Seq(DOMAIN p.nodes)
    BY <1>2 DEF GraphSound
  <2>. QED
    BY <2>1, UnseenIs
<1>. HIDE DEF found, record
<1>4. /\ DOMAIN t.parked = DOMAIN s.parked \ {n}
      /\ DOMAIN t.candidates = DOMAIN s.candidates \cup {n}
      /\ \A m \in DOMAIN t.parked : t.parked[m] = s.parked[m]
      /\ \A m \in DOMAIN s.candidates : t.candidates[m] = s.candidates[m]
      /\ t.candidates[n] = record
  BY <1>1, <1>2 DEF With, Without
<1>5. DOMAIN s.records = {} /\ Held(t) = Held(s) /\ Coming(t) = ToSet(found)
  BY <1>1, <1>2, <1>4 DEF Held, Coming, WalkSound
<1>6. OfGraph(t.parked, p.nodes)
  <2>1. IsFiniteSet(DOMAIN t.parked)
    BY <1>4, FS_Subset DEF WalkSound, OfGraph
  <2>. QED
    BY <1>4, <2>1 DEF WalkSound, OfGraph
<1>7. OfGraph(t.candidates, p.nodes)
  <2>1. IsFiniteSet(DOMAIN t.candidates)
    BY <1>4, FS_AddElement DEF WalkSound, OfGraph
  <2>. QED
    BY <1>2, <1>4, <2>1 DEF WalkSound, OfGraph
<1>8. Accounts(t)
  <2>1. Size(t.parked) = Size(s.parked) - RecordSize(record)
    <3>1. Sized(s.parked)
      BY OfGraphSized DEF WalkSound
    <3>. QED
      BY <1>1, <1>2, <3>1, SizeWithout DEF record
  <2>2. Size(t.candidates) = Size(s.candidates) + RecordSize(record)
    <3>1. Sized(t.candidates)
      BY <1>7, OfGraphSized
    <3>. QED
      BY <1>1, <1>2, <3>1, SizeWith
  <2>3. Accounts(s)
    BY DEF WalkSound
  <2>. QED
    BY <1>1, <1>4, <1>5, <2>1, <2>2, <2>3 DEF Accounts
<1>9. WalkFields \subseteq DOMAIN t /\ OfGraph(t.records, p.nodes)
  BY <1>1 DEF WalkSound
<1>10. Held(t) \cap Coming(t) = {} /\ Held(t) \subseteq t.seen
  BY <1>1, <1>3, <1>5 DEF WalkSound
<1>11. t.pc = "walk" => Coming(t) = {}
  BY <1>1, <1>5 DEF ToSet
<1>. QED
  BY <1>1, <1>3, <1>6, <1>7, <1>8, <1>9, <1>10, <1>11 DEF WalkSound

\* Of finitely many nodes with distances one is the nearest.
IsNearest(distance, ids, i) ==
  \A j \in ids : \/ distance[i] < distance[j]
                 \/ distance[i] = distance[j] /\ i <= j

LEMMA NearestIs ==
  ASSUME NEW ids, IsFiniteSet(ids), ids # {}, ids \subseteq Int,
         NEW distance, \A i \in ids : distance[i] \in Int
  PROVE  Nearest(distance, ids) \in ids
<1>. DEFINE Bad == {n \in Nat : \E S \in SUBSET ids :
                      S # {} /\ Cardinality(S) = n /\ ~ \E i \in S : IsNearest(distance, S, i)}
<1>1. Cardinality(ids) \in Nat
  BY FS_CardinalityType
<1>2. Bad = {}
  <2>. SUFFICES ASSUME Bad # {} PROVE FALSE
    OBVIOUS
  <2>1. PICK n \in Bad : \A m \in Nat : m < n => m \notin Bad
    <3>1. Bad \subseteq Nat
      OBVIOUS
    <3>. HIDE DEF Bad
    <3>. QED
      BY <3>1, LeastExists
  <2>2. PICK S \in SUBSET ids : S # {} /\ Cardinality(S) = n /\ ~ \E i \in S : IsNearest(distance, S, i)
    BY <2>1
  <2>3. PICK x \in S : TRUE
    BY <2>2
  <2>. DEFINE R == S \ {x}
  <2>4. IsFiniteSet(S) /\ Cardinality(S) \in Nat
    BY FS_Subset, FS_CardinalityType
  <2>5. Cardinality(R) = n - 1 /\ IsFiniteSet(R)
    BY <2>2, <2>3, <2>4, FS_RemoveElement
  <2>6. Cardinality(R) \in Nat
    BY <2>5, FS_CardinalityType
  <2>7. n - 1 \in Nat /\ n - 1 < n
    BY <2>5, <2>6
  <2>8. distance[x] \in Int /\ x \in Int
    BY <2>3
  <2>9. CASE R = {}
    <3>1. \A j \in S : j = x
      BY <2>9
    <3>2. IsNearest(distance, S, x)
      BY <2>8, <3>1 DEF IsNearest
    <3>. QED
      BY <2>2, <2>3, <3>2
  <2>10. CASE R # {}
    <3>1. PICK y \in R : IsNearest(distance, R, y)
      <4>1. n - 1 \notin Bad
        BY <2>1, <2>7
      <4>2. R \in SUBSET ids
        OBVIOUS
      <4>. QED
        BY <2>5, <2>7, <2>10, <4>1, <4>2
    <3>2. distance[y] \in Int /\ y \in Int
      OBVIOUS
    <3>3. CASE distance[y] < distance[x] \/ (distance[y] = distance[x] /\ y <= x)
      <4>1. IsNearest(distance, S, y)
        BY <3>1, <3>3 DEF IsNearest
      <4>. QED
        BY <2>2, <4>1
    <3>4. CASE distance[x] < distance[y] \/ (distance[x] = distance[y] /\ x < y)
      <4>1. ASSUME NEW j \in S, j # x
            PROVE  distance[x] < distance[j] \/ (distance[x] = distance[j] /\ x <= j)
        <5>1. distance[y] < distance[j] \/ (distance[y] = distance[j] /\ y <= j)
          BY <3>1, <4>1 DEF IsNearest
        <5>2. distance[j] \in Int /\ j \in Int
          OBVIOUS
        <5>. QED
          BY <2>8, <3>2, <3>4, <5>1, <5>2
      <4>2. IsNearest(distance, S, x)
        BY <2>8, <4>1 DEF IsNearest
      <4>. QED
        BY <2>2, <2>3, <4>2
    <3>. QED
      BY <2>8, <3>2, <3>3, <3>4
  <2>. QED
    BY <2>9, <2>10
<1>3. \E i \in ids : IsNearest(distance, ids, i)
  <2>1. Cardinality(ids) \notin Bad
    BY <1>2
  <2>. QED
    BY <1>1, <2>1
<1>. QED
  BY <1>3 DEF IsNearest, Nearest

LEMMA ClosestIn ==
  ASSUME NEW p, NEW s, WalkSound(p, s), GraphSound(config, p, s.asked, s.code), s.queue # {}
  PROVE  Closest(s) \in s.queue
<1>. DEFINE distance == [n \in s.queue |-> RoutingDistance(config, s.code, s.parked[n].code)]
<1>1. s.queue = DOMAIN s.parked /\ OfGraph(s.parked, p.nodes)
  BY DEF WalkSound, Accounts
<1>2. IsFiniteSet(s.queue) /\ s.queue \subseteq Int
  <2>1. Len(p.nodes) \in Nat /\ DOMAIN p.nodes = 1 .. Len(p.nodes)
    BY SeqFacts DEF GraphSound
  <2>. QED
    BY <1>1, <2>1 DEF OfGraph
<1>3. \A n \in s.queue : distance[n] \in Int
  BY <1>1 DEF OfGraph, GraphSound
<1>4. Closest(s) = Nearest(distance, s.queue)
  BY DEF Closest
<1>. HIDE DEF distance
<1>. QED
  BY <1>2, <1>3, <1>4, NearestIs

------------------------------------------------------------------------------
(* A chunk arrives *)

LEMMA ToSetIn == ASSUME NEW S, NEW s \in Seq(S) PROVE ToSet(s) \subseteq S
BY DEF ToSet

\* The ids of one chunk are the first to be read; then there is the rest.
StartsWith(list, ids) == \E k \in 0 .. Len(list) : ids = SubSeq(list, 1, k)
Rest(list, ids) == SubSeq(list, Len(ids) + 1, Len(list))

LEMMA PrefixSplits ==
  ASSUME NEW S, NEW s \in Seq(S), NEW a, StartsWith(s, a), NEW b, b = Rest(s, a)
  PROVE  a \in Seq(S) /\ b \in Seq(S) /\ ToSet(s) = ToSet(a) \cup ToSet(b)
<1>k. PICK k \in 0 .. Len(s) : a = SubSeq(s, 1, k)
  BY DEF StartsWith
<1>. USE <1>k DEF Rest
<1>1. /\ a \in Seq(S) /\ Len(a) = k /\ Len(s) \in Nat /\ k \in Nat /\ k <= Len(s)
      /\ \A i \in 1 .. k : a[i] = s[i]
  OBVIOUS
<1>2. b = SubSeq(s, k + 1, Len(s))
  BY <1>1
<1>3. /\ b \in Seq(S) /\ Len(b) = Len(s) - k
      /\ \A i \in 1 .. Len(s) - k : b[i] = s[i + k]
  BY <1>1, <1>2
<1>4. DOMAIN a = 1 .. k /\ DOMAIN b = 1 .. Len(s) - k /\ DOMAIN s = 1 .. Len(s)
  BY <1>1, <1>3
<1>5. ASSUME NEW i \in 1 .. Len(s) PROVE s[i] \in ToSet(a) \cup ToSet(b)
  <2>1. CASE i <= k
    <3>1. i \in DOMAIN a /\ a[i] = s[i]
      BY <1>1, <1>4, <2>1
    <3>. QED
      BY <3>1 DEF ToSet
  <2>2. CASE i > k
    <3>1. i - k \in 1 .. Len(s) - k /\ b[i - k] = s[i]
      BY <1>1, <1>3, <2>2
    <3>. QED
      BY <1>4, <3>1 DEF ToSet
  <2>. QED
    BY <1>1, <2>1, <2>2
<1>6. ASSUME NEW i \in 1 .. k PROVE a[i] \in ToSet(s)
  BY <1>1, <1>4 DEF ToSet
<1>7. ASSUME NEW i \in 1 .. Len(s) - k PROVE b[i] \in ToSet(s)
  <2>1. i + k \in 1 .. Len(s) /\ b[i] = s[i + k]
    BY <1>1, <1>3
  <2>. QED
    BY <1>4, <2>1 DEF ToSet
<1>8. ToSet(s) = ToSet(a) \cup ToSet(b)
  <2>1. ToSet(s) \subseteq ToSet(a) \cup ToSet(b)
    BY <1>4, <1>5 DEF ToSet
  <2>2. ToSet(a) \subseteq ToSet(s) /\ ToSet(b) \subseteq ToSet(s)
    BY <1>4, <1>6, <1>7 DEF ToSet
  <2>. QED
    BY <2>1, <2>2
<1>. QED
  BY <1>1, <1>3, <1>8

PresentIn(reads) == {n \in DOMAIN reads : Present(reads[n])}

\* What the chunk of these ids makes of the walk.
Chunked(s, ids, reads) ==
  LET present == PresentIn(reads)
  IN  [s EXCEPT !.toRead = Rest(@, ids),
                !.records = Merged(@, present, reads)]

LEMMA ChunkedFields ==
  ASSUME NEW s, WalkFields \subseteq DOMAIN s, NEW ids, NEW reads, NEW t, t = Chunked(s, ids, reads),
         NEW present, present = PresentIn(reads)
  PROVE  /\ DOMAIN t = DOMAIN s /\ t.pc = s.pc
         /\ t.version = s.version /\ t.asked = s.asked /\ t.code = s.code
         /\ t.toRead = Rest(s.toRead, ids)
         /\ t.records = Merged(s.records, present, reads)
         /\ t.seen = s.seen /\ t.queue = s.queue /\ t.parked = s.parked
         /\ t.candidates = s.candidates /\ t.cachedBytes = s.cachedBytes /\ t.slots = s.slots
         /\ t.candidateBytes = s.candidateBytes
BY DEF Chunked, WalkFields

LEMMA ChunkedSound ==
  ASSUME NEW c, NEW p, NEW asked, NEW code, GraphSound(c, p, asked, code),
         NEW s, WalkSound(p, s), s.pc # "walk",
         NEW ids, StartsWith(s.toRead, ids),
         NEW reads, DOMAIN reads = ToSet(ids), \A n \in DOMAIN reads : reads[n] = p.nodes[n],
         NEW t, t = Chunked(s, ids, reads)
  PROVE  /\ WalkSound(p, t)
         /\ ToSet(t.toRead) \subseteq ToSet(s.toRead)
         /\ ToSet(s.toRead) \subseteq ToSet(t.toRead) \cup ToSet(ids)
         /\ DOMAIN t.records = DOMAIN s.records \cup {n \in ToSet(ids) : Present(p.nodes[n])}
<1>. DEFINE present == PresentIn(reads)
<1>1. /\ DOMAIN t = DOMAIN s /\ t.pc = s.pc
      /\ t.toRead = Rest(s.toRead, ids)
      /\ t.records = Merged(s.records, present, reads)
      /\ t.seen = s.seen /\ t.queue = s.queue /\ t.parked = s.parked
      /\ t.candidates = s.candidates /\ t.cachedBytes = s.cachedBytes /\ t.slots = s.slots
      /\ t.candidateBytes = s.candidateBytes
  <2>1. WalkFields \subseteq DOMAIN s
    BY DEF WalkSound
  <2>. QED
    BY <2>1, ChunkedFields
<1>3. s.toRead \in Seq(DOMAIN p.nodes)
  BY DEF WalkSound
<1>4. /\ ids \in Seq(DOMAIN p.nodes) /\ t.toRead \in Seq(DOMAIN p.nodes)
      /\ ToSet(s.toRead) = ToSet(ids) \cup ToSet(t.toRead)
  BY <1>1, <1>3, PrefixSplits
<1>5. ToSet(ids) \subseteq DOMAIN p.nodes
  BY <1>4, ToSetIn
<1>6. /\ present = {n \in ToSet(ids) : Present(p.nodes[n])}
      /\ DOMAIN t.records = DOMAIN s.records \cup present
  BY <1>1 DEF PresentIn, Merged
<1>7. OfGraph(t.records, p.nodes)
  <2>1. IsFiniteSet(present)
    <3>1. Len(p.nodes) \in Nat /\ DOMAIN p.nodes = 1 .. Len(p.nodes)
      BY SeqFacts DEF GraphSound
    <3>2. IsFiniteSet(DOMAIN p.nodes)
      <4>1. IsFiniteSet(1 .. Len(p.nodes))
        BY <3>1, FS_Interval
      <4>. QED
        BY <3>1, <4>1
    <3>3. present \subseteq DOMAIN p.nodes
      BY <1>5, <1>6
    <3>. QED
      BY <3>2, <3>3, FS_Subset
  <2>2. IsFiniteSet(DOMAIN s.records \cup present)
    BY <2>1, FS_Union DEF WalkSound, OfGraph
  <2>. QED
    BY <1>1, <1>5, <1>6, <2>2 DEF WalkSound, OfGraph, Merged
<1>8. Held(t) = Held(s) /\ Coming(t) \subseteq Coming(s) /\ (Accounts(s) => Accounts(t))
  BY <1>1, <1>4, <1>6 DEF Held, Coming, Accounts
<1>9. WalkSound(p, t)
  BY <1>1, <1>4, <1>7, <1>8 DEF WalkSound
<1>. QED
  BY <1>4, <1>6, <1>9

------------------------------------------------------------------------------
(* Merging sorted labels *)

\* From these places on the lists have a label in common.
ShareFrom(a, b, i, j) == \E x \in i .. Len(a), y \in j .. Len(b) : a[x] = b[y]

\* The condition of merge, were m the merge of what follows.
MergeStep(a, b, m, i, j) ==
  /\ i <= Len(a) /\ j <= Len(b)
  /\ \/ a[i] = b[j]
     \/ a[i] < b[j] /\ m[<<i + 1, j>>]
     \/ b[j] < a[i] /\ m[<<i, j + 1>>]

LEMMA ShareStep ==
  ASSUME NEW a, Sorted(a), NEW b, Sorted(b), NEW i \in 1 .. Len(a) + 1, NEW j \in 1 .. Len(b) + 1
  PROVE  ShareFrom(a, b, i, j) <=>
           /\ i <= Len(a) /\ j <= Len(b)
           /\ \/ a[i] = b[j]
              \/ a[i] < b[j] /\ ShareFrom(a, b, i + 1, j)
              \/ b[j] < a[i] /\ ShareFrom(a, b, i, j + 1)
<1>1. /\ Len(a) \in Nat /\ Len(b) \in Nat /\ DOMAIN a = 1 .. Len(a) /\ DOMAIN b = 1 .. Len(b)
      /\ \A x \in 1 .. Len(a) : a[x] \in Int
      /\ \A x \in 1 .. Len(b) : b[x] \in Int
      /\ \A x, y \in 1 .. Len(a) : x < y => a[x] < a[y]
      /\ \A x, y \in 1 .. Len(b) : x < y => b[x] < b[y]
  <2>1. a \in Seq(Int) /\ b \in Seq(Int)
    BY DEF Sorted
  <2>2. /\ Len(a) \in Nat /\ Len(b) \in Nat /\ DOMAIN a = 1 .. Len(a) /\ DOMAIN b = 1 .. Len(b)
        /\ \A x \in 1 .. Len(a) : a[x] \in Int
        /\ \A x \in 1 .. Len(b) : b[x] \in Int
    BY <2>1
  <2>3. \A x, y \in 1 .. Len(a) : x < y => a[x] < a[y]
    BY <2>2 DEF Sorted
  <2>4. \A x, y \in 1 .. Len(b) : x < y => b[x] < b[y]
    BY <2>2 DEF Sorted
  <2>. QED
    BY <2>2, <2>3, <2>4
<1>2. ASSUME ShareFrom(a, b, i, j)
      PROVE  /\ i <= Len(a) /\ j <= Len(b)
             /\ \/ a[i] = b[j]
                \/ a[i] < b[j] /\ ShareFrom(a, b, i + 1, j)
                \/ b[j] < a[i] /\ ShareFrom(a, b, i, j + 1)
  <2>1. PICK x \in i .. Len(a) : \E y \in j .. Len(b) : a[x] = b[y]
    BY <1>2 DEF ShareFrom
  <2>2. PICK y \in j .. Len(b) : a[x] = b[y]
    BY <2>1
  <2>3. /\ i \in 1 .. Len(a) /\ j \in 1 .. Len(b) /\ x \in 1 .. Len(a) /\ y \in 1 .. Len(b)
        /\ i <= x /\ j <= y
    BY <1>1
  <2>4. a[i] \in Int /\ b[j] \in Int /\ a[x] \in Int /\ b[y] \in Int
    BY <1>1, <2>3
  <2>5. (i = x \/ a[i] < a[x]) /\ (j = y \/ b[j] < b[y])
    BY <1>1, <2>3
  <2>6. CASE a[i] < b[j]
    <3>1. x # i
      BY <2>2, <2>4, <2>5, <2>6
    <3>2. x \in i + 1 .. Len(a)
      BY <1>1, <2>3, <3>1
    <3>. QED
      BY <2>2, <2>3, <2>6, <3>2 DEF ShareFrom
  <2>7. CASE b[j] < a[i]
    <3>1. y # j
      BY <2>2, <2>4, <2>5, <2>7
    <3>2. y \in j + 1 .. Len(b)
      BY <1>1, <2>3, <3>1
    <3>. QED
      BY <2>2, <2>3, <2>7, <3>2 DEF ShareFrom
  <2>. QED
    BY <2>3, <2>4, <2>6, <2>7
<1>3. ASSUME i <= Len(a), j <= Len(b), a[i] = b[j]
      PROVE  ShareFrom(a, b, i, j)
  BY <1>1, <1>3 DEF ShareFrom
<1>4. ASSUME ShareFrom(a, b, i + 1, j)
      PROVE  ShareFrom(a, b, i, j)
  <2>1. \A x \in i + 1 .. Len(a) : x \in i .. Len(a)
    BY <1>1
  <2>. QED
    BY <1>4, <2>1 DEF ShareFrom
<1>5. ASSUME ShareFrom(a, b, i, j + 1)
      PROVE  ShareFrom(a, b, i, j)
  <2>1. \A x \in j + 1 .. Len(b) : x \in j .. Len(b)
    BY <1>1
  <2>. QED
    BY <1>5, <2>1 DEF ShareFrom
<1>. QED
  BY <1>2, <1>3, <1>4, <1>5

Places(a) == 1 .. Len(a) + 1

IsMerge(a, b, m) ==
  /\ DOMAIN m = Places(a) \X Places(b)
  /\ \A i \in Places(a), j \in Places(b) : m[<<i, j>>] = MergeStep(a, b, m, i, j)

LEMMA MergeShares ==
  ASSUME NEW a, Sorted(a), NEW b, Sorted(b), NEW m, IsMerge(a, b, m),
         NEW i \in Places(a), NEW j \in Places(b)
  PROVE  m[<<i, j>>] <=> ShareFrom(a, b, i, j)
<1>1. Len(a) \in Nat /\ Len(b) \in Nat
  BY DEF Sorted
<1>. DEFINE Left(x, y) == (Len(a) + 1 - x) + (Len(b) + 1 - y)
            Wrong(x, y) == ~(m[<<x, y>>] <=> ShareFrom(a, b, x, y))
            Bad == {n \in Nat : \E x \in Places(a), y \in Places(b) : Left(x, y) = n /\ Wrong(x, y)}
<1>2. Left(i, j) \in Nat
  BY <1>1 DEF Places
<1>3. SUFFICES ASSUME Bad # {} PROVE FALSE
  BY <1>2
<1>4. PICK n \in Bad : \A k \in Nat : k < n => k \notin Bad
  <2>1. Bad \subseteq Nat
    OBVIOUS
  <2>. HIDE DEF Bad
  <2>. QED
    BY <1>3, <2>1, LeastExists
<1>5. PICK x \in Places(a) : \E y \in Places(b) : Left(x, y) = n /\ Wrong(x, y)
  BY <1>4
<1>6. PICK y \in Places(b) : Left(x, y) = n /\ Wrong(x, y)
  BY <1>5
<1>7. ASSUME x <= Len(a) PROVE m[<<x + 1, y>>] <=> ShareFrom(a, b, x + 1, y)
  <2>1. x + 1 \in Places(a) /\ Left(x + 1, y) \in Nat /\ Left(x + 1, y) < n
    BY <1>1, <1>6, <1>7 DEF Places
  <2>2. Left(x + 1, y) \notin Bad
    BY <1>4, <2>1
  <2>. QED
    BY <2>1, <2>2
<1>8. ASSUME y <= Len(b) PROVE m[<<x, y + 1>>] <=> ShareFrom(a, b, x, y + 1)
  <2>1. x \in 1 .. Len(a) + 1 /\ y \in 1 .. Len(b)
    BY <1>1, <1>8 DEF Places
  <2>2. Left(x, y + 1) \in Nat /\ Left(x, y + 1) < n
    BY <1>1, <1>6, <2>1
  <2>3. y + 1 \in Places(b)
    BY <1>1, <2>1 DEF Places
  <2>4. Left(x, y + 1) \notin Bad
    BY <1>4, <2>2
  <2>. QED
    BY <2>2, <2>3, <2>4
<1>9. m[<<x, y>>] = MergeStep(a, b, m, x, y)
  BY DEF IsMerge
<1>10. ShareFrom(a, b, x, y) <=>
           /\ x <= Len(a) /\ y <= Len(b)
           /\ \/ a[x] = b[y]
              \/ a[x] < b[y] /\ ShareFrom(a, b, x + 1, y)
              \/ b[y] < a[x] /\ ShareFrom(a, b, x, y + 1)
  BY ShareStep DEF Places
<1>11. MergeStep(a, b, m, x, y) <=> ShareFrom(a, b, x, y)
  BY <1>7, <1>8, <1>10 DEF MergeStep
<1>. QED
  BY <1>6, <1>9, <1>11

LEMMA OverlapsIs ==
  ASSUME NEW a, Sorted(a), NEW b, Sorted(b)
  PROVE  Overlaps(a, b) <=> ToSet(a) \cap ToSet(b) # {}
<1>. DEFINE Is(m) == m = [p \in (1 .. Len(a) + 1) \X (1 .. Len(b) + 1) |->
                            /\ p[1] <= Len(a) /\ p[2] <= Len(b)
                            /\ \/ a[p[1]] = b[p[2]]
                               \/ a[p[1]] < b[p[2]] /\ m[<<p[1] + 1, p[2]>>]
                               \/ b[p[2]] < a[p[1]] /\ m[<<p[1], p[2] + 1>>]]
            merge == CHOOSE m : Is(m)
            share == [p \in (1 .. Len(a) + 1) \X (1 .. Len(b) + 1) |-> ShareFrom(a, b, p[1], p[2])]
<1>1. Overlaps(a, b) = merge[<<1, 1>>]
  BY DEF Overlaps
<1>2. Len(a) \in Nat /\ Len(b) \in Nat
  BY DEF Sorted
<1>3. Is(merge)
  <2>1. Is(share)
    <3>1. ASSUME NEW p \in (1 .. Len(a) + 1) \X (1 .. Len(b) + 1)
          PROVE  share[p] <=> /\ p[1] <= Len(a) /\ p[2] <= Len(b)
                              /\ \/ a[p[1]] = b[p[2]]
                                 \/ a[p[1]] < b[p[2]] /\ share[<<p[1] + 1, p[2]>>]
                                 \/ b[p[2]] < a[p[1]] /\ share[<<p[1], p[2] + 1>>]
      <4>1. PICK i \in 1 .. Len(a) + 1, j \in 1 .. Len(b) + 1 : p = <<i, j>>
        OBVIOUS
      <4>2. i <= Len(a) => (share[<<i + 1, j>>] <=> ShareFrom(a, b, i + 1, j))
        BY <1>2
      <4>3. j <= Len(b) => (share[<<i, j + 1>>] <=> ShareFrom(a, b, i, j + 1))
        BY <1>2
      <4>4. share[<<i, j>>] <=> ShareFrom(a, b, i, j)
        OBVIOUS
      <4>. HIDE DEF share
      <4>. QED
        BY <4>1, <4>2, <4>3, <4>4, ShareStep
    <3>2. share = [p \in (1 .. Len(a) + 1) \X (1 .. Len(b) + 1) |-> share[p]]
      OBVIOUS
    <3>3. \A p \in (1 .. Len(a) + 1) \X (1 .. Len(b) + 1) : share[p] \in BOOLEAN
      BY DEF ShareFrom
    <3>. HIDE DEF share
    <3>. QED
      BY <3>1, <3>2, <3>3
  <2>. HIDE DEF Is, share
  <2>. QED
    BY <2>1
<1>. HIDE DEF merge
<1>4. IsMerge(a, b, merge)
  <2>1. DOMAIN merge = Places(a) \X Places(b)
    BY <1>3 DEF Places
  <2>2. ASSUME NEW i \in Places(a), NEW j \in Places(b)
        PROVE  merge[<<i, j>>] = MergeStep(a, b, merge, i, j)
    <3>1. <<i, j>> \in (1 .. Len(a) + 1) \X (1 .. Len(b) + 1)
      BY DEF Places
    <3>. QED
      BY <1>3, <3>1 DEF MergeStep
  <2>. QED
    BY <2>1, <2>2 DEF IsMerge
<1>5. merge[<<1, 1>>] <=> ShareFrom(a, b, 1, 1)
  <2>1. 1 \in Places(a) /\ 1 \in Places(b)
    BY <1>2 DEF Places
  <2>. QED
    BY <1>4, <2>1, MergeShares
<1>6. ShareFrom(a, b, 1, 1) <=> ToSet(a) \cap ToSet(b) # {}
  <2>1. DOMAIN a = 1 .. Len(a) /\ DOMAIN b = 1 .. Len(b)
    BY DEF Sorted
  <2>. QED
    BY <2>1 DEF ShareFrom, ToSet
<1>. QED
  BY <1>1, <1>5, <1>6

------------------------------------------------------------------------------
(* What a walk may reach *)

StartNodes(p, asked) == ToSet(SearchStarts(p.starts, asked.filter))

\* w goes link by link from the start nodes, as Reachable does.
IsWalk(nodes, starts, w) ==
  /\ DOMAIN w = 0 .. Len(nodes) /\ w[0] = starts
  /\ \A k \in 1 .. Len(nodes) : w[k] = w[k - 1] \cup UNION {Links(nodes, n) : n \in w[k - 1]}

LEMMA LinksIn ==
  ASSUME NEW c, NEW p, NEW asked, NEW code, GraphSound(c, p, asked, code)
  PROVE  /\ StartNodes(p, asked) \subseteq DOMAIN p.nodes
         /\ \A n \in DOMAIN p.nodes : Links(p.nodes, n) \subseteq DOMAIN p.nodes
<1>1. StartNodes(p, asked) \subseteq DOMAIN p.nodes
  <2>1. SearchStarts(p.starts, asked.filter) \in Seq(DOMAIN p.nodes)
    BY DEF GraphSound
  <2>. QED
    BY <2>1, ToSetIn DEF StartNodes
<1>2. ASSUME NEW n \in DOMAIN p.nodes PROVE Links(p.nodes, n) \subseteq DOMAIN p.nodes
  <2>1. CASE Present(p.nodes[n])
    <3>1. p.nodes[n].neighbors \in Seq(DOMAIN p.nodes)
      BY <2>1 DEF GraphSound
    <3>2. ToSet(p.nodes[n].neighbors) \subseteq DOMAIN p.nodes
      BY <3>1, ToSetIn
    <3>. QED
      BY <2>1, <3>2 DEF Links
  <2>2. CASE ~Present(p.nodes[n])
    BY <2>2 DEF Links
  <2>. QED
    BY <2>1, <2>2
<1>. QED
  BY <1>1, <1>2

LEMMA ReachableIs ==
  ASSUME NEW c, NEW p, NEW asked, NEW code, GraphSound(c, p, asked, code),
         NEW starts, starts = StartNodes(p, asked)
  PROVE  \E w : IsWalk(p.nodes, starts, w) /\ Reachable(p.nodes, starts) = w[Len(p.nodes)]
<1>. DEFINE nodes == p.nodes
            D == DOMAIN nodes
            len == Len(nodes)
            Is(w) == w = [k \in 0 .. len |->
                            IF k = 0 THEN starts
                            ELSE w[k - 1] \cup UNION {Links(nodes, n) : n \in w[k - 1]}]
            walk == CHOOSE w : Is(w)
            step == [q \in (1 .. len) \X SUBSET D |-> q[2] \cup UNION {Links(nodes, n) : n \in q[2]}]
<1>1. Reachable(nodes, starts) = walk[len]
  BY DEF Reachable
<1>2. len \in Nat
  BY SeqFacts DEF GraphSound
<1>3. starts \in SUBSET D /\ \A n \in D : Links(nodes, n) \subseteq D
  BY LinksIn
<1>4. step \in [(1 .. len) \X SUBSET D -> SUBSET D]
  BY <1>3
<1>. HIDE DEF len, nodes
<1>5. PICK f \in [0 .. len -> SUBSET D] : Iterates(step, starts, len, f)
  <2>. HIDE DEF step, D
  <2>. QED
    BY <1>2, <1>3, <1>4, IteratesExist
<1>6. \A k \in 1 .. len : f[k] = f[k - 1] \cup UNION {Links(nodes, n) : n \in f[k - 1]}
  <2>1. ASSUME NEW k \in 1 .. len PROVE <<k, f[k - 1]>> \in (1 .. len) \X SUBSET D
    <3>1. k - 1 \in 0 .. len
      BY <1>2
    <3>. QED
      BY <1>5, <3>1
  <2>. QED
    BY <1>5, <2>1 DEF Iterates
<1>7. f[0] = starts /\ f = [k \in 0 .. len |-> f[k]]
  BY <1>5 DEF Iterates
<1>8. \A k \in 0 .. len : k = 0 \/ k \in 1 .. len
  BY <1>2
<1>. HIDE DEF step
<1>9. Is(f)
  BY <1>6, <1>7, <1>8
<1>10. Is(walk)
  <2>. HIDE DEF Is
  <2>. QED
    BY <1>9
<1>. HIDE DEF walk
<1>11. IsWalk(nodes, starts, walk)
  <2>1. \A k \in 1 .. len : k \in 0 .. len /\ k # 0
    BY <1>2
  <2>2. 0 \in 0 .. len
    BY <1>2
  <2>. QED
    BY <1>10, <2>1, <2>2 DEF IsWalk, len
<1>. QED
  BY <1>1, <1>11 DEF nodes, len

LEMMA WalkGrows ==
  ASSUME NEW nodes, Len(nodes) \in Nat, NEW starts, NEW w, IsWalk(nodes, starts, w),
         NEW j \in 0 .. Len(nodes), NEW k \in j .. Len(nodes)
  PROVE  w[j] \subseteq w[k]
<1>. DEFINE Bad == {m \in Nat : m \in j .. Len(nodes) /\ ~(w[j] \subseteq w[m])}
<1>1. SUFFICES ASSUME Bad # {} PROVE FALSE
  OBVIOUS
<1>2. PICK m \in Bad : \A i \in Nat : i < m => i \notin Bad
  <2>1. Bad \subseteq Nat
    OBVIOUS
  <2>. HIDE DEF Bad
  <2>. QED
    BY <1>1, <2>1, LeastExists
<1>3. m # j /\ m \in j .. Len(nodes)
  BY <1>2
<1>4. m - 1 \in j .. Len(nodes) /\ m - 1 \in Nat /\ m - 1 < m /\ m \in 1 .. Len(nodes)
  BY <1>3
<1>5. w[j] \subseteq w[m - 1]
  BY <1>2, <1>4
<1>6. w[m - 1] \subseteq w[m]
  BY <1>4 DEF IsWalk
<1>. QED
  BY <1>2, <1>5, <1>6

\* Links of what is reached so far are reached with the next step.
LEMMA WalkFollows ==
  ASSUME NEW nodes, Len(nodes) \in Nat, NEW starts, NEW w, IsWalk(nodes, starts, w),
         NEW k \in 0 .. Len(nodes) - 1, NEW n \in w[k]
  PROVE  w[k] \subseteq w[k + 1] /\ Links(nodes, n) \subseteq w[k + 1]
<1>1. k + 1 \in 1 .. Len(nodes) /\ (k + 1) - 1 = k
  OBVIOUS
<1>2. w[k + 1] = w[k] \cup UNION {Links(nodes, m) : m \in w[k]}
  BY <1>1 DEF IsWalk
<1>. QED
  BY <1>2

------------------------------------------------------------------------------
(* What a walk has found *)

Known(s) == Held(s) \cup Coming(s)

\* Whatever is seen, a start node or a link of a candidate is known, unless it
\* is deleted; and with each candidate the walk goes one link further.
WalkComplete(p, s) ==
  /\ \A n \in StartNodes(p, s.asked) \cup s.seen : Present(p.nodes[n]) => n \in Known(s)
  /\ \A m \in DOMAIN s.candidates : \A n \in Links(p.nodes, m) :
       Present(p.nodes[n]) => n \in Known(s)
  /\ \A w : IsWalk(p.nodes, StartNodes(p, s.asked), w) =>
       Known(s) \subseteq w[Cardinality(DOMAIN s.candidates)]

LEMMA ChunkedComplete ==
  ASSUME NEW p, NEW s, WalkSound(p, s), WalkComplete(p, s),
         NEW t, WalkSound(p, t), t.asked = s.asked, t.seen = s.seen, t.candidates = s.candidates,
         t.parked = s.parked, NEW ids,
         ToSet(t.toRead) \subseteq ToSet(s.toRead),
         ToSet(s.toRead) \subseteq ToSet(t.toRead) \cup ToSet(ids), ToSet(ids) \subseteq ToSet(s.toRead),
         DOMAIN t.records = DOMAIN s.records \cup {n \in ToSet(ids) : Present(p.nodes[n])}
  PROVE  WalkComplete(p, t)
<1>1. Known(t) \subseteq Known(s)
  BY DEF Known, Held, Coming
<1>2. \A n \in Known(s) : Present(p.nodes[n]) => n \in Known(t)
  BY DEF Known, Held, Coming
<1>. QED
  BY <1>1, <1>2 DEF WalkComplete

LEMMA ParkedComplete ==
  ASSUME NEW p, NEW s, WalkSound(p, s), WalkComplete(p, s), s.toRead = <<>>, NEW t, t = Parked(s)
  PROVE  WalkComplete(p, t)
<1>1. /\ t.asked = s.asked /\ t.seen = s.seen \cup DOMAIN s.records
      /\ t.candidates = s.candidates
      /\ t.parked = Merged(s.parked, DOMAIN s.records, s.records)
      /\ t.records = EmptyFn /\ t.toRead = s.toRead
  <2>1. WalkFields \subseteq DOMAIN s
    BY DEF WalkSound
  <2>. QED
    BY <2>1, ParkedFields
<1>2. Known(t) = Known(s) /\ DOMAIN s.records \subseteq Known(s)
  BY <1>1 DEF Known, Held, Coming, EmptyFn, Merged
<1>. QED
  BY <1>1, <1>2 DEF WalkComplete

LEMMA TakenComplete ==
  ASSUME NEW c, NEW p, NEW s, GraphSound(c, p, s.asked, s.code), WalkSound(p, s), WalkComplete(p, s),
         s.pc = "walk", NEW n \in s.queue, NEW t, t = Taken(s, n)
  PROVE  WalkComplete(p, t)
<1>. DEFINE record == s.parked[n]
            found == Unseen(record.neighbors, s.seen)
<1>1. /\ t.asked = s.asked /\ t.seen = s.seen \cup ToSet(found)
      /\ t.parked = Without(s.parked, n) /\ t.records = s.records
      /\ t.candidates = With(s.candidates, n, record) /\ t.toRead = found
  <2>1. WalkFields \subseteq DOMAIN s
    BY DEF WalkSound
  <2>. QED
    BY <2>1, TakenFields
<1>2. /\ n \in DOMAIN s.parked /\ n \notin DOMAIN s.candidates
      /\ n \in DOMAIN p.nodes /\ Present(p.nodes[n]) /\ record = p.nodes[n]
  BY DEF WalkSound, Accounts, OfGraph
<1>3. ToSet(found) = Links(p.nodes, n) \ s.seen
  <2>1. record.neighbors \in Seq(DOMAIN p.nodes)
    BY <1>2 DEF GraphSound
  <2>. QED
    BY <1>2, <2>1, UnseenIs DEF Links
<1>. HIDE DEF found, record
<1>4. DOMAIN t.candidates = DOMAIN s.candidates \cup {n}
  BY <1>1 DEF With
<1>5. Coming(s) = {} /\ Known(s) = Held(s) /\ Known(t) = Known(s) \cup ToSet(found)
  BY <1>1, <1>2, <1>4 DEF Known, Held, Coming, With, Without, WalkSound
<1>6. \A m \in StartNodes(p, t.asked) \cup t.seen : Present(p.nodes[m]) => m \in Known(t)
  BY <1>1, <1>5 DEF WalkComplete
<1>7. \A m \in DOMAIN t.candidates : \A i \in Links(p.nodes, m) :
        Present(p.nodes[i]) => i \in Known(t)
  BY <1>3, <1>4, <1>5 DEF WalkComplete
<1>8. ASSUME NEW walk, IsWalk(p.nodes, StartNodes(p, t.asked), walk)
      PROVE  Known(t) \subseteq walk[Cardinality(DOMAIN t.candidates)]
  <2>. DEFINE k == Cardinality(DOMAIN s.candidates)
  <2>1. IsFiniteSet(DOMAIN s.candidates) /\ DOMAIN t.candidates \subseteq DOMAIN p.nodes
    BY <1>2, <1>4 DEF WalkSound, OfGraph
  <2>2. k \in Nat /\ Cardinality(DOMAIN t.candidates) = k + 1
    BY <1>2, <1>4, <2>1, FS_CardinalityType, FS_AddElement
  <2>3. Len(p.nodes) \in Nat /\ DOMAIN p.nodes = 1 .. Len(p.nodes)
    BY SeqFacts DEF GraphSound
  <2>4. IsFiniteSet(1 .. Len(p.nodes)) /\ Cardinality(1 .. Len(p.nodes)) = Len(p.nodes)
    BY <2>3, FS_Interval
  <2>5. k + 1 <= Len(p.nodes)
    BY <2>1, <2>2, <2>3, <2>4, FS_Subset
  <2>6. k \in 0 .. Len(p.nodes) - 1
    BY <2>2, <2>3, <2>5
  <2>7. Known(s) \subseteq walk[k] /\ n \in walk[k]
    BY <1>1, <1>2, <1>5, <1>8 DEF WalkComplete, Held
  <2>8. walk[k] \subseteq walk[k + 1] /\ Links(p.nodes, n) \subseteq walk[k + 1]
    BY <1>8, <2>3, <2>6, <2>7, WalkFollows
  <2>. QED
    BY <1>3, <1>5, <2>2, <2>7, <2>8
<1>. QED
  BY <1>6, <1>7, <1>8 DEF WalkComplete

Reached(p, asked) ==
  {n \in DOMAIN p.nodes : n \in Reachable(p.nodes, StartNodes(p, asked)) /\ Present(p.nodes[n])}

\* When the queue has run empty, the candidates are what can be reached.
LEMMA CandidatesAreReachable ==
  ASSUME NEW c, NEW p, NEW s, GraphSound(c, p, s.asked, s.code), WalkSound(p, s), WalkComplete(p, s),
         s.pc = "walk", s.queue = {}
  PROVE  DOMAIN s.candidates = Reached(p, s.asked)
<1>. DEFINE C == DOMAIN s.candidates
            starts == StartNodes(p, s.asked)
            len == Len(p.nodes)
<1>1. Known(s) = C
  BY DEF WalkSound, Accounts, Known, Held
<1>2. PICK w : IsWalk(p.nodes, starts, w) /\ Reachable(p.nodes, starts) = w[len]
  BY ReachableIs
<1>3. len \in Nat /\ DOMAIN p.nodes = 1 .. len
  BY SeqFacts DEF GraphSound
<1>4. C \subseteq DOMAIN p.nodes /\ (\A n \in C : Present(p.nodes[n])) /\ IsFiniteSet(C)
  BY DEF WalkSound, OfGraph
<1>5. C \subseteq w[len]
  <2>1. IsFiniteSet(1 .. len) /\ Cardinality(1 .. len) = len
    BY <1>3, FS_Interval
  <2>2. Cardinality(C) \in Nat /\ Cardinality(C) <= len
    BY <1>3, <1>4, <2>1, FS_Subset, FS_CardinalityType
  <2>3. C \subseteq w[Cardinality(C)]
    BY <1>1, <1>2 DEF WalkComplete
  <2>4. Cardinality(C) \in 0 .. len /\ len \in Cardinality(C) .. len
    BY <1>3, <2>2
  <2>. HIDE DEF C, starts
  <2>5. w[Cardinality(C)] \subseteq w[len]
    BY <1>2, <1>3, <2>4, WalkGrows
  <2>. QED
    BY <2>3, <2>5
<1>6. ASSUME NEW k \in 0 .. len
      PROVE  w[k] \subseteq DOMAIN p.nodes /\ \A n \in w[k] : Present(p.nodes[n]) => n \in C
  <2>. DEFINE Good(i) == w[i] \subseteq DOMAIN p.nodes /\ \A n \in w[i] : Present(p.nodes[n]) => n \in C
              Bad == {i \in Nat : i <= len /\ ~Good(i)}
  <2>1. Good(0)
    <3>1. w[0] = starts /\ starts \subseteq DOMAIN p.nodes
      BY <1>2, LinksIn DEF IsWalk
    <3>. QED
      BY <1>1, <3>1 DEF WalkComplete
  <2>2. ASSUME NEW i \in 1 .. len, Good(i - 1) PROVE Good(i)
    <3>1. w[i] = w[i - 1] \cup UNION {Links(p.nodes, m) : m \in w[i - 1]}
      BY <1>2 DEF IsWalk
    <3>2. \A m \in DOMAIN p.nodes : Links(p.nodes, m) \subseteq DOMAIN p.nodes
      BY LinksIn
    <3>3. ASSUME NEW m \in w[i - 1], NEW n \in Links(p.nodes, m), Present(p.nodes[n])
          PROVE  n \in C
      <4>1. Present(p.nodes[m])
        BY DEF Links
      <4>2. m \in C
        BY <2>2, <4>1
      <4>. QED
        BY <1>1, <3>3, <4>2 DEF WalkComplete
    <3>. QED
      BY <2>2, <3>1, <3>2, <3>3
  <2>. HIDE DEF Good
  <2>3. Bad = {}
    <3>. SUFFICES ASSUME Bad # {} PROVE FALSE
      OBVIOUS
    <3>1. PICK i \in Bad : \A m \in Nat : m < i => m \notin Bad
      <4>1. Bad \subseteq Nat
        OBVIOUS
      <4>. HIDE DEF Bad
      <4>. QED
        BY <4>1, LeastExists
    <3>2. i # 0
      BY <2>1
    <3>3. i \in 1 .. len /\ i - 1 \in Nat /\ i - 1 < i /\ i - 1 <= len
      BY <1>3, <3>2
    <3>4. Good(i - 1)
      BY <3>1, <3>3
    <3>. QED
      BY <2>2, <3>3, <3>4
  <2>4. Good(k)
    BY <1>3, <2>3
  <2>. QED
    BY <2>4 DEF Good
<1>7. len \in 0 .. len
  BY <1>3
<1>. QED
  BY <1>2, <1>4, <1>5, <1>6, <1>7 DEF Reached

------------------------------------------------------------------------------
(* The hits *)

\* SearchesExact of one search, over the snapshot it pinned.
ExactHits(p, s) ==
  LET nodes == p.nodes
      wanted == {n \in DOMAIN nodes :
                   /\ n \in Reachable(nodes, StartNodes(p, s.asked))
                   /\ Present(nodes[n])
                   /\ s.asked.filter # <<>> => ToSet(nodes[n].labels) \cap ToSet(s.asked.filter) # {}}
      scan == ByDistance([n \in wanted |-> L2(s.asked.query, nodes[n].point)], wanted)
  IN  s.hits = SubSeq(scan, 1, IF Len(scan) < Limit THEN Len(scan) ELSE Limit)

LEMMA RescoredExact ==
  ASSUME NEW c, NEW p, NEW s, GraphSound(c, p, s.asked, s.code), WalkSound(p, s), WalkComplete(p, s),
         s.pc = "walk", s.queue = {}, NEW t, t.asked = s.asked,
         LET matching == {n \in DOMAIN s.candidates : Matches(s.asked.filter, s.candidates[n].labels)}
             exact == [n \in matching |-> L2(s.asked.query, s.candidates[n].point)]
             ranked == ByDistance(exact, matching)
         IN  t.hits = SubSeq(ranked, 1, IF Len(ranked) < Limit THEN Len(ranked) ELSE Limit)
  PROVE  ExactHits(p, t)
<1>. DEFINE nodes == p.nodes
            filter == s.asked.filter
            reached == Reached(p, s.asked)
            wanted == {n \in DOMAIN nodes :
                        /\ n \in Reachable(nodes, StartNodes(p, s.asked))
                        /\ Present(nodes[n])
                        /\ filter # <<>> => ToSet(nodes[n].labels) \cap ToSet(filter) # {}}
            matching == {n \in DOMAIN s.candidates : Matches(filter, s.candidates[n].labels)}
<1>1. DOMAIN s.candidates = reached
  BY CandidatesAreReachable
<1>2. \A n \in reached : s.candidates[n] = nodes[n] /\ Present(nodes[n]) /\ n \in DOMAIN nodes
  BY <1>1 DEF WalkSound, OfGraph, Reached
<1>3. ASSUME NEW n \in reached
      PROVE  Matches(filter, nodes[n].labels)
               <=> (filter # <<>> => ToSet(nodes[n].labels) \cap ToSet(filter) # {})
  <2>1. Sorted(nodes[n].labels) /\ Sorted(filter)
    BY <1>2 DEF GraphSound
  <2>2. Overlaps(nodes[n].labels, filter) <=> ToSet(nodes[n].labels) \cap ToSet(filter) # {}
    BY <2>1, OverlapsIs
  <2>. QED
    BY <2>2 DEF Matches
<1>4. wanted = {n \in reached : filter # <<>> => ToSet(nodes[n].labels) \cap ToSet(filter) # {}}
  BY DEF Reached
<1>. HIDE DEF reached
<1>5. matching = wanted
  <2>. HIDE DEF wanted
  <2>. QED
    BY <1>1, <1>2, <1>3, <1>4
<1>6. \A n \in wanted : s.candidates[n] = nodes[n]
  BY <1>2, <1>4
<1>. DEFINE exact == [n \in matching |-> L2(s.asked.query, s.candidates[n].point)]
            scanned == [n \in wanted |-> L2(s.asked.query, nodes[n].point)]
            ranked == ByDistance(exact, matching)
            scan == ByDistance(scanned, wanted)
<1>7. exact = scanned
  <2>. HIDE DEF matching, wanted
  <2>. QED
    BY <1>5, <1>6
<1>8. t.hits = SubSeq(ranked, 1, IF Len(ranked) < Limit THEN Len(ranked) ELSE Limit)
  OBVIOUS
<1>9. ranked = scan
  <2>. HIDE DEF matching, wanted, exact, scanned
  <2>. QED
    BY <1>5, <1>7
<1>10. t.hits = SubSeq(scan, 1, IF Len(scan) < Limit THEN Len(scan) ELSE Limit)
  <2>. HIDE DEF ranked, scan
  <2>. QED
    BY <1>8, <1>9
<1>. QED
  BY <1>10 DEF ExactHits

LEMMA NothingExact ==
  ASSUME NEW p, DOMAIN p.nodes = {}, NEW s, s.hits = <<>>
  PROVE  ExactHits(p, s)
<1>. DEFINE nodes == p.nodes
            wanted == {n \in DOMAIN nodes :
                        /\ n \in Reachable(nodes, StartNodes(p, s.asked))
                        /\ Present(nodes[n])
                        /\ s.asked.filter # <<>> => ToSet(nodes[n].labels) \cap ToSet(s.asked.filter) # {}}
            scan == ByDistance([n \in wanted |-> L2(s.asked.query, nodes[n].point)], wanted)
<1>1. wanted = {}
  OBVIOUS
<1>2. scan = <<>>
  BY <1>1 DEF ByDistance
<1>3. Len(<<>>) = 0 /\ SubSeq(<<>>, 1, 0) = <<>> /\ 0 < Limit
  BY SearchAssumption, SubSeqEmpty
<1>. HIDE DEF scan
<1>4. s.hits = SubSeq(scan, 1, IF Len(scan) < Limit THEN Len(scan) ELSE Limit)
  BY <1>2, <1>3
<1>. QED
  BY <1>4 DEF ExactHits, scan

------------------------------------------------------------------------------
(* Every search is sound *)

Walks == {"starts", "neighbors", "walk"}

SearchSound(p, s) ==
  /\ s.pc \in Walks \cup {"encode"} =>
       s.asked \in Searches /\ p.rows \in Searched /\ p.rows # <<>>
  /\ s.pc \in Walks => WalkSound(p, s) /\ WalkComplete(p, s)
  /\ s.pc = "done" /\ ~s.cut => ExactHits(p, s)

\* q reads the first nodes that search s has to read.
RequestOf(s, q) ==
  /\ s.pc \in {"starts", "neighbors"}
  /\ q.version = s.version
  /\ StartsWith(s.toRead, q.ids)
  /\ DOMAIN q.reads \subseteq ToSet(q.ids)

ReaderSound(s, q) ==
  /\ s.pc \in Walks \cup {"encode", "done"} =>
       s.version \in DOMAIN published /\ SearchSound(published[s.version], s)
  /\ q = NoRequest \/ RequestOf(s, q)

SearchesSound == \A r \in Readers : ReaderSound(search[r], request[r])

WalksInv == SearchInv /\ SnapshotsBuilt /\ SearchesSound

LEMMA GraphOf ==
  ASSUME WalksInv, NEW r \in Readers, search[r].pc \in Walks
  PROVE  /\ search[r].version \in DOMAIN published
         /\ GraphSound(config, published[search[r].version], search[r].asked, search[r].code)
         /\ WalkSound(published[search[r].version], search[r])
         /\ WalkComplete(published[search[r].version], search[r])
<1>. DEFINE s == search[r]
            p == published[s.version]
<1>1. s.version \in DOMAIN published /\ SearchSound(p, s)
  BY DEF WalksInv, SearchesSound, ReaderSound
<1>2. s.code = RoutingVector(config, Models[config][p.rows], s.asked.query)
  BY DEF WalksInv, SearchInv, SearchesEncoded, QueryEncodedLikeRows, Walks
<1>3. SnapshotsBuilt /\ config \in Configs
  BY DEF WalksInv, SearchInv, ModelsStored
<1>4. p.rows \in Searched /\ p.rows # <<>> /\ s.asked \in Searches
      /\ WalkSound(p, s) /\ WalkComplete(p, s)
  BY <1>1 DEF SearchSound
<1>. HIDE DEF s
<1>5. GraphSound(config, p, s.asked, s.code)
  BY <1>1, <1>2, <1>3, <1>4, GraphIsSound
<1>. QED
  BY <1>1, <1>4, <1>5 DEF s

\* A step of one reader leaves the others as they are.
LEMMA OneReader ==
  ASSUME WalksInv, NEW r \in Readers, NEW s, NEW q, UNCHANGED published,
         search' = [search EXCEPT ![r] = s], request' = [request EXCEPT ![r] = q],
         ReaderSound(s, q)
  PROVE  SearchesSound'
<1>1. /\ search = [x \in Readers |-> search[x]]
      /\ request = [x \in Readers |-> request[x]]
  BY DEF WalksInv, SearchInv, SearchesPublished, CacheInv, RequestsExact
<1>2. ASSUME NEW x \in Readers PROVE ReaderSound(search'[x], request'[x])
  <2>1. CASE x = r
    BY <1>1, <2>1
  <2>2. CASE x # r
    BY <1>1, <2>2 DEF WalksInv, SearchesSound
  <2>. QED
    BY <2>1, <2>2
<1>. QED
  BY <1>2 DEF SearchesSound, ReaderSound

\* What goes on while a reader stays where it is.
LEMMA PublishSound ==
  ASSUME WalksInv, UNCHANGED <<search, request>>,
         DOMAIN published \subseteq DOMAIN published',
         \A v \in DOMAIN published : published'[v] = published[v]
  PROVE  SearchesSound'
<1>1. ASSUME NEW r \in Readers PROVE ReaderSound(search[r], request[r])'
  BY DEF WalksInv, SearchesSound, ReaderSound
<1>. QED
  BY <1>1 DEF SearchesSound

LEMMA SameSnapshots ==
  ASSUME SnapshotsBuilt, UNCHANGED <<published, config>>
  PROVE  SnapshotsBuilt'
BY DEF SnapshotsBuilt, SnapshotBuilt

------------------------------------------------------------------------------
(* Each action keeps the searches sound *)

LEMMA PublishWalks ==
  ASSUME WalksInv,
         \/ \E rows \in Inputs : PublishBuild(rows)
         \/ \E n : PublishDelete(n)
  PROVE  SnapshotsBuilt' /\ SearchesSound'
<1>1. SnapshotsBuilt'
  BY PublishBuildBuilds, PublishDeleteBuilds DEF WalksInv
<1>2. PICK snapshot : Publish(snapshot)
  BY DEF PublishBuild, PublishDelete
<1>3. UNCHANGED <<search, request>>
  BY DEF PublishBuild, PublishDelete, Publish, searchVars
<1>4. /\ DOMAIN published \subseteq DOMAIN published'
      /\ \A v \in DOMAIN published : published'[v] = published[v]
  BY <1>2, PublishedStay DEF WalksInv, SearchInv, CacheInv
<1>. QED
  BY <1>1, <1>3, <1>4, PublishSound

LEMMA BeginWalks ==
  ASSUME WalksInv, NEW r \in Readers, NEW version \in DOMAIN published, NEW asked \in Searches,
         Begin(r, version, asked)
  PROVE  SnapshotsBuilt' /\ SearchesSound'
<1>. DEFINE done == [pc |-> "done", version |-> version, asked |-> asked, cut |-> FALSE, hits |-> <<>>]
            encode == [pc |-> "encode", version |-> version, asked |-> asked]
            p == published[version]
<1>1. /\ search[r] = NoSearch /\ p.rows \in Searched
      /\ search' = [search EXCEPT ![r] = IF p.rows = <<>> THEN done ELSE encode]
      /\ UNCHANGED <<cacheVars, config, quantizers, quantizerCache>>
  BY DEF Begin, Goto
<1>2. request[r] = NoRequest
  BY <1>1 DEF WalksInv, SearchesSound, ReaderSound, RequestOf, NoSearch
<1>3. /\ UNCHANGED <<published, config>> /\ request' = [request EXCEPT ![r] = NoRequest]
  BY <1>1, <1>2 DEF cacheVars, WalksInv, SearchInv, CacheInv, RequestsExact
<1>4. SnapshotsBuilt'
  BY <1>3, SameSnapshots DEF WalksInv
<1>5. CASE p.rows = <<>>
  <2>1. DOMAIN p.nodes = {}
    BY <1>5 DEF WalksInv, SnapshotsBuilt, SnapshotBuilt
  <2>2. done.hits = <<>> /\ done.pc = "done" /\ done.version = version
    OBVIOUS
  <2>. HIDE DEF done
  <2>3. ExactHits(p, done)
    BY <2>1, <2>2, NothingExact
  <2>4. ReaderSound(done, NoRequest)
    BY <2>2, <2>3 DEF ReaderSound, SearchSound, Walks
  <2>. QED
    BY <1>1, <1>3, <1>4, <1>5, <2>4, OneReader
<1>6. CASE p.rows # <<>>
  <2>1. ReaderSound(encode, NoRequest)
    BY <1>1, <1>6 DEF ReaderSound, SearchSound, Walks
  <2>. QED
    BY <1>1, <1>3, <1>4, <1>6, <2>1, OneReader
<1>. QED
  BY <1>5, <1>6

LEMMA EncodeWalks ==
  ASSUME WalksInv, NEW r \in Readers, Encode(r)
  PROVE  SnapshotsBuilt' /\ SearchesSound'
<1>. DEFINE s == search[r]
            p == published[s.version]
<1>1. PICK code :
        LET t == [pc |-> "starts", version |-> s.version, asked |-> s.asked,
                  code |-> code, queue |-> {}, seen |-> {}, parked |-> EmptyFn, candidates |-> EmptyFn,
                  toRead |-> SearchStarts(p.starts, s.asked.filter),
                  records |-> EmptyFn,
                  cachedBytes |-> 0, slots |-> 0, candidateBytes |-> 0]
        IN  Goto(r, t)
  BY DEF Encode
<1>2. s.pc = "encode" /\ UNCHANGED <<cacheVars, config, quantizers>>
  BY DEF Encode, At
<1>. DEFINE t == [pc |-> "starts", version |-> s.version, asked |-> s.asked,
                  code |-> code, queue |-> {}, seen |-> {}, parked |-> EmptyFn, candidates |-> EmptyFn,
                  toRead |-> SearchStarts(p.starts, s.asked.filter),
                  records |-> EmptyFn,
                  cachedBytes |-> 0, slots |-> 0, candidateBytes |-> 0]
<1>3. /\ s.version \in DOMAIN published /\ s.asked \in Searches
      /\ p.rows \in Searched /\ p.rows # <<>> /\ request[r] = NoRequest
  BY <1>2 DEF WalksInv, SearchesSound, ReaderSound, SearchSound, RequestOf
<1>4. UNCHANGED <<published, config>> /\ request' = [request EXCEPT ![r] = NoRequest]
  BY <1>2, <1>3 DEF cacheVars, WalksInv, SearchInv, CacheInv, RequestsExact
<1>5. SnapshotsBuilt'
  BY <1>4, SameSnapshots DEF WalksInv
<1>6. \E anyCode : GraphSound(config, p, s.asked, anyCode)
  BY <1>3, GraphIsSound DEF WalksInv, SearchInv, ModelsStored
<1>7. t.toRead \in Seq(DOMAIN p.nodes)
  BY <1>6 DEF GraphSound
<1>8. /\ DOMAIN t = WalkFields /\ t.pc = "starts" /\ t.version = s.version /\ t.asked = s.asked
      /\ t.queue = {} /\ t.seen = {} /\ t.parked = EmptyFn /\ t.candidates = EmptyFn
      /\ t.records = EmptyFn /\ t.cachedBytes = 0 /\ t.slots = 0 /\ t.candidateBytes = 0
      /\ ToSet(t.toRead) = StartNodes(p, t.asked)
  BY DEF WalkFields, StartNodes
<1>. HIDE DEF t
<1>9. DOMAIN EmptyFn = {} /\ Size(EmptyFn) = 0 /\ IsFiniteSet({}) /\ Cardinality({}) = 0
  BY SizeNone, FS_EmptySet DEF EmptyFn
<1>10. Held(t) = {} /\ Coming(t) = StartNodes(p, t.asked)
  BY <1>8, <1>9 DEF Held, Coming
<1>11. Accounts(t)
  BY <1>8, <1>9, <1>10 DEF Accounts
<1>12. WalkSound(p, t)
  BY <1>7, <1>8, <1>9, <1>10, <1>11 DEF WalkSound, OfGraph
<1>13. WalkComplete(p, t)
  BY <1>8, <1>9, <1>10 DEF WalkComplete, Known, IsWalk
<1>14. ReaderSound(t, NoRequest)
  BY <1>3, <1>8, <1>12, <1>13 DEF ReaderSound, SearchSound, Walks
<1>15. search' = [search EXCEPT ![r] = t]
  BY <1>1 DEF Goto, t
<1>. QED
  BY <1>4, <1>5, <1>14, <1>15, OneReader

LEMMA SameSearch ==
  ASSUME WalksInv, NEW r \in Readers, UNCHANGED search
  PROVE  search' = [search EXCEPT ![r] = search[r]]
BY DEF WalksInv, SearchInv, SearchesPublished

LEMMA ReadChunkWalks ==
  ASSUME WalksInv, NEW r \in Readers, ReadChunk(r)
  PROVE  SnapshotsBuilt' /\ SearchesSound'
<1>. DEFINE s == search[r]
            list == s.toRead
            batch == s.asked.batch
            ids == IF Len(list) > batch THEN SubSeq(list, 1, batch) ELSE list
<1>1. /\ StartRead(r, s.version, ids) /\ s.pc \in {"starts", "neighbors"} /\ UNCHANGED searchVars
  BY DEF ReadChunk, Reading
<1>2. UNCHANGED <<published, config, search>>
  BY <1>1 DEF StartRead, searchVars
<1>3. PICK q : /\ request' = [request EXCEPT ![r] = q]
               /\ q.version = s.version /\ q.ids = ids /\ DOMAIN q.reads \subseteq Elements(ids)
  <2>. DEFINE hits == {n \in Elements(ids) : Key(s.version, n) \in DOMAIN cache}
              missing == Elements(ids) \ hits
              reads == [n \in hits |-> cache[Key(s.version, n)]]
              q == Request(IF missing = {} THEN "done" ELSE "fetch", s.version, ids, missing, reads)
  <2>. HIDE DEF ids
  <2>1. request' = [request EXCEPT ![r] = q]
    BY <1>1 DEF StartRead
  <2>2. q.version = s.version /\ q.ids = ids /\ DOMAIN q.reads = hits
    BY DEF Request
  <2>3. hits \subseteq Elements(ids)
    OBVIOUS
  <2>. HIDE DEF q, hits
  <2>. QED
    BY <2>1, <2>2, <2>3
<1>4. Elements(ids) = ToSet(ids)
  BY DEF Elements, ToSet
<1>5. s.pc \in Walks
  BY <1>1 DEF Walks
<1>6. StartsWith(list, ids)
  <2>1. list \in Seq(DOMAIN published[s.version].nodes)
    BY <1>5, GraphOf DEF WalkSound
  <2>2. Len(list) \in Nat /\ batch \in Nat \ {0}
    <3>1. s.asked \in Searches
      BY <1>5 DEF WalksInv, SearchesSound, ReaderSound, SearchSound
    <3>. QED
      BY <2>1, <3>1, SearchAssumption
  <2>. HIDE DEF list, batch
  <2>3. CASE Len(list) > batch
    <3>1. batch \in 0 .. Len(list)
      BY <2>2, <2>3
    <3>. QED
      BY <2>3, <3>1 DEF StartsWith
  <2>4. CASE ~(Len(list) > batch)
    <3>1. SubSeq(list, 1, Len(list)) = list
      BY <2>1, SubSeqFull
    <3>2. Len(list) \in 0 .. Len(list)
      BY <2>2
    <3>. QED
      BY <2>4, <3>1, <3>2 DEF StartsWith
  <2>. QED
    BY <2>3, <2>4
<1>. HIDE DEF ids
<1>7. RequestOf(s, q)
  BY <1>1, <1>3, <1>4, <1>6 DEF RequestOf
<1>8. ReaderSound(s, q)
  BY <1>7 DEF WalksInv, SearchesSound, ReaderSound
<1>9. search' = [search EXCEPT ![r] = s]
  BY <1>2, SameSearch
<1>10. SearchesSound'
  BY <1>2, <1>3, <1>8, <1>9, OneReader
<1>. QED
  BY <1>2, <1>10, SameSnapshots DEF WalksInv

LEMMA CacheWorkWalks ==
  ASSUME WalksInv, NEW r \in Readers, CacheWork(r), UNCHANGED searchVars
  PROVE  SnapshotsBuilt' /\ SearchesSound'
<1>. DEFINE s == search[r]
            e == request[r]
<1>1. UNCHANGED <<published, config, search>> /\ e # NoRequest
  BY DEF CacheWork, Fetch, Insert, searchVars, NoRequest
<1>2. RequestExact(e) /\ RequestOf(s, e)
  BY <1>1 DEF WalksInv, SearchInv, CacheInv, RequestsExact, SearchesSound, ReaderSound
<1>3. PICK q : /\ request' = [request EXCEPT ![r] = q]
               /\ q.version = e.version /\ q.ids = e.ids /\ DOMAIN q.reads \subseteq ToSet(e.ids)
  <2>1. Elements(e.ids) = ToSet(e.ids)
    BY DEF Elements, ToSet
  <2>2. CASE Fetch(r)
    <3>1. DOMAIN e.reads \cup e.missing \subseteq ToSet(e.ids)
      BY <1>2, <2>1 DEF RequestExact, RequestOf
    <3>. DEFINE reads == [n \in DOMAIN e.reads \cup e.missing |->
                            IF n \in e.missing THEN published[e.version].nodes[n] ELSE e.reads[n]]
                q == Request("insert", e.version, e.ids, e.missing, reads)
    <3>2. request' = [request EXCEPT ![r] = q]
      BY <2>2 DEF Fetch
    <3>3. q.version = e.version /\ q.ids = e.ids /\ DOMAIN q.reads = DOMAIN e.reads \cup e.missing
      BY DEF Request
    <3>. HIDE DEF q
    <3>. QED
      BY <3>1, <3>2, <3>3
  <2>3. CASE Insert(r)
    <3>1. PICK pc, left : request' = [request EXCEPT ![r] = Request(pc, e.version, e.ids, left, e.reads)]
      BY <2>3 DEF Insert
    <3>. DEFINE q == Request(pc, e.version, e.ids, left, e.reads)
    <3>2. q.version = e.version /\ q.ids = e.ids /\ q.reads = e.reads
      BY DEF Request
    <3>3. request' = [request EXCEPT ![r] = q]
      BY <3>1
    <3>. HIDE DEF q
    <3>. QED
      BY <1>2, <3>2, <3>3 DEF RequestOf
  <2>. QED
    BY <2>2, <2>3 DEF CacheWork
<1>4. RequestOf(s, q)
  BY <1>2, <1>3 DEF RequestOf
<1>5. ReaderSound(s, q)
  BY <1>4 DEF WalksInv, SearchesSound, ReaderSound
<1>6. search' = [search EXCEPT ![r] = s]
  BY <1>1, SameSearch
<1>7. SearchesSound'
  BY <1>1, <1>3, <1>5, <1>6, OneReader
<1>. QED
  BY <1>1, <1>7, SameSnapshots DEF WalksInv

\* A search that failed, and left no request behind.
LEMMA FailedSound ==
  ASSUME NEW q, q = NoRequest
  PROVE  ReaderSound([pc |-> "failed"], q)
BY DEF ReaderSound, Walks

LEMMA ReadFailsWalks ==
  ASSUME WalksInv, NEW r \in Readers, ReadFails(r)
  PROVE  SnapshotsBuilt' /\ SearchesSound'
<1>1. /\ UNCHANGED <<published, config>>
      /\ search' = [search EXCEPT ![r] = [pc |-> "failed"]]
      /\ request' = [request EXCEPT ![r] = NoRequest]
  BY DEF ReadFails, Failed, Goto, FailFetch
<1>. QED
  BY <1>1, FailedSound, OneReader, SameSnapshots DEF WalksInv

LEMMA TakeChunkWalks ==
  ASSUME WalksInv, NEW r \in Readers, TakeChunk(r)
  PROVE  SnapshotsBuilt' /\ SearchesSound'
<1>. DEFINE s == search[r]
            e == request[r]
            p == published[s.version]
            t == Chunked(s, e.ids, e.reads)
<1>1. /\ s.pc \in {"starts", "neighbors"} /\ e.pc = "done" /\ e # NoRequest
      /\ UNCHANGED <<published, config>> /\ request' = [request EXCEPT ![r] = NoRequest]
      /\ IF t.toRead # <<>> THEN Goto(r, t)
         ELSE IF MayPark(t) THEN Goto(r, Parked(t)) ELSE Failed(r)
  <2>1. s.pc \in {"starts", "neighbors"} /\ FinishRead(r) /\ UNCHANGED config
    BY DEF TakeChunk, Reading
  <2>2. IF t.toRead # <<>> THEN Goto(r, t)
         ELSE IF MayPark(t) THEN Goto(r, Parked(t)) ELSE Failed(r)
    BY DEF TakeChunk, Chunked, Rest, Merged, PresentIn
  <2>. HIDE DEF t
  <2>. QED
    BY <2>1, <2>2 DEF FinishRead, NoRequest
<1>2. s.pc \in Walks
  BY <1>1 DEF Walks
<1>3. /\ s.version \in DOMAIN published /\ WalkSound(p, s) /\ WalkComplete(p, s)
      /\ GraphSound(config, p, s.asked, s.code)
  BY <1>2, GraphOf
<1>4. RequestExact(e) /\ RequestOf(s, e)
  BY <1>1 DEF WalksInv, SearchInv, CacheInv, RequestsExact, SearchesSound, ReaderSound
<1>5. DOMAIN e.reads = ToSet(e.ids) /\ \A n \in DOMAIN e.reads : e.reads[n] = p.nodes[n]
  <2>1. Elements(e.ids) = ToSet(e.ids)
    BY DEF Elements, ToSet
  <2>. QED
    BY <1>1, <1>4, <2>1 DEF RequestExact, RequestOf
<1>6. StartsWith(s.toRead, e.ids) /\ s.pc # "walk"
  BY <1>1, <1>4 DEF RequestOf
<1>7. /\ t.pc = s.pc /\ t.version = s.version /\ t.asked = s.asked /\ t.code = s.code
      /\ t.seen = s.seen /\ t.parked = s.parked /\ t.candidates = s.candidates
  <2>1. WalkFields \subseteq DOMAIN s
    BY <1>3 DEF WalkSound
  <2>. QED
    BY <2>1, ChunkedFields
<1>. HIDE DEF t
<1>t. t = Chunked(s, e.ids, e.reads)
  BY DEF t
<1>8. /\ WalkSound(p, t)
      /\ ToSet(t.toRead) \subseteq ToSet(s.toRead)
      /\ ToSet(s.toRead) \subseteq ToSet(t.toRead) \cup ToSet(e.ids)
      /\ DOMAIN t.records = DOMAIN s.records \cup {n \in ToSet(e.ids) : Present(p.nodes[n])}
  BY <1>3, <1>5, <1>6, <1>t, ChunkedSound
<1>9. ToSet(e.ids) \subseteq ToSet(s.toRead)
  <2>1. s.toRead \in Seq(DOMAIN p.nodes)
    BY <1>3 DEF WalkSound
  <2>2. ToSet(s.toRead) = ToSet(e.ids) \cup ToSet(Rest(s.toRead, e.ids))
    BY <1>6, <2>1, PrefixSplits
  <2>. QED
    BY <2>2
<1>10. WalkComplete(p, t)
  BY <1>3, <1>7, <1>8, <1>9, ChunkedComplete
<1>11. s.asked \in Searches /\ p.rows \in Searched /\ p.rows # <<>>
  BY <1>2 DEF WalksInv, SearchesSound, ReaderSound, SearchSound
<1>12. SnapshotsBuilt'
  BY <1>1, SameSnapshots DEF WalksInv
<1>13. CASE Goto(r, t)
  <2>1. ReaderSound(t, NoRequest)
    BY <1>2, <1>3, <1>7, <1>8, <1>10, <1>11 DEF ReaderSound, SearchSound, Walks
  <2>. QED
    BY <1>1, <1>12, <1>13, <2>1, OneReader DEF Goto
<1>14. CASE t.toRead = <<>> /\ Goto(r, Parked(t))
  <2>. DEFINE u == Parked(t)
  <2>1. u.pc = "walk" /\ u.version = t.version /\ u.asked = t.asked
    <3>1. WalkFields \subseteq DOMAIN t
      BY <1>8 DEF WalkSound
    <3>. QED
      BY <3>1, ParkedFields
  <2>2. WalkSound(p, u)
    BY <1>3, <1>8, <1>14, ParkedSound
  <2>3. WalkComplete(p, u)
    BY <1>8, <1>10, <1>14, ParkedComplete
  <2>. HIDE DEF u
  <2>4. ReaderSound(u, NoRequest)
    BY <1>3, <1>7, <1>11, <2>1, <2>2, <2>3 DEF ReaderSound, SearchSound, Walks
  <2>5. Goto(r, u)
    BY <1>14 DEF u
  <2>. QED
    BY <1>1, <1>12, <2>4, <2>5, OneReader DEF Goto
<1>15. CASE Failed(r)
  BY <1>1, <1>12, <1>15, FailedSound, OneReader DEF Failed, Goto
<1>. QED
  BY <1>1, <1>13, <1>14, <1>15

LEMMA VisitWalks ==
  ASSUME WalksInv, NEW r \in Readers, Visit(r)
  PROVE  SnapshotsBuilt' /\ SearchesSound'
<1>. DEFINE s == search[r]
            p == published[s.version]
            n == Closest(s)
            t == Taken(s, n)
<1>1. /\ s.pc = "walk" /\ s.queue # {} /\ UNCHANGED <<cacheVars, config>>
      /\ Failed(r) \/ Goto(r, t)
  BY DEF Visit, At
<1>2. s.pc \in Walks
  BY <1>1 DEF Walks
<1>3. /\ s.version \in DOMAIN published /\ WalkSound(p, s) /\ WalkComplete(p, s)
      /\ GraphSound(config, p, s.asked, s.code)
  BY <1>2, GraphOf
<1>4. request[r] = NoRequest /\ s.asked \in Searches /\ p.rows \in Searched /\ p.rows # <<>>
  BY <1>1, <1>2 DEF WalksInv, SearchesSound, ReaderSound, SearchSound, RequestOf
<1>5. UNCHANGED <<published, config>> /\ request' = [request EXCEPT ![r] = NoRequest]
  BY <1>1, <1>4 DEF cacheVars, WalksInv, SearchInv, CacheInv, RequestsExact
<1>6. SnapshotsBuilt'
  BY <1>5, SameSnapshots DEF WalksInv
<1>7. n \in s.queue
  BY <1>1, <1>3, ClosestIn
<1>8. /\ t.version = s.version /\ t.asked = s.asked /\ t.pc \in {"walk", "neighbors"}
  <2>1. WalkFields \subseteq DOMAIN s
    BY <1>3 DEF WalkSound
  <2>. QED
    BY <2>1, TakenFields
<1>. HIDE DEF n
<1>9. WalkSound(p, t)
  BY <1>1, <1>3, <1>7, TakenSound
<1>10. WalkComplete(p, t)
  BY <1>1, <1>3, <1>7, TakenComplete
<1>. HIDE DEF t
<1>11. ReaderSound(t, NoRequest)
  BY <1>3, <1>4, <1>8, <1>9, <1>10 DEF ReaderSound, SearchSound, Walks
<1>. QED
  BY <1>1, <1>5, <1>6, <1>11, FailedSound, OneReader DEF Goto, Failed

LEMMA RescoreWalks ==
  ASSUME WalksInv, NEW r \in Readers, Rescore(r)
  PROVE  SnapshotsBuilt' /\ SearchesSound'
<1>. DEFINE s == search[r]
            p == published[s.version]
            matching == {n \in DOMAIN s.candidates : Matches(s.asked.filter, s.candidates[n].labels)}
            exact == [n \in matching |-> L2(s.asked.query, s.candidates[n].point)]
            ranked == ByDistance(exact, matching)
            t == [pc |-> "done", version |-> s.version, asked |-> s.asked, cut |-> s.queue # {},
                  hits |-> SubSeq(ranked, 1, IF Len(ranked) < Limit THEN Len(ranked) ELSE Limit)]
<1>1. /\ s.pc = "walk" /\ UNCHANGED <<cacheVars, config>>
      /\ Failed(r) \/ Goto(r, t)
  BY DEF Rescore, At
<1>2. s.pc \in Walks
  BY <1>1 DEF Walks
<1>3. /\ s.version \in DOMAIN published /\ WalkSound(p, s) /\ WalkComplete(p, s)
      /\ GraphSound(config, p, s.asked, s.code)
  BY <1>2, GraphOf
<1>4. request[r] = NoRequest
  BY <1>1 DEF WalksInv, SearchesSound, ReaderSound, RequestOf
<1>5. UNCHANGED <<published, config>> /\ request' = [request EXCEPT ![r] = NoRequest]
  BY <1>1, <1>4 DEF cacheVars, WalksInv, SearchInv, CacheInv, RequestsExact
<1>6. SnapshotsBuilt'
  BY <1>5, SameSnapshots DEF WalksInv
<1>7. /\ t.pc = "done" /\ t.version = s.version /\ t.asked = s.asked
      /\ t.cut <=> s.queue # {}
      /\ t.hits = SubSeq(ranked, 1, IF Len(ranked) < Limit THEN Len(ranked) ELSE Limit)
  OBVIOUS
<1>. HIDE DEF t
<1>8. ASSUME ~t.cut PROVE ExactHits(p, t)
  BY <1>1, <1>3, <1>7, <1>8, RescoredExact
<1>9. ReaderSound(t, NoRequest)
  BY <1>3, <1>7, <1>8 DEF ReaderSound, SearchSound, Walks
<1>. QED
  BY <1>1, <1>5, <1>6, <1>9, FailedSound, OneReader DEF Goto, Failed

------------------------------------------------------------------------------
(* The theorems *)

LEMMA WalksInit == Init => WalksInv
<1>. SUFFICES ASSUME Init PROVE WalksInv
  OBVIOUS
<1>1. SearchInv
  BY SearchInit
<1>2. DOMAIN published = {}
  BY DEF Init, CacheInit
<1>3. SearchesSound
  BY DEF Init, CacheInit, SearchesSound, ReaderSound, NoSearch, Walks
<1>. QED
  BY <1>1, <1>2, <1>3 DEF WalksInv, SnapshotsBuilt

LEMMA WalksNext == WalksInv /\ [Next]_vars => WalksInv'
<1>. SUFFICES ASSUME WalksInv, [Next]_vars PROVE WalksInv'
  OBVIOUS
<1>1. SearchInv'
  BY SearchNext DEF WalksInv
<1>2. CASE PublishNext
  <2>1. \/ \E rows \in Inputs : PublishBuild(rows)
        \/ \E n : PublishDelete(n)
    BY <1>2, SearchAssumption DEF PublishNext
  <2>. QED
    BY <1>1, <2>1, PublishWalks DEF WalksInv
<1>3. ASSUME NEW r \in Readers, Search(r)
      PROVE  SnapshotsBuilt' /\ SearchesSound'
  BY <1>3, BeginWalks, EncodeWalks, ReadChunkWalks, TakeChunkWalks, ReadFailsWalks, CacheWorkWalks,
     VisitWalks, RescoreWalks DEF Search
<1>4. CASE UNCHANGED vars
  <2>1. UNCHANGED <<published, config, search, request>>
    BY <1>4 DEF vars, cacheVars, searchVars
  <2>. QED
    BY <1>1, <2>1, PublishSound, SameSnapshots DEF WalksInv
<1>. QED
  BY <1>1, <1>2, <1>3, <1>4 DEF Next, WalksInv

LEMMA WalksInvImplies == WalksInv => AccountingExact /\ SearchesExact
<1>. SUFFICES ASSUME WalksInv PROVE AccountingExact /\ SearchesExact
  OBVIOUS
<1>1. AccountingExact
  <2>1. ASSUME NEW r \in Readers, search[r].pc \in {"walk", "neighbors"}
        PROVE  Accounts(search[r])
    <3>1. search[r].pc \in Walks
      BY <2>1 DEF Walks
    <3>. QED
      BY <3>1, GraphOf DEF WalkSound
  <2>. QED
    BY <2>1 DEF AccountingExact, Accounts, Held
<1>2. SearchesExact
  <2>1. ASSUME NEW r \in Readers, search[r].pc = "done", ~search[r].cut
        PROVE  ExactHits(published[search[r].version], search[r])
    BY <2>1 DEF WalksInv, SearchesSound, ReaderSound, SearchSound
  <2>. QED
    BY <2>1 DEF SearchesExact, ExactHits, StartNodes
<1>. QED
  BY <1>1, <1>2

\* QueryMemoryAccountant: whatever is searched, in whatever order the steps
\* of the searches and the reads of the cache come, what a search has
\* accounted is what it holds.
THEOREM AccountingAlwaysExact == Spec => []AccountingExact
BY WalksInit, WalksNext, WalksInvImplies, PTL DEF Spec

\* search_with_snapshot: a search that was not cut short returns what a scan
\* of the rows its start nodes reach would return.
THEOREM SearchesAlwaysExact == Spec => []SearchesExact
BY WalksInit, WalksNext, WalksInvImplies, PTL DEF Spec

=============================================================================
