---------------------------- MODULE MemoryStorage ----------------------------
(***************************************************************************)
(* The in-memory reference backend: one mutex-guarded state, so that every *)
(* trait method is one atomic step.  Mutations are staged in a cumulative  *)
(* draft; publish_hot_delta freezes the draft under a fresh reference and  *)
(* collects superseded frozen deltas; compare_and_publish makes a frozen   *)
(* delta visible by swapping the manifest.  Readers resolve every node     *)
(* through the manifest snapshot they hold.                                *)
(*                                                                         *)
(* A record is its row (vectors, labels and external id: a model value)    *)
(* and its neighbor list (a set of node ids).  The full vector is optional *)
(* and the rows in Bare come without one.  Segment and delta references    *)
(* are the integers the code hands out; 0 stands for None.                 *)
(*                                                                         *)
(* The client here is the most general one: any trait call, in any order,  *)
(* with any replacement manifest built from references handed out so far.  *)
(***************************************************************************)
EXTENDS Integers, Sequences, FiniteSets

CONSTANTS
  Nodes,         \* node ids
  Rows,          \* payloads a record can carry
  Bare,          \* those whose full_vector is None
  Starts,        \* start-node maps a manifest can carry
  NoStart,       \* the draft's Option::None
  MaxNeighbors,  \* IndexConfig::max_neighbors
  Readers,       \* actors that hold a pinned snapshot
  MaxSegments, MaxFreezes, MaxEpoch, MaxVersion  \* bounds on the counters

ASSUME StorageAssumption ==
  /\ Bare \subseteq Rows
  /\ NoStart \notin Starts
  /\ MaxNeighbors \in Nat \ {0}
  /\ MaxSegments \in Nat /\ MaxFreezes \in Nat
  /\ MaxEpoch \in Nat /\ MaxVersion \in Nat

VARIABLES
  manifest,       \* the published ManifestSnapshot
  segments,       \* immutable segments, by reference
  hotDeltas,      \* retained frozen hot deltas, by reference
  nextHotDelta,   \* next_hot_delta_id
  draft,          \* the mutable hot-delta draft
  nextEpoch,      \* next_tombstone_epoch
  pins            \* pins[r]: the snapshot reader r holds

storageVars ==
  <<manifest, segments, hotDeltas, nextHotDelta, draft, nextEpoch, pins>>

------------------------------------------------------------------------------
(* Types *)

PartialFn(S, T) == UNION {[D -> T] : D \in SUBSET S}
EmptyFn == [x \in {} |-> x]

\* f with x mapped to y, and f without x: BTreeMap::insert and remove.
With(f, x, y) == [z \in DOMAIN f \cup {x} |-> IF z = x THEN y ELSE f[z]]
Without(f, x) == [z \in DOMAIN f \ {x} |-> f[z]]

Links == SUBSET Nodes
Record == [row : Rows, links : Links]

\* The neighbor checks of NodeRecord::validate and validate_neighbors.
ValidLinks(n, links) == n \notin links /\ Cardinality(links) <= MaxNeighbors

Manifest == [version : Nat, segments : Seq(Nat), hotDelta : Nat,
             epoch : Nat, start : Starts, maxId : Nat]

Delta == [records : PartialFn(Nodes, Record),
          rewrites : PartialFn(Nodes, Links),
          tombstones : PartialFn(Nodes, 1 .. MaxEpoch)]

Draft == [records : PartialFn(Nodes, Record),
          rewrites : PartialFn(Nodes, Links),
          tombstones : PartialFn(Nodes, 1 .. MaxEpoch),
          start : Starts \cup {NoStart}]

StorageTypeOK ==
  /\ manifest \in Manifest
  /\ segments \in Seq(PartialFn(Nodes, Record))
  /\ nextHotDelta \in Nat \ {0}
  /\ DOMAIN hotDeltas \subseteq 1 .. nextHotDelta - 1
  /\ hotDeltas \in [DOMAIN hotDeltas -> Delta]
  /\ draft \in Draft
  /\ nextEpoch \in Nat \ {0}
  /\ pins \in [Readers -> Manifest]

------------------------------------------------------------------------------
(* Resolving a node through a snapshot *)

Present(record) == [kind |-> "present", row |-> record.row, links |-> record.links]
Missing == [kind |-> "missing"]
Tombstoned == [kind |-> "tombstoned"]

\* A snapshot whose hot delta was collected reads StorageNotFound.
Resolves(s) == s.hotDelta = 0 \/ s.hotDelta \in DOMAIN hotDeltas

\* The segments of s that hold n; the first of them wins.
SegmentsWith(s, n) ==
  {i \in DOMAIN s.segments : n \in DOMAIN segments[s.segments[i]]}

ImmutableRecord(s, n) ==
  LET first == CHOOSE i \in SegmentsWith(s, n) :
                 \A j \in SegmentsWith(s, n) : i <= j
  IN  segments[s.segments[first]][n]

IsImmutable(s, n) == SegmentsWith(s, n) # {}

\* The delta s reads through; an empty one when s has none.
DeltaOf(s) ==
  IF s.hotDelta = 0
  THEN [records |-> EmptyFn, rewrites |-> EmptyFn, tombstones |-> EmptyFn]
  ELSE hotDeltas[s.hotDelta]

\* Mutant of Deleted: the tombstones of the live draft are consulted.
DeletedInDraft(s, n) ==
  n \in DOMAIN draft.tombstones /\ draft.tombstones[n] <= s.epoch

Deleted(s, n) ==
  n \in DOMAIN DeltaOf(s).tombstones /\ DeltaOf(s).tombstones[n] <= s.epoch

\* resolve_routing_node, for a snapshot that resolves.
ReadNode(s, n) ==
  LET delta == DeltaOf(s)
  IN  CASE Deleted(s, n) -> Tombstoned
        [] ~Deleted(s, n) /\ n \in DOMAIN delta.records ->
             Present(delta.records[n])
        [] ~Deleted(s, n) /\ n \notin DOMAIN delta.records /\ IsImmutable(s, n) ->
             IF n \in DOMAIN delta.rewrites
             THEN [Present(ImmutableRecord(s, n)) EXCEPT !.links = delta.rewrites[n]]
             ELSE Present(ImmutableRecord(s, n))
        [] OTHER -> Missing

\* A record without a full vector answers that there is none.
Vector(record) ==
  IF record.row \in Bare THEN Missing ELSE [kind |-> "present", row |-> record.row]

\* Mutant of ReadFullVector: a staged record without a full vector is passed
\* over, as if the segment could still speak for its node.
ReadFullVectorPastBare(s, n) ==
  LET records == DeltaOf(s).records
  IN  IF Deleted(s, n) THEN Tombstoned
      ELSE IF n \in DOMAIN records /\ records[n].row \notin Bare THEN Vector(records[n])
      ELSE IF IsImmutable(s, n) THEN Vector(ImmutableRecord(s, n))
      ELSE Missing

\* resolve_full_vector: the same lookup order, returning the vector alone.
ReadFullVector(s, n) ==
  LET delta == DeltaOf(s)
  IN  IF Deleted(s, n) THEN Tombstoned
      ELSE IF n \in DOMAIN delta.records THEN Vector(delta.records[n])
      ELSE IF IsImmutable(s, n) THEN Vector(ImmutableRecord(s, n))
      ELSE Missing

View(s) == [n \in Nodes |-> ReadNode(s, n)]

------------------------------------------------------------------------------
(* The trait methods *)

AppendNode(n, record) ==
  /\ ValidLinks(n, record.links)
  /\ draft' = [draft EXCEPT !.tombstones = Without(@, n),
                            !.rewrites = Without(@, n),
                            !.records = With(@, n, record)]
  /\ UNCHANGED <<manifest, segments, hotDeltas, nextHotDelta, nextEpoch, pins>>

\* A staged record is changed in place (a copy, if frozen deltas share it);
\* any other node gets an overlay entry.
RewriteNeighbors(n, links) ==
  /\ ValidLinks(n, links)
  /\ draft' = IF n \in DOMAIN draft.records
              THEN [draft EXCEPT !.records = With(@, n, [@[n] EXCEPT !.links = links])]
              ELSE [draft EXCEPT !.rewrites = With(@, n, links)]
  /\ UNCHANGED <<manifest, segments, hotDeltas, nextHotDelta, nextEpoch, pins>>

TombstoneNode(n) ==
  /\ nextEpoch <= MaxEpoch
  /\ draft' = [draft EXCEPT !.records = Without(@, n),
                            !.rewrites = Without(@, n),
                            !.tombstones = With(@, n, nextEpoch)]
  /\ nextEpoch' = nextEpoch + 1
  /\ UNCHANGED <<manifest, segments, hotDeltas, nextHotDelta, pins>>

UpdateStartNodes(start) ==
  /\ draft' = [draft EXCEPT !.start = start]
  /\ UNCHANGED <<manifest, segments, hotDeltas, nextHotDelta, nextEpoch, pins>>

\* Mutants of Retained: the manifest's delta is not spared; one frozen delta
\* is kept instead of two; both of these.
RetainedNewestTwo(references) ==
  {d \in references : ~ \E e, f \in references : d < e /\ e < f}
RetainedNewest(references) ==
  {d \in references : d = manifest.hotDelta \/ ~ \E e \in references : d < e}
RetainedNewestOnly(references) ==
  {d \in references : ~ \E e \in references : d < e}

\* A delta is superseded once two newer ones exist
\* (RETAINED_FROZEN_HOT_DELTAS = 2); the manifest's own is always kept.
Retained(references) ==
  {d \in references :
     d = manifest.hotDelta \/ ~ \E e, f \in references : d < e /\ e < f}

CollectSupersededHotDeltas(deltas) ==
  [d \in Retained(DOMAIN deltas) |-> deltas[d]]

\* The epoch publish_hot_delta returns: the largest staged one, or 0.
DraftEpoch ==
  IF DOMAIN draft.tombstones = {} THEN 0
  ELSE CHOOSE e \in {draft.tombstones[n] : n \in DOMAIN draft.tombstones} :
         \A n \in DOMAIN draft.tombstones : draft.tombstones[n] <= e

\* The draft is frozen whole and stays as it is: deltas are cumulative.
FrozenDraft ==
  [records |-> draft.records, rewrites |-> draft.rewrites,
   tombstones |-> draft.tombstones]

\* Mutants of PublishHotDelta: the reference is handed out again; the draft
\* starts over, as if deltas were not cumulative.
PublishHotDeltaSameReference ==
  /\ nextHotDelta <= MaxFreezes
  /\ hotDeltas' = CollectSupersededHotDeltas(With(hotDeltas, nextHotDelta, FrozenDraft))
  /\ UNCHANGED <<manifest, segments, draft, nextHotDelta, nextEpoch, pins>>
PublishHotDeltaClearsDraft ==
  /\ nextHotDelta <= MaxFreezes
  /\ hotDeltas' = CollectSupersededHotDeltas(With(hotDeltas, nextHotDelta, FrozenDraft))
  /\ nextHotDelta' = nextHotDelta + 1
  /\ draft' = [draft EXCEPT !.records = EmptyFn, !.rewrites = EmptyFn]
  /\ UNCHANGED <<manifest, segments, nextEpoch, pins>>

PublishHotDelta ==
  /\ nextHotDelta <= MaxFreezes
  /\ hotDeltas' = CollectSupersededHotDeltas(With(hotDeltas, nextHotDelta, FrozenDraft))
  /\ nextHotDelta' = nextHotDelta + 1
  /\ UNCHANGED <<manifest, segments, draft, nextEpoch, pins>>

InsertImmutableSegment(nodes) ==
  /\ Len(segments) < MaxSegments
  /\ \A n \in DOMAIN nodes : ValidLinks(n, nodes[n].links)
  /\ segments' = Append(segments, nodes)
  /\ UNCHANGED <<manifest, hotDeltas, nextHotDelta, draft, nextEpoch, pins>>

\* validate_manifest_references, and the duplicate check of
\* ManifestSnapshot::validate.
ValidReferences(s) ==
  /\ \A i \in DOMAIN s.segments : s.segments[i] \in DOMAIN segments
  /\ \A i, j \in DOMAIN s.segments : s.segments[i] = s.segments[j] => i = j
  /\ Resolves(s)

\* Mutants of CompareAndPublish: the version is not advanced; it is not compared.
CompareAndPublishSameVersion(expected, replacement) ==
  /\ manifest.version = expected
  /\ ValidReferences(replacement)
  /\ manifest' = [replacement EXCEPT !.version = expected]
  /\ UNCHANGED <<segments, hotDeltas, nextHotDelta, draft, nextEpoch, pins>>
CompareAndPublishUnchecked(expected, replacement) ==
  /\ ValidReferences(replacement)
  /\ manifest' = [replacement EXCEPT !.version = manifest.version + 1]
  /\ UNCHANGED <<segments, hotDeltas, nextHotDelta, draft, nextEpoch, pins>>

CompareAndPublish(expected, replacement) ==
  /\ manifest.version = expected
  /\ ValidReferences(replacement)
  /\ manifest' = [replacement EXCEPT !.version = expected + 1]
  /\ UNCHANGED <<segments, hotDeltas, nextHotDelta, draft, nextEpoch, pins>>

LoadSnapshot(r) ==
  /\ pins' = [pins EXCEPT ![r] = manifest]
  /\ UNCHANGED <<manifest, segments, hotDeltas, nextHotDelta, draft, nextEpoch>>

------------------------------------------------------------------------------
(* The storage on its own, under the most general client *)

InitialManifest(start) ==
  [version |-> 0, segments |-> <<>>, hotDelta |-> 0,
   epoch |-> 0, start |-> start, maxId |-> 0]

StorageInit ==
  /\ \E start \in Starts : manifest = InitialManifest(start)
  /\ segments = <<>>
  /\ hotDeltas = EmptyFn
  /\ nextHotDelta = 1
  /\ draft = [records |-> EmptyFn, rewrites |-> EmptyFn, tombstones |-> EmptyFn,
              start |-> NoStart]
  /\ nextEpoch = 1
  /\ pins = [r \in Readers |-> manifest]

\* The lists of segments a manifest may carry.
SegmentLists == UNION {[1 .. k -> DOMAIN segments] : k \in 0 .. MaxSegments}

\* Replacement manifests carry any list of segments, hot delta and epoch
\* handed out so far; what the storage only carries stays as it is.
Replacement(list, d, e) ==
  [manifest EXCEPT !.segments = list, !.hotDelta = d, !.epoch = e]

StorageNext ==
  \/ \E n \in Nodes, record \in Record : AppendNode(n, record)
  \/ \E n \in Nodes, links \in Links : RewriteNeighbors(n, links)
  \/ \E n \in Nodes : TombstoneNode(n)
  \/ \E start \in Starts : UpdateStartNodes(start)
  \/ PublishHotDelta
  \/ \E nodes \in PartialFn(Nodes, Record) : InsertImmutableSegment(nodes)
  \/ \E expected \in 0 .. MaxVersion - 1, list \in SegmentLists,
        d \in 0 .. nextHotDelta - 1, e \in 0 .. nextEpoch - 1 :
       CompareAndPublish(expected, Replacement(list, d, e))
  \/ \E r \in Readers : LoadSnapshot(r)

StorageSpec == StorageInit /\ [][StorageNext]_storageVars

------------------------------------------------------------------------------
(* Properties *)

\* The published manifest can always be read: compare_and_publish refuses
\* dangling references and collection never drops the manifest's own delta.
ManifestResolves == ValidReferences(manifest)

\* A pinned snapshot is only ever lost to a later publish: while the
\* manifest is still the one a reader pinned, its reads succeed.
ExpiredOnlyIfSuperseded ==
  \A r \in Readers : ~Resolves(pins[r]) => pins[r].version < manifest.version

\* A delta stays readable until two more freezes have happened, whoever
\* published what in between: the grace period readers are promised.
RecentFreezesResolve ==
  \A d \in 1 .. nextHotDelta - 1 : d >= nextHotDelta - 2 => d \in DOMAIN hotDeltas

\* Routing reads and full-vector reads of one snapshot resolve the same
\* record, although two functions look it up: a full vector is that of the row
\* routing shows, a row that has one is never without it, and a row that has
\* none is not given that of an older record of its node.
RoutingAndFullVectorAgree ==
  \A r \in Readers, n \in Nodes : Resolves(pins[r]) =>
    LET routing == ReadNode(pins[r], n)
        full == ReadFullVector(pins[r], n)
    IN  /\ full.kind = "present" =>
             routing.kind = "present" /\ routing.row = full.row /\ full.row \notin Bare
        /\ routing.kind = "present" /\ routing.row \notin Bare => full.kind = "present"
        /\ full.kind = "tombstoned" <=> routing.kind = "tombstoned"

\* The snapshot store this backend implements: a reader's view is what its
\* pinned snapshot resolves to, in the storage as it is now.
NodeRead == [kind : {"present"}, row : Rows, links : Links] \cup {Missing, Tombstoned}
ExpiredView == [n \in {} |-> n]

PinnedView(r) ==
  [version |-> pins[r].version,
   reads |-> IF Resolves(pins[r]) THEN View(pins[r]) ELSE ExpiredView]

Store == INSTANCE SnapshotStore WITH
           Contents <- [Nodes -> NodeRead],
           Expired <- ExpiredView,
           version <- manifest.version,
           contents <- View(manifest),
           views <- [r \in Readers |-> PinnedView(r)]

\* Every step of the storage is a publish, a pin, the expiry of superseded
\* views, or invisible to readers: what a reader pinned never changes.
ImplementsSnapshotStore == Store!Spec

==============================================================================
