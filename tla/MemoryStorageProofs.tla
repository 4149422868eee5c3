------------------------- MODULE MemoryStorageProofs -------------------------
(***************************************************************************)
(* What MemoryStorage guarantees for any client and any bounds, and that   *)
(* it implements the snapshot store: every step publishes, pins, expires   *)
(* superseded views, or is invisible.                                      *)
(***************************************************************************)
EXTENDS MemoryStorage, WellFoundedInduction, TLAPS

------------------------------------------------------------------------------
(* Partial functions *)

\* Inserting a well-typed entry keeps a map a partial function.
LEMMA WithPartial ==
  ASSUME NEW S, NEW T, NEW f \in PartialFn(S, T), NEW x \in S, NEW y \in T
  PROVE  With(f, x, y) \in PartialFn(S, T)
<1>1. PICK D \in SUBSET S : f \in [D -> T]
  BY DEF PartialFn
<1>2. D \cup {x} \in SUBSET S
  OBVIOUS
<1>3. With(f, x, y) \in [D \cup {x} -> T]
  BY <1>1 DEF With
<1> QED
  BY <1>2, <1>3 DEF PartialFn

\* Removing an entry keeps a map a partial function.
LEMMA WithoutPartial ==
  ASSUME NEW S, NEW T, NEW f \in PartialFn(S, T), NEW x
  PROVE  Without(f, x) \in PartialFn(S, T)
<1>1. PICK D \in SUBSET S : f \in [D -> T]
  BY DEF PartialFn
<1>2. D \ {x} \in SUBSET S
  OBVIOUS
<1>3. Without(f, x) \in [D \ {x} -> T]
  BY <1>1 DEF Without
<1> QED
  BY <1>2, <1>3 DEF PartialFn

\* The empty map is a partial function.
LEMMA EmptyPartial ==
  ASSUME NEW S, NEW T
  PROVE  EmptyFn \in PartialFn(S, T)
<1>1. EmptyFn \in [{} -> T]
  BY DEF EmptyFn
<1> QED
  BY <1>1 DEF PartialFn

\* The values of a partial function are where they should be.
LEMMA PartialApply ==
  ASSUME NEW S, NEW T, NEW f \in PartialFn(S, T)
  PROVE  DOMAIN f \subseteq S /\ f \in [DOMAIN f -> T]
BY DEF PartialFn

------------------------------------------------------------------------------
(* Type correctness *)

\* The initial storage is well typed.
LEMMA InitTyped == StorageInit => StorageTypeOK
<1> SUFFICES ASSUME StorageInit PROVE StorageTypeOK
  OBVIOUS
<1>1. PICK start \in Starts : manifest = InitialManifest(start)
  BY DEF StorageInit
<1>2. manifest \in Manifest
  BY <1>1 DEF InitialManifest, Manifest
<1>3. draft \in Draft
  BY EmptyPartial DEF StorageInit, Draft
<1>4. hotDeltas \in [DOMAIN hotDeltas -> Delta] /\ DOMAIN hotDeltas = {}
  BY DEF StorageInit, EmptyFn
<1> QED
  BY <1>2, <1>3, <1>4 DEF StorageInit, StorageTypeOK

\* The maps of a well-typed draft.
LEMMA DraftParts ==
  ASSUME StorageTypeOK
  PROVE  /\ draft.records \in PartialFn(Nodes, Record)
         /\ draft.rewrites \in PartialFn(Nodes, Links)
         /\ draft.tombstones \in PartialFn(Nodes, 1 .. MaxEpoch)
         /\ draft.start \in Starts \cup {NoStart}
BY DEF StorageTypeOK, Draft

\* Staging a record keeps the draft well typed.
LEMMA AppendNodeTyped ==
  ASSUME StorageTypeOK, NEW n \in Nodes, NEW record \in Record, AppendNode(n, record)
  PROVE  StorageTypeOK'
<1>1. draft' \in Draft
  BY DraftParts, WithPartial, WithoutPartial DEF AppendNode, Draft, StorageTypeOK
<1> QED
  BY <1>1 DEF AppendNode, StorageTypeOK

\* Rewriting neighbors, in a staged record or as an overlay, keeps the draft
\* well typed.
LEMMA RewriteNeighborsTyped ==
  ASSUME StorageTypeOK, NEW n \in Nodes, NEW links \in Links, RewriteNeighbors(n, links)
  PROVE  StorageTypeOK'
<1>1. CASE n \in DOMAIN draft.records
  <2>1. draft.records[n] \in Record
    BY <1>1, DraftParts, PartialApply
  <2>2. [draft.records[n] EXCEPT !.links = links] \in Record
    BY <2>1 DEF Record
  <2>3. draft' \in Draft
    BY <1>1, <2>2, DraftParts, WithPartial DEF RewriteNeighbors, Draft, StorageTypeOK
  <2> QED
    BY <2>3 DEF RewriteNeighbors, StorageTypeOK
<1>2. CASE n \notin DOMAIN draft.records
  <2>1. draft' \in Draft
    BY <1>2, DraftParts, WithPartial DEF RewriteNeighbors, Draft, StorageTypeOK
  <2> QED
    BY <2>1 DEF RewriteNeighbors, StorageTypeOK
<1> QED
  BY <1>1, <1>2

\* Tombstoning stamps an epoch within the bound.
LEMMA TombstoneNodeTyped ==
  ASSUME StorageTypeOK, NEW n \in Nodes, TombstoneNode(n)
  PROVE  StorageTypeOK'
<1>1. nextEpoch \in 1 .. MaxEpoch
  BY StorageAssumption DEF TombstoneNode, StorageTypeOK
<1>2. draft' \in Draft
  BY <1>1, DraftParts, WithPartial, WithoutPartial DEF TombstoneNode, Draft, StorageTypeOK
<1> QED
  BY <1>1, <1>2 DEF TombstoneNode, StorageTypeOK

\* A replacement built from references handed out so far is a manifest.
LEMMA ReplacementTyped ==
  ASSUME StorageTypeOK, NEW list \in SegmentLists,
         NEW d \in 0 .. nextHotDelta - 1, NEW e \in 0 .. nextEpoch - 1
  PROVE  Replacement(list, d, e) \in Manifest
<1>1. DOMAIN segments \subseteq Nat
  BY DEF StorageTypeOK
<1>2. list \in Seq(Nat)
  <2>1. PICK k \in 0 .. MaxSegments : list \in [1 .. k -> DOMAIN segments]
    BY DEF SegmentLists
  <2>2. list \in [1 .. k -> Nat] /\ k \in Nat
    BY <1>1, <2>1, StorageAssumption
  <2> QED
    BY <2>2
<1>3. d \in Nat /\ e \in Nat
  BY DEF StorageTypeOK
<1> QED
  BY <1>2, <1>3 DEF Replacement, Manifest, StorageTypeOK

\* Publishing a well-typed replacement keeps the manifest well typed.
LEMMA CompareAndPublishTyped ==
  ASSUME StorageTypeOK, NEW expected \in Nat, NEW replacement \in Manifest,
         CompareAndPublish(expected, replacement)
  PROVE  StorageTypeOK'
<1>1. ASSUME NEW v \in Nat
      PROVE  [replacement EXCEPT !.version = v] \in Manifest
  BY DEF Manifest
<1>2. expected + 1 \in Nat
  OBVIOUS
<1>3. manifest' \in Manifest
  BY <1>1, <1>2 DEF CompareAndPublish
<1> QED
  BY <1>3 DEF CompareAndPublish, StorageTypeOK

\* Freezing keeps the retained deltas well typed.
LEMMA FreezeTyped ==
  ASSUME StorageTypeOK, PublishHotDelta
  PROVE  StorageTypeOK'
<1> DEFINE all == With(hotDeltas, nextHotDelta, FrozenDraft)
<1>1. FrozenDraft \in Delta
  BY DEF FrozenDraft, StorageTypeOK, Draft, Delta
<1>2. all \in [DOMAIN hotDeltas \cup {nextHotDelta} -> Delta]
  BY <1>1 DEF With, StorageTypeOK
<1>3. Retained(DOMAIN all) \subseteq DOMAIN all
  BY DEF Retained
<1>4. hotDeltas' = [d \in Retained(DOMAIN all) |-> all[d]]
  BY DEF PublishHotDelta, CollectSupersededHotDeltas
<1>5. hotDeltas' \in [DOMAIN hotDeltas' -> Delta]
  BY <1>2, <1>3, <1>4
<1>6. DOMAIN hotDeltas' \subseteq 1 .. nextHotDelta' - 1
  <2>1. DOMAIN hotDeltas' \subseteq DOMAIN hotDeltas \cup {nextHotDelta}
    BY <1>2, <1>3, <1>4
  <2>2. nextHotDelta' = nextHotDelta + 1
    BY DEF PublishHotDelta
  <2> QED
    BY <2>1, <2>2 DEF StorageTypeOK
<1> QED
  BY <1>5, <1>6 DEF PublishHotDelta, StorageTypeOK

\* Every step of the storage keeps it well typed.
LEMMA StepTyped == StorageTypeOK /\ [StorageNext]_storageVars => StorageTypeOK'
<1> SUFFICES ASSUME StorageTypeOK, [StorageNext]_storageVars PROVE StorageTypeOK'
  OBVIOUS
<1>1. ASSUME NEW n \in Nodes, NEW record \in Record, AppendNode(n, record)
      PROVE  StorageTypeOK'
  BY <1>1, AppendNodeTyped
<1>2. ASSUME NEW n \in Nodes, NEW links \in Links, RewriteNeighbors(n, links)
      PROVE  StorageTypeOK'
  BY <1>2, RewriteNeighborsTyped
<1>3. ASSUME NEW n \in Nodes, TombstoneNode(n)
      PROVE  StorageTypeOK'
  BY <1>3, TombstoneNodeTyped
<1>4. ASSUME NEW start \in Starts, UpdateStartNodes(start)
      PROVE  StorageTypeOK'
  BY <1>4 DEF UpdateStartNodes, StorageTypeOK, Draft
<1>5. CASE PublishHotDelta
  BY <1>5, FreezeTyped
<1>6. ASSUME NEW nodes \in PartialFn(Nodes, Record), InsertImmutableSegment(nodes)
      PROVE  StorageTypeOK'
  BY <1>6 DEF InsertImmutableSegment, StorageTypeOK
<1>7. ASSUME NEW expected \in 0 .. MaxVersion - 1, NEW list \in SegmentLists,
             NEW d \in 0 .. nextHotDelta - 1, NEW e \in 0 .. nextEpoch - 1,
             CompareAndPublish(expected, Replacement(list, d, e))
      PROVE  StorageTypeOK'
  <2>1. Replacement(list, d, e) \in Manifest
    BY ReplacementTyped
  <2>2. expected \in Nat
    OBVIOUS
  <2> QED
    BY <1>7, <2>1, <2>2, CompareAndPublishTyped
<1>8. ASSUME NEW r \in Readers, LoadSnapshot(r)
      PROVE  StorageTypeOK'
  BY <1>8 DEF LoadSnapshot, StorageTypeOK
<1>9. CASE UNCHANGED storageVars
  BY <1>9 DEF storageVars, StorageTypeOK
<1> QED
  BY <1>1, <1>2, <1>3, <1>4, <1>5, <1>6, <1>7, <1>8, <1>9 DEF StorageNext

\* The state of the storage keeps its type under every client.
THEOREM TypeCorrect == StorageSpec => []StorageTypeOK
BY InitTyped, StepTyped, PTL DEF StorageSpec

------------------------------------------------------------------------------
(* The inductive invariant *)

\* A snapshot's references were handed out, and so are never reused for
\* anything else.
KnownReferences(s) ==
  /\ \A i \in DOMAIN s.segments : s.segments[i] \in DOMAIN segments
  /\ s.hotDelta < nextHotDelta

\* A reader's snapshot is an earlier manifest, or the current one itself.
PinnedManifest(s) ==
  /\ s.version <= manifest.version
  /\ s.version = manifest.version => s = manifest

StorageInv ==
  /\ StorageTypeOK
  /\ ManifestResolves
  /\ \A r \in Readers : KnownReferences(pins[r]) /\ PinnedManifest(pins[r])
  /\ RecentFreezesResolve

\* What a freeze keeps: the manifest's delta and the two newest.
LEMMA FreezeKeeps ==
  ASSUME StorageTypeOK, PublishHotDelta
  PROVE  /\ \A d \in DOMAIN hotDeltas' : d # nextHotDelta =>
              d \in DOMAIN hotDeltas /\ hotDeltas'[d] = hotDeltas[d]
         /\ nextHotDelta \in DOMAIN hotDeltas'
         /\ \A d \in DOMAIN hotDeltas :
              d = manifest.hotDelta \/ d >= nextHotDelta - 1 => d \in DOMAIN hotDeltas'
<1> DEFINE all == With(hotDeltas, nextHotDelta, FrozenDraft)
<1>1. /\ DOMAIN all = DOMAIN hotDeltas \cup {nextHotDelta}
      /\ \A d \in DOMAIN hotDeltas : d # nextHotDelta => all[d] = hotDeltas[d]
  BY DEF With
<1>2. hotDeltas' = [d \in Retained(DOMAIN all) |-> all[d]]
  BY DEF PublishHotDelta, CollectSupersededHotDeltas
<1>3. Retained(DOMAIN all) \subseteq DOMAIN all
  BY DEF Retained
<1>4. \A d \in DOMAIN all : d \in Int /\ d <= nextHotDelta
  BY <1>1 DEF StorageTypeOK
<1>5. nextHotDelta \in Retained(DOMAIN all)
  BY <1>1, <1>4 DEF Retained, StorageTypeOK
<1>6. \A d \in DOMAIN hotDeltas :
        d = manifest.hotDelta \/ d >= nextHotDelta - 1 => d \in Retained(DOMAIN all)
  BY <1>1, <1>4 DEF Retained, StorageTypeOK
<1>7. DOMAIN hotDeltas' = Retained(DOMAIN all)
  BY <1>2
<1>8. ASSUME NEW d \in DOMAIN hotDeltas', d # nextHotDelta
      PROVE  d \in DOMAIN hotDeltas /\ hotDeltas'[d] = hotDeltas[d]
  BY <1>1, <1>2, <1>3, <1>7, <1>8
<1> QED
  BY <1>5, <1>6, <1>7, <1>8

\* The invariant holds initially.
LEMMA InitInv == StorageInit => StorageInv
<1> SUFFICES ASSUME StorageInit PROVE StorageInv
  OBVIOUS
<1>1. StorageTypeOK
  BY InitTyped
<1>2. PICK start \in Starts : manifest = InitialManifest(start)
  BY DEF StorageInit
<1>3. manifest.segments = <<>> /\ manifest.hotDelta = 0 /\ nextHotDelta = 1
  BY <1>2 DEF InitialManifest, StorageInit
<1>4. ManifestResolves
  BY <1>3 DEF ManifestResolves, ValidReferences, Resolves
<1>5. ASSUME NEW r \in Readers
      PROVE  KnownReferences(pins[r]) /\ PinnedManifest(pins[r])
  <2>1. pins[r] = manifest
    BY DEF StorageInit
  <2>2. manifest.version \in Nat
    BY <1>1 DEF StorageTypeOK, Manifest
  <2> QED
    BY <1>3, <2>1, <2>2 DEF KnownReferences, PinnedManifest
<1>6. RecentFreezesResolve
  BY <1>3 DEF RecentFreezesResolve
<1> QED
  BY <1>1, <1>4, <1>5, <1>6 DEF StorageInv

\* Staging touches neither the manifest nor anything it refers to.
LEMMA QuietStep ==
  ASSUME StorageInv, StorageTypeOK',
         UNCHANGED <<manifest, segments, hotDeltas, nextHotDelta, pins>>
  PROVE  StorageInv'
<1>1. ManifestResolves'
  BY DEF StorageInv, ManifestResolves, ValidReferences, Resolves
<1>2. ASSUME NEW r \in Readers
      PROVE  KnownReferences(pins[r])' /\ PinnedManifest(pins[r])'
  BY DEF StorageInv, KnownReferences, PinnedManifest
<1>3. RecentFreezesResolve'
  BY DEF StorageInv, RecentFreezesResolve
<1> QED
  BY <1>1, <1>2, <1>3 DEF StorageInv

\* A manifest that resolves refers only to what was handed out.
LEMMA ManifestKnown ==
  ASSUME StorageInv
  PROVE  KnownReferences(manifest)
BY DEF StorageInv, ManifestResolves, ValidReferences, Resolves, KnownReferences,
       StorageTypeOK, Manifest

\* A freeze keeps the manifest resolvable and the grace period.
LEMMA FreezeInv ==
  ASSUME StorageInv, StorageTypeOK', PublishHotDelta
  PROVE  StorageInv'
<1>1. /\ manifest' = manifest /\ segments' = segments /\ pins' = pins
      /\ nextHotDelta' = nextHotDelta + 1
  BY DEF PublishHotDelta
<1>2. ManifestResolves'
  BY <1>1, FreezeKeeps DEF StorageInv, ManifestResolves, ValidReferences, Resolves
<1>3. ASSUME NEW r \in Readers
      PROVE  KnownReferences(pins[r])' /\ PinnedManifest(pins[r])'
  <2>1. pins[r].hotDelta \in Nat
    BY DEF StorageInv, StorageTypeOK, Manifest
  <2> QED
    BY <1>1, <2>1 DEF StorageInv, StorageTypeOK, KnownReferences, PinnedManifest
<1>4. RecentFreezesResolve'
  <2> SUFFICES ASSUME NEW d \in 1 .. nextHotDelta, d >= nextHotDelta - 1
               PROVE  d \in DOMAIN hotDeltas'
    BY <1>1 DEF RecentFreezesResolve, StorageInv, StorageTypeOK
  <2>1. CASE d = nextHotDelta
    BY <2>1, FreezeKeeps DEF StorageInv
  <2>2. CASE d # nextHotDelta
    <3>1. d \in 1 .. nextHotDelta - 1 /\ d >= nextHotDelta - 2
      BY <2>2 DEF StorageInv, StorageTypeOK
    <3>2. d \in DOMAIN hotDeltas
      BY <3>1 DEF StorageInv, RecentFreezesResolve
    <3> QED
      BY <3>2, FreezeKeeps DEF StorageInv
  <2> QED
    BY <2>1, <2>2
<1> QED
  BY <1>2, <1>3, <1>4 DEF StorageInv

\* A new segment leaves every reference handed out before it valid.
LEMMA SegmentInv ==
  ASSUME StorageInv, StorageTypeOK',
         NEW nodes \in PartialFn(Nodes, Record), InsertImmutableSegment(nodes)
  PROVE  StorageInv'
<1>1. /\ manifest' = manifest /\ hotDeltas' = hotDeltas /\ pins' = pins
      /\ nextHotDelta' = nextHotDelta
      /\ segments' = Append(segments, nodes)
  BY DEF InsertImmutableSegment
<1>2. DOMAIN segments \subseteq DOMAIN segments'
  BY <1>1 DEF StorageInv, StorageTypeOK
<1>3. ManifestResolves'
  BY <1>1, <1>2 DEF StorageInv, ManifestResolves, ValidReferences, Resolves
<1>4. ASSUME NEW r \in Readers
      PROVE  KnownReferences(pins[r])' /\ PinnedManifest(pins[r])'
  BY <1>1, <1>2 DEF StorageInv, KnownReferences, PinnedManifest
<1>5. RecentFreezesResolve'
  BY <1>1 DEF StorageInv, RecentFreezesResolve
<1> QED
  BY <1>3, <1>4, <1>5 DEF StorageInv

\* Publishing raises the version above every pinned one.
LEMMA CompareAndPublishInv ==
  ASSUME StorageInv, StorageTypeOK', NEW expected \in Nat, NEW replacement \in Manifest,
         CompareAndPublish(expected, replacement)
  PROVE  StorageInv'
<1>1. /\ segments' = segments /\ hotDeltas' = hotDeltas /\ pins' = pins
      /\ nextHotDelta' = nextHotDelta
      /\ manifest.version = expected
  BY DEF CompareAndPublish
<1>2. /\ manifest'.version = expected + 1
      /\ manifest'.segments = replacement.segments
      /\ manifest'.hotDelta = replacement.hotDelta
  BY DEF CompareAndPublish, Manifest
<1>3. ManifestResolves'
  <2>1. ValidReferences(replacement)
    BY DEF CompareAndPublish
  <2> QED
    BY <1>1, <1>2, <2>1 DEF ManifestResolves, ValidReferences, Resolves
<1>4. ASSUME NEW r \in Readers
      PROVE  KnownReferences(pins[r])' /\ PinnedManifest(pins[r])'
  <2>1. pins[r].version \in Nat /\ pins[r].version <= expected
    BY <1>1 DEF StorageInv, StorageTypeOK, Manifest, PinnedManifest
  <2>2. PinnedManifest(pins[r])'
    BY <1>1, <1>2, <2>1 DEF PinnedManifest
  <2> QED
    BY <1>1, <2>2 DEF StorageInv, KnownReferences
<1>5. RecentFreezesResolve'
  BY <1>1 DEF StorageInv, RecentFreezesResolve
<1> QED
  BY <1>3, <1>4, <1>5 DEF StorageInv

\* A reader that loads the manifest holds known references.
LEMMA LoadSnapshotInv ==
  ASSUME StorageInv, StorageTypeOK', NEW r \in Readers, LoadSnapshot(r)
  PROVE  StorageInv'
<1>1. /\ manifest' = manifest /\ segments' = segments /\ hotDeltas' = hotDeltas
      /\ nextHotDelta' = nextHotDelta
      /\ pins' = [pins EXCEPT ![r] = manifest]
  BY DEF LoadSnapshot
<1>2. ManifestResolves' /\ RecentFreezesResolve'
  BY <1>1 DEF StorageInv, ManifestResolves, ValidReferences, Resolves,
              RecentFreezesResolve
<1>3. ASSUME NEW q \in Readers
      PROVE  KnownReferences(pins[q])' /\ PinnedManifest(pins[q])'
  <2>1. CASE q = r
    <3>1. pins'[q] = manifest /\ manifest.version \in Nat
      BY <1>1, <2>1 DEF StorageInv, StorageTypeOK, Manifest
    <3> QED
      BY <1>1, <3>1, ManifestKnown DEF KnownReferences, PinnedManifest
  <2>2. CASE q # r
    <3>1. pins'[q] = pins[q]
      BY <1>1, <2>2 DEF StorageInv, StorageTypeOK
    <3> QED
      BY <1>1, <3>1 DEF StorageInv, KnownReferences, PinnedManifest
  <2> QED
    BY <2>1, <2>2
<1> QED
  BY <1>2, <1>3 DEF StorageInv

\* Every step keeps the invariant.
LEMMA StepInv == StorageInv /\ [StorageNext]_storageVars => StorageInv'
<1> SUFFICES ASSUME StorageInv, [StorageNext]_storageVars PROVE StorageInv'
  OBVIOUS
<1> USE StepTyped
<1>0. StorageTypeOK /\ StorageTypeOK'
  BY DEF StorageInv
<1>1. ASSUME NEW n \in Nodes, NEW record \in Record, AppendNode(n, record)
      PROVE  StorageInv'
  BY <1>0, <1>1, QuietStep DEF AppendNode
<1>2. ASSUME NEW n \in Nodes, NEW links \in Links, RewriteNeighbors(n, links)
      PROVE  StorageInv'
  BY <1>0, <1>2, QuietStep DEF RewriteNeighbors
<1>3. ASSUME NEW n \in Nodes, TombstoneNode(n)
      PROVE  StorageInv'
  BY <1>0, <1>3, QuietStep DEF TombstoneNode
<1>4. ASSUME NEW start \in Starts, UpdateStartNodes(start)
      PROVE  StorageInv'
  BY <1>0, <1>4, QuietStep DEF UpdateStartNodes
<1>5. CASE PublishHotDelta
  BY <1>0, <1>5, FreezeInv
<1>6. ASSUME NEW nodes \in PartialFn(Nodes, Record), InsertImmutableSegment(nodes)
      PROVE  StorageInv'
  BY <1>0, <1>6, SegmentInv
<1>7. ASSUME NEW expected \in 0 .. MaxVersion - 1, NEW list \in SegmentLists,
             NEW d \in 0 .. nextHotDelta - 1, NEW e \in 0 .. nextEpoch - 1,
             CompareAndPublish(expected, Replacement(list, d, e))
      PROVE  StorageInv'
  <2>1. Replacement(list, d, e) \in Manifest /\ expected \in Nat
    BY <1>0, ReplacementTyped
  <2> QED
    BY <1>0, <1>7, <2>1, CompareAndPublishInv
<1>8. ASSUME NEW r \in Readers, LoadSnapshot(r)
      PROVE  StorageInv'
  BY <1>0, <1>8, LoadSnapshotInv
<1>9. CASE UNCHANGED storageVars
  BY <1>0, <1>9, QuietStep DEF storageVars
<1> QED
  BY <1>1, <1>2, <1>3, <1>4, <1>5, <1>6, <1>7, <1>8, <1>9 DEF StorageNext

\* The invariant of the storage.
THEOREM Invariance == StorageSpec => []StorageInv
BY InitInv, StepInv, PTL DEF StorageSpec

\* The published manifest always resolves, whatever the writers stage,
\* freeze and publish, and in whatever order.
THEOREM ManifestAlwaysResolves == StorageSpec => []ManifestResolves
<1>1. StorageInv => ManifestResolves
  BY DEF StorageInv
<1> QED
  BY <1>1, Invariance, PTL

\* A reader loses its snapshot only after a later manifest was published.
THEOREM ExpiryNeedsPublish == StorageSpec => []ExpiredOnlyIfSuperseded
<1>1. StorageInv => ExpiredOnlyIfSuperseded
  <2> SUFFICES ASSUME StorageInv, NEW r \in Readers, ~Resolves(pins[r])
               PROVE  pins[r].version < manifest.version
    BY DEF ExpiredOnlyIfSuperseded
  <2>1. Resolves(manifest)
    BY DEF StorageInv, ManifestResolves, ValidReferences
  <2>2. pins[r] # manifest
    BY <2>1
  <2>3. pins[r].version \in Nat /\ manifest.version \in Nat
    BY DEF StorageInv, StorageTypeOK, Manifest
  <2> QED
    BY <2>2, <2>3 DEF StorageInv, PinnedManifest
<1> QED
  BY <1>1, Invariance, PTL

\* The grace period: a frozen delta outlives the next freeze.
THEOREM GracePeriod == StorageSpec => []RecentFreezesResolve
<1>1. StorageInv => RecentFreezesResolve
  BY DEF StorageInv
<1> QED
  BY <1>1, Invariance, PTL

------------------------------------------------------------------------------
(* The two read paths *)

\* The two resolution functions consult the same parts in the same order, so
\* the full vector is that of the record routing resolves, or missing if that
\* record has none (resolve_routing_node, resolve_full_vector).
THEOREM ReadPathsAgree == StorageSpec => []RoutingAndFullVectorAgree
<1>1. ASSUME NEW s, NEW n
      PROVE  LET routing == ReadNode(s, n)
                 full == ReadFullVector(s, n)
             IN  /\ full.kind = "present" =>
                      routing.kind = "present" /\ routing.row = full.row /\ full.row \notin Bare
                 /\ routing.kind = "present" /\ routing.row \notin Bare => full.kind = "present"
                 /\ full.kind = "tombstoned" <=> routing.kind = "tombstoned"
  <2>1. CASE Deleted(s, n)
    BY <2>1 DEF ReadNode, ReadFullVector, Tombstoned
  <2>2. CASE ~Deleted(s, n) /\ n \in DOMAIN DeltaOf(s).records
    BY <2>2 DEF ReadNode, ReadFullVector, Present, Vector, Missing
  <2>3. CASE ~Deleted(s, n) /\ n \notin DOMAIN DeltaOf(s).records /\ IsImmutable(s, n)
    <3>1. /\ ReadNode(s, n).kind = "present"
          /\ ReadNode(s, n).row = ImmutableRecord(s, n).row
      BY <2>3 DEF ReadNode, Present
    <3>2. ReadFullVector(s, n) = Vector(ImmutableRecord(s, n))
      BY <2>3 DEF ReadFullVector
    <3> QED
      BY <3>1, <3>2 DEF Vector, Missing
  <2>4. CASE ~Deleted(s, n) /\ n \notin DOMAIN DeltaOf(s).records /\ ~IsImmutable(s, n)
    BY <2>4 DEF ReadNode, ReadFullVector, Missing
  <2> QED
    BY <2>1, <2>2, <2>3, <2>4
<1>2. RoutingAndFullVectorAgree
  BY <1>1 DEF RoutingAndFullVectorAgree
<1> QED
  BY <1>2, PTL

------------------------------------------------------------------------------
(* Views *)

\* A nonempty set of naturals has a least element.
LEMMA LeastExists ==
  ASSUME NEW S \in SUBSET Nat, S # {}
  PROVE  \E i \in S : \A j \in S : i <= j
<1>1. PICK x \in S : \A y \in S : ~(<<y, x>> \in OpToRel(<, Nat))
  <2>1. IsWellFoundedOn(OpToRel(<, Nat), Nat)
    BY NatLessThanWellFounded, Zenon
  <2> QED
    BY <2>1, WFMin, Zenon
<1>2. ASSUME NEW y \in S
      PROVE  x <= y
  <2>1. ~(<<y, x>> \in OpToRel(<, Nat))
    BY <1>1
  <2>2. ~(y < x)
    BY <2>1 DEF OpToRel
  <2> QED
    BY <2>2
<1> QED
  BY <1>2

\* The segment a lookup stops at is one of the snapshot's that hold the node.
LEMMA FirstSegment ==
  ASSUME StorageTypeOK, NEW s \in Manifest, NEW n \in Nodes, IsImmutable(s, n)
  PROVE  (CHOOSE i \in SegmentsWith(s, n) : \A j \in SegmentsWith(s, n) : i <= j)
           \in SegmentsWith(s, n)
<1>1. SegmentsWith(s, n) \in SUBSET Nat
  BY DEF SegmentsWith, Manifest
<1>2. \E i \in SegmentsWith(s, n) : \A j \in SegmentsWith(s, n) : i <= j
  BY <1>1, LeastExists DEF IsImmutable
<1> QED
  BY <1>2

\* What a lookup in the segments returns is a record.
LEMMA ImmutableTyped ==
  ASSUME StorageTypeOK, NEW s \in Manifest, KnownReferences(s),
         NEW n \in Nodes, IsImmutable(s, n)
  PROVE  ImmutableRecord(s, n) \in Record
<1>1. PICK i \in SegmentsWith(s, n) :
        ImmutableRecord(s, n) = segments[s.segments[i]][n]
  BY FirstSegment DEF ImmutableRecord
<1>2. /\ s.segments[i] \in DOMAIN segments
      /\ n \in DOMAIN segments[s.segments[i]]
  BY DEF SegmentsWith, KnownReferences
<1>3. segments[s.segments[i]] \in PartialFn(Nodes, Record)
  BY <1>2 DEF StorageTypeOK
<1> QED
  BY <1>1, <1>2, <1>3, PartialApply

\* A snapshot that resolves has a well-typed view.
LEMMA ViewTyped ==
  ASSUME StorageTypeOK, NEW s \in Manifest, KnownReferences(s), Resolves(s)
  PROVE  View(s) \in [Nodes -> NodeRead]
<1>1. DeltaOf(s) \in Delta
  <2>1. CASE s.hotDelta = 0
    BY <2>1, EmptyPartial DEF DeltaOf, Delta
  <2>2. CASE s.hotDelta # 0
    BY <2>2 DEF DeltaOf, Resolves, StorageTypeOK
  <2> QED
    BY <2>1, <2>2
<1>2. ASSUME NEW n \in Nodes
      PROVE  ReadNode(s, n) \in NodeRead
  <2>1. ASSUME NEW record \in Record
        PROVE  Present(record) \in NodeRead
    BY DEF Record, Present, NodeRead
  <2>2. ASSUME NEW record \in Record, NEW links \in Links
        PROVE  [Present(record) EXCEPT !.links = links] \in NodeRead
    BY DEF Record, Present, NodeRead
  <2>3. n \in DOMAIN DeltaOf(s).records => DeltaOf(s).records[n] \in Record
    BY <1>1, PartialApply DEF Delta
  <2>4. n \in DOMAIN DeltaOf(s).rewrites => DeltaOf(s).rewrites[n] \in Links
    BY <1>1, PartialApply DEF Delta
  <2>5. IsImmutable(s, n) => ImmutableRecord(s, n) \in Record
    BY ImmutableTyped
  <2>6. Missing \in NodeRead /\ Tombstoned \in NodeRead
    BY DEF NodeRead
  <2> QED
    BY <2>1, <2>2, <2>3, <2>4, <2>5, <2>6 DEF ReadNode
<1> QED
  BY <1>2 DEF View

------------------------------------------------------------------------------
(* What leaves a view alone *)

\* Segments are never changed once stored.
SegmentsKept == \A i \in DOMAIN segments : segments'[i] = segments[i]

\* The delta of d, if it has one, is the same before and after.
DeltaKept(d) == d # 0 => hotDeltas'[d] = hotDeltas[d]

\* The view of a snapshot depends on its own segments and delta alone.
LEMMA ViewStable ==
  ASSUME StorageTypeOK, NEW s \in Manifest, KnownReferences(s),
         SegmentsKept, DeltaKept(s.hotDelta)
  PROVE  View(s)' = View(s)
<1>1. DeltaOf(s)' = DeltaOf(s)
  BY DEF DeltaOf, DeltaKept
<1>2. ASSUME NEW n \in Nodes
      PROVE  ReadNode(s, n)' = ReadNode(s, n)
  <2>1. SegmentsWith(s, n)' = SegmentsWith(s, n)
    BY DEF SegmentsWith, KnownReferences, SegmentsKept
  <2>2. IsImmutable(s, n)' <=> IsImmutable(s, n)
    BY <2>1 DEF IsImmutable
  <2>3. ASSUME IsImmutable(s, n)
        PROVE  ImmutableRecord(s, n)' = ImmutableRecord(s, n)
    <3> DEFINE first == CHOOSE i \in SegmentsWith(s, n) :
                          \A j \in SegmentsWith(s, n) : i <= j
    <3>1. first \in SegmentsWith(s, n)
      BY <2>3, FirstSegment
    <3>2. s.segments[first] \in DOMAIN segments
      BY <3>1 DEF SegmentsWith, KnownReferences
    <3>3. ImmutableRecord(s, n)' = segments'[s.segments[first]][n]
      BY <2>1 DEF ImmutableRecord
    <3>4. ImmutableRecord(s, n) = segments[s.segments[first]][n]
      BY DEF ImmutableRecord
    <3> QED
      BY <3>2, <3>3, <3>4 DEF SegmentsKept
  <2>4. Deleted(s, n)' <=> Deleted(s, n)
    BY <1>1 DEF Deleted
  <2> QED
    BY <1>1, <2>2, <2>3, <2>4 DEF ReadNode
<1> QED
  BY <1>2 DEF View

\* The manifest's view, in a step that leaves the manifest alone.
LEMMA ManifestViewStable ==
  ASSUME StorageInv, manifest' = manifest, SegmentsKept, DeltaKept(manifest.hotDelta)
  PROVE  View(manifest)' = View(manifest)
<1>1. PICK s \in Manifest : s = manifest
  BY DEF StorageInv, StorageTypeOK
<1>2. View(s)' = View(s)
  BY <1>1, ViewStable, ManifestKnown DEF StorageInv
<1>3. View(manifest)' = View(s)'
  BY <1>1 DEF View, ReadNode, Deleted, DeltaOf, IsImmutable, ImmutableRecord, SegmentsWith
<1>4. View(manifest) = View(s)
  BY <1>1
<1> QED
  BY <1>2, <1>3, <1>4

\* A reader's view, in a step that leaves its pin and its delta alone.
LEMMA PinnedViewStable ==
  ASSUME StorageInv, NEW r \in Readers, pins'[r] = pins[r],
         SegmentsKept, DeltaKept(pins[r].hotDelta),
         Resolves(pins[r])' <=> Resolves(pins[r])
  PROVE  PinnedView(r)' = PinnedView(r)
<1>1. PICK s \in Manifest : s = pins[r]
  BY DEF StorageInv, StorageTypeOK
<1>2. View(s)' = View(s)
  BY <1>1, ViewStable DEF StorageInv
<1>3. View(pins[r])' = View(s)'
  <2>1. pins'[r] = s
    BY <1>1
  <2> QED
    BY <2>1 DEF View, ReadNode, Deleted, DeltaOf, IsImmutable, ImmutableRecord, SegmentsWith
<1>4. View(pins[r]) = View(s)
  BY <1>1
<1> QED
  BY <1>2, <1>3, <1>4 DEF PinnedView

\* The current contents are contents the snapshot store allows.
ContentsTyped == View(manifest) \in [Nodes -> NodeRead]

\* In every state of the invariant the manifest's view is well typed.
LEMMA ManifestViewTyped == StorageInv => ContentsTyped
<1> SUFFICES ASSUME StorageInv PROVE ContentsTyped
  OBVIOUS
<1>1. PICK s \in Manifest : s = manifest
  BY DEF StorageInv, StorageTypeOK
<1>2. StorageTypeOK /\ KnownReferences(s) /\ Resolves(s)
  BY <1>1, ManifestKnown DEF StorageInv, ManifestResolves, ValidReferences
<1>3. View(s) \in [Nodes -> NodeRead]
  BY <1>2, ViewTyped
<1> QED
  BY <1>1, <1>3 DEF ContentsTyped

------------------------------------------------------------------------------
(* Step by step *)

\* A stutter of the snapshot store.
Invisible ==
  /\ manifest'.version = manifest.version
  /\ View(manifest)' = View(manifest)
  /\ \A r \in Readers : PinnedView(r)' = PinnedView(r)

\* An invisible step leaves every variable of the snapshot store alone.
LEMMA InvisibleStutters == Invisible => UNCHANGED Store!abstractVars
<1> SUFFICES ASSUME Invisible PROVE UNCHANGED Store!abstractVars
  OBVIOUS
<1>1. [r \in Readers |-> PinnedView(r)]' = [r \in Readers |-> PinnedView(r)]
  BY DEF Invisible
<1> QED
  BY <1>1 DEF Invisible, Store!abstractVars

\* Staging, and storing a segment, are invisible.
LEMMA QuietInvisible ==
  ASSUME StorageInv, UNCHANGED <<manifest, hotDeltas, pins>>, SegmentsKept
  PROVE  Invisible
<1>1. \A d \in Nat : DeltaKept(d)
  BY DEF DeltaKept
<1>2. manifest.hotDelta \in Nat /\ \A r \in Readers : pins[r].hotDelta \in Nat
  BY DEF StorageInv, StorageTypeOK, Manifest
<1>3. View(manifest)' = View(manifest)
  BY <1>1, <1>2, ManifestViewStable
<1>4. ASSUME NEW r \in Readers
      PROVE  PinnedView(r)' = PinnedView(r)
  <2>1. Resolves(pins[r])' <=> Resolves(pins[r])
    BY DEF Resolves
  <2> QED
    BY <1>1, <1>2, <2>1, PinnedViewStable
<1> QED
  BY <1>3, <1>4 DEF Invisible

\* A freeze drops the views whose delta it collects, and those had been
\* superseded; every other view, and the current contents, stay as they are.
LEMMA FreezeExpires ==
  ASSUME StorageInv, StorageInv', PublishHotDelta
  PROVE  \E S \in SUBSET Readers : Store!Expire(S)
<1> DEFINE S == {r \in Readers : Resolves(pins[r]) /\ ~Resolves(pins[r])'}
<1>1. /\ manifest' = manifest /\ segments' = segments /\ pins' = pins
      /\ nextHotDelta' = nextHotDelta + 1
  BY DEF PublishHotDelta
<1>2. SegmentsKept
  BY <1>1 DEF SegmentsKept
<1>3. \A d \in DOMAIN hotDeltas' : d # nextHotDelta =>
        d \in DOMAIN hotDeltas /\ hotDeltas'[d] = hotDeltas[d]
  BY FreezeKeeps DEF StorageInv
<1>4. View(manifest)' = View(manifest)
  <2>1. Resolves(manifest)'
    BY DEF StorageInv, ManifestResolves, ValidReferences
  <2>2. manifest.hotDelta \in Nat /\ manifest.hotDelta < nextHotDelta
    BY ManifestKnown DEF KnownReferences, StorageInv, StorageTypeOK, Manifest
  <2>3. DeltaKept(manifest.hotDelta)
    BY <1>1, <1>3, <2>1, <2>2 DEF Resolves, DeltaKept, StorageInv, StorageTypeOK
  <2> QED
    BY <1>1, <1>2, <2>3, ManifestViewStable
<1>5. ASSUME NEW r \in Readers
      PROVE  /\ pins[r].hotDelta \in Nat /\ pins[r].hotDelta < nextHotDelta
             /\ nextHotDelta \in Nat
  BY DEF StorageInv, StorageTypeOK, Manifest, KnownReferences
<1>6. ASSUME NEW r \in Readers, r \notin S
      PROVE  PinnedView(r)' = PinnedView(r)
  <2>1. CASE Resolves(pins[r])
    <3>1. Resolves(pins[r])'
      BY <1>6, <2>1
    <3>2. DeltaKept(pins[r].hotDelta)
      BY <1>1, <1>3, <1>5, <3>1 DEF Resolves, DeltaKept
    <3> QED
      BY <1>1, <1>2, <2>1, <3>1, <3>2, PinnedViewStable
  <2>2. CASE ~Resolves(pins[r])
    <3>1. ~Resolves(pins[r])'
      BY <1>1, <1>3, <1>5, <2>2 DEF Resolves
    <3> QED
      BY <1>1, <2>2, <3>1 DEF PinnedView
  <2> QED
    BY <2>1, <2>2
<1>7. ASSUME NEW r \in S
      PROVE  /\ PinnedView(r)' = [PinnedView(r) EXCEPT !.reads = ExpiredView]
             /\ pins[r].version < manifest.version
  <2>1. PinnedView(r)' = [version |-> pins[r].version, reads |-> ExpiredView]
    BY <1>1 DEF PinnedView, ExpiredView
  <2>2. pins'[r].version < manifest'.version
    <3>1. Resolves(manifest)'
      BY DEF StorageInv, ManifestResolves, ValidReferences
    <3>2. pins'[r] # manifest'
      BY <3>1
    <3>3. pins'[r].version \in Nat /\ manifest'.version \in Nat
      BY DEF StorageInv, StorageTypeOK, Manifest
    <3> QED
      BY <3>2, <3>3 DEF StorageInv, PinnedManifest
  <2> QED
    BY <1>1, <2>1, <2>2 DEF PinnedView
<1>8. [r \in Readers |-> PinnedView(r)]' =
        [r \in Readers |-> IF r \in S
                           THEN [PinnedView(r) EXCEPT !.reads = ExpiredView]
                           ELSE PinnedView(r)]
  BY <1>6, <1>7
<1>9. \A r \in S : [q \in Readers |-> PinnedView(q)][r].version < manifest.version
  BY <1>7 DEF PinnedView
<1> QED
  <2>1. Store!Expire(S)
    BY <1>1, <1>4, <1>8, <1>9 DEF Store!Expire
  <2> QED
    BY <2>1

\* Swapping the manifest publishes new contents and touches no view.
LEMMA SwapPublishes ==
  ASSUME StorageInv, ContentsTyped',
         NEW expected \in Nat, NEW replacement \in Manifest,
         CompareAndPublish(expected, replacement)
  PROVE  Store!Publish
<1>1. /\ segments' = segments /\ hotDeltas' = hotDeltas /\ pins' = pins
      /\ manifest.version = expected
      /\ manifest'.version = expected + 1
  BY DEF CompareAndPublish, Manifest
<1>2. SegmentsKept
  BY <1>1 DEF SegmentsKept
<1>3. ASSUME NEW r \in Readers
      PROVE  PinnedView(r)' = PinnedView(r)
  <2>1. DeltaKept(pins[r].hotDelta)
    BY <1>1 DEF DeltaKept
  <2>2. Resolves(pins[r])' <=> Resolves(pins[r])
    BY <1>1 DEF Resolves
  <2> QED
    BY <1>1, <1>2, <2>1, <2>2, PinnedViewStable
<1>4. [r \in Readers |-> PinnedView(r)]' = [r \in Readers |-> PinnedView(r)]
  BY <1>3
<1> QED
  BY <1>1, <1>4 DEF Store!Publish, ContentsTyped

\* Loading a snapshot pins the current version and contents.
LEMMA LoadPins ==
  ASSUME StorageInv, NEW r \in Readers, LoadSnapshot(r)
  PROVE  Store!Pin(r)
<1>1. /\ segments' = segments /\ hotDeltas' = hotDeltas /\ manifest' = manifest
      /\ pins' = [pins EXCEPT ![r] = manifest]
  BY DEF LoadSnapshot
<1>2. SegmentsKept /\ \A d \in Nat : DeltaKept(d)
  BY <1>1 DEF SegmentsKept, DeltaKept
<1>3. View(manifest)' = View(manifest)
  <2>1. manifest.hotDelta \in Nat
    BY DEF StorageInv, StorageTypeOK, Manifest
  <2> QED
    BY <1>1, <1>2, <2>1, ManifestViewStable
<1>4. PinnedView(r)' = [version |-> manifest.version, reads |-> View(manifest)]
  <2>1. pins'[r] = manifest'
    BY <1>1 DEF StorageInv, StorageTypeOK
  <2>2. Resolves(manifest)'
    BY <1>1 DEF StorageInv, ManifestResolves, ValidReferences, Resolves
  <2>3. Resolves(pins[r])'
    BY <2>1, <2>2 DEF Resolves
  <2>4. View(pins[r])' = View(manifest)'
    BY <2>1 DEF View, ReadNode, Deleted, DeltaOf, IsImmutable, ImmutableRecord, SegmentsWith
  <2> QED
    BY <1>1, <1>3, <2>1, <2>3, <2>4 DEF PinnedView
<1>5. ASSUME NEW q \in Readers, q # r
      PROVE  PinnedView(q)' = PinnedView(q)
  <2>1. pins'[q] = pins[q] /\ pins[q].hotDelta \in Nat
    BY <1>1, <1>5 DEF StorageInv, StorageTypeOK, Manifest
  <2>2. Resolves(pins[q])' <=> Resolves(pins[q])
    BY <1>1, <2>1 DEF Resolves
  <2> QED
    BY <1>2, <2>1, <2>2, PinnedViewStable
<1>6. [q \in Readers |-> PinnedView(q)]' =
        [[q \in Readers |-> PinnedView(q)] EXCEPT
           ![r] = [version |-> manifest.version, reads |-> View(manifest)]]
  BY <1>4, <1>5
<1> QED
  BY <1>1, <1>3, <1>6 DEF Store!Pin

------------------------------------------------------------------------------
(* The refinement *)

\* The initial storage maps to an initial snapshot store.
LEMMA InitMaps == StorageInit => Store!Init
<1> SUFFICES ASSUME StorageInit PROVE Store!Init
  OBVIOUS
<1>1. StorageInv
  BY InitInv
<1>2. PICK start \in Starts : manifest = InitialManifest(start)
  BY DEF StorageInit
<1>3. manifest.version = 0 /\ manifest.hotDelta = 0
  BY <1>2 DEF InitialManifest
<1>4. View(manifest) \in [Nodes -> NodeRead]
  BY <1>1, ManifestViewTyped DEF ContentsTyped
<1>5. ASSUME NEW r \in Readers
      PROVE  PinnedView(r) = [version |-> manifest.version, reads |-> View(manifest)]
  <2>1. pins[r] = manifest
    BY DEF StorageInit
  <2> QED
    BY <1>3, <2>1 DEF PinnedView, Resolves
<1> QED
  BY <1>3, <1>4, <1>5 DEF Store!Init

\* Every step of the storage maps to a step or a stutter of the store.
LEMMA StepMaps ==
  /\ StorageInv /\ StorageInv' /\ ContentsTyped'
  /\ [StorageNext]_storageVars
  => [Store!Next]_Store!abstractVars
<1> SUFFICES ASSUME StorageInv, StorageInv', ContentsTyped', [StorageNext]_storageVars
             PROVE  [Store!Next]_Store!abstractVars
  OBVIOUS
<1>0. ASSUME UNCHANGED <<manifest, hotDeltas, pins, segments>>
      PROVE  UNCHANGED Store!abstractVars
  <2>1. SegmentsKept
    BY <1>0 DEF SegmentsKept
  <2> QED
    BY <1>0, <2>1, QuietInvisible, InvisibleStutters
<1>1. ASSUME NEW n \in Nodes, NEW record \in Record, AppendNode(n, record)
      PROVE  UNCHANGED Store!abstractVars
  BY <1>0, <1>1 DEF AppendNode
<1>2. ASSUME NEW n \in Nodes, NEW links \in Links, RewriteNeighbors(n, links)
      PROVE  UNCHANGED Store!abstractVars
  BY <1>0, <1>2 DEF RewriteNeighbors
<1>3. ASSUME NEW n \in Nodes, TombstoneNode(n)
      PROVE  UNCHANGED Store!abstractVars
  BY <1>0, <1>3 DEF TombstoneNode
<1>4. ASSUME NEW start \in Starts, UpdateStartNodes(start)
      PROVE  UNCHANGED Store!abstractVars
  BY <1>0, <1>4 DEF UpdateStartNodes
<1>5. CASE PublishHotDelta
  <2>1. \E S \in SUBSET Readers : Store!Expire(S)
    BY <1>5, FreezeExpires
  <2> QED
    BY <2>1 DEF Store!Next
<1>6. ASSUME NEW nodes \in PartialFn(Nodes, Record), InsertImmutableSegment(nodes)
      PROVE  UNCHANGED Store!abstractVars
  <2>1. UNCHANGED <<manifest, hotDeltas, pins>> /\ segments' = Append(segments, nodes)
    BY <1>6 DEF InsertImmutableSegment
  <2>2. SegmentsKept
    BY <2>1 DEF SegmentsKept, StorageInv, StorageTypeOK
  <2> QED
    BY <2>1, <2>2, QuietInvisible, InvisibleStutters
<1>7. ASSUME NEW expected \in 0 .. MaxVersion - 1, NEW list \in SegmentLists,
             NEW d \in 0 .. nextHotDelta - 1, NEW e \in 0 .. nextEpoch - 1,
             CompareAndPublish(expected, Replacement(list, d, e))
      PROVE  Store!Publish
  <2>1. Replacement(list, d, e) \in Manifest /\ expected \in Nat
    BY ReplacementTyped DEF StorageInv
  <2> QED
    BY <1>7, <2>1, SwapPublishes
<1>8. ASSUME NEW r \in Readers, LoadSnapshot(r)
      PROVE  Store!Pin(r)
  BY <1>8, LoadPins
<1>9. CASE UNCHANGED storageVars
  BY <1>0, <1>9 DEF storageVars
<1> QED
  BY <1>1, <1>2, <1>3, <1>4, <1>5, <1>6, <1>7, <1>8, <1>9 DEF StorageNext, Store!Next

\* The memory backend implements the snapshot store, for every set of nodes
\* and readers and every bound: what a reader pinned never changes under it,
\* and is only ever dropped once superseded.
THEOREM RefinesSnapshotStore == StorageSpec => ImplementsSnapshotStore
<1>1. StorageSpec => []StorageInv
  BY Invariance
<1> QED
  BY <1>1, ManifestViewTyped, InitMaps, StepMaps,
     PTL DEF StorageSpec, ImplementsSnapshotStore, Store!Spec

==============================================================================
