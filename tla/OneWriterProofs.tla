--------------------------- MODULE OneWriterProofs ---------------------------
(***************************************************************************)
(* The index with one caller, over a storage that does not fail, reopened  *)
(* any number of times: what the manifest shows between two mutations, its *)
(* start nodes, the ids it promises the next process, and how long a       *)
(* reader's snapshot lasts.                                                *)
(*                                                                         *)
(* With one caller no mutation ever fails.  So the draft is, between two   *)
(* mutations, what was published last, and during one it differs only in   *)
(* the node that is being inserted or deleted.                             *)
(***************************************************************************)
EXTENDS OnlineIndexProofs

\* One caller, no failing storage, no bulk build over staged mutations.
OneCaller ==
  /\ \E w : Writers = {w}
  /\ ~StorageMayFail
  /\ ~BuildAnytime

------------------------------------------------------------------------------
(* The invariant *)

\* The start nodes are among these rows and carry the labels they stand for.
Fits(start, rows) ==
  /\ \A l \in DOMAIN start.labeled :
       start.labeled[l] \in DOMAIN rows /\ l \in LabelsOf[rows[start.labeled[l]]]
  /\ start.default # EmptyStart => start.default \in DOMAIN rows
  /\ start.default = EmptyStart => start.labeled = EmptyFn

\* No label loses its entry while the node it names stays.
KeepsEntries(start, rows) ==
  \A l \in DOMAIN manifest.start.labeled :
    manifest.start.labeled[l] \in DOMAIN rows => l \in DOMAIN start.labeled

GoodStart(start, rows) == Fits(start, rows) /\ KeepsEntries(start, rows)

\* The rows the clients will be owed when the mutation is acknowledged, and
\* the start nodes it publishes.
Promised(w) == IF Inserting(w) THEN With(owed, Node(w), Mutation(w).row) ELSE owed
OrManifest(start) == IF start = NoStart THEN manifest.start ELSE start

\* The manifest a mutation works on is the current one.
SeenIsCurrent(w) ==
  /\ op[w] \in StageOps \cup InsertOps \cup RepairOps \cup DeleteOps \cup PublishOps =>
       Seen(w) = manifest
  /\ op[w] \in SwapOps => op[w].seen = manifest

\* Nothing it does can be refused: its links are to other nodes, what it froze
\* is retained.  The manifest's delta is the last one published.
NeverRefused(w) ==
  /\ At(w, "append") => op[w].node \notin op[w].todo
  /\ ~At(w, "publish") => manifest.hotDelta = nextHotDelta - 1
  /\ At(w, "publish") =>
       /\ manifest.hotDelta = nextHotDelta - 2 /\ op[w].delta = nextHotDelta - 1
       /\ op[w].delta \in DOMAIN hotDeltas
       /\ hotDeltas[op[w].delta] = FrozenDraft /\ op[w].start = draft.start

\* Every id in use is covered by the high-water mark, but for the insert's.
IdsCovered ==
  /\ \A n \in InUse : n <= manifest.maxId \/ \E w \in Writers : Inserting(w) /\ n = Node(w)
  /\ \A w \in Writers : Deleting(w) => Node(w) <= manifest.maxId

\* A reader of the delta finds nothing but what is owed, or being changed.
NoStrangers(delta) ==
  \A n \in (DOMAIN delta.records \cup Built) \ DOMAIN delta.tombstones :
    n \in DOMAIN owed \/ \E w \in Writers : Busy(w) /\ n = Node(w)

\* A snapshot one publish old has the delta before the manifest's.
PinsRecent ==
  \A r \in Readers : pins[r].version + 1 = manifest.version =>
    pins[r].hotDelta \in {0, manifest.hotDelta - 1}

Calm ==
  /\ IdsCovered /\ NoStrangers(draft) /\ NoStrangers(DeltaOf(manifest)) /\ PinsRecent
  /\ \A w \in Writers : SeenIsCurrent(w) /\ NeverRefused(w)

OneWriterInv == Inv /\ StorageInv /\ Calm

\* The start nodes a mutation plans and stages fit the rows it leaves.
StartsGood(w) ==
  /\ op[w].pc \in {"tombstone", "repair"} => GoodStart(OrManifest(op[w].start), owed)
  /\ op[w].pc \in {"freeze", "publish"} => GoodStart(OrManifest(draft.start), Promised(w))
  /\ op[w].pc \notin {"freeze", "publish"} => draft.start \in {NoStart, manifest.start}
  /\ Building(w) => draft.start = NoStart

StartsInv == StartNodesLive /\ \A w \in Writers : StartsGood(w)

\* Bulk builds start over the first manifest, which has no start nodes.
FirstBuild ==
  /\ manifest.version = 0 => manifest.start.labeled = EmptyFn
  /\ \A w \in Writers : op[w].pc \in {"load", "swap"} => manifest.version < MaxBulkBuilds

------------------------------------------------------------------------------
(* What a reader of the manifest finds *)

\* One caller: nobody else.
LEMMA TheCaller ==
  ASSUME OneCaller
  PROVE  /\ \A v, w \in Writers : v = w
         /\ ~StorageMayFail /\ ~BuildAnytime /\ BulkFirst
         /\ \E w \in Writers : TRUE
BY DEF OneCaller, BulkFirst

\* The rows owed to the clients are visible.
LEMMA Visible == Inv => OwedRowsVisible
BY HonestReads

\* Every id in use is a node.
LEMMA UsedAreNodes == Typed => InUse \subseteq Nodes
BY DraftFacts DEF InUse, Staged

\* A node the manifest shows is in its delta or in a segment, and has no
\* tombstone.
LEMMA PresentIsUntombstoned ==
  ManifestOK => \A n \in Nodes : IsPresent(manifest, n) =>
    n \in Shown \ DOMAIN DeltaOf(manifest).tombstones
<1> SUFFICES ASSUME ManifestOK, NEW n \in Nodes, IsPresent(manifest, n)
             PROVE  n \in Shown \ DOMAIN DeltaOf(manifest).tombstones
  OBVIOUS
<1>1. ~Deleted(manifest, n)
  BY DEF IsPresent, ReadNode, Tombstoned
<1>2. n \notin DOMAIN DeltaOf(manifest).tombstones
  BY <1>1 DEF Deleted, ManifestOK, EpochsWithin
<1>3. n \in Shown
  BY DEF IsPresent, ReadNode, Tombstoned, Missing, Shown, Built
<1> QED
  BY <1>2, <1>3

\* No record is stored under the id that stands for no node.
LEMMA NoEmptyNode ==
  ASSUME Typed
  PROVE  EmptyStart \notin Nodes /\ ~IsPresent(manifest, EmptyStart)
<1>1. EmptyStart \notin Nodes
  BY Counters DEF EmptyStart
<1>2. EmptyStart \notin DOMAIN DeltaOf(manifest).records
  BY <1>1, ShownInUse, UsedAreNodes DEF Shown
<1>3. ASSUME NEW i \in DOMAIN manifest.segments
      PROVE  EmptyStart \notin DOMAIN segments[manifest.segments[i]]
  <2>1. manifest.segments[i] \in DOMAIN segments
    BY <1>3 DEF Typed, ManifestResolves, ValidReferences
  <2>2. segments[manifest.segments[i]] \in PartialFn(Nodes, Record)
    BY <2>1 DEF Typed, StorageTypeOK
  <2> QED
    BY <1>1, <2>2, PartialApply
<1>4. ~IsImmutable(manifest, EmptyStart)
  BY <1>3 DEF IsImmutable, SegmentsWith
<1> QED
  BY <1>1, <1>2, <1>4 DEF IsPresent, ReadNode, Tombstoned, Missing

\* While nothing is being deleted the manifest shows what is owed, no less
\* and no more.
Exact ==
  /\ PresentNodes(manifest) = DOMAIN owed
  /\ \A n \in DOMAIN owed : LabelsIn(manifest, n) = LabelsOf[owed[n]]

LEMMA ShowsTheOwed ==
  OneWriterInv /\ (\A w \in Writers : ~Deleting(w)) => Exact
<1> SUFFICES ASSUME OneWriterInv, \A w \in Writers : ~Deleting(w) PROVE Exact
  OBVIOUS
<1> USE DEF OneWriterInv, Calm
<1>1. OwedRowsVisible /\ DOMAIN owed \subseteq Nodes
  BY Visible, DraftFacts DEF Inv
<1>2. DOMAIN owed \subseteq PresentNodes(manifest)
  BY <1>1 DEF OwedRowsVisible, PresentNodes
<1>3. \A n \in DOMAIN owed : LabelsIn(manifest, n) = LabelsOf[owed[n]]
  BY <1>1 DEF OwedRowsVisible, LabelsIn
<1>4. ASSUME NEW n \in PresentNodes(manifest), n \notin DOMAIN owed
      PROVE  FALSE
  <2>1. n \in Shown \ DOMAIN DeltaOf(manifest).tombstones
    BY PresentIsUntombstoned DEF PresentNodes, Inv
  <2>2. PICK w \in Writers : Busy(w) /\ n = Node(w)
    BY <1>4, <2>1 DEF NoStrangers, Shown
  <2>3. Inserting(w)
    BY <2>2 DEF Busy
  <2>4. CASE Planning(w)
    BY <2>1, <2>2, <2>4, ShownInUse DEF Inv, FreshOK
  <2>5. CASE ~Planning(w)
    <3>1. op[w] \in StageOps \cup InsertOps \cup PublishOps
      BY <2>3, <2>5, Kinds, Stages DEF Inserting, Planning, At, Inv, Typed
    <3>2. Seen(w) = manifest
      BY <3>1 DEF SeenIsCurrent
    <3>3. Alone(w)
      BY <2>3, <2>5, <3>2 DEF Inv, InsertOK, Current
    <3> QED
      BY <2>1, <2>2, <3>3 DEF Alone
  <2> QED
    BY <2>4, <2>5
<1> QED
  BY <1>2, <1>3, <1>4 DEF Exact

\* So the start nodes are live exactly when they fit the rows owed.
LEMMA StartsFitTheOwed == Typed /\ Exact => (StartNodesLive <=> Fits(manifest.start, owed))
<1> SUFFICES ASSUME Typed, Exact PROVE StartNodesLive <=> Fits(manifest.start, owed)
  OBVIOUS
<1> DEFINE start == manifest.start
<1>1. start \in StartMaps
  BY IndexAssumption DEF Typed, StorageTypeOK, Manifest
<1>2. /\ \A l \in DOMAIN start.labeled : start.labeled[l] \in Nodes
      /\ start.default # EmptyStart => start.default \in Nodes
  <2>1. start.labeled \in PartialFn(Labels, Nodes) /\ start.default \in Nodes \cup {EmptyStart}
    BY <1>1 DEF StartMaps
  <2> HIDE DEF start
  <2> QED
    BY <2>1, PartialApply
<1>3. \A n \in Nodes : IsPresent(manifest, n) <=> n \in DOMAIN owed
  BY DEF Exact, PresentNodes
<1>4. \A n \in DOMAIN owed : LabelsIn(manifest, n) = LabelsOf[owed[n]]
  BY DEF Exact
<1> QED
  BY <1>2, <1>3, <1>4 DEF StartNodesLive, Fits

------------------------------------------------------------------------------
(* Steps that only stage *)

\* A writer that is in an insert, or in a delete, after a step.
LEMMA InInsert ==
  ASSUME NEW w \in Writers, NEW o \in PlanOps \cup StageOps \cup InsertOps, op'[w] = o
  PROVE  /\ Inserting(w)' /\ Busy(w)' /\ ~Deleting(w)' /\ ~Building(w)' /\ ~At(w, "publish")'
         /\ Mutation(w)' = o /\ Node(w)' = o.node /\ Seen(w)' = o.seen
         /\ \A pc : At(w, pc)' <=> o.pc = pc
<1>1. o.pc \in {"plan", "append", "link", "freeze"}
  BY Stages
<1>2. o \notin RepairOps \cup DeleteOps \cup LoadOps \cup SwapOps \cup ResetOps
  BY <1>1, Stages, Shapes
<1> QED
  BY <1>1, <1>2 DEF Inserting, Busy, Deleting, Building, At, Mutation, Node, Seen

LEMMA InDelete ==
  ASSUME NEW w \in Writers, NEW o \in RepairOps \cup DeleteOps, op'[w] = o
  PROVE  /\ Deleting(w)' /\ Busy(w)' /\ ~Inserting(w)' /\ ~Building(w)' /\ ~At(w, "publish")'
         /\ Mutation(w)' = o /\ Node(w)' = o.node /\ Seen(w)' = o.seen
         /\ \A pc : At(w, pc)' <=> o.pc = pc
<1>1. o.pc \in {"tombstone", "repair", "freeze"}
  BY Stages
<1>2. o \notin PlanOps \cup StageOps \cup InsertOps \cup LoadOps \cup SwapOps \cup ResetOps
  BY <1>1, Stages, Shapes
<1> QED
  BY <1>1, <1>2 DEF Inserting, Busy, Deleting, Building, At, Mutation, Node, Seen

\* A step of a mutation that changes, in the draft, nothing but the rows and
\* tombstones of its own node, and publishes nothing.
LEMMA StagedCalm ==
  ASSUME OneWriterInv, Typed', NEW w \in Writers, \A v \in Writers : v = w,
         UNCHANGED <<manifest, segments, hotDeltas, nextHotDelta, pins, gone>>,
         DOMAIN owed' \subseteq DOMAIN owed,
         \A n \in DOMAIN owed \ DOMAIN owed' : n = Node(w)',
         \A n \in Nodes \ {Node(w)'} :
           /\ n \in DOMAIN draft'.records <=> n \in DOMAIN draft.records
           /\ n \in DOMAIN draft'.tombstones <=> n \in DOMAIN draft.tombstones,
         Busy(w)', Busy(w) => Node(w)' = Node(w), Inserting(w) => Inserting(w)',
         Deleting(w)' => Node(w)' <= manifest.maxId,
         ~At(w, "publish"), ~At(w, "publish")', SeenIsCurrent(w)',
         At(w, "append")' => op'[w].node \notin op'[w].todo
  PROVE  Calm'
<1> USE DEF OneWriterInv, Calm
<1>1. /\ Built' = Built /\ Frozen' = Frozen /\ DeltaOf(manifest)' = DeltaOf(manifest)
  BY DEF Built, IsImmutable, SegmentsWith, Frozen, DeltaOf
<1>2. /\ DOMAIN draft.records \subseteq Nodes /\ DOMAIN draft.tombstones \subseteq Nodes
      /\ DOMAIN draft'.records \subseteq Nodes /\ DOMAIN draft'.tombstones \subseteq Nodes
      /\ Built \subseteq Nodes
  BY DraftFacts, PartialApply DEF Inv, Typed, StorageTypeOK, Draft
<1>3. IdsCovered'
  <2>1. \A n \in InUse' : n \in InUse \/ n = Node(w)'
    BY <1>1, <1>2 DEF InUse, Staged
  <2>2. \A n \in InUse : n <= manifest.maxId \/ (Inserting(w) /\ n = Node(w))
    BY DEF IdsCovered
  <2>3. \A n \in InUse' : n <= manifest.maxId \/ (Inserting(w)' /\ n = Node(w)')
    BY <2>1, <2>2 DEF Busy
  <2> QED
    BY <2>3 DEF IdsCovered
<1>4. ASSUME NEW some, NEW other, NoStrangers(some),
             \A n \in Nodes \ {Node(w)'} :
               /\ n \in DOMAIN other.records <=> n \in DOMAIN some.records
               /\ n \in DOMAIN other.tombstones <=> n \in DOMAIN some.tombstones,
             DOMAIN other.records \subseteq Nodes
      PROVE  NoStrangers(other)'
  <2> SUFFICES ASSUME NEW n \in (DOMAIN other.records \cup Built) \ DOMAIN other.tombstones,
                      n # Node(w)'
               PROVE  n \in DOMAIN owed'
    BY <1>1 DEF NoStrangers
  <2>1. n \in (DOMAIN some.records \cup Built) \ DOMAIN some.tombstones
    BY <1>2, <1>4
  <2>2. n \in DOMAIN owed \/ (Busy(w) /\ n = Node(w))
    BY <1>4, <2>1 DEF NoStrangers
  <2> QED
    BY <2>2
<1>5. NoStrangers(draft)'
  <2>1. PICK some : some = draft'
    OBVIOUS
  <2>2. NoStrangers(some)'
    BY <1>2, <1>4, <2>1
  <2> QED
    BY <2>1, <2>2 DEF NoStrangers
<1>6. NoStrangers(DeltaOf(manifest))'
  <2>1. PICK some : some = DeltaOf(manifest)
    OBVIOUS
  <2>2. DOMAIN some.records \subseteq Nodes
    BY <2>1, ShownInUse, UsedAreNodes DEF Shown, Inv
  <2>3. NoStrangers(some)'
    BY <1>4, <2>1, <2>2
  <2> QED
    BY <1>1, <2>1, <2>3 DEF NoStrangers
<1>7. PinsRecent'
  BY DEF PinsRecent
<1>8. NeverRefused(w)'
  BY DEF NeverRefused, At
<1> QED
  BY <1>3, <1>5, <1>6, <1>7, <1>8

\* The mutation a step leaves its writer in.
LEMMA NextOp ==
  ASSUME Typed, Typed', NEW w \in Writers, NEW o, Goto(w, o)
  PROVE  /\ op'[w] = o /\ o \in Ops
         /\ o.pc = "plan" => o \in PlanOps
         /\ o.pc \in {"append", "link"} => o \in StageOps
         /\ o.pc \in {"tombstone", "repair"} => o \in RepairOps
         /\ o.pc = "freeze" => o \in InsertOps \cup DeleteOps
         /\ o.pc = "publish" => o \in PublishOps
<1>1. op'[w] = o /\ o \in Ops
  BY DEF Typed, Goto
<1> QED
  BY <1>1, Kinds

\* While the manifest stays, and what it refers to, so do its start nodes.
LEMMA SameStarts ==
  ASSUME UNCHANGED <<manifest, segments>>, DeltaOf(manifest)' = DeltaOf(manifest)
  PROVE  StartNodesLive => StartNodesLive'
<1>1. PICK s : s = manifest
  OBVIOUS
<1>2. DeltaOf(s)' = DeltaOf(s)
  BY <1>1 DEF DeltaOf
<1>3. ASSUME NEW n
      PROVE  ReadNode(s, n)' = ReadNode(s, n)
  <2>1. /\ Deleted(s, n)' = Deleted(s, n)
        /\ IsImmutable(s, n)' = IsImmutable(s, n) /\ ImmutableRecord(s, n)' = ImmutableRecord(s, n)
    BY <1>2 DEF Deleted, IsImmutable, SegmentsWith, ImmutableRecord
  <2> QED
    BY <1>2, <2>1 DEF ReadNode
<1>4. \A n : IsPresent(s, n)' = IsPresent(s, n) /\ LabelsIn(s, n)' = LabelsIn(s, n)
  BY <1>3 DEF IsPresent, LabelsIn
<1> QED
  BY <1>1, <1>4 DEF StartNodesLive

LEMMA StagingSameStarts ==
  ASSUME UNCHANGED <<manifest, segments, hotDeltas>>
  PROVE  StartNodesLive => StartNodesLive'
BY SameStarts DEF DeltaOf

LEMMA InsertBeginCalm ==
  ASSUME OneWriterInv, Inv', NEW w \in Writers, \A v \in Writers : v = w,
         NEW row \in Rows, InsertBegin(w, row)
  PROVE  Calm' /\ (StartsInv => StartsInv')
<1> DEFINE o == [pc |-> "plan", node |-> nextId, row |-> row]
<1>1. At(w, "idle") /\ Goto(w, o) /\ UNCHANGED <<storageVars, owed, gone>>
  BY DEF InsertBegin
<1>2. Typed /\ Typed'
  BY DEF OneWriterInv, Inv
<1>3. o.pc = "plan"
  OBVIOUS
<1> HIDE DEF o
<1>4. op'[w] = o /\ o \in PlanOps
  BY <1>1, <1>2, <1>3, NextOp
<1>5. /\ Inserting(w)' /\ Busy(w)' /\ ~Deleting(w)' /\ ~Building(w)' /\ ~At(w, "publish")'
      /\ ~At(w, "append")'
  BY <1>3, <1>4, InInsert
<1>6. ~Busy(w) /\ ~At(w, "publish")
  BY <1>1, <1>2, BusyFacts DEF Typed, At
<1>7. SeenIsCurrent(w)'
  BY <1>3, <1>4, Stages DEF SeenIsCurrent
<1>8. Calm'
  BY <1>1, <1>2, <1>5, <1>6, <1>7, StagedCalm DEF storageVars
<1>9. StartsInv => StartsInv'
  BY <1>1, <1>3, <1>4, <1>5, StagingSameStarts DEF StartsInv, StartsGood, storageVars, At
<1> QED
  BY <1>8, <1>9

LEMMA InsertPlanCalm ==
  ASSUME OneWriterInv, Inv', NEW w \in Writers, \A v \in Writers : v = w, InsertPlan(w)
  PROVE  Calm' /\ (StartsInv => StartsInv')
<1>1. /\ At(w, "plan") /\ UNCHANGED <<storageVars, nextId, owed, gone>>
      /\ \E links \in Best(MaxNeighbors, NeighborCandidates(manifest, op[w].row)) :
           Goto(w, [pc |-> "append", node |-> op[w].node, row |-> op[w].row,
                    seen |-> manifest, todo |-> links])
  BY DEF InsertPlan
<1>2. Typed /\ Typed'
  BY DEF OneWriterInv, Inv
<1>3. PICK links \in Best(MaxNeighbors, NeighborCandidates(manifest, op[w].row)) :
        Goto(w, [pc |-> "append", node |-> op[w].node, row |-> op[w].row,
                 seen |-> manifest, todo |-> links])
  BY <1>1
<1> DEFINE o == [pc |-> "append", node |-> op[w].node, row |-> op[w].row,
                 seen |-> manifest, todo |-> links]
<1>4. Goto(w, o)
  BY <1>3
<1>5. o.pc = "append" /\ o.node = op[w].node /\ o.seen = manifest /\ o.todo = links
  OBVIOUS
<1> HIDE DEF o
<1>6. op'[w] = o /\ o \in StageOps
  BY <1>2, <1>4, <1>5, NextOp
<1>7. /\ Inserting(w)' /\ Busy(w)' /\ ~Deleting(w)' /\ ~Building(w)' /\ ~At(w, "publish")'
      /\ Node(w)' = op[w].node /\ Seen(w)' = manifest
  BY <1>5, <1>6, InInsert
<1>8. /\ op[w] \in PlanOps /\ Planning(w) /\ Node(w) = op[w].node /\ ~At(w, "publish")
      /\ draft.start \in {NoStart, manifest.start} \/ ~StartsInv
  <2>1. op[w] \in PlanOps
    BY <1>1, <1>2, Kinds DEF Typed, At
  <2> QED
    BY <1>1, <2>1, Stages DEF Planning, Node, Mutation, At, StartsInv, StartsGood
<1>9. Node(w) \notin links
  <2>1. links \subseteq PresentNodes(manifest)
    BY BestIn DEF NeighborCandidates, Found
  <2>2. Node(w) \notin Shown
    BY <1>2, <1>8, ShownInUse DEF OneWriterInv, Inv, FreshOK
  <2> QED
    BY <1>2, <2>1, <2>2, ShownInUse
<1>10. SeenIsCurrent(w)'
  BY <1>1, <1>5, <1>6, <1>7, Stages DEF SeenIsCurrent, storageVars
<1>11. Calm'
  BY <1>1, <1>2, <1>5, <1>6, <1>7, <1>8, <1>9, <1>10, StagedCalm DEF storageVars
<1>12. StartsInv => StartsInv'
  BY <1>1, <1>5, <1>6, <1>7, <1>8, StagingSameStarts DEF StartsInv, StartsGood, storageVars, At
<1> QED
  BY <1>11, <1>12

\* An insert that has its neighbors goes on staging.
LEMMA InsertGoesOn ==
  ASSUME OneWriterInv, Inv', NEW w \in Writers, \A v \in Writers : v = w,
         op[w] \in StageOps, NEW o \in StageOps \cup InsertOps, op'[w] = o, o.pc # "append",
         o.node = op[w].node, o.seen = op[w].seen,
         UNCHANGED <<manifest, segments, hotDeltas, nextHotDelta, pins, owed, gone>>,
         \A n \in Nodes \ {op[w].node} :
           /\ n \in DOMAIN draft'.records <=> n \in DOMAIN draft.records
           /\ n \in DOMAIN draft'.tombstones <=> n \in DOMAIN draft.tombstones
  PROVE  /\ Calm'
         /\ Node(w)' = op[w].node /\ op[w].seen = manifest
         /\ ~Building(w)' /\ Mutation(w)' = o /\ Inserting(w)'
<1>1. Typed'
  BY DEF Inv
<1>2. /\ Inserting(w)' /\ Busy(w)' /\ ~Deleting(w)' /\ ~Building(w)' /\ ~At(w, "publish")'
      /\ ~At(w, "append")' /\ Node(w)' = op[w].node /\ Mutation(w)' = o /\ Seen(w)' = op[w].seen
  BY InInsert
<1>3. Inserting(w) /\ ~At(w, "publish") /\ Node(w) = op[w].node /\ Seen(w) = op[w].seen
  BY Stages DEF Inserting, At, Node, Seen, Mutation
<1>4. op[w].seen = manifest
  BY <1>3 DEF OneWriterInv, Calm, SeenIsCurrent
<1>5. SeenIsCurrent(w)'
  BY <1>2, <1>4, Stages DEF SeenIsCurrent
<1>6. \A n \in Nodes \ {Node(w)'} :
        /\ n \in DOMAIN draft'.records <=> n \in DOMAIN draft.records
        /\ n \in DOMAIN draft'.tombstones <=> n \in DOMAIN draft.tombstones
  BY <1>2
<1>7. Calm'
  BY <1>1, <1>2, <1>3, <1>5, <1>6, StagedCalm
<1> QED
  BY <1>2, <1>4, <1>7

LEMMA InsertAppendCalm ==
  ASSUME OneWriterInv, Inv', NEW w \in Writers, \A v \in Writers : v = w, InsertAppend(w)
  PROVE  Calm' /\ (StartsInv => StartsInv')
<1> DEFINE o == [op[w] EXCEPT !.pc = "link"]
           n == op[w].node
           record == [row |-> op[w].row, links |-> op[w].todo]
<1>1. /\ At(w, "append") /\ AppendNode(n, record) /\ Goto(w, o) /\ UNCHANGED <<owed, gone>>
  BY DEF InsertAppend
<1>2. Typed /\ Typed' /\ draft \in Draft
  BY DEF OneWriterInv, Inv, Typed, StorageTypeOK
<1>3. op[w] \in StageOps
  BY <1>1, <1>2, Kinds DEF Typed, At
<1>4. o.pc = "link" /\ o.node = n /\ o.seen = op[w].seen
  BY <1>3 DEF StageOps
<1> HIDE DEF o, record
<1>5. op'[w] = o /\ o \in StageOps
  BY <1>1, <1>2, <1>4, NextOp
<1>6. /\ draft'.start = draft.start
      /\ \A m \in Nodes \ {n} :
           /\ m \in DOMAIN draft'.records <=> m \in DOMAIN draft.records
           /\ m \in DOMAIN draft'.tombstones <=> m \in DOMAIN draft.tombstones
      /\ UNCHANGED <<manifest, segments, hotDeltas, nextHotDelta, pins>>
  BY <1>1, <1>2 DEF AppendNode, Draft, With, Without
<1>7. Calm' /\ ~Building(w)'
  BY <1>1, <1>3, <1>4, <1>5, <1>6, InsertGoesOn
<1>8. StartsInv => StartsInv'
  BY <1>1, <1>4, <1>5, <1>6, <1>7, StagingSameStarts DEF StartsInv, StartsGood, At
<1> QED
  BY <1>7, <1>8

LEMMA InsertLinkCalm ==
  ASSUME OneWriterInv, Inv', NEW w \in Writers, \A v \in Writers : v = w, InsertLink(w)
  PROVE  Calm' /\ (StartsInv => StartsInv')
<1>1. At(w, "link") /\ UNCHANGED <<owed, gone>>
  BY DEF InsertLink
<1>2. PICK n :
        /\ UNCHANGED storageVars \/ \E links : RewriteNeighbors(n, links)
        /\ Goto(w, [op[w] EXCEPT !.todo = @ \ {n}])
  BY DEF InsertLink
<1> DEFINE o == [op[w] EXCEPT !.todo = @ \ {n}]
<1>3. Typed /\ Typed' /\ draft \in Draft
  BY DEF OneWriterInv, Inv, Typed, StorageTypeOK
<1>4. op[w] \in StageOps
  BY <1>1, <1>3, Kinds DEF Typed, At
<1>5. o.pc = "link" /\ o.node = op[w].node /\ o.seen = op[w].seen /\ Goto(w, o)
  BY <1>1, <1>2, <1>4 DEF StageOps, At
<1> HIDE DEF o
<1>6. op'[w] = o /\ o \in StageOps
  BY <1>3, <1>5, NextOp
<1>7. /\ draft'.start = draft.start
      /\ \A m \in Nodes \ {op[w].node} :
           /\ m \in DOMAIN draft'.records <=> m \in DOMAIN draft.records
           /\ m \in DOMAIN draft'.tombstones <=> m \in DOMAIN draft.tombstones
      /\ UNCHANGED <<manifest, segments, hotDeltas, nextHotDelta, pins>>
  <2>1. CASE UNCHANGED storageVars
    BY <2>1 DEF storageVars
  <2>2. ASSUME NEW links, RewriteNeighbors(n, links)
        PROVE  /\ draft'.start = draft.start
               /\ DOMAIN draft'.records = DOMAIN draft.records
               /\ DOMAIN draft'.tombstones = DOMAIN draft.tombstones
               /\ UNCHANGED <<manifest, segments, hotDeltas, nextHotDelta, pins>>
    BY <1>3, <2>2 DEF RewriteNeighbors, Draft, With
  <2> QED
    BY <1>2, <2>1, <2>2
<1>8. Calm' /\ ~Building(w)'
  BY <1>1, <1>4, <1>5, <1>6, <1>7, InsertGoesOn
<1>9. StartsInv => StartsInv'
  BY <1>1, <1>5, <1>6, <1>7, <1>8, StagingSameStarts DEF StartsInv, StartsGood, At
<1> QED
  BY <1>8, <1>9

\* The start nodes an insert leaves: the ones it found, over rows that are all
\* still there, and its own node for labels that had none.
LEMMA InsertKeepsStarts ==
  ASSUME OneWriterInv, StartsInv, NEW w \in Writers, \A v \in Writers : v = w,
         op[w] \in StageOps, At(w, "link")
  PROVE  GoodStart(StartsAfterInsert(manifest, op[w].node, op[w].row),
                   With(owed, op[w].node, op[w].row))
<1> DEFINE node == op[w].node
           row == op[w].row
           start == manifest.start
           base == IF IsPresent(manifest, start.default) THEN start
                   ELSE [default |-> node, labeled |-> EmptyFn]
           rows == With(owed, node, row)
           after == StartsAfterInsert(manifest, node, row)
<1>1. Inserting(w) /\ ~Planning(w) /\ ~Deleting(w) /\ Node(w) = node /\ Seen(w) = manifest
  <2>1. Inserting(w) /\ ~Planning(w) /\ Node(w) = node
    BY Stages DEF Inserting, Planning, Node, Mutation, At
  <2> QED
    BY <2>1, BusyFacts DEF OneWriterInv, Inv, Typed, Calm, SeenIsCurrent
<1>2. node \notin DOMAIN owed
  BY <1>1 DEF OneWriterInv, Inv, InsertOK, Current, Alone
<1>3. Exact
  BY <1>1, ShowsTheOwed
<1>4. Fits(start, owed)
  BY <1>3, StartsFitTheOwed DEF StartsInv, OneWriterInv, Inv
<1>5. start.default \in Nodes \cup {EmptyStart} /\ DOMAIN owed \subseteq Nodes
      /\ EmptyStart \notin Nodes
  <2>1. start \in StartMaps
    BY IndexAssumption DEF OneWriterInv, Inv, Typed, StorageTypeOK, Manifest
  <2> HIDE DEF start
  <2> QED
    BY <2>1, DraftFacts, Counters DEF StartMaps, EmptyStart, OneWriterInv, Inv
<1>6. IsPresent(manifest, start.default) \/ (start.default = EmptyStart /\ start.labeled = EmptyFn)
  BY <1>3, <1>4, <1>5 DEF Fits, Exact, PresentNodes
<1>7. base = start \/ (base.default = node /\ base.labeled = EmptyFn /\ start.labeled = EmptyFn)
  BY <1>6
<1>8. /\ DOMAIN rows = DOMAIN owed \cup {node} /\ rows[node] = row
      /\ \A n \in DOMAIN owed : rows[n] = owed[n]
  BY <1>2 DEF With
<1>9. /\ after.default = base.default
      /\ after.labeled = [l \in DOMAIN base.labeled \cup LabelsOf[row] |->
                            IF l \in DOMAIN base.labeled THEN base.labeled[l] ELSE node]
  <2>1. start \in StartMaps
    BY IndexAssumption DEF OneWriterInv, Inv, Typed, StorageTypeOK, Manifest
  <2>2. base = [default |-> base.default, labeled |-> base.labeled]
    BY <2>1 DEF StartMaps
  <2> HIDE DEF base
  <2>3. after = [base EXCEPT !.labeled =
                   [l \in DOMAIN @ \cup LabelsOf[row] |-> IF l \in DOMAIN @ THEN @[l] ELSE node]]
    BY DEF StartsAfterInsert, base
  <2> HIDE DEF after
  <2> QED
    BY <2>2, <2>3
<1>10. base.default \in DOMAIN rows \/ base.default = EmptyStart
  BY <1>4, <1>7, <1>8 DEF Fits
<1>11. base.default # EmptyStart
  <2>1. node \in Nodes
    BY DEF StageOps
  <2>2. ~IsPresent(manifest, EmptyStart)
    BY NoEmptyNode DEF OneWriterInv, Inv
  <2> QED
    BY <1>5, <2>1, <2>2
<1> HIDE DEF base, after, rows, start
<1>12. ASSUME NEW l \in DOMAIN after.labeled
       PROVE  after.labeled[l] \in DOMAIN rows /\ l \in LabelsOf[rows[after.labeled[l]]]
  <2>1. CASE l \in DOMAIN base.labeled
    <3>1. base = start
      BY <1>7, <2>1 DEF EmptyFn
    <3>2. after.labeled[l] = start.labeled[l]
      BY <1>9, <1>12, <2>1, <3>1
    <3> QED
      BY <1>4, <1>8, <2>1, <3>1, <3>2 DEF Fits
  <2>2. CASE l \notin DOMAIN base.labeled
    BY <1>8, <1>9, <1>12, <2>2
  <2> QED
    BY <2>1, <2>2
<1>13. Fits(after, rows)
  BY <1>9, <1>10, <1>11, <1>12 DEF Fits
<1>14. KeepsEntries(after, rows)
  BY <1>7, <1>9 DEF KeepsEntries, EmptyFn, start
<1> QED
  BY <1>13, <1>14 DEF GoodStart, after, rows

LEMMA InsertStartsCalm ==
  ASSUME OneWriterInv, Inv', NEW w \in Writers, \A v \in Writers : v = w, InsertStarts(w)
  PROVE  Calm' /\ (StartsInv => StartsInv')
<1> DEFINE o == [pc |-> "freeze", node |-> op[w].node, row |-> op[w].row, seen |-> op[w].seen]
           start == StartsAfterInsert(op[w].seen, op[w].node, op[w].row)
           rows == With(owed, op[w].node, op[w].row)
<1>1. /\ At(w, "link") /\ Goto(w, o) /\ UNCHANGED <<owed, gone>>
      /\ IF start = op[w].seen.start THEN UNCHANGED storageVars ELSE UpdateStartNodes(start)
  BY DEF InsertStarts
<1>2. Typed /\ Typed' /\ draft \in Draft
  BY DEF OneWriterInv, Inv, Typed, StorageTypeOK
<1>3. op[w] \in StageOps
  BY <1>1, <1>2, Kinds DEF Typed, At
<1>4. o.pc = "freeze" /\ o.node = op[w].node /\ o.seen = op[w].seen /\ o.row = op[w].row
      /\ "row" \in DOMAIN o
  OBVIOUS
<1> HIDE DEF o, start, rows
<1>5. op'[w] = o /\ o \in InsertOps
  BY <1>1, <1>2, <1>4, NextOp, Shapes
<1>6. /\ draft'.start = IF start = op[w].seen.start THEN draft.start ELSE start
      /\ \A m \in Nodes \ {op[w].node} :
           /\ m \in DOMAIN draft'.records <=> m \in DOMAIN draft.records
           /\ m \in DOMAIN draft'.tombstones <=> m \in DOMAIN draft.tombstones
      /\ UNCHANGED <<manifest, segments, hotDeltas, nextHotDelta, pins>>
  BY <1>1, <1>2 DEF UpdateStartNodes, storageVars, Draft
<1>7. /\ Calm' /\ ~Building(w)' /\ op[w].seen = manifest /\ Mutation(w)' = o
      /\ Inserting(w)' /\ Node(w)' = op[w].node
  BY <1>1, <1>3, <1>4, <1>5, <1>6, InsertGoesOn
<1>8. ASSUME StartsInv
      PROVE  StartsInv'
  <2>1. GoodStart(start, rows)
    BY <1>1, <1>3, <1>7, <1>8, InsertKeepsStarts DEF start, rows
  <2>2. start # NoStart
    BY <1>3, StartsTyped, StorageAssumption DEF start, StageOps
  <2>3. OrManifest(draft.start)' = start
    BY <1>1, <1>6, <1>7, <1>8, <2>2 DEF OrManifest, StartsInv, StartsGood, At
  <2>4. Promised(w)' = rows
    BY <1>1, <1>4, <1>7 DEF Promised, rows
  <2>5. PICK s, r : s = start /\ r = rows
    OBVIOUS
  <2>6. GoodStart(s, r)'
    BY <1>6, <2>1, <2>5 DEF GoodStart, Fits, KeepsEntries
  <2>7. GoodStart(OrManifest(draft.start), Promised(w))'
    BY <2>3, <2>4, <2>5, <2>6 DEF GoodStart, Fits, KeepsEntries
  <2>8. StartsGood(w)'
    BY <1>4, <1>5, <1>7, <2>7 DEF StartsGood
  <2> QED
    BY <1>6, <1>8, <2>8, StagingSameStarts DEF StartsInv
<1> QED
  BY <1>7, <1>8

\* A delete that has begun goes on staging.
LEMMA DeleteGoesOn ==
  ASSUME OneWriterInv, Inv', NEW w \in Writers, \A v \in Writers : v = w,
         op[w] \in RepairOps, NEW o \in RepairOps \cup DeleteOps, op'[w] = o,
         o.node = op[w].node, o.seen = op[w].seen,
         UNCHANGED <<manifest, segments, hotDeltas, nextHotDelta, pins, owed, gone>>,
         \A n \in Nodes \ {op[w].node} :
           /\ n \in DOMAIN draft'.records <=> n \in DOMAIN draft.records
           /\ n \in DOMAIN draft'.tombstones <=> n \in DOMAIN draft.tombstones
  PROVE  Calm' /\ ~Building(w)' /\ ~Inserting(w)'
<1>1. Typed'
  BY DEF Inv
<1>2. /\ Deleting(w)' /\ Busy(w)' /\ ~Inserting(w)' /\ ~Building(w)' /\ ~At(w, "publish")'
      /\ Node(w)' = op[w].node /\ Seen(w)' = op[w].seen
  BY InDelete
<1>3. /\ Deleting(w) /\ ~At(w, "publish") /\ Node(w) = op[w].node /\ Seen(w) = op[w].seen
      /\ ~Inserting(w)
  <2>1. Deleting(w) /\ ~At(w, "publish") /\ Node(w) = op[w].node /\ Seen(w) = op[w].seen
    BY Stages DEF Deleting, At, Node, Seen, Mutation
  <2> QED
    BY <2>1, BusyFacts DEF OneWriterInv, Inv, Typed
<1>4. op[w].seen = manifest /\ op[w].node <= manifest.maxId
  BY <1>3 DEF OneWriterInv, Calm, SeenIsCurrent, IdsCovered
<1>5. SeenIsCurrent(w)'
  BY <1>2, <1>4, Stages DEF SeenIsCurrent
<1>6. \A n \in Nodes \ {Node(w)'} :
        /\ n \in DOMAIN draft'.records <=> n \in DOMAIN draft.records
        /\ n \in DOMAIN draft'.tombstones <=> n \in DOMAIN draft.tombstones
  BY <1>2
<1>7. ~At(w, "append")'
  BY <1>2, InDelete, Stages
<1>8. Calm'
  BY <1>1, <1>2, <1>3, <1>4, <1>5, <1>6, <1>7, StagedCalm
<1> QED
  BY <1>2, <1>8

\* The repaired start nodes fit what the delete leaves.  A walk of at least
\* two ids is needed for this: were it to visit the deleted node alone, it
\* would elect no default but keep the entries of labels it did not meet.
LEMMA RepairFits ==
  ASSUME OneWriterInv, StartNodesLive, MaxVisited >= 2, \A w \in Writers : ~Deleting(w),
         NEW node \in Nodes, node \in StartIds(manifest),
         NEW visited \in Visits(manifest), NEW start \in RepairedStarts(manifest, node, visited)
  PROVE  GoodStart(start, Without(owed, node))
<1> DEFINE old == manifest.start
           ids == StartIds(manifest)
           all == Queued(manifest, ids)
           present == PresentNodes(manifest)
           live == (visited \cap present) \ {node}
           carriers(l) == {n \in live : l \in LabelsIn(manifest, n)}
           carried == {l \in Labels : carriers(l) # {}}
           heldOver == {l \in DOMAIN old.labeled \ carried :
                          visited # all /\ old.labeled[l] \in present \ {node}}
           rows == Without(owed, node)
<1>1. /\ start \in StartMaps
      /\ start.default \in IF live = {} THEN {EmptyStart} ELSE Earliest(manifest, live)
      /\ DOMAIN start.labeled = carried \cup heldOver
      /\ \A l \in carried : start.labeled[l] \in Earliest(manifest, carriers(l))
      /\ \A l \in heldOver : start.labeled[l] = old.labeled[l]
  BY DEF RepairedStarts
<1>2. \A nodes : Earliest(manifest, nodes) \subseteq nodes
  BY DEF Earliest
<1>3. Exact
  BY ShowsTheOwed
<1>4. Fits(old, owed)
  BY <1>3, StartsFitTheOwed DEF OneWriterInv, Inv
<1>5. present = DOMAIN owed /\ \A n \in present : LabelsIn(manifest, n) = LabelsOf[owed[n]]
  BY <1>3 DEF Exact
<1>6. DOMAIN rows = present \ {node} /\ \A n \in DOMAIN rows : rows[n] = owed[n]
  BY <1>5 DEF Without
<1>7. DOMAIN old.labeled \subseteq Labels /\ present \subseteq Nodes /\ EmptyStart \notin Nodes
      /\ ids \subseteq Nodes \cup {EmptyStart}
  <2>1. old \in StartMaps
    BY IndexAssumption DEF OneWriterInv, Inv, Typed, StorageTypeOK, Manifest
  <2>2. old.labeled \in PartialFn(Labels, Nodes) /\ old.default \in Nodes \cup {EmptyStart}
    BY <2>1 DEF StartMaps
  <2>3. DOMAIN old.labeled \subseteq Labels /\ old.labeled \in [DOMAIN old.labeled -> Nodes]
    BY <2>2, PartialApply
  <2>4. ids \subseteq {old.default} \cup {old.labeled[l] : l \in DOMAIN old.labeled}
    BY DEF StartIds, SearchStarts
  <2>5. EmptyStart \notin Nodes
    BY NoEmptyNode DEF OneWriterInv, Inv
  <2> QED
    BY <2>2, <2>3, <2>4, <2>5 DEF PresentNodes
<1>8. \A l \in DOMAIN old.labeled : old.labeled[l] \in ids
  BY <1>7 DEF StartIds, SearchStarts
<1>9. ids \subseteq all
  BY <1>7 DEF Queued
<1>10. \/ visited = all
       \/ Cardinality(visited) = MaxVisited /\ (visited \subseteq ids \/ ids \subseteq visited)
  <2> HIDE DEF ids, all
  <2> QED
    BY DEF Visits, kSubset, ids, all
<1> HIDE DEF old, ids, all, present, rows
\* Without a live record nothing is held over.
<1>11. ASSUME live = {}
       PROVE  heldOver = {}
  <2> SUFFICES ASSUME NEW l \in heldOver PROVE FALSE
    OBVIOUS
  <2>1. l \in DOMAIN old.labeled /\ visited # all /\ old.labeled[l] \in present \ {node}
    OBVIOUS
  <2>2. old.labeled[l] \in ids
    BY <1>8, <2>1
  <2>3. CASE ids \subseteq visited
    BY <1>11, <2>1, <2>2, <2>3
  <2>4. CASE visited \subseteq ids
    <3>1. old.default # EmptyStart
      BY <1>4, <2>1 DEF Fits, EmptyFn
    <3>2. ids \subseteq present
      <4>1. ids \subseteq {old.default} \cup {old.labeled[k] : k \in DOMAIN old.labeled}
        BY DEF ids, old, StartIds, SearchStarts
      <4> QED
        BY <1>4, <1>5, <3>1, <4>1 DEF Fits
    <3>3. visited \subseteq {node}
      BY <1>11, <2>4, <3>2
    <3>4. Cardinality(visited) <= 1
      <4>1. IsFiniteSet({node}) /\ Cardinality({node}) = 1 /\ visited \in SUBSET {node}
        BY <3>3, FS_Singleton
      <4> HIDE DEF live
      <4> QED
        BY <4>1, FS_Subset
    <3> QED
      BY <1>10, <2>1, <3>4, IndexAssumption
  <2> QED
    BY <1>10, <2>1, <2>3, <2>4
<1>12. ASSUME NEW l \in DOMAIN start.labeled
       PROVE  start.labeled[l] \in DOMAIN rows /\ l \in LabelsOf[rows[start.labeled[l]]]
  <2>1. CASE l \in carried
    <3>1. start.labeled[l] \in carriers(l)
      BY <1>1, <1>2, <2>1
    <3> QED
      BY <1>5, <1>6, <3>1
  <2>2. CASE l \in heldOver
    <3>1. start.labeled[l] = old.labeled[l] /\ old.labeled[l] \in present \ {node}
          /\ l \in DOMAIN old.labeled
      BY <1>1, <2>2
    <3> QED
      BY <1>4, <1>6, <3>1 DEF Fits
  <2> QED
    BY <1>1, <1>12, <2>1, <2>2
<1>13. start.default # EmptyStart => start.default \in DOMAIN rows
  BY <1>1, <1>2, <1>6
<1>14. ASSUME start.default = EmptyStart
       PROVE  start.labeled = EmptyFn
  <2>1. live = {}
    BY <1>1, <1>2, <1>7, <1>14
  <2>2. carried = {} /\ heldOver = {}
    BY <1>11, <2>1
  <2>3. DOMAIN start.labeled = {}
    BY <1>1, <2>2
  <2>4. start.labeled \in PartialFn(Labels, Nodes)
    BY <1>1 DEF StartMaps
  <2>5. start.labeled \in [DOMAIN start.labeled -> Nodes]
    BY <2>4, PartialApply
  <2> QED
    BY <2>3, <2>5 DEF EmptyFn
<1>15. ASSUME NEW l \in DOMAIN old.labeled, old.labeled[l] \in DOMAIN rows
       PROVE  l \in DOMAIN start.labeled
  <2>1. old.labeled[l] \in present \ {node}
    BY <1>6, <1>15
  <2>2. CASE visited = all
    <3>1. old.labeled[l] \in live
      BY <1>8, <1>9, <1>15, <2>1, <2>2
    <3>2. l \in LabelsIn(manifest, old.labeled[l])
      BY <1>4, <1>5, <1>15, <2>1 DEF Fits
    <3> QED
      BY <1>1, <1>7, <1>15, <3>1, <3>2
  <2>3. CASE visited # all
    BY <1>1, <1>15, <2>1, <2>3
  <2> QED
    BY <2>2, <2>3
<1>16. Fits(start, rows)
  BY <1>12, <1>13, <1>14 DEF Fits
<1>17. KeepsEntries(start, rows)
  BY <1>15 DEF KeepsEntries, old
<1> QED
  BY <1>16, <1>17 DEF GoodStart, rows

\* Deleting any other row takes no start node away.
LEMMA OthersKeepStarts ==
  ASSUME OneWriterInv, StartNodesLive, \A w \in Writers : ~Deleting(w),
         NEW node, node \notin StartIds(manifest)
  PROVE  GoodStart(manifest.start, Without(owed, node))
<1> DEFINE old == manifest.start
           rows == Without(owed, node)
<1>1. Fits(old, owed)
  BY ShowsTheOwed, StartsFitTheOwed DEF OneWriterInv, Inv
<1>2. old.default # node /\ \A l \in DOMAIN old.labeled : old.labeled[l] # node
  <2>1. old \in StartMaps
    BY IndexAssumption DEF OneWriterInv, Inv, Typed, StorageTypeOK, Manifest
  <2>2. old.labeled \in PartialFn(Labels, Nodes)
    BY <2>1 DEF StartMaps
  <2>3. DOMAIN old.labeled \subseteq Labels
    BY <2>2, PartialApply
  <2> QED
    BY <2>3 DEF StartIds, SearchStarts
<1>3. DOMAIN rows = DOMAIN owed \ {node} /\ \A n \in DOMAIN rows : rows[n] = owed[n]
  BY DEF Without
<1> HIDE DEF old, rows
<1>4. Fits(old, rows)
  BY <1>1, <1>2, <1>3 DEF Fits
<1> QED
  BY <1>4 DEF GoodStart, KeepsEntries, old, rows

LEMMA DeleteBeginCalm ==
  ASSUME OneWriterInv, Inv', NEW w \in Writers, \A v \in Writers : v = w, DeleteBegin(w)
  PROVE  Calm' /\ (MaxVisited >= 2 /\ StartsInv => StartsInv')
<1>1. PICK node \in Named :
        /\ \E start \in IF node \in StartIds(manifest)
                        THEN UNION {RepairedStarts(manifest, node, visited) :
                                      visited \in Visits(manifest)}
                        ELSE {NoStart} :
             Goto(w, [pc |-> "tombstone", node |-> node, seen |-> manifest, start |-> start])
        /\ owed' = Without(owed, node)
  BY DEF DeleteBegin
<1>2. PICK start :
        /\ IF node \in StartIds(manifest)
           THEN \E visited \in Visits(manifest) : start \in RepairedStarts(manifest, node, visited)
           ELSE start = NoStart
        /\ Goto(w, [pc |-> "tombstone", node |-> node, seen |-> manifest, start |-> start])
  BY <1>1
<1> DEFINE o == [pc |-> "tombstone", node |-> node, seen |-> manifest, start |-> start]
<1>3. At(w, "idle") /\ UNCHANGED <<storageVars, gone>>
  BY DEF DeleteBegin
<1>4. Typed /\ Typed'
  BY DEF OneWriterInv, Inv
<1>5. node \in Nodes /\ node <= manifest.maxId
  <2>1. node \in DOMAIN owed \cup gone \cup Shown
    BY <1>4, ShownInUse DEF Named
  <2>2. node \in InUse
    BY <1>4, <2>1, ShownInUse DEF InUse
  <2> QED
    BY <1>4, <2>1, <2>2, UsedAreNodes DEF OneWriterInv, Inv, IdsOK
<1>6. o.pc = "tombstone" /\ o.node = node /\ o.seen = manifest /\ o.start = start /\ Goto(w, o)
  BY <1>2
<1> HIDE DEF o
<1>7. op'[w] = o /\ o \in RepairOps
  BY <1>4, <1>6, NextOp
<1>8. /\ Deleting(w)' /\ Busy(w)' /\ ~Inserting(w)' /\ ~Building(w)' /\ ~At(w, "publish")'
      /\ ~At(w, "append")' /\ Node(w)' = node /\ Seen(w)' = manifest
  BY <1>6, <1>7, InDelete
<1>9. ~Busy(w) /\ ~At(w, "publish") /\ ~Inserting(w) /\ \A v \in Writers : ~Deleting(v)
  BY <1>3, <1>4, BusyFacts DEF Typed, At, Busy
<1>10. SeenIsCurrent(w)'
  BY <1>3, <1>6, <1>7, <1>8, Stages DEF SeenIsCurrent, storageVars
<1>11. DOMAIN owed' \subseteq DOMAIN owed /\ \A n \in DOMAIN owed \ DOMAIN owed' : n = node
  BY <1>1 DEF Without
<1>12. Calm'
  BY <1>3, <1>4, <1>5, <1>8, <1>9, <1>10, <1>11, StagedCalm DEF storageVars
<1>13. ASSUME MaxVisited >= 2, StartsInv
       PROVE  StartsInv'
  <2>1. GoodStart(OrManifest(start), owed')
    <3>1. CASE node \in StartIds(manifest)
      <4>1. PICK visited \in Visits(manifest) : start \in RepairedStarts(manifest, node, visited)
        BY <1>2, <3>1
      <4>2. GoodStart(start, owed')
        BY <1>1, <1>5, <1>9, <1>13, <3>1, <4>1, RepairFits DEF StartsInv
      <4>3. start # NoStart
        BY <4>1, RepairTyped, StorageAssumption
      <4> QED
        BY <4>2, <4>3 DEF OrManifest
    <3>2. CASE node \notin StartIds(manifest)
      <4>1. GoodStart(manifest.start, owed')
        BY <1>1, <1>9, <1>13, <3>2, OthersKeepStarts DEF StartsInv
      <4> QED
        BY <1>2, <3>2, <4>1 DEF OrManifest
    <3> QED
      BY <3>1, <3>2
  <2>2. OrManifest(op[w].start)' = OrManifest(start)
    BY <1>3, <1>6, <1>7 DEF OrManifest, storageVars
  <2>3. GoodStart(OrManifest(op[w].start), owed)'
    BY <1>3, <2>1, <2>2 DEF GoodStart, Fits, KeepsEntries, storageVars
  <2>4. draft.start \in {NoStart, manifest.start}
    BY <1>3, <1>13 DEF StartsInv, StartsGood, At
  <2>5. StartsGood(w)'
    BY <1>3, <1>6, <1>7, <1>8, <2>3, <2>4 DEF StartsGood, storageVars
  <2> QED
    BY <1>3, <1>13, <2>5, StagingSameStarts DEF StartsInv, storageVars
<1> QED
  BY <1>12, <1>13

LEMMA DeleteTombstoneCalm ==
  ASSUME OneWriterInv, Inv', NEW w \in Writers, \A v \in Writers : v = w, DeleteTombstone(w)
  PROVE  Calm' /\ (StartsInv => StartsInv')
<1> DEFINE o == [op[w] EXCEPT !.pc = "repair"]
<1>1. /\ At(w, "tombstone") /\ TombstoneNode(op[w].node) /\ Goto(w, o) /\ UNCHANGED <<owed, gone>>
  BY DEF DeleteTombstone
<1>2. Typed /\ Typed' /\ draft \in Draft
  BY DEF OneWriterInv, Inv, Typed, StorageTypeOK
<1>3. op[w] \in RepairOps
  BY <1>1, <1>2, Kinds DEF Typed, At
<1>4. o.pc = "repair" /\ o.node = op[w].node /\ o.seen = op[w].seen /\ o.start = op[w].start
  BY <1>3 DEF RepairOps
<1> HIDE DEF o
<1>5. op'[w] = o /\ o \in RepairOps
  BY <1>1, <1>2, <1>4, NextOp
<1>6. /\ draft'.start = draft.start
      /\ \A m \in Nodes \ {op[w].node} :
           /\ m \in DOMAIN draft'.records <=> m \in DOMAIN draft.records
           /\ m \in DOMAIN draft'.tombstones <=> m \in DOMAIN draft.tombstones
      /\ UNCHANGED <<manifest, segments, hotDeltas, nextHotDelta, pins>>
  BY <1>1, <1>2 DEF TombstoneNode, Draft, With, Without
<1>7. Calm' /\ ~Building(w)'
  BY <1>1, <1>3, <1>4, <1>5, <1>6, DeleteGoesOn
<1>8. ASSUME StartsInv
      PROVE  StartsInv'
  <2>1. /\ GoodStart(OrManifest(op[w].start), owed) /\ draft.start \in {NoStart, manifest.start}
    BY <1>1, <1>8 DEF StartsInv, StartsGood, At
  <2>2. OrManifest(op[w].start)' = OrManifest(op[w].start)
    BY <1>4, <1>5, <1>6 DEF OrManifest
  <2>3. GoodStart(OrManifest(op[w].start), owed)'
    BY <1>1, <1>6, <2>1, <2>2 DEF GoodStart, Fits, KeepsEntries
  <2>4. StartsGood(w)'
    BY <1>4, <1>5, <1>6, <1>7, <2>1, <2>3 DEF StartsGood
  <2> QED
    BY <1>6, <1>8, <2>4, StagingSameStarts DEF StartsInv
<1> QED
  BY <1>7, <1>8

LEMMA DeleteStartsCalm ==
  ASSUME OneWriterInv, Inv', NEW w \in Writers, \A v \in Writers : v = w, DeleteStarts(w)
  PROVE  Calm' /\ (StartsInv => StartsInv')
<1> DEFINE o == [pc |-> "freeze", node |-> op[w].node, seen |-> op[w].seen]
<1>1. /\ At(w, "repair") /\ Goto(w, o) /\ UNCHANGED <<owed, gone>>
      /\ IF op[w].start = NoStart THEN UNCHANGED storageVars ELSE UpdateStartNodes(op[w].start)
  BY DEF DeleteStarts
<1>2. Typed /\ Typed' /\ draft \in Draft
  BY DEF OneWriterInv, Inv, Typed, StorageTypeOK
<1>3. op[w] \in RepairOps
  BY <1>1, <1>2, Kinds DEF Typed, At
<1>4. o.pc = "freeze" /\ o.node = op[w].node /\ o.seen = op[w].seen /\ "row" \notin DOMAIN o
  OBVIOUS
<1> HIDE DEF o
<1>5. op'[w] = o /\ o \in DeleteOps
  BY <1>1, <1>2, <1>4, NextOp, Shapes
<1>6. /\ draft'.start = IF op[w].start = NoStart THEN draft.start ELSE op[w].start
      /\ \A m \in Nodes \ {op[w].node} :
           /\ m \in DOMAIN draft'.records <=> m \in DOMAIN draft.records
           /\ m \in DOMAIN draft'.tombstones <=> m \in DOMAIN draft.tombstones
      /\ UNCHANGED <<manifest, segments, hotDeltas, nextHotDelta, pins>>
  BY <1>1, <1>2 DEF UpdateStartNodes, storageVars, Draft
<1>7. Calm' /\ ~Building(w)' /\ ~Inserting(w)'
  BY <1>1, <1>3, <1>4, <1>5, <1>6, DeleteGoesOn
<1>8. ASSUME StartsInv
      PROVE  StartsInv'
  <2>1. /\ GoodStart(OrManifest(op[w].start), owed) /\ draft.start \in {NoStart, manifest.start}
    BY <1>1, <1>8 DEF StartsInv, StartsGood, At
  <2>2. OrManifest(draft.start)' = OrManifest(op[w].start)
    BY <1>6, <2>1 DEF OrManifest
  <2>3. Promised(w)' = owed
    BY <1>1, <1>7 DEF Promised
  <2>4. GoodStart(OrManifest(draft.start), Promised(w))'
    BY <1>6, <2>1, <2>2, <2>3 DEF GoodStart, Fits, KeepsEntries
  <2>5. StartsGood(w)'
    BY <1>4, <1>5, <1>7, <2>4 DEF StartsGood
  <2> QED
    BY <1>6, <1>8, <2>5, StagingSameStarts DEF StartsInv
<1> QED
  BY <1>7, <1>8

------------------------------------------------------------------------------
(* Publishing *)

LEMMA FreezeCalm ==
  ASSUME OneWriterInv, Inv', NEW w \in Writers, \A v \in Writers : v = w, Freeze(w)
  PROVE  Calm' /\ (StartsInv => StartsInv')
<1> USE DEF OneWriterInv, Calm
<1> DEFINE o == [op |-> op[w], pc |-> "publish", delta |-> nextHotDelta,
                 epoch |-> DraftEpoch, start |-> draft.start]
<1>1. At(w, "freeze") /\ PublishHotDelta /\ Goto(w, o) /\ UNCHANGED <<owed, gone>>
  BY DEF Freeze
<1>2. Typed /\ Typed' /\ StorageTypeOK
  BY DEF Inv, Typed
<1>3. op[w] \in InsertOps \cup DeleteOps
  BY <1>1, <1>2, Kinds DEF Typed, At
<1>4. o.pc = "publish" /\ o.op = op[w] /\ o.delta = nextHotDelta /\ o.start = draft.start
  OBVIOUS
<1> HIDE DEF o
<1>5. op'[w] = o /\ o \in PublishOps
  BY <1>1, <1>2, <1>4, NextOp
<1>6. /\ op[w].pc = "freeze" /\ Mutation(w) = op[w] /\ Mutation(w)' = op[w] /\ Node(w)' = Node(w)
      /\ Seen(w)' = Seen(w) /\ At(w, "publish")' /\ ~At(w, "publish") /\ ~Building(w)'
  <2>1. ~Building(w)'
    BY <1>4, <1>5, Stages DEF Building
  <2> QED
    BY <1>3, <1>4, <1>5, <2>1, Stages DEF Mutation, Node, Seen, At
<1>7. (Inserting(w)' <=> Inserting(w)) /\ (Deleting(w)' <=> Deleting(w)) /\ (Busy(w)' <=> Busy(w))
  BY <1>3, <1>4, <1>5, <1>6, Stages DEF Inserting, Deleting, Busy, At
<1>8. /\ UNCHANGED <<manifest, segments, draft, pins>> /\ nextHotDelta' = nextHotDelta + 1
  BY <1>1 DEF PublishHotDelta
<1>9. /\ \A d \in DOMAIN hotDeltas' : d # nextHotDelta =>
           d \in DOMAIN hotDeltas /\ hotDeltas'[d] = hotDeltas[d]
      /\ nextHotDelta \in DOMAIN hotDeltas' /\ hotDeltas'[nextHotDelta] = FrozenDraft
      /\ manifest.hotDelta \in DOMAIN hotDeltas => manifest.hotDelta \in DOMAIN hotDeltas'
  BY <1>1, <1>2, FreezeKeeps, FrozenAsStaged
<1>10. nextHotDelta \in Nat \ {0} /\ manifest.hotDelta = nextHotDelta - 1
  BY <1>2, <1>6, Counters DEF NeverRefused
<1>11. DeltaOf(manifest)' = DeltaOf(manifest)
  BY <1>2, <1>8, <1>9, <1>10, ShownInUse DEF DeltaOf
<1>12. Frozen' \subseteq Frozen \cup DOMAIN draft.records
  BY <1>9 DEF Frozen, FrozenDraft
<1>13. Built' = Built
  BY <1>8 DEF Built, IsImmutable, SegmentsWith
<1>14. IdsCovered'
  BY <1>1, <1>6, <1>7, <1>8, <1>12, <1>13 DEF IdsCovered, InUse, Staged
<1>15. NoStrangers(draft)' /\ NoStrangers(DeltaOf(manifest))'
  BY <1>1, <1>6, <1>7, <1>8, <1>11, <1>13 DEF NoStrangers
<1>16. PinsRecent'
  BY <1>8 DEF PinsRecent
<1>17. SeenIsCurrent(w)'
  BY <1>3, <1>4, <1>5, <1>6, <1>8, Stages DEF SeenIsCurrent
<1>18. NeverRefused(w)'
  BY <1>4, <1>5, <1>6, <1>8, <1>9, <1>10 DEF NeverRefused, FrozenDraft, At
<1>19. ASSUME StartsInv
      PROVE  StartsInv'
  <2>1. GoodStart(OrManifest(draft.start), Promised(w))
    BY <1>6, <1>19 DEF StartsInv, StartsGood
  <2>2. OrManifest(draft.start)' = OrManifest(draft.start) /\ Promised(w)' = Promised(w)
    BY <1>1, <1>6, <1>7, <1>8 DEF OrManifest, Promised
  <2>3. GoodStart(OrManifest(draft.start), Promised(w))'
    BY <1>8, <2>1, <2>2 DEF GoodStart, Fits, KeepsEntries
  <2>4. StartsGood(w)'
    BY <1>4, <1>5, <1>6, <2>3 DEF StartsGood
  <2> QED
    BY <1>8, <1>11, <1>19, <2>4, SameStarts DEF StartsInv
<1> QED
  BY <1>14, <1>15, <1>16, <1>17, <1>18, <1>19

\* What a mutation publishes: its own freeze, with the start nodes it staged,
\* over the manifest it planned against.
LEMMA PublishesOwnFreeze ==
  ASSUME OneWriterInv, NEW w \in Writers, At(w, "publish")
  PROVE  /\ op[w] \in PublishOps /\ Seen(w) = manifest /\ op[w].op.seen = manifest
         /\ Successor(op[w]).segments = manifest.segments
         /\ Successor(op[w]).hotDelta = op[w].delta
         /\ Successor(op[w]).start = OrManifest(draft.start)
         /\ ValidReferences(Successor(op[w]))
<1> USE DEF OneWriterInv, Calm
<1> DEFINE done == op[w]
<1>1. done \in PublishOps
  BY Kinds DEF At, Inv, Typed
<1>2. Seen(w) = manifest /\ done.op.seen = manifest
  BY <1>1 DEF SeenIsCurrent, Seen, Mutation, At
<1>3. manifest \in Manifest
  BY DEF Inv, Typed, StorageTypeOK
<1>4. done.start = draft.start /\ done.delta \in DOMAIN hotDeltas
  BY DEF NeverRefused
<1> HIDE DEF done
<1>5. /\ Successor(done).segments = manifest.segments
      /\ Successor(done).hotDelta = done.delta
      /\ Successor(done).start = OrManifest(draft.start)
  BY <1>2, <1>3, <1>4 DEF Successor, Manifest, OrManifest
<1>6. ValidReferences(Successor(done))
  BY <1>4, <1>5 DEF Inv, Typed, ManifestResolves, ValidReferences, Resolves
<1> QED
  BY <1>1, <1>2, <1>5, <1>6 DEF done

\* No call is refused.
LEMMA NoRefusal ==
  ASSUME OneWriterInv, NEW w \in Writers
  PROVE  ~Refused(w)
<1>1. op[w] \in Ops
  BY DEF OneWriterInv, Inv, Typed
<1>2. ~(At(w, "publish") /\ \/ manifest.version # op[w].op.seen.version
                            \/ ~ValidReferences(Successor(op[w])))
  BY PublishesOwnFreeze
<1>3. ~(At(w, "swap") /\ manifest.version # op[w].seen.version)
  BY <1>1, Kinds DEF OneWriterInv, Calm, SeenIsCurrent, At
<1>4. ~(At(w, "link") /\ ~Resolves(op[w].seen))
  <2> SUFFICES ASSUME At(w, "link") PROVE Resolves(op[w].seen)
    OBVIOUS
  <2>1. op[w] \in StageOps /\ Seen(w) = op[w].seen
    BY <1>1, Kinds DEF At, Seen, Mutation
  <2>2. op[w].seen = manifest
    BY <2>1 DEF OneWriterInv, Calm, SeenIsCurrent
  <2> QED
    BY <2>2 DEF OneWriterInv, Inv, Typed, ManifestResolves, ValidReferences
<1>5. ~(At(w, "append") /\ op[w].node \in op[w].todo)
  BY DEF OneWriterInv, Calm, NeverRefused
<1> QED
  BY <1>2, <1>3, <1>4, <1>5 DEF Refused

\* So no mutation fails.
LEMMA NoFailure ==
  ASSUME OneWriterInv, ~StorageMayFail, NEW w \in Writers
  PROVE  ~Fail(w)
BY NoRefusal DEF Fail

\* After a step that leaves no delete running, the start nodes are live if
\* they fit the rows owed.
LEMMA LiveAfter ==
  ASSUME Inv', StorageInv', Calm', (\A w \in Writers : ~Deleting(w))', Fits(manifest.start, owed)'
  PROVE  Exact' /\ StartNodesLive'
<1>1. OneWriterInv'
  BY DEF OneWriterInv
<1>2. Exact'
  BY <1>1, ShowsTheOwed, PTL
<1>3. Typed'
  BY DEF Inv
<1>4. (StartNodesLive <=> Fits(manifest.start, owed))'
  BY <1>2, <1>3, StartsFitTheOwed, PTL
<1> QED
  BY <1>2, <1>4

LEMMA PublishCalm ==
  ASSUME OneWriterInv, Inv', StorageInv', NEW w \in Writers, \A v \in Writers : v = w, Publish(w)
  PROVE  /\ Calm' /\ (StartsInv => StartsInv')
         /\ manifest'.version = manifest.version + 1 /\ ~At(w, "load")' /\ ~At(w, "swap")'
         /\ StartsInv => Exact' /\ KeepsEntries(manifest'.start, owed')
<1> USE DEF OneWriterInv, Calm
<1>1. /\ At(w, "publish") /\ Acknowledge(op[w].op) /\ Goto(w, NoOp) /\ nextId' = nextId
      /\ UNCHANGED <<segments, hotDeltas, nextHotDelta, draft, pins>>
      /\ CompareAndPublish(op[w].op.seen.version, Successor(op[w]))
  BY DEF Publish, CompareAndPublish
<1>2. Typed /\ Typed' /\ manifest \in Manifest /\ pins \in [Readers -> Manifest]
      /\ nextId \in Nat \ {0}
  BY DEF Inv, Typed, StorageTypeOK
<1>3. /\ op[w] \in PublishOps /\ op[w].op.seen = manifest
      /\ Successor(op[w]).start = OrManifest(draft.start)
  BY <1>1, PublishesOwnFreeze
<1>4. /\ manifest'.version = manifest.version + 1 /\ manifest'.segments = manifest.segments
      /\ manifest'.hotDelta = op[w].delta /\ op[w].delta # 0
      /\ nextId - 1 <= manifest'.maxId /\ manifest'.maxId \in Nat
  BY PublishedManifest
<1>5. manifest'.start = OrManifest(draft.start)
  <2>1. Successor(op[w]) \in Manifest
    BY <1>2, <1>3, SuccessorTyped
  <2>2. manifest' = [Successor(op[w]) EXCEPT !.version = op[w].op.seen.version + 1]
    BY <1>1 DEF CompareAndPublish
  <2> QED
    BY <1>3, <2>1, <2>2 DEF Manifest
<1>6. /\ manifest.hotDelta = nextHotDelta - 2 /\ op[w].delta = nextHotDelta - 1
      /\ hotDeltas[op[w].delta] = FrozenDraft
  BY <1>1 DEF NeverRefused
<1>7. op'[w] = NoOp
  BY <1>1, <1>2, NextOp
<1>8. /\ ~Busy(w)' /\ ~Inserting(w)' /\ ~Deleting(w)' /\ ~Building(w)'
      /\ op'[w].pc = "idle" /\ ~At(w, "publish")'
  BY <1>7, Stages DEF Busy, Inserting, Deleting, Building, At
<1>9. /\ Mutation(w) = op[w].op /\ Node(w) = op[w].op.node /\ Busy(w)
      /\ Inserting(w) <=> op[w].op \in InsertOps
      /\ Deleting(w) <=> op[w].op \in DeleteOps
      /\ op[w].op \in InsertOps \cup DeleteOps
  <2>1. op[w].op \in InsertOps \cup DeleteOps
    BY <1>3 DEF PublishOps
  <2>2. (Inserting(w) <=> op[w].op \in InsertOps) /\ (Deleting(w) <=> op[w].op \in DeleteOps)
    BY <1>1, <1>3, Stages DEF Inserting, Deleting, At
  <2> QED
    BY <1>1, <2>1, <2>2 DEF Mutation, Node, Busy, At
<1>10. ~(Inserting(w) /\ Deleting(w)) /\ (Inserting(w) \/ Deleting(w))
  BY <1>2, <1>9, BusyFacts DEF Typed
<1>11. owed' = Promised(w)
  BY <1>1, <1>9, <1>10, Shapes DEF Acknowledge, Promised
<1>12. Deleting(w) => Node(w) \in DOMAIN draft.tombstones
  BY <1>1 DEF Inv, DeleteOK, At
<1>13. IdsCovered'
  <2>1. ASSUME NEW n \in InUse'
        PROVE  n <= manifest'.maxId
    <3>1. IdsOK' /\ \A v \in Writers : ~At(v, "reset")'
      BY <1>8 DEF Inv, At
    <3>2. n < nextId
      BY <1>1, <3>1 DEF IdsOK
    <3>3. (InUse \subseteq Nodes)'
      BY <1>2, UsedAreNodes, PTL
    <3>4. n \in Nat
      BY <1>2, <3>3, Counters
    <3> QED
      BY <1>2, <1>4, <3>2, <3>4
  <2> QED
    BY <1>8, <2>1 DEF IdsCovered
<1>14. Built' = Built
  BY <1>1, <1>4 DEF Built, IsImmutable, SegmentsWith
<1>15. NoStrangers(draft)'
  <2> SUFFICES ASSUME NEW n \in (DOMAIN draft.records \cup Built) \ DOMAIN draft.tombstones
               PROVE  n \in DOMAIN owed'
    BY <1>1, <1>14 DEF NoStrangers
  <2>1. n \in DOMAIN owed \/ (Busy(w) /\ n = Node(w))
    BY DEF NoStrangers
  <2> QED
    BY <1>10, <1>11, <1>12, <2>1 DEF Promised, With
<1>16. NoStrangers(DeltaOf(manifest))'
  <2>1. DeltaOf(manifest)' = FrozenDraft
    BY <1>1, <1>4, <1>6 DEF DeltaOf
  <2>2. /\ DOMAIN DeltaOf(manifest)'.records = DOMAIN draft'.records
        /\ DOMAIN DeltaOf(manifest)'.tombstones = DOMAIN draft'.tombstones
    BY <1>1, <2>1 DEF FrozenDraft
  <2> QED
    BY <1>15, <2>2 DEF NoStrangers
<1>17. PinsRecent'
  <2> SUFFICES ASSUME NEW r \in Readers, pins[r].version + 1 = manifest.version + 1
               PROVE  pins[r].hotDelta = manifest'.hotDelta - 1
    BY <1>1, <1>4 DEF PinsRecent
  <2>1. pins[r].version \in Nat /\ manifest.version \in Nat /\ nextHotDelta \in Nat
    BY <1>2, Counters DEF Manifest
  <2>2. pins[r] = manifest
    BY <2>1 DEF StorageInv, PinnedManifest
  <2> QED
    BY <1>4, <1>6, <2>1, <2>2
<1>18. SeenIsCurrent(w)'
  BY <1>7, Stages DEF SeenIsCurrent
<1>19. NeverRefused(w)'
  BY <1>1, <1>4, <1>6, <1>7, <1>8, Stages DEF NeverRefused, At
<1>20. Calm'
  BY <1>13, <1>15, <1>16, <1>17, <1>18, <1>19
<1>21. ASSUME StartsInv
       PROVE  StartsInv' /\ Exact' /\ KeepsEntries(manifest'.start, owed')
  <2>1. op[w].pc = "publish"
    BY <1>1 DEF At
  <2>2. GoodStart(manifest'.start, owed')
    BY <1>5, <1>11, <1>21, <2>1 DEF StartsInv, StartsGood
  <2>3. Fits(manifest.start, owed)' /\ KeepsEntries(manifest'.start, owed')
    BY <2>2 DEF GoodStart, Fits
  <2>4. (\A v \in Writers : ~Deleting(v))'
    BY <1>8
  <2>5. Exact' /\ StartNodesLive'
    BY <1>20, <2>3, <2>4, LiveAfter
  <2>6. StartsGood(w)'
    BY <1>1, <1>5, <1>8 DEF StartsGood, OrManifest
  <2> QED
    BY <2>3, <2>5, <2>6 DEF StartsInv
<1> HIDE DEF OneWriterInv, Calm
<1> QED
  BY <1>4, <1>8, <1>20, <1>21 DEF At

------------------------------------------------------------------------------
(* Bulk builds *)

\* A build meets a storage in which nothing was ever frozen.
LEMMA NeverFrozen ==
  ASSUME OneWriterInv, NEW w \in Writers, \A v \in Writers : v = w, Staged = {}, ~Busy(w)
  PROVE  /\ gone = {} /\ DOMAIN hotDeltas = {} /\ nextHotDelta = 1
         /\ \A n \in InUse : n <= manifest.maxId
<1>1. DOMAIN hotDeltas = {} /\ gone = {} /\ \A n \in InUse : n <= manifest.maxId
  BY WhileBuilding DEF OneWriterInv
<1>2. nextHotDelta \in Nat \ {0}
  BY Counters DEF OneWriterInv, Inv
<1>3. nextHotDelta = 1
  <2> SUFFICES ASSUME nextHotDelta # 1 PROVE FALSE
    OBVIOUS
  <2>1. nextHotDelta - 1 \in 1 .. nextHotDelta - 1 /\ nextHotDelta - 1 >= nextHotDelta - 2
    BY <1>2
  <2>2. nextHotDelta - 1 \in DOMAIN hotDeltas
    BY <2>1 DEF OneWriterInv, StorageInv, RecentFreezesResolve
  <2> QED
    BY <1>1, <2>2
<1> QED
  BY <1>1, <1>3

\* The start nodes of a build fit its rows.
LEMMA BulkStartsFit ==
  ASSUME NEW rows \in BuiltRows
  PROVE  Fits(BulkStarts(rows), rows)
<1>1. PICK k \in 0 .. MaxBuiltRows : rows \in [1 .. k -> Rows]
  BY DEF BuiltRows
<1>2. k \in Nat /\ DOMAIN rows = 1 .. k
  <2> DEFINE size == Cardinality(Nodes)
  <2>1. size \in Nat /\ MaxBuiltRows \in 0 .. size
    BY FS_CardinalityType, IndexAssumption
  <2> HIDE DEF size
  <2> QED
    BY <1>1, <2>1
<1> DEFINE carriers(l) == {n \in DOMAIN rows : l \in LabelsOf[rows[n]]}
           first(nodes) == CHOOSE n \in nodes : \A m \in nodes : n <= m
           start == BulkStarts(rows)
<1>3. /\ start.default = IF DOMAIN rows = {} THEN EmptyStart ELSE 1
      /\ start.labeled = [l \in {h \in Labels : carriers(h) # {}} |-> first(carriers(l))]
  BY DEF BulkStarts
<1>4. ASSUME NEW l \in DOMAIN start.labeled
      PROVE  start.labeled[l] \in carriers(l)
  <2>1. carriers(l) # {} /\ start.labeled[l] = first(carriers(l))
    BY <1>3
  <2>2. carriers(l) \in SUBSET Nat
    BY <1>2
  <2> HIDE DEF carriers
  <2>3. \E n \in carriers(l) : \A m \in carriers(l) : n <= m
    BY <2>1, <2>2, LeastExists
  <2>4. first(carriers(l)) \in carriers(l)
    BY <2>3
  <2> QED
    BY <2>1, <2>4
<1>5. start.default # EmptyStart => start.default \in DOMAIN rows
  BY <1>2, <1>3
<1>6. start.default = EmptyStart => start.labeled = EmptyFn
  <2> SUFFICES ASSUME start.default = EmptyStart PROVE start.labeled = EmptyFn
    OBVIOUS
  <2>1. DOMAIN rows = {}
    BY <1>3 DEF EmptyStart
  <2>2. \A l : carriers(l) = {}
    BY <2>1
  <2> HIDE DEF carriers, start
  <2>3. start.labeled = [l \in {} |-> first(carriers(l))]
    BY <1>3, <2>2
  <2>4. DOMAIN start.labeled = {} /\ start.labeled = [l \in DOMAIN start.labeled |-> start.labeled[l]]
    BY <2>3
  <2> QED
    BY <2>4 DEF EmptyFn
<1> QED
  BY <1>4, <1>5, <1>6 DEF Fits

LEMMA BulkStoreCalm ==
  ASSUME OneWriterInv, Inv', StorageInv', NEW w \in Writers, \A v \in Writers : v = w,
         NEW rows \in BuiltRows, NothingStaged, BulkStore(w, rows)
  PROVE  Calm' /\ (StartsInv => StartsInv')
<1> DEFINE o == [pc |-> "load", rows |-> rows,
                 segments |-> IF rows = <<>> THEN <<>> ELSE <<Len(segments) + 1>>]
<1>1. /\ At(w, "idle") /\ Goto(w, o) /\ UNCHANGED <<owed, gone>>
  BY DEF BulkStore
<1>2. Typed /\ Typed'
  BY DEF OneWriterInv, Inv
<1>3. Staged = {} /\ ~Busy(w) /\ ~At(w, "publish") /\ \A v \in Writers : ~Deleting(v)
  <2>1. ~Busy(w)
    BY <1>1, <1>2, BusyFacts DEF Typed
  <2> QED
    BY <1>1, <2>1 DEF NothingStaged, Staged, EmptyFn, At, Busy
<1>4. o.pc = "load"
  OBVIOUS
<1> HIDE DEF o
<1>5. op'[w] = o /\ o \in LoadOps
  BY <1>1, <1>2, <1>4, NextOp, Kinds
<1>6. ~Busy(w)' /\ ~Inserting(w)' /\ ~Deleting(w)' /\ ~At(w, "publish")' /\ op'[w].pc = "load"
  BY <1>4, <1>5, Stages DEF Busy, Inserting, Deleting, At
<1>7. PICK nodes \in PartialFn(Nodes, Record) :
        UNCHANGED storageVars \/ InsertImmutableSegment(nodes)
  BY BuiltSegment
<1>8. /\ UNCHANGED <<manifest, hotDeltas, nextHotDelta, draft, pins>>
      /\ segments' = segments \/ segments' = Append(segments, nodes)
  BY <1>7 DEF InsertImmutableSegment, storageVars
<1>9. \A k \in DOMAIN segments : segments'[k] = segments[k]
  <2> DEFINE T == PartialFn(Nodes, Record)
  <2>1. segments \in Seq(T) /\ nodes \in T
    BY <1>2 DEF Typed, StorageTypeOK
  <2> HIDE DEF T
  <2> QED
    BY <1>8, <2>1
<1>10. Built' = Built
  <2>1. \A i \in DOMAIN manifest.segments : manifest.segments[i] \in DOMAIN segments
    BY <1>2 DEF Typed, ManifestResolves, ValidReferences
  <2>2. \A n : SegmentsWith(manifest, n)' = SegmentsWith(manifest, n)
    BY <1>8, <1>9, <2>1 DEF SegmentsWith
  <2> QED
    BY <2>2 DEF Built, IsImmutable
<1>11. IdsCovered'
  <2>1. InUse' = InUse
    BY <1>1, <1>8, <1>10 DEF InUse, Staged, Frozen
  <2>2. \A n \in InUse : n <= manifest.maxId
    BY <1>3, NeverFrozen
  <2> QED
    BY <1>6, <1>8, <2>1, <2>2 DEF IdsCovered
<1>12. NoStrangers(draft)' /\ NoStrangers(DeltaOf(manifest))'
  <2>1. DeltaOf(manifest)' = DeltaOf(manifest)
    BY <1>8 DEF DeltaOf
  <2> QED
    BY <1>1, <1>3, <1>8, <1>10, <2>1 DEF NoStrangers, OneWriterInv, Calm
<1>13. PinsRecent'
  BY <1>8 DEF PinsRecent, OneWriterInv, Calm
<1>14. SeenIsCurrent(w)'
  BY <1>5, Stages DEF SeenIsCurrent
<1>15. NeverRefused(w)'
  BY <1>3, <1>6, <1>8 DEF NeverRefused, OneWriterInv, Calm, At
<1>16. Calm'
  BY <1>11, <1>12, <1>13, <1>14, <1>15 DEF Calm
<1>17. ASSUME StartsInv
       PROVE  StartsInv'
  <2>1. Fits(manifest.start, owed)
    BY <1>2, <1>3, <1>17, ShowsTheOwed, StartsFitTheOwed DEF StartsInv
  <2>2. Fits(manifest.start, owed)'
    BY <1>1, <1>8, <2>1 DEF Fits
  <2>3. (\A v \in Writers : ~Deleting(v))'
    BY <1>6
  <2>4. StartNodesLive'
    BY <1>16, <2>2, <2>3, LiveAfter
  <2>5. StartsGood(w)'
    BY <1>6, <1>8 DEF StartsGood, NothingStaged
  <2> QED
    BY <2>4, <2>5 DEF StartsInv
<1> QED
  BY <1>16, <1>17

\* The steps of a build around the swap touch no storage.
LEMMA BuilderCalm ==
  ASSUME OneWriterInv, NEW w \in Writers, \A v \in Writers : v = w, Building(w),
         UNCHANGED <<storageVars, owed, gone>>,
         \/ op'[w] \in SwapOps /\ op'[w].seen = manifest
         \/ op'[w] = NoOp
  PROVE  Calm' /\ (StartsInv => StartsInv')
<1> USE DEF OneWriterInv, Calm
<1>1. /\ UNCHANGED <<manifest, segments, hotDeltas, nextHotDelta, draft, pins>>
  BY DEF storageVars
<1>2. ~Busy(w) /\ ~Inserting(w) /\ ~At(w, "publish")
  BY BusyFacts, Stages DEF Inv, Typed, Busy, Building, At
<1>3. ~Busy(w)' /\ ~Inserting(w)' /\ ~Deleting(w)' /\ ~At(w, "publish")'
      /\ op'[w].pc \in {"swap", "idle"}
  BY Stages DEF Busy, Inserting, Deleting, At
<1>4. Built' = Built /\ InUse' = InUse /\ DeltaOf(manifest)' = DeltaOf(manifest)
  BY <1>1 DEF Built, IsImmutable, SegmentsWith, InUse, Staged, Frozen, DeltaOf
<1>5. IdsCovered'
  BY <1>1, <1>2, <1>3, <1>4 DEF IdsCovered
<1>6. NoStrangers(draft)' /\ NoStrangers(DeltaOf(manifest))'
  BY <1>1, <1>2, <1>4 DEF NoStrangers
<1>7. PinsRecent'
  BY <1>1 DEF PinsRecent
<1>8. SeenIsCurrent(w)'
  BY <1>1, Stages DEF SeenIsCurrent
<1>9. NeverRefused(w)'
  BY <1>1, <1>2, <1>3 DEF NeverRefused, At
<1>10. ASSUME StartsInv
       PROVE  StartsInv'
  <2>1. draft.start = NoStart
    BY <1>10 DEF StartsInv, StartsGood
  <2>2. StartsGood(w)'
    BY <1>1, <1>3, <2>1 DEF StartsGood
  <2> QED
    BY <1>1, <1>10, <2>2, StagingSameStarts DEF StartsInv
<1> QED
  BY <1>5, <1>6, <1>7, <1>8, <1>9, <1>10

LEMMA BulkLoadCalm ==
  ASSUME OneWriterInv, Inv', NEW w \in Writers, \A v \in Writers : v = w, BulkLoad(w)
  PROVE  Calm' /\ (StartsInv => StartsInv')
<1> DEFINE o == [op |-> op[w], pc |-> "swap", seen |-> manifest]
<1>1. At(w, "load") /\ Goto(w, o) /\ UNCHANGED <<storageVars, owed, gone>>
  BY DEF BulkLoad
<1>2. Typed /\ Typed'
  BY DEF OneWriterInv, Inv
<1>3. Building(w)
  BY <1>1, <1>2, Kinds DEF Typed, At, Building
<1>4. o.pc = "swap" /\ o.seen = manifest
  OBVIOUS
<1> HIDE DEF o
<1>5. op'[w] = o /\ o \in SwapOps
  BY <1>1, <1>2, <1>4, NextOp, Kinds
<1> QED
  BY <1>1, <1>3, <1>4, <1>5, BuilderCalm

LEMMA BulkResetCalm ==
  ASSUME OneWriterInv, Inv', NEW w \in Writers, \A v \in Writers : v = w, BulkReset(w)
  PROVE  Calm' /\ (StartsInv => StartsInv')
<1>1. At(w, "reset") /\ Goto(w, NoOp) /\ UNCHANGED <<storageVars, owed, gone>>
  BY DEF BulkReset
<1>2. Typed /\ Typed'
  BY DEF OneWriterInv, Inv
<1>3. Building(w)
  BY <1>1, <1>2, Kinds DEF Typed, At, Building
<1>4. op'[w] = NoOp
  BY <1>1, <1>2, NextOp
<1> QED
  BY <1>1, <1>3, <1>4, BuilderCalm

LEMMA BulkSwapCalm ==
  ASSUME OneWriterInv, Inv', StorageInv', NEW w \in Writers, \A v \in Writers : v = w, BulkSwap(w)
  PROVE  /\ Calm' /\ (StartsInv => StartsInv')
         /\ manifest'.version = manifest.version + 1 /\ ~At(w, "load")' /\ ~At(w, "swap")'
<1> USE DEF OneWriterInv, Calm
<1> DEFINE built == op[w].op
           o == [pc |-> "reset", last |-> Len(built.rows)]
           replacement ==
             [op[w].seen EXCEPT !.segments = built.segments, !.hotDelta = 0, !.epoch = 0,
                                !.start = BulkStarts(built.rows), !.maxId = Len(built.rows)]
<1>1. /\ At(w, "swap") /\ CompareAndPublish(op[w].seen.version, replacement) /\ Goto(w, o)
      /\ owed' = built.rows /\ gone' = {}
  BY DEF BulkSwap
<1>2. Typed /\ Typed' /\ manifest \in Manifest /\ pins \in [Readers -> Manifest]
  BY DEF Inv, Typed, StorageTypeOK
<1>3. op[w] \in SwapOps
  BY <1>1, <1>2, Kinds DEF Typed, At
<1>4. built \in LoadOps /\ built.rows \in BuiltRows /\ op[w].seen = manifest
  BY <1>3 DEF SwapOps, LoadOps, SeenIsCurrent
<1>5. Building(w) /\ ~Busy(w) /\ ~At(w, "publish") /\ Staged = {} /\ HoldsRows(built)
  <2>1. Building(w) /\ ~At(w, "publish")
    BY <1>3, Stages DEF Building, At
  <2> QED
    BY <1>2, <1>3, <2>1, BusyFacts DEF Typed, Inv, BuildOK
<1>6. DOMAIN hotDeltas = {} /\ nextHotDelta = 1
  BY <1>5, NeverFrozen
<1>7. manifest.hotDelta = 0
  BY <1>5, <1>6 DEF NeverRefused
<1>8. o.pc = "reset"
  OBVIOUS
<1> HIDE DEF o
<1>9. op'[w] = o /\ o \in ResetOps
  BY <1>1, <1>2, <1>8, NextOp, Kinds
<1>10. /\ ~Busy(w)' /\ ~Inserting(w)' /\ ~Deleting(w)' /\ ~At(w, "publish")' /\ op'[w].pc = "reset"
       /\ ~At(w, "load")' /\ ~At(w, "swap")'
  BY <1>8, <1>9, Stages DEF Busy, Inserting, Deleting, At
<1> HIDE DEF built
<1>11. /\ manifest'.version = manifest.version + 1 /\ manifest'.segments = built.segments
       /\ manifest'.hotDelta = 0 /\ manifest'.start = BulkStarts(built.rows)
       /\ UNCHANGED <<segments, hotDeltas, nextHotDelta, draft, pins>>
  BY <1>1, <1>2, <1>4 DEF CompareAndPublish, Manifest
<1> HIDE DEF replacement
<1>12. Staged' = {} /\ Frozen' = {}
  BY <1>5, <1>6, <1>11 DEF Staged, Frozen
<1>13. Built' \subseteq DOMAIN owed'
  <2> SUFFICES ASSUME NEW n \in Built' PROVE n \in DOMAIN built.rows
    BY <1>1
  <2>1. PICK i \in DOMAIN built.segments : n \in DOMAIN segments[built.segments[i]]
    BY <1>11 DEF Built, IsImmutable, SegmentsWith
  <2>2. built.rows # <<>>
    BY <1>5, <2>1 DEF HoldsRows
  <2>3. PICK k \in DOMAIN segments : built.segments = <<k>> /\ DOMAIN segments[k] = DOMAIN built.rows
    BY <1>5, <2>2 DEF HoldsRows
  <2>4. built.segments[i] = k
    BY <2>1, <2>3
  <2> QED
    BY <2>1, <2>3, <2>4
<1>14. IdsCovered'
  <2>1. \A n \in DOMAIN owed' \cup gone' \cup Built' : n <= manifest'.maxId
    BY DEF Inv, IdsOK, Shown
  <2> QED
    BY <1>10, <1>12, <2>1 DEF IdsCovered, InUse
<1>15. NoStrangers(draft)' /\ NoStrangers(DeltaOf(manifest))'
  <2>1. DOMAIN draft'.records = {} /\ DOMAIN DeltaOf(manifest)'.records = {}
    BY <1>11, <1>12 DEF Staged, DeltaOf, EmptyFn
  <2> QED
    BY <1>13, <2>1 DEF NoStrangers
<1>16. PinsRecent'
  <2> SUFFICES ASSUME NEW r \in Readers, pins[r].version + 1 = manifest.version + 1
               PROVE  pins[r].hotDelta = 0
    BY <1>11 DEF PinsRecent
  <2>1. pins[r].version \in Nat /\ manifest.version \in Nat
    BY <1>2, Counters DEF Manifest
  <2>2. pins[r] = manifest
    BY <2>1 DEF StorageInv, PinnedManifest
  <2> QED
    BY <1>7, <2>2
<1>17. SeenIsCurrent(w)'
  BY <1>9, Stages DEF SeenIsCurrent
<1>18. NeverRefused(w)'
  BY <1>6, <1>10, <1>11 DEF NeverRefused, At
<1>19. Calm'
  BY <1>14, <1>15, <1>16, <1>17, <1>18
<1>20. ASSUME StartsInv
       PROVE  StartsInv'
  <2>1. draft.start = NoStart
    BY <1>5, <1>20 DEF StartsInv, StartsGood
  <2>2. Fits(manifest.start, owed)'
    BY <1>1, <1>4, <1>11, BulkStartsFit DEF Fits
  <2>3. (\A v \in Writers : ~Deleting(v))'
    BY <1>10
  <2>4. StartNodesLive'
    BY <1>19, <2>2, <2>3, LiveAfter
  <2>5. StartsGood(w)'
    BY <1>10, <1>11, <2>1 DEF StartsGood
  <2> QED
    BY <2>4, <2>5 DEF StartsInv
<1> HIDE DEF OneWriterInv, Calm
<1> QED
  BY <1>10, <1>11, <1>19, <1>20

------------------------------------------------------------------------------
(* Every step *)

\* Readers that load a snapshot, and an index that is reopened, change none of
\* what a mutation works on.
LEMMA BesidesCalm ==
  ASSUME OneWriterInv, UNCHANGED <<manifest, segments, hotDeltas, nextHotDelta, draft, op, owed, gone>>,
         PinsRecent'
  PROVE  Calm' /\ (StartsInv => StartsInv')
<1> USE DEF OneWriterInv, Calm
<1>1. /\ Built' = Built /\ InUse' = InUse /\ DeltaOf(manifest)' = DeltaOf(manifest)
  BY DEF Built, IsImmutable, SegmentsWith, InUse, Staged, Frozen, DeltaOf
<1>2. \A v \in Writers :
        /\ Mutation(v)' = Mutation(v) /\ Node(v)' = Node(v) /\ Seen(v)' = Seen(v)
        /\ (Inserting(v)' <=> Inserting(v)) /\ (Deleting(v)' <=> Deleting(v))
        /\ (Busy(v)' <=> Busy(v)) /\ (Building(v)' <=> Building(v))
        /\ \A pc : At(v, pc)' <=> At(v, pc)
  BY SameOp
<1>3. IdsCovered'
  BY <1>1, <1>2 DEF IdsCovered
<1>4. NoStrangers(draft)' /\ NoStrangers(DeltaOf(manifest))'
  BY <1>1, <1>2 DEF NoStrangers
<1>5. ASSUME NEW v \in Writers
      PROVE  SeenIsCurrent(v)' /\ NeverRefused(v)'
  <2>1. SeenIsCurrent(v)'
    BY <1>2 DEF SeenIsCurrent
  <2>2. FrozenDraft' = FrozenDraft
    BY DEF FrozenDraft
  <2>3. NeverRefused(v)'
    BY <1>2, <2>2 DEF NeverRefused
  <2> QED
    BY <2>1, <2>3
<1>6. ASSUME StartsInv
      PROVE  StartsInv'
  <2>1. ASSUME NEW v \in Writers
        PROVE  StartsGood(v)'
    <3>1. (Inserting(v)' <=> Inserting(v)) /\ Node(v)' = Node(v) /\ Mutation(v)' = Mutation(v)
          /\ (Building(v)' <=> Building(v))
      BY <1>2
    <3>2. Promised(v)' = Promised(v)
      BY <3>1 DEF Promised
    <3>3. OrManifest(op[v].start)' = OrManifest(op[v].start)
          /\ OrManifest(draft.start)' = OrManifest(draft.start)
      BY DEF OrManifest
    <3>4. \A start, rows : GoodStart(start, rows)' <=> GoodStart(start, rows)
      BY DEF GoodStart, Fits, KeepsEntries
    <3>5. StartsGood(v)
      BY <1>6 DEF StartsInv
    <3> QED
      BY <3>1, <3>2, <3>3, <3>4, <3>5 DEF StartsGood
  <2> QED
    BY <1>6, <2>1, StagingSameStarts DEF StartsInv
<1> QED
  BY <1>3, <1>4, <1>5, <1>6

LEMMA LoadSnapshotCalm ==
  ASSUME OneWriterInv, NEW r \in Readers, LoadSnapshot(r), UNCHANGED indexVars
  PROVE  Calm' /\ (StartsInv => StartsInv')
<1>1. UNCHANGED <<manifest, segments, hotDeltas, nextHotDelta, draft, op, owed, gone>>
  BY DEF LoadSnapshot, indexVars
<1>2. manifest.version \in Nat /\ pins \in [Readers -> Manifest]
  BY Counters DEF OneWriterInv, Inv, Typed, StorageTypeOK
<1>3. PinsRecent'
  <2> SUFFICES ASSUME NEW q \in Readers, pins'[q].version + 1 = manifest.version
               PROVE  pins'[q].hotDelta \in {0, manifest.hotDelta - 1}
    BY <1>1 DEF PinsRecent
  <2>1. q # r /\ pins'[q] = pins[q]
    BY <1>2 DEF LoadSnapshot
  <2> QED
    BY <2>1 DEF OneWriterInv, Calm, PinsRecent
<1> QED
  BY <1>1, <1>3, BesidesCalm

LEMMA ReopenCalm ==
  ASSUME OneWriterInv, Reopen \/ UNCHANGED vars
  PROVE  Calm' /\ (StartsInv => StartsInv')
<1>1. UNCHANGED <<manifest, segments, hotDeltas, nextHotDelta, draft, op, owed, gone, pins>>
  BY DEF Reopen, vars, storageVars, indexVars
<1>2. PinsRecent'
  BY <1>1 DEF PinsRecent, OneWriterInv, Calm
<1> QED
  BY <1>1, <1>2, BesidesCalm

\* The next process takes its ids above the high-water mark, which covers all
\* there are.
LEMMA ReopenKeeps ==
  ASSUME OneWriterInv, Reopen
  PROVE  Inv'
<1> USE DEF OneWriterInv, Inv
<1>1. /\ nextId' = manifest.maxId + 1
      /\ UNCHANGED <<manifest, segments, hotDeltas, nextHotDelta, draft, nextEpoch, pins, op, owed, gone>>
  BY DEF Reopen, storageVars
<1>2. \A v \in Writers : op[v] = NoOp
  BY Kinds DEF Reopen, At, Typed
<1>3. \A v \in Writers : ~Busy(v)' /\ ~Building(v)' /\ ~Planning(v)' /\ ~At(v, "publish")' /\ ~Inserting(v)
                         /\ ~Inserting(v)' /\ ~Deleting(v)'
  BY <1>1, <1>2, Stages DEF Busy, Building, Planning, Inserting, Deleting, At
<1>4. manifest.maxId \in Nat /\ Nodes \subseteq Nat \ {0} /\ InUse \subseteq Nodes
  BY Counters, UsedAreNodes
<1>5. /\ InUse' = InUse /\ Shown' = Shown /\ Staged' = Staged /\ DeltaOf(manifest)' = DeltaOf(manifest)
  BY <1>1 DEF Built, Staged, Frozen, InUse, Shown, DeltaOf, IsImmutable, SegmentsWith
<1>6. \A n \in InUse : n <= manifest.maxId
  BY <1>3 DEF Calm, IdsCovered
<1>7. \A n \in InUse : n < nextId'
  <2>1. ASSUME NEW n \in InUse
        PROVE  n < manifest.maxId + 1
    <3>1. n \in Nat /\ n <= manifest.maxId
      BY <1>4, <1>6
    <3> QED
      BY <1>4, <3>1
  <2> QED
    BY <1>1, <2>1
<1>8. IdsOK'
  BY <1>1, <1>3, <1>4, <1>5, <1>7 DEF IdsOK
<1>9. Typed'
  <2>1. StorageTypeOK'
    BY <1>1, StorageSame DEF storageVars
  <2> QED
    BY <1>1, <1>4, <2>1 DEF Typed, ManifestResolves, ValidReferences, Resolves
<1>10. \A delta : Honest(delta)' <=> Honest(delta)
  BY <1>1 DEF Honest, Carries, IsImmutable, SegmentsWith, ImmutableRecord
<1>11. StagedFirst' /\ ManifestOK' /\ Honest(draft)'
  BY <1>1, <1>5, <1>10 DEF StagedFirst, ManifestOK, EpochsWithin
<1>12. ASSUME NEW v \in Writers
       PROVE  SeenOK(v)' /\ FreshOK(v)' /\ InsertOK(v)' /\ DeleteOK(v)' /\ FrozenOK(v)' /\ BuildOK(v)'
  <2>1. SeenOK(v)'
    BY <1>1, <1>2, Stages DEF SeenOK
  <2> QED
    BY <1>3, <2>1 DEF FreshOK, InsertOK, DeleteOK, FrozenOK, BuildOK
<1> QED
  BY <1>8, <1>9, <1>11, <1>12

\* What one call of the caller keeps.
LEMMA MutateCalm ==
  ASSUME OneCaller, OneWriterInv, Inv', StorageInv', NEW w \in Writers, Mutate(w)
  PROVE  Calm' /\ (MaxVisited >= 2 /\ StartsInv => StartsInv')
<1>1. \A v \in Writers : v = w
  BY TheCaller
<1>2. ~StorageMayFail /\ ~BuildAnytime
  BY TheCaller
<1>3. ASSUME Insert(w)
      PROVE  Calm' /\ (StartsInv => StartsInv')
  BY <1>1, <1>3, InsertBeginCalm, InsertPlanCalm, InsertAppendCalm, InsertLinkCalm,
     InsertStartsCalm DEF Insert
<1>4. ASSUME Delete(w)
      PROVE  Calm' /\ (MaxVisited >= 2 /\ StartsInv => StartsInv')
  BY <1>1, <1>4, DeleteBeginCalm, DeleteTombstoneCalm, DeleteStartsCalm DEF Delete
<1>5. ASSUME BulkBuild(w)
      PROVE  Calm' /\ (StartsInv => StartsInv')
  <2>1. ASSUME NothingStaged, NEW n \in 0 .. MaxBuiltRows, NEW rows \in [1 .. n -> Rows],
               BulkStore(w, rows)
        PROVE  Calm' /\ (StartsInv => StartsInv')
    <3>1. rows \in BuiltRows
      BY DEF BuiltRows
    <3> QED
      BY <1>1, <2>1, <3>1, BulkStoreCalm
  <2>2. CASE BulkLoad(w)
    BY <1>1, <2>2, BulkLoadCalm
  <2>3. CASE BulkSwap(w)
    BY <1>1, <2>3, BulkSwapCalm
  <2>4. CASE BulkReset(w)
    BY <1>1, <2>4, BulkResetCalm
  <2> QED
    BY <1>2, <1>5, <2>1, <2>2, <2>3, <2>4 DEF BulkBuild
<1>6. CASE Freeze(w)
  BY <1>1, <1>6, FreezeCalm
<1>7. CASE Publish(w)
  BY <1>1, <1>7, PublishCalm
<1>8. ~Fail(w)
  BY <1>2, NoFailure
<1> QED
  BY <1>3, <1>4, <1>5, <1>6, <1>7, <1>8 DEF Mutate

LEMMA CallerStep ==
  ASSUME OneCaller, OneWriterInv, [Next]_vars
  PROVE  OneWriterInv' /\ (MaxVisited >= 2 /\ StartsInv => StartsInv')
<1>1. Inv /\ StorageInv /\ Typed
  BY DEF OneWriterInv, Inv
<1>2. StorageInv'
  BY <1>1, StepKeepsStorage
<1>3. Inv'
  <2>1. CASE [Running]_vars
    BY <1>1, <2>1, StepKeeps, TheCaller
  <2>2. CASE Reopen
    BY <2>2, ReopenKeeps
  <2> QED
    BY <2>1, <2>2 DEF Next
<1>4. Calm' /\ (MaxVisited >= 2 /\ StartsInv => StartsInv')
  <2>1. ASSUME NEW w \in Writers, Mutate(w)
        PROVE  Calm' /\ (MaxVisited >= 2 /\ StartsInv => StartsInv')
    BY <1>2, <1>3, <2>1, MutateCalm
  <2>2. ASSUME NEW r \in Readers, LoadSnapshot(r), UNCHANGED indexVars
        PROVE  Calm' /\ (StartsInv => StartsInv')
    BY <2>2, LoadSnapshotCalm
  <2>3. ASSUME Reopen \/ UNCHANGED vars
        PROVE  Calm' /\ (StartsInv => StartsInv')
    BY <2>3, ReopenCalm
  <2> QED
    BY <2>1, <2>2, <2>3 DEF Next, Running
<1> QED
  BY <1>2, <1>3, <1>4 DEF OneWriterInv

\* The empty index satisfies all of it.
LEMMA InitCalm == Init => OneWriterInv /\ StartsInv /\ FirstBuild
<1> SUFFICES ASSUME Init PROVE OneWriterInv /\ StartsInv /\ FirstBuild
  OBVIOUS
<1>1. Inv /\ StorageInv
  BY InitKeeps, InitInv DEF Init
<1>2. /\ manifest.segments = <<>> /\ manifest.hotDelta = 0 /\ manifest.maxId = 0
      /\ manifest.start = [default |-> EmptyStart, labeled |-> EmptyFn]
      /\ draft.records = EmptyFn /\ draft.tombstones = EmptyFn /\ draft.start = NoStart
      /\ hotDeltas = EmptyFn /\ nextHotDelta = 1 /\ pins = [r \in Readers |-> manifest]
      /\ owed = EmptyFn /\ gone = {} /\ DOMAIN EmptyFn = {}
  BY DEF Init, StorageInit, InitialManifest, EmptyFn
<1>3. \A w \in Writers : op[w] = NoOp
  BY DEF Init
<1>4. \A w \in Writers : ~Busy(w) /\ ~Building(w) /\ ~Inserting(w) /\ ~Deleting(w) /\ op[w].pc = "idle"
  BY <1>3, Stages DEF Busy, Building, Inserting, Deleting, At
<1>5. \A n : ~IsImmutable(manifest, n)
  BY <1>2 DEF IsImmutable, SegmentsWith
<1>6. InUse = {} /\ Built = {} /\ DOMAIN DeltaOf(manifest).records = {}
  BY <1>2, <1>5 DEF InUse, Staged, Built, Frozen, DeltaOf
<1>7. IdsCovered /\ NoStrangers(draft) /\ NoStrangers(DeltaOf(manifest))
  BY <1>2, <1>4, <1>6 DEF IdsCovered, NoStrangers
<1>8. PinsRecent
  BY <1>2 DEF PinsRecent
<1>9. \A w \in Writers : SeenIsCurrent(w) /\ NeverRefused(w)
  BY <1>2, <1>3, <1>4, Stages DEF SeenIsCurrent, NeverRefused, At
<1>10. StartNodesLive
  BY <1>2 DEF StartNodesLive
<1>11. \A w \in Writers : StartsGood(w)
  BY <1>2, <1>4 DEF StartsGood
<1> QED
  BY <1>1, <1>2, <1>4, <1>7, <1>8, <1>9, <1>10, <1>11 DEF OneWriterInv, Calm, StartsInv, FirstBuild

------------------------------------------------------------------------------
(* What the caller is promised, across reopens *)

\* The invariant with which the promises are kept.
THEOREM OneCallerInvariant ==
  ASSUME OneCaller
  PROVE  Spec => []OneWriterInv
<1>1. Init => OneWriterInv
  BY InitCalm
<1>2. OneWriterInv /\ [Next]_vars => OneWriterInv'
  BY CallerStep
<1> HIDE DEF OneWriterInv
<1> QED
  BY <1>1, <1>2, PTL DEF Spec

\* With one caller no mutation is ever refused: its publish does not lose a
\* race, its snapshot is not collected under it, its delta is still retained
\* when it is published, and its record does not link to itself.
THEOREM NoCallIsRefused ==
  ASSUME OneCaller
  PROVE  Spec => []NothingRefused
<1>1. OneWriterInv => NothingRefused
  BY NoRefusal DEF NothingRefused
<1> QED
  BY <1>1, OneCallerInvariant, PTL

\* No id a client ever saw is handed out again, in this process or a later
\* one: the manifest's high-water mark covers them all.
THEOREM IdsFreshAcrossReopens ==
  ASSUME OneCaller
  PROVE  Spec => []NamedIdsNeverReused
<1>1. OneWriterInv => NamedIdsNeverReused
  <2> SUFFICES ASSUME Inv PROVE NamedIdsNeverReused
    BY DEF OneWriterInv
  <2>1. Named \subseteq DOMAIN owed \cup gone \cup Shown
    BY ShownInUse DEF Named, Inv
  <2> QED
    BY <2>1 DEF NamedIdsNeverReused, Inv, IdsOK
<1> QED
  BY <1>1, OneCallerInvariant, PTL

\* With no mutation running, the manifest shows the rows acknowledged and not
\* deleted, no less and no more.
THEOREM QuietIndexExact ==
  ASSUME OneCaller
  PROVE  Spec => []QuietManifestExact
<1>1. OneWriterInv => QuietManifestExact
  <2> SUFFICES ASSUME OneWriterInv, \A w \in Writers : At(w, "idle")
               PROVE  PresentNodes(manifest) = DOMAIN owed
    BY DEF QuietManifestExact
  <2>1. \A w \in Writers : ~Deleting(w)
    BY BusyFacts DEF OneWriterInv, Inv, Typed, Busy
  <2> QED
    BY <2>1, ShowsTheOwed DEF Exact
<1> QED
  BY <1>1, OneCallerInvariant, PTL

\* A search that began before the last publish can be finished after it: the
\* storage keeps two frozen deltas, and each publish freezes one.
THEOREM LastSnapshotResolves ==
  ASSUME OneCaller
  PROVE  Spec => []QuietSnapshotsResolve
<1>1. OneWriterInv => QuietSnapshotsResolve
  <2> SUFFICES ASSUME OneWriterInv, \A w \in Writers : At(w, "idle"), NEW r \in Readers,
                      manifest.version <= pins[r].version + 1
               PROVE  Resolves(pins[r])
    BY DEF QuietSnapshotsResolve
  <2> USE DEF OneWriterInv, Calm
  <2>1. /\ manifest.version \in Nat /\ manifest.hotDelta \in Nat /\ nextHotDelta \in Nat \ {0}
        /\ pins[r].version \in Nat /\ pins[r].hotDelta \in Nat
    BY Counters DEF Inv, Typed, StorageTypeOK, Manifest
  <2>2. PinnedManifest(pins[r]) /\ ManifestResolves /\ RecentFreezesResolve
    BY DEF StorageInv
  <2>3. CASE pins[r].version = manifest.version
    BY <2>2, <2>3 DEF PinnedManifest, ManifestResolves, ValidReferences, Resolves
  <2>4. CASE pins[r].version + 1 = manifest.version
    <3>1. pins[r].hotDelta \in {0, manifest.hotDelta - 1}
      BY <2>4 DEF PinsRecent
    <3>2. \A w \in Writers : manifest.hotDelta = nextHotDelta - 1
      BY DEF NeverRefused, At
    <3>3. manifest.hotDelta = nextHotDelta - 1
      BY <3>2, TheCaller
    <3>4. CASE pins[r].hotDelta # 0
      <4>1. pins[r].hotDelta = nextHotDelta - 2
        BY <2>1, <3>1, <3>3, <3>4
      <4>2. pins[r].hotDelta \in 1 .. nextHotDelta - 1 /\ pins[r].hotDelta >= nextHotDelta - 2
        BY <2>1, <3>4, <4>1
      <4> QED
        BY <2>2, <4>2 DEF RecentFreezesResolve, Resolves
    <3> QED
      BY <3>4 DEF Resolves
  <2> QED
    BY <2>1, <2>2, <2>3, <2>4 DEF PinnedManifest
<1> QED
  BY <1>1, OneCallerInvariant, PTL

\* Every start node of the manifest is a live node that carries the label it
\* stands for.  The repair walk must be allowed two nodes: with a budget of
\* one it meets nothing but the default it is to replace.
THEOREM StartsStayLive ==
  ASSUME OneCaller, MaxVisited >= 2
  PROVE  Spec => []StartNodesLive
<1> DEFINE Both == OneWriterInv /\ StartsInv
<1>1. Init => Both
  BY InitCalm
<1>2. Both /\ [Next]_vars => Both'
  BY CallerStep
<1>3. Both => StartNodesLive
  BY DEF StartsInv
<1> HIDE DEF Both
<1> QED
  BY <1>1, <1>2, <1>3, PTL DEF Spec

\* Where an insert, a delete or a publish takes its writer.
LEMMA OnlineStages ==
  ASSUME Typed, NEW w \in Writers, Insert(w) \/ Delete(w) \/ Freeze(w)
  PROVE  op'[w].pc \notin {"load", "swap"} /\ manifest' = manifest
<1> USE DEF Goto, Typed
<1>1. ASSUME Insert(w)
      PROVE  op'[w].pc \notin {"load", "swap"} /\ manifest' = manifest
  <2>1. CASE \E row \in Rows : InsertBegin(w, row)
    BY <2>1 DEF InsertBegin, storageVars
  <2>2. CASE InsertPlan(w)
    BY <2>2 DEF InsertPlan, storageVars
  <2>3. CASE InsertAppend(w)
    <3>1. op[w] \in StageOps
      BY <2>3, Kinds DEF InsertAppend, At
    <3> QED
      BY <2>3, <3>1 DEF InsertAppend, AppendNode, StageOps
  <2>4. CASE InsertLink(w)
    <3>1. op[w] \in StageOps /\ op[w].pc = "link"
      BY <2>4, Kinds DEF InsertLink, At
    <3>2. PICK n :
            /\ UNCHANGED storageVars \/ \E links : RewriteNeighbors(n, links)
            /\ Goto(w, [op[w] EXCEPT !.todo = @ \ {n}])
      BY <2>4 DEF InsertLink
    <3>3. op'[w].pc = "link"
      BY <3>1, <3>2 DEF StageOps
    <3> QED
      BY <3>2, <3>3 DEF RewriteNeighbors, storageVars
  <2>5. CASE InsertStarts(w)
    BY <2>5 DEF InsertStarts, UpdateStartNodes, storageVars
  <2> QED
    BY <1>1, <2>1, <2>2, <2>3, <2>4, <2>5 DEF Insert
<1>2. ASSUME Delete(w)
      PROVE  op'[w].pc \notin {"load", "swap"} /\ manifest' = manifest
  <2>1. CASE DeleteBegin(w)
    <3>1. PICK node, start :
            Goto(w, [pc |-> "tombstone", node |-> node, seen |-> manifest, start |-> start])
      BY <2>1 DEF DeleteBegin
    <3> QED
      BY <2>1, <3>1 DEF DeleteBegin, storageVars
  <2>2. CASE DeleteTombstone(w)
    <3>1. op[w] \in RepairOps
      BY <2>2, Kinds DEF DeleteTombstone, At
    <3> QED
      BY <2>2, <3>1 DEF DeleteTombstone, TombstoneNode, RepairOps
  <2>3. CASE DeleteStarts(w)
    BY <2>3 DEF DeleteStarts, UpdateStartNodes, storageVars
  <2> QED
    BY <1>2, <2>1, <2>2, <2>3 DEF Delete
<1>3. CASE Freeze(w)
  BY <1>3 DEF Freeze, PublishHotDelta
<1> QED
  BY <1>1, <1>2, <1>3

LEMMA FirstBuildKeeps ==
  ASSUME OneCaller, OneWriterInv, OneWriterInv', FirstBuild, [Next]_vars
  PROVE  FirstBuild'
<1> USE DEF OneWriterInv, Inv
<1>1. manifest.version \in Nat
  BY Counters
<1>2. ASSUME NEW w \in Writers, manifest' = manifest, op'[w].pc \notin {"load", "swap"}
      PROVE  FirstBuild'
  BY <1>2, TheCaller DEF FirstBuild
<1>3. ASSUME manifest' = manifest, op' = op
      PROVE  FirstBuild'
  BY <1>3 DEF FirstBuild
<1>4. ASSUME NEW w \in Writers, manifest'.version = manifest.version + 1,
             ~At(w, "load")', ~At(w, "swap")'
      PROVE  FirstBuild'
  BY <1>1, <1>4, TheCaller DEF FirstBuild, At
<1>5. ASSUME NEW w \in Writers, manifest' = manifest, manifest.version < MaxBulkBuilds
      PROVE  FirstBuild'
  BY <1>5, TheCaller DEF FirstBuild
<1>6. ASSUME NEW w \in Writers, Mutate(w)
      PROVE  FirstBuild'
  <2>1. CASE Insert(w) \/ Delete(w) \/ Freeze(w)
    BY <1>2, <2>1, OnlineStages
  <2>2. CASE Publish(w)
    BY <1>4, <2>2, PublishCalm, TheCaller
  <2>3. CASE BulkBuild(w)
    <3>1. ASSUME NEW rows, BulkStore(w, rows)
          PROVE  FirstBuild'
      BY <1>5, <3>1 DEF BulkStore, InsertImmutableSegment, storageVars
    <3>2. CASE BulkLoad(w)
      <4>1. manifest.version < MaxBulkBuilds
        BY <3>2 DEF BulkLoad, At, FirstBuild
      <4> QED
        BY <1>5, <3>2, <4>1 DEF BulkLoad, storageVars
    <3>3. CASE BulkSwap(w)
      BY <1>4, <3>3, BulkSwapCalm, TheCaller
    <3>4. CASE BulkReset(w)
      BY <1>2, <3>4, Stages DEF BulkReset, storageVars, Goto, Typed
    <3> QED
      BY <2>3, <3>1, <3>2, <3>3, <3>4 DEF BulkBuild
  <2>4. ~Fail(w)
    BY NoFailure, TheCaller
  <2> QED
    BY <1>6, <2>1, <2>2, <2>3, <2>4 DEF Mutate
<1>7. ASSUME NEW r \in Readers, LoadSnapshot(r), UNCHANGED indexVars
      PROVE  FirstBuild'
  BY <1>3, <1>7 DEF LoadSnapshot, indexVars
<1>8. CASE Reopen \/ UNCHANGED vars
  BY <1>3, <1>8 DEF Reopen, vars, storageVars, indexVars
<1> QED
  BY <1>6, <1>7, <1>8 DEF Next, Running

\* The manifest changes when a mutation is published, and when a build is.
LEMMA ManifestChanges ==
  ASSUME OneCaller, OneWriterInv, [Next]_vars, manifest' # manifest
  PROVE  \E w \in Writers : Publish(w) \/ BulkSwap(w)
<1>1. \A w \in Writers : ~(Insert(w) \/ Delete(w) \/ Freeze(w))
  BY OnlineStages DEF OneWriterInv, Inv
<1>2. \A w \in Writers : ~Fail(w)
  BY NoFailure, TheCaller
<1>3. \A w \in Writers : BulkBuild(w) => BulkSwap(w)
  BY DEF BulkBuild, BulkStore, BulkLoad, BulkReset, InsertImmutableSegment, storageVars
<1>4. ~(\E r \in Readers : LoadSnapshot(r)) /\ ~Reopen /\ ~UNCHANGED vars
  BY DEF LoadSnapshot, Reopen, vars, storageVars
<1> QED
  BY <1>1, <1>2, <1>3, <1>4 DEF Next, Running, Mutate

\* No publish drops a label's start entry while the node it names lives on,
\* even when the repair walk was cut short.  A bulk build is made once, over
\* the empty index: one over an index with rows replaces their entries too.
THEOREM LabelsKeepStarts ==
  ASSUME OneCaller, MaxVisited >= 2, MaxBulkBuilds <= 1
  PROVE  Spec => LiveLabelsKeepStarts
<1> DEFINE All == OneWriterInv /\ StartsInv /\ FirstBuild
           Kept == \A l \in DOMAIN manifest.start.labeled :
                     manifest.start.labeled[l] \in PresentNodes(manifest)' =>
                       l \in DOMAIN manifest'.start.labeled
<1>1. Init => All
  BY InitCalm
<1>2. All /\ [Next]_vars => All'
  <2> SUFFICES ASSUME All, [Next]_vars PROVE All'
    OBVIOUS
  <2>1. OneWriterInv' /\ StartsInv'
    BY CallerStep
  <2> QED
    BY <2>1, FirstBuildKeeps
<1>3. All /\ All' /\ [Next]_vars => [Kept]_vars
  <2> SUFFICES ASSUME All, All', [Next]_vars, manifest' # manifest PROVE Kept
    OBVIOUS
  <2>1. PICK w \in Writers : Publish(w) \/ BulkSwap(w)
    BY ManifestChanges
  <2>2. \A v \in Writers : v = w
    BY TheCaller
  <2>3. CASE Publish(w)
    <3>1. Exact' /\ KeepsEntries(manifest'.start, owed')
      BY <2>2, <2>3, PublishCalm DEF OneWriterInv
    <3>2. PresentNodes(manifest)' = DOMAIN owed'
      BY <3>1 DEF Exact
    <3> QED
      BY <3>1, <3>2 DEF KeepsEntries
  <2>4. CASE BulkSwap(w)
    <3>1. manifest.version < MaxBulkBuilds
      BY <2>4 DEF BulkSwap, At, FirstBuild
    <3>2. manifest.version \in Nat /\ MaxBulkBuilds \in Nat
      BY Counters, IndexAssumption DEF OneWriterInv, Inv
    <3>3. manifest.version = 0
      BY <3>1, <3>2
    <3>4. DOMAIN manifest.start.labeled = {}
      BY <3>3 DEF FirstBuild, EmptyFn
    <3> QED
      BY <3>4
  <2> QED
    BY <2>1, <2>3, <2>4
<1>4. LiveLabelsKeepStarts <=> [][Kept]_vars
  BY DEF LiveLabelsKeepStarts
<1> HIDE DEF All, Kept
<1> QED
  BY <1>1, <1>2, <1>3, <1>4, PTL DEF Spec

==============================================================================
