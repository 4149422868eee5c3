-------------------------- MODULE OnlineIndexProofs --------------------------
(***************************************************************************)
(* What an online mutation promises its caller: an acknowledged row stays  *)
(* visible until someone asks to delete it, a deleted row never comes      *)
(* back, and no id a client ever saw is handed out again.  The first part  *)
(* is for any number of writers that interleave and fail anywhere, over    *)
(* one open index; the second keeps the types and what the storage         *)
(* promises, whatever the writers do and however often it is reopened.     *)
(*                                                                         *)
(* The writers share one cumulative draft, so a publish carries whatever   *)
(* the others have staged so far.  What makes this safe is that a writer   *)
(* only publishes over the manifest it planned against: while that one is  *)
(* current nobody else has published, so nobody can have seen the row that *)
(* is being inserted, and nobody can be deleting it.                       *)
(***************************************************************************)
EXTENDS OnlineIndex, MemoryStorageProofs, FiniteSetTheorems

------------------------------------------------------------------------------
(* The mutations in flight *)

BuiltRows == UNION {[1 .. n -> Rows] : n \in 0 .. MaxBuiltRows}

PlanOps == [pc : {"plan"}, node : Nodes, row : Rows]
StageOps == [pc : {"append", "link"}, node : Nodes, row : Rows, seen : Manifest, todo : Links]
InsertOps == [pc : {"freeze"}, node : Nodes, row : Rows, seen : Manifest]
RepairOps == [pc : {"tombstone", "repair"}, node : Nodes, seen : Manifest,
              start : Starts \cup {NoStart}]
DeleteOps == [pc : {"freeze"}, node : Nodes, seen : Manifest]
PublishOps == [op : InsertOps \cup DeleteOps, pc : {"publish"}, delta : Nat, epoch : Nat,
               start : Starts \cup {NoStart}]
LoadOps == [pc : {"load"}, rows : BuiltRows, segments : Seq(Nat)]
SwapOps == [op : LoadOps, pc : {"swap"}, seen : Manifest]
ResetOps == [pc : {"reset"}, last : Nat]

Ops == {NoOp} \cup PlanOps \cup StageOps \cup InsertOps \cup RepairOps \cup DeleteOps
         \cup PublishOps \cup LoadOps \cup SwapOps \cup ResetOps

\* The insert or delete a writer is in, the node and the manifest it is about.
Mutation(w) == IF At(w, "publish") THEN op[w].op ELSE op[w]
Node(w) == Mutation(w).node
Seen(w) == Mutation(w).seen

Planning(w) == op[w] \in PlanOps \cup StageOps /\ ~At(w, "link")
Inserting(w) ==
  \/ op[w] \in PlanOps \cup StageOps \cup InsertOps
  \/ At(w, "publish") /\ op[w].op \in InsertOps
Deleting(w) ==
  \/ op[w] \in RepairOps \cup DeleteOps
  \/ At(w, "publish") /\ op[w].op \in DeleteOps
Busy(w) == Inserting(w) \/ Deleting(w)
Building(w) == op[w] \in LoadOps \cup SwapOps \cup ResetOps

\* A writer that may still publish: the manifest it planned against is current.
Current(w) == Seen(w).version = manifest.version

------------------------------------------------------------------------------
(* The invariant *)

\* Ids in the draft, in the segments of the manifest, in the frozen deltas.
Staged == DOMAIN draft.records \cup DOMAIN draft.tombstones
Built == {n \in Nodes : IsImmutable(manifest, n)}
Frozen == UNION {DOMAIN hotDeltas[d].records : d \in DOMAIN hotDeltas}
InUse == DOMAIN owed \cup gone \cup Staged \cup Built \cup Frozen

\* What the manifest can show, deleted or not.
Shown == Built \cup DOMAIN DeltaOf(manifest).records

\* A reader of the delta, over the manifest's segments, finds this row ...
Carries(delta, n, row) ==
  IF n \in DOMAIN delta.records THEN delta.records[n].row = row
  ELSE IsImmutable(manifest, n) /\ ImmutableRecord(manifest, n).row = row

\* ... and finds what the clients were told.
Honest(delta) ==
  /\ \A n \in DOMAIN owed : n \notin DOMAIN delta.tombstones /\ Carries(delta, n, owed[n])
  /\ \A n \in gone : n \in DOMAIN delta.tombstones

EpochsWithin(delta, e) == \A n \in DOMAIN delta.tombstones : delta.tombstones[n] <= e

\* The inserted row is staged, nobody has seen it, nobody deletes it.
Alone(w) ==
  /\ Node(w) \notin DOMAIN owed \cup gone \cup Shown
  /\ \A v \in Writers : Deleting(v) => Node(v) # Node(w)
Holds(w, delta) ==
  /\ Node(w) \in DOMAIN delta.records /\ delta.records[Node(w)].row = Mutation(w).row
  /\ Node(w) \notin DOMAIN delta.tombstones

SeenOK(w) ==
  /\ op[w] \in StageOps \cup InsertOps \cup RepairOps \cup DeleteOps \cup PublishOps =>
       PinnedManifest(Seen(w))
  /\ op[w] \in SwapOps => PinnedManifest(op[w].seen)

\* An id is taken from the allocator, and nobody else has it.
FreshOK(w) ==
  Planning(w) =>
    /\ Node(w) \notin InUse
    /\ \A v \in Writers : v # w /\ Busy(v) => Node(v) # Node(w)

InsertOK(w) ==
  Inserting(w) /\ ~Planning(w) =>
    /\ Node(w) \in Staged
    /\ Current(w) => Alone(w) /\ Holds(w, draft)

DeleteOK(w) ==
  Deleting(w) =>
    /\ Node(w) \notin DOMAIN owed
    /\ ~At(w, "tombstone") => Node(w) \in DOMAIN draft.tombstones

\* The delta a writer is about to publish, if it is retained, and what the
\* publish would show.
OwnDelta(w) == {hotDeltas[d] : d \in DOMAIN hotDeltas \cap {op[w].delta}}
Publishable(w, delta) ==
  /\ EpochsWithin(delta, op[w].epoch)
  /\ Current(w) =>
       /\ Honest(delta)
       /\ Inserting(w) => Holds(w, delta)
       /\ Deleting(w) => Node(w) \in DOMAIN delta.tombstones

FrozenOK(w) ==
  At(w, "publish") =>
    /\ op[w].delta \in 1 .. nextHotDelta - 1
    /\ \A delta \in OwnDelta(w) : Publishable(w, delta)

\* A bulk build runs alone, over a storage nothing was staged in; the segment
\* it stored holds the rows of its input.
HoldsRows(built) ==
  /\ built.rows = <<>> => built.segments = <<>>
  /\ built.rows # <<>> =>
       \E k \in DOMAIN segments :
         /\ built.segments = <<k>> /\ DOMAIN segments[k] = DOMAIN built.rows
         /\ \A n \in DOMAIN built.rows : segments[k][n].row = built.rows[n]

BuildOK(w) ==
  Building(w) =>
    /\ Staged = {} /\ \A v \in Writers : v = w
    /\ op[w] \in LoadOps => HoldsRows(op[w])
    /\ op[w] \in SwapOps => HoldsRows(op[w].op)
    /\ op[w] \in ResetOps => op[w].last = manifest.maxId

Typed ==
  /\ StorageTypeOK /\ ManifestResolves
  /\ nextId \in Nat \ {0}
  /\ op \in [Writers -> Ops]
  /\ owed \in PartialFn(Nodes, Rows)
  /\ gone \subseteq Nodes

IdsOK ==
  /\ (\A w \in Writers : ~At(w, "reset")) =>
       /\ \A n \in InUse : n < nextId
       /\ \A w \in Writers : Busy(w) => Node(w) < nextId
       /\ manifest.maxId < nextId
  /\ \A n \in DOMAIN owed \cup gone \cup Shown : n <= manifest.maxId

StagedFirst == Staged = {} => DOMAIN hotDeltas = {}

ManifestOK ==
  /\ Honest(DeltaOf(manifest))
  /\ EpochsWithin(DeltaOf(manifest), manifest.epoch)

Inv ==
  /\ Typed /\ IdsOK /\ StagedFirst
  /\ ManifestOK /\ Honest(draft)
  /\ \A w \in Writers :
       SeenOK(w) /\ FreshOK(w) /\ InsertOK(w) /\ DeleteOK(w) /\ FrozenOK(w) /\ BuildOK(w)

------------------------------------------------------------------------------
(* Mutations by their stage *)

\* What a writer is in, by its program counter.
LEMMA Kinds ==
  ASSUME NEW o \in Ops
  PROVE  /\ o.pc = "idle" => o = NoOp
         /\ o.pc = "plan" => o \in PlanOps
         /\ o.pc \in {"append", "link"} => o \in StageOps
         /\ o.pc \in {"tombstone", "repair"} => o \in RepairOps
         /\ o.pc = "freeze" => o \in InsertOps \cup DeleteOps
         /\ o.pc = "publish" => o \in PublishOps
         /\ o.pc = "load" => o \in LoadOps
         /\ o.pc = "swap" => o \in SwapOps
         /\ o.pc = "reset" => o \in ResetOps
BY DEF Ops, NoOp, PlanOps, StageOps, InsertOps, RepairOps, DeleteOps, PublishOps, LoadOps,
       SwapOps, ResetOps

\* The stage of each kind of mutation.
LEMMA Stages ==
  /\ NoOp.pc = "idle"
  /\ \A o \in PlanOps : o.pc = "plan"
  /\ \A o \in StageOps : o.pc \in {"append", "link"}
  /\ \A o \in InsertOps \cup DeleteOps : o.pc = "freeze"
  /\ \A o \in RepairOps : o.pc \in {"tombstone", "repair"}
  /\ \A o \in PublishOps : o.pc = "publish"
  /\ \A o \in LoadOps : o.pc = "load"
  /\ \A o \in SwapOps : o.pc = "swap"
  /\ \A o \in ResetOps : o.pc = "reset"
BY DEF NoOp, PlanOps, StageOps, InsertOps, RepairOps, DeleteOps, PublishOps, LoadOps,
       SwapOps, ResetOps

\* An insert names its row, a delete does not.
LEMMA Shapes ==
  /\ \A o \in InsertOps : "row" \in DOMAIN o
  /\ \A o \in DeleteOps : "row" \notin DOMAIN o
BY DEF InsertOps, DeleteOps

\* What a busy writer works on is a node, and nothing else is a mutation.
LEMMA BusyFacts ==
  ASSUME op \in [Writers -> Ops], NEW w \in Writers
  PROVE  /\ Busy(w) => Node(w) \in Nodes
         /\ Inserting(w) => Mutation(w).row \in Rows
         /\ ~(Inserting(w) /\ Deleting(w))
         /\ ~(Busy(w) /\ Building(w))
         /\ Planning(w) => Inserting(w)
         /\ Planning(w) <=> op[w].pc \in {"plan", "append"}
         /\ At(w, "reset") <=> op[w] \in ResetOps
         /\ At(w, "idle") => ~Busy(w) /\ ~Building(w)
<1> DEFINE o == op[w]
<1>1. o \in Ops
  OBVIOUS
<1>2. /\ o \in PlanOps \cup StageOps \cup InsertOps => o.node \in Nodes /\ o.row \in Rows
      /\ o \in RepairOps \cup DeleteOps => o.node \in Nodes
  BY DEF PlanOps, StageOps, InsertOps, RepairOps, DeleteOps
<1>3. o \in PublishOps =>
        /\ o.op \in InsertOps \cup DeleteOps
        /\ o.op \in InsertOps => o.op.node \in Nodes /\ o.op.row \in Rows
        /\ o.op \in DeleteOps => o.op.node \in Nodes
  BY DEF PublishOps, InsertOps, DeleteOps
<1> HIDE DEF o
<1>4. At(w, "publish") <=> o \in PublishOps
  BY <1>1, Kinds, Stages DEF o, At
<1>5. ~(o \in InsertOps /\ o \in DeleteOps) /\ ~(o.op \in InsertOps /\ o.op \in DeleteOps)
  BY Shapes
<1>6. Busy(w) => Node(w) \in Nodes
  BY <1>2, <1>3, <1>4, Stages DEF Busy, Inserting, Deleting, Node, Mutation, At, o
<1>7. Inserting(w) => Mutation(w).row \in Rows
  BY <1>2, <1>3, <1>4, Stages DEF Inserting, Mutation, At, o
<1>8. ~(Inserting(w) /\ Deleting(w))
  BY <1>1, <1>4, <1>5, Stages DEF Inserting, Deleting, At, o
<1>9. ~(Busy(w) /\ Building(w))
  BY <1>1, <1>4, Stages DEF Busy, Inserting, Deleting, Building, At, o
<1>10. Planning(w) => Inserting(w)
  BY Stages DEF Planning, Inserting, At, o
<1>11. Planning(w) <=> op[w].pc \in {"plan", "append"}
  BY <1>1, Kinds, Stages DEF Planning, At, o
<1>12. At(w, "reset") <=> op[w] \in ResetOps
  BY <1>1, Kinds, Stages DEF At, o
<1>13. At(w, "idle") => ~Busy(w) /\ ~Building(w)
  BY <1>1, Stages DEF At, Busy, Inserting, Deleting, Building, o
<1> QED
  BY <1>6, <1>7, <1>8, <1>9, <1>10, <1>11, <1>12, <1>13

------------------------------------------------------------------------------
(* What a step that publishes nothing keeps *)

\* A writer that takes no step stays in its mutation.
LEMMA SameOp ==
  ASSUME NEW v \in Writers, op'[v] = op[v]
  PROVE  /\ Mutation(v)' = Mutation(v) /\ Node(v)' = Node(v) /\ Seen(v)' = Seen(v)
         /\ Planning(v)' = Planning(v) /\ Inserting(v)' = Inserting(v)
         /\ Deleting(v)' = Deleting(v) /\ Busy(v)' = Busy(v) /\ Building(v)' = Building(v)
         /\ \A pc : At(v, pc)' = At(v, pc)
BY DEF Mutation, Node, Seen, Planning, Inserting, Deleting, Busy, Building, At

\* Everything the manifest's delta holds is in a retained delta.
LEMMA ShownInUse ==
  ASSUME Typed
  PROVE  /\ Shown \subseteq Built \cup Frozen /\ Shown \subseteq InUse
         /\ manifest.hotDelta # 0 => manifest.hotDelta \in DOMAIN hotDeltas
         /\ PresentNodes(manifest) \subseteq Shown
<1>1. manifest.hotDelta = 0 \/ manifest.hotDelta \in DOMAIN hotDeltas
  BY DEF Typed, ManifestResolves, ValidReferences, Resolves
<1>2. DOMAIN DeltaOf(manifest).records \subseteq Frozen
  BY <1>1 DEF DeltaOf, EmptyFn, Frozen
<1>3. PresentNodes(manifest) \subseteq Shown
  BY DEF PresentNodes, IsPresent, ReadNode, Tombstoned, Missing, Shown, Built
<1> QED
  BY <1>1, <1>2, <1>3 DEF Shown, InUse

\* The maps of the draft and of the retained deltas are over nodes.
LEMMA DraftFacts ==
  ASSUME Typed
  PROVE  /\ DOMAIN draft.records \subseteq Nodes /\ DOMAIN draft.tombstones \subseteq Nodes
         /\ DOMAIN owed \subseteq Nodes /\ gone \subseteq Nodes /\ Built \subseteq Nodes
         /\ Frozen \subseteq Nodes
<1>1. \A d \in DOMAIN hotDeltas : hotDeltas[d] \in Delta
  BY DEF Typed, StorageTypeOK
<1>2. \A d \in DOMAIN hotDeltas : DOMAIN hotDeltas[d].records \subseteq Nodes
  BY <1>1, PartialApply DEF Delta
<1>3. Frozen \subseteq Nodes
  BY <1>2 DEF Frozen
<1> QED
  BY <1>3, DraftParts, PartialApply DEF Typed, Built

\* Ids and counters are numbers.
LEMMA Counters ==
  ASSUME Typed
  PROVE  /\ Nodes \subseteq Nat \ {0}
         /\ nextId \in Nat \ {0} /\ nextHotDelta \in Nat \ {0} /\ nextEpoch \in Nat \ {0}
         /\ manifest.maxId \in Nat /\ manifest.version \in Nat
         /\ manifest.epoch \in Nat /\ manifest.hotDelta \in Nat
         /\ DOMAIN hotDeltas \subseteq 1 .. nextHotDelta - 1
<1>1. Nodes \subseteq Nat \ {0}
  <2> DEFINE size == Cardinality(Nodes)
  <2>1. size \in Nat /\ Nodes = 1 .. size
    BY FS_CardinalityType, IndexAssumption
  <2> HIDE DEF size
  <2> QED
    BY <2>1
<1>2. manifest \in Manifest
  BY DEF Typed, StorageTypeOK
<1>3. /\ manifest.maxId \in Nat /\ manifest.version \in Nat
      /\ manifest.epoch \in Nat /\ manifest.hotDelta \in Nat
  BY <1>2 DEF Manifest
<1> QED
  BY <1>1, <1>3 DEF Typed, StorageTypeOK

\* The built rows are those of the manifest's segments, and of nothing else.
LEMMA SegmentsSame ==
  ASSUME segments' = segments, manifest'.segments = manifest.segments
  PROVE  \A n : /\ IsImmutable(manifest, n)' <=> IsImmutable(manifest, n)
                /\ ImmutableRecord(manifest, n)' = ImmutableRecord(manifest, n)
BY DEF IsImmutable, SegmentsWith, ImmutableRecord

\* A step of writer w that touches, in the draft, only what is about the
\* nodes X, and neither publishes nor acknowledges, keeps the invariant if it
\* keeps it for w and X belongs to no other writer that may still publish.
LEMMA StagingKeeps ==
  ASSUME Inv, Typed', NEW w \in Writers, NEW X \in SUBSET Nodes,
         UNCHANGED <<manifest, segments, hotDeltas, nextHotDelta, gone>>,
         DOMAIN owed' \subseteq DOMAIN owed, \A n \in DOMAIN owed' : owed'[n] = owed[n],
         nextId <= nextId',
         \A n \in Nodes \ X :
           /\ n \in DOMAIN draft'.records <=> n \in DOMAIN draft.records
           /\ n \in DOMAIN draft.records => draft'.records[n].row = draft.records[n].row
           /\ n \in DOMAIN draft'.tombstones <=> n \in DOMAIN draft.tombstones,
         Staged \subseteq Staged',
         \A n \in X : n \notin DOMAIN owed' /\ n < nextId',
         X \cap gone \subseteq DOMAIN draft'.tombstones,
         \A v \in Writers \ {w} :
           /\ op'[v] = op[v] /\ ~Building(v)
           /\ Deleting(v) /\ Node(v) \in X => Node(v) \in DOMAIN draft'.tombstones
           /\ Planning(v) => Node(v) \notin X
           /\ Inserting(v) /\ ~Planning(v) /\ Current(v) => Node(v) \notin X,
         ~Building(w), ~Building(w)',
         Busy(w)' => /\ Node(w)' < nextId'
                     /\ \A v \in Writers \ {w} : Planning(v) => Node(v) # Node(w)',
         Deleting(w)' => \A v \in Writers \ {w} :
                           Inserting(v) /\ ~Planning(v) /\ Current(v) => Node(v) # Node(w)',
         SeenOK(w)', FreshOK(w)', InsertOK(w)', DeleteOK(w)', FrozenOK(w)'
  PROVE  Inv'
<1> USE DEF Inv
<1>1. /\ Built' = Built /\ Frozen' = Frozen /\ Shown' = Shown
      /\ DeltaOf(manifest)' = DeltaOf(manifest)
  BY DEF Built, IsImmutable, SegmentsWith, Frozen, Shown, DeltaOf
<1>2. \A delta : \A n \in DOMAIN owed' :
        Carries(delta, n, owed[n]) => Carries(delta, n, owed[n])'
  BY SegmentsSame DEF Carries
<1>3. \A delta : Honest(delta) => Honest(delta)'
  BY <1>2 DEF Honest
<1>4. Honest(draft)'
  <2>1. ASSUME NEW n \in DOMAIN owed'
        PROVE  n \notin DOMAIN draft'.tombstones /\ Carries(draft, n, owed[n])'
    <3>1. n \in Nodes \ X /\ n \in DOMAIN owed
      BY <2>1, DraftFacts
    <3>2. n \notin DOMAIN draft.tombstones /\ Carries(draft, n, owed[n])
      BY <3>1 DEF Honest
    <3>3. Carries(draft, n, owed[n])'
      BY <3>1, <3>2, SegmentsSame DEF Carries
    <3> QED
      BY <3>1, <3>2, <3>3
  <2>2. ASSUME NEW n \in gone
        PROVE  n \in DOMAIN draft'.tombstones
    BY <2>2, DraftFacts DEF Honest
  <2> QED
    BY <2>1, <2>2 DEF Honest
<1>5. InUse' \subseteq InUse \cup X
  <2>1. Staged' \subseteq Staged \cup X
    <3>1. DOMAIN draft'.records \subseteq Nodes /\ DOMAIN draft'.tombstones \subseteq Nodes
      BY DraftParts, PartialApply DEF Typed, StorageTypeOK, Draft
    <3> QED
      BY <3>1 DEF Staged
  <2> QED
    BY <1>1, <2>1 DEF InUse
<1>6. \A v \in Writers : ~At(v, "reset")
  BY BusyFacts DEF Typed, Building
<1>7. IdsOK'
  <2>1. /\ \A n \in InUse : n < nextId
        /\ \A v \in Writers : Busy(v) => Node(v) < nextId
        /\ manifest.maxId < nextId
    BY <1>6 DEF IdsOK
  <2>2. nextId \in Nat /\ nextId' \in Nat /\ manifest.maxId \in Nat /\ Nodes \subseteq Nat
    BY Counters DEF Typed
  <2>3. \A n \in InUse' : n < nextId'
    <3>1. InUse \subseteq Nodes
      BY DraftFacts DEF InUse, Staged
    <3>2. ASSUME NEW n \in InUse'
          PROVE  n < nextId'
      <4>1. n \in InUse \/ n \in X
        BY <1>5, <3>2
      <4>2. CASE n \in X
        BY <4>2
      <4>3. CASE n \in InUse
        <5>1. n < nextId /\ n \in Nat
          BY <2>1, <2>2, <3>1, <4>3
        <5> QED
          BY <2>2, <5>1
      <4> QED
        BY <4>1, <4>2, <4>3
    <3> QED
      BY <3>2
  <2>4. \A v \in Writers : Busy(v)' => Node(v)' < nextId'
    <3>1. \A v \in Writers : Busy(v) => Node(v) \in Nodes
      BY BusyFacts DEF Typed
    <3>2. ASSUME NEW v \in Writers \ {w}
          PROVE  Busy(v)' => Node(v)' < nextId'
      <4>1. Busy(v)' = Busy(v) /\ Node(v)' = Node(v)
        BY <3>2, SameOp
      <4>2. Busy(v) => Node(v) \in Nat /\ Node(v) < nextId
        BY <2>1, <2>2, <3>1
      <4> QED
        BY <2>2, <4>1, <4>2
    <3> QED
      BY <3>2
  <2>5. \A n \in DOMAIN owed' \cup gone' \cup Shown' : n <= manifest'.maxId
    BY <1>1 DEF IdsOK
  <2> QED
    BY <2>1, <2>2, <2>3, <2>4, <2>5 DEF IdsOK
<1>8. StagedFirst' /\ ManifestOK'
  BY <1>1, <1>3 DEF StagedFirst, ManifestOK, EpochsWithin
<1>9. ASSUME NEW v \in Writers \ {w}
      PROVE  SeenOK(v)' /\ FreshOK(v)' /\ InsertOK(v)' /\ DeleteOK(v)' /\ FrozenOK(v)' /\ BuildOK(v)'
  <2> USE SameOp
  <2>1. SeenOK(v)'
    BY <1>9 DEF SeenOK, PinnedManifest
  <2>2. FreshOK(v)'
    <3>1. CASE Planning(v)
      <4>1. Node(v) \notin InUse /\ Node(v) \notin X
            /\ \A u \in Writers : u # v /\ Busy(u) => Node(u) # Node(v)
        BY <1>9, <3>1 DEF FreshOK
      <4>2. \A u \in Writers : u # v /\ Busy(u)' => Node(u)' # Node(v)
        BY <1>9, <3>1, <4>1
      <4> QED
        BY <1>5, <1>9, <4>1, <4>2 DEF FreshOK
    <3>2. CASE ~Planning(v)
      BY <1>9, <3>2 DEF FreshOK
    <3> QED
      BY <3>1, <3>2
  <2>3. InsertOK(v)'
    <3>1. CASE Inserting(v) /\ ~Planning(v)
      <4>1. Node(v) \in Nodes /\ Node(v) \in Staged'
        BY <1>9, <3>1, BusyFacts DEF InsertOK, Typed, Busy
      <4>2. ASSUME Current(v)
            PROVE  Alone(v)' /\ Holds(v, draft)'
        <5>1. Alone(v) /\ Holds(v, draft) /\ Node(v) \notin X
          BY <1>9, <3>1, <4>2 DEF InsertOK
        <5>2. \A u \in Writers : Deleting(u)' => Node(u)' # Node(v)
          BY <1>9, <3>1, <4>2, <5>1 DEF Alone
        <5>3. Alone(v)'
          BY <1>1, <1>9, <5>1, <5>2 DEF Alone
        <5>4. Holds(v, draft)'
          BY <1>9, <4>1, <5>1 DEF Holds
        <5> QED
          BY <5>3, <5>4
      <4>3. Current(v)' = Current(v)
        BY <1>9 DEF Current
      <4> QED
        BY <1>9, <4>1, <4>2, <4>3 DEF InsertOK
    <3>2. CASE ~(Inserting(v) /\ ~Planning(v))
      BY <1>9, <3>2 DEF InsertOK
    <3> QED
      BY <3>1, <3>2
  <2>4. DeleteOK(v)'
    <3>1. CASE Deleting(v)
      <4>1. Node(v) \in Nodes /\ Node(v) \notin DOMAIN owed
            /\ (~At(v, "tombstone") => Node(v) \in DOMAIN draft.tombstones)
        BY <1>9, <3>1, BusyFacts DEF DeleteOK, Typed, Busy
      <4>2. ~At(v, "tombstone") => Node(v) \in DOMAIN draft'.tombstones
        BY <1>9, <3>1, <4>1
      <4> QED
        BY <1>9, <4>1, <4>2 DEF DeleteOK
    <3>2. CASE ~Deleting(v)
      BY <1>9, <3>2 DEF DeleteOK
    <3> QED
      BY <3>1, <3>2
  <2>5. FrozenOK(v)'
    <3>1. Current(v)' = Current(v) /\ op'[v] = op[v]
      BY <1>9 DEF Current
    <3>2. \A delta : Holds(v, delta)' = Holds(v, delta)
      BY <1>9 DEF Holds
    <3>3. \A delta : Publishable(v, delta) => Publishable(v, delta)'
      BY <1>3, <1>9, <3>1, <3>2 DEF Publishable, EpochsWithin
    <3>4. OwnDelta(v)' = OwnDelta(v)
      BY <3>1 DEF OwnDelta
    <3> QED
      BY <1>9, <3>1, <3>3, <3>4 DEF FrozenOK
  <2>6. BuildOK(v)'
    BY <1>9 DEF BuildOK
  <2> QED
    BY <2>1, <2>2, <2>3, <2>4, <2>5, <2>6
<1>10. BuildOK(w)'
  BY DEF BuildOK
<1> QED
  BY <1>4, <1>7, <1>8, <1>9, <1>10

\* A writer's step gives it a new mutation and leaves the others in theirs.
LEMMA StepOf ==
  ASSUME op \in [Writers -> Ops], NEW w \in Writers, NEW o \in Ops, Goto(w, o)
  PROVE  /\ op' \in [Writers -> Ops] /\ op'[w] = o
         /\ \A v \in Writers \ {w} : op'[v] = op[v]
BY DEF Goto

\* While a writer is in an insert or a delete, or idle, nobody builds.
LEMMA NoBuilder ==
  ASSUME Inv, NEW w \in Writers, ~Building(w)
  PROVE  /\ \A v \in Writers : ~Building(v)
         /\ \A v \in Writers : ~At(v, "reset")
<1>1. \A v \in Writers : ~Building(v)
  BY DEF Inv, BuildOK
<1>2. \A v \in Writers : ~At(v, "reset")
  BY <1>1, BusyFacts DEF Inv, Typed, Building
<1> QED
  BY <1>1, <1>2

\* Steps that do not touch the storage keep its types.
LEMMA StorageSame ==
  ASSUME Typed, UNCHANGED storageVars
  PROVE  StorageTypeOK' /\ ManifestResolves'
BY DEF Typed, storageVars, StorageTypeOK, ManifestResolves, ValidReferences, Resolves

\* Staging keeps the manifest resolvable.
LEMMA DraftStep ==
  ASSUME Typed, StorageTypeOK', UNCHANGED <<manifest, segments, hotDeltas>>,
         op' \in [Writers -> Ops], UNCHANGED <<owed, gone>>, nextId' \in Nat \ {0}
  PROVE  Typed'
BY DEF Typed, ManifestResolves, ValidReferences, Resolves

\* The rows and the tombstones of the draft stay as they are.
SameRows ==
  /\ DOMAIN draft'.records = DOMAIN draft.records
  /\ \A n \in DOMAIN draft.records : draft'.records[n].row = draft.records[n].row
  /\ DOMAIN draft'.tombstones = DOMAIN draft.tombstones

\* A mutation that moves on, touching no row, or ends with an error, keeps the
\* invariant.
LEMMA QuietKeeps ==
  ASSUME Inv, Typed', NEW w \in Writers, SameRows,
         UNCHANGED <<manifest, segments, hotDeltas, nextHotDelta, owed, gone>>,
         nextId <= nextId',
         \A v \in Writers \ {w} : op'[v] = op[v],
         ~Building(w), ~Building(w)',
         \/ ~Busy(w)' /\ ~At(w, "publish")' /\ op'[w] = NoOp
         \/ /\ Node(w)' = Node(w) /\ Busy(w)
            /\ (Inserting(w)' <=> Inserting(w)) /\ (Deleting(w)' <=> Deleting(w))
            /\ Inserting(w) => Mutation(w).row' = Mutation(w).row
            /\ Planning(w)' <=> Planning(w)
            /\ ~Planning(w) => Seen(w)' = Seen(w)
            /\ At(w, "tombstone") => At(w, "tombstone")'
            /\ ~At(w, "publish") /\ ~At(w, "publish")'
            /\ SeenOK(w)'
  PROVE  Inv'
<1> DEFINE X == {}
<1>1. \A v \in Writers : ~Building(v) /\ ~At(v, "reset")
  BY NoBuilder
<1>2. Staged' = Staged
  BY DEF SameRows, Staged
<1>3. ASSUME Busy(w)'
      PROVE  Node(w)' < nextId'
  <2>1. Busy(w) /\ Node(w)' = Node(w) /\ Node(w) \in Nodes
    BY <1>3, BusyFacts DEF Busy, Inv, Typed
  <2>2. Node(w) < nextId
    BY <1>1, <2>1 DEF Inv, IdsOK
  <2>3. Node(w) \in Nat /\ nextId \in Nat /\ nextId' \in Nat
    BY <2>1, Counters DEF Inv, Typed
  <2> QED
    BY <2>1, <2>2, <2>3
<1>4. ASSUME Busy(w)', NEW v \in Writers \ {w}, Planning(v)
      PROVE  Node(v) # Node(w)'
  <2>1. Busy(w) /\ Node(w)' = Node(w)
    BY <1>4 DEF Busy
  <2> QED
    BY <1>4, <2>1 DEF Inv, FreshOK
<1>5. ASSUME Deleting(w)', NEW v \in Writers \ {w},
             Inserting(v), ~Planning(v), Current(v)
      PROVE  Node(v) # Node(w)'
  <2>1. Deleting(w) /\ Node(w)' = Node(w)
    BY <1>5 DEF Busy
  <2> QED
    BY <1>5, <2>1 DEF Inv, InsertOK, Alone
<1>6. InUse' = InUse /\ Shown' = Shown
  BY <1>2 DEF InUse, Shown, Built, IsImmutable, SegmentsWith, Frozen, DeltaOf
<1>7. SeenOK(w)'
  <2>1. CASE op'[w] = NoOp
    BY <2>1, Stages DEF SeenOK
  <2> QED
    BY <2>1
<1>8. FreshOK(w)'
  <2>1. CASE Planning(w)'
    <3>1. Planning(w) /\ Node(w)' = Node(w)
      BY <2>1 DEF Planning, Inserting, Busy
    <3>2. Node(w) \notin InUse /\ \A v \in Writers : v # w /\ Busy(v) => Node(v) # Node(w)
      BY <3>1 DEF Inv, FreshOK
    <3>3. \A v \in Writers : v # w => Busy(v)' = Busy(v) /\ Node(v)' = Node(v)
      BY SameOp
    <3> QED
      BY <1>6, <3>1, <3>2, <3>3 DEF FreshOK
  <2> QED
    BY <2>1 DEF FreshOK
<1>9. InsertOK(w)'
  <2>1. CASE Inserting(w)' /\ ~Planning(w)'
    <3>1. /\ Inserting(w) /\ ~Planning(w) /\ Node(w)' = Node(w) /\ Seen(w)' = Seen(w)
          /\ Mutation(w).row' = Mutation(w).row
          /\ \A v \in Writers : Deleting(v)' => Deleting(v) /\ Node(v)' = Node(v)
      BY <2>1, SameOp DEF Busy
    <3>2. Node(w) \in Staged /\ (Current(w) => Alone(w) /\ Holds(w, draft))
      BY <3>1 DEF Inv, InsertOK
    <3>3. Current(w)' = Current(w)
      BY <3>1 DEF Current
    <3>4. Alone(w) => Alone(w)'
      BY <1>6, <3>1 DEF Alone
    <3>5. Holds(w, draft) => Holds(w, draft)'
      BY <3>1 DEF Holds, SameRows
    <3> QED
      BY <1>2, <3>1, <3>2, <3>3, <3>4, <3>5 DEF InsertOK
  <2> QED
    BY <2>1 DEF InsertOK
<1>10. DeleteOK(w)'
  <2>1. CASE Deleting(w)'
    <3>1. Deleting(w) /\ Node(w)' = Node(w) /\ (~At(w, "tombstone")' => ~At(w, "tombstone"))
      BY <2>1 DEF Busy
    <3>2. Node(w) \notin DOMAIN owed /\ (~At(w, "tombstone") => Node(w) \in DOMAIN draft.tombstones)
      BY <3>1 DEF Inv, DeleteOK
    <3>3. DOMAIN draft'.tombstones = DOMAIN draft.tombstones
      BY DEF SameRows
    <3> QED
      BY <3>1, <3>2, <3>3 DEF DeleteOK
  <2> QED
    BY <2>1 DEF DeleteOK
<1>11. FrozenOK(w)'
  BY DEF FrozenOK
<1>12. \A n \in Nodes \ X :
         /\ n \in DOMAIN draft'.records <=> n \in DOMAIN draft.records
         /\ n \in DOMAIN draft.records => draft'.records[n].row = draft.records[n].row
         /\ n \in DOMAIN draft'.tombstones <=> n \in DOMAIN draft.tombstones
  BY DEF SameRows
<1>13. /\ X \in SUBSET Nodes
       /\ DOMAIN owed' \subseteq DOMAIN owed /\ (\A n \in DOMAIN owed' : owed'[n] = owed[n])
       /\ Staged \subseteq Staged'
       /\ \A n \in X : n \notin DOMAIN owed' /\ n < nextId'
       /\ X \cap gone \subseteq DOMAIN draft'.tombstones
  BY <1>2
<1>14. \A v \in Writers \ {w} :
         /\ op'[v] = op[v] /\ ~Building(v)
         /\ Deleting(v) /\ Node(v) \in X => Node(v) \in DOMAIN draft'.tombstones
         /\ Planning(v) => Node(v) \notin X
         /\ Inserting(v) /\ ~Planning(v) /\ Current(v) => Node(v) \notin X
  BY <1>1
<1> HIDE DEF X
<1> QED
  BY <1>3, <1>4, <1>5, <1>7, <1>8, <1>9, <1>10, <1>11, <1>12, <1>13, <1>14, StagingKeeps

------------------------------------------------------------------------------
(* Inserts *)

\* A choice of the best is a choice among the candidates.
LEMMA BestIn ==
  ASSUME NEW k, NEW candidates, NEW best \in Best(k, candidates)
  PROVE  best \subseteq candidates
BY DEF Best, kSubset

LEMMA InsertBeginKeeps ==
  ASSUME Inv, NEW w \in Writers, NEW row \in Rows, InsertBegin(w, row)
  PROVE  Inv'
<1> DEFINE o == [pc |-> "plan", node |-> nextId, row |-> row]
           X == {}
<1>1. /\ At(w, "idle") /\ nextId \in Nodes /\ nextId' = nextId + 1 /\ Goto(w, o)
      /\ UNCHANGED storageVars /\ UNCHANGED <<owed, gone>>
  BY DEF InsertBegin
<1>2. o \in PlanOps /\ o \in Ops
  BY <1>1 DEF PlanOps, Ops
<1>3. o.node = nextId /\ o.pc = "plan"
  OBVIOUS
<1> HIDE DEF o
<1>4. op' \in [Writers -> Ops] /\ op'[w] = o /\ \A v \in Writers \ {w} : op'[v] = op[v]
  BY <1>1, <1>2, StepOf DEF Inv, Typed
<1>5. ~Building(w) /\ ~Busy(w) /\ \A v \in Writers : ~Building(v) /\ ~At(v, "reset")
  BY <1>1, NoBuilder, BusyFacts DEF Inv, Typed
<1>6. /\ Planning(w)' /\ Inserting(w)' /\ ~Deleting(w)' /\ ~Building(w)' /\ Node(w)' = nextId
      /\ ~At(w, "publish")'
  BY <1>2, <1>3, <1>4, Stages DEF Planning, Inserting, Deleting, Building, Node, Mutation, At
<1>7. /\ \A n \in InUse : n < nextId
      /\ \A v \in Writers : Busy(v) => Node(v) < nextId
  BY <1>5 DEF Inv, IdsOK
<1>8. nextId \in Nat /\ nextId < nextId' /\ nextId <= nextId' /\ nextId' \in Nat \ {0}
  BY <1>1, Counters DEF Inv
<1>9. Typed'
  BY <1>1, <1>4, <1>8, StorageSame DEF Inv, Typed
<1>10. InUse' = InUse /\ Staged' = Staged
  BY <1>1 DEF storageVars, InUse, Staged, Built, IsImmutable, SegmentsWith, Frozen
<1>11. \A v \in Writers \ {w} : Busy(v) => Node(v) # nextId
  <2>1. \A v \in Writers : Busy(v) => Node(v) \in Nodes
    BY BusyFacts DEF Inv, Typed
  <2> QED
    BY <1>7, <1>8, <2>1, Counters DEF Inv
<1>12. nextId \notin InUse
  BY <1>7, <1>8
<1>13. FreshOK(w)'
  <2>1. \A v \in Writers \ {w} : Busy(v)' = Busy(v) /\ Node(v)' = Node(v)
    BY <1>4, SameOp
  <2> QED
    BY <1>6, <1>10, <1>11, <1>12, <2>1 DEF FreshOK
<1>14. SeenOK(w)' /\ InsertOK(w)' /\ DeleteOK(w)' /\ FrozenOK(w)'
  BY <1>2, <1>4, <1>6, Stages DEF SeenOK, InsertOK, DeleteOK, FrozenOK
<1>15. /\ UNCHANGED <<manifest, segments, hotDeltas, nextHotDelta, gone>>
       /\ draft' = draft
  BY <1>1 DEF storageVars
<1>16. /\ X \in SUBSET Nodes
       /\ DOMAIN owed' \subseteq DOMAIN owed /\ (\A n \in DOMAIN owed' : owed'[n] = owed[n])
       /\ Staged \subseteq Staged'
       /\ \A n \in X : n \notin DOMAIN owed' /\ n < nextId'
       /\ X \cap gone \subseteq DOMAIN draft'.tombstones
       /\ \A n \in Nodes \ X :
            /\ n \in DOMAIN draft'.records <=> n \in DOMAIN draft.records
            /\ n \in DOMAIN draft.records => draft'.records[n].row = draft.records[n].row
            /\ n \in DOMAIN draft'.tombstones <=> n \in DOMAIN draft.tombstones
  BY <1>1, <1>10, <1>15
<1>17. \A v \in Writers \ {w} :
         /\ op'[v] = op[v] /\ ~Building(v)
         /\ Deleting(v) /\ Node(v) \in X => Node(v) \in DOMAIN draft'.tombstones
         /\ Planning(v) => Node(v) \notin X
         /\ Inserting(v) /\ ~Planning(v) /\ Current(v) => Node(v) \notin X
  BY <1>4, <1>5
<1>18. Busy(w)' => /\ Node(w)' < nextId'
                   /\ \A v \in Writers \ {w} : Planning(v) => Node(v) # Node(w)'
  BY <1>6, <1>8, <1>11 DEF Planning, Inserting, Busy
<1> HIDE DEF X
<1> QED
  BY <1>5, <1>6, <1>8, <1>9, <1>13, <1>14, <1>15, <1>16, <1>17, <1>18, StagingKeeps

LEMMA InsertPlanKeeps ==
  ASSUME Inv, NEW w \in Writers, InsertPlan(w)
  PROVE  Inv'
<1>1. PICK links \in Best(MaxNeighbors, NeighborCandidates(manifest, op[w].row)) :
        Goto(w, [pc |-> "append", node |-> op[w].node, row |-> op[w].row,
                 seen |-> manifest, todo |-> links])
  BY DEF InsertPlan
<1> DEFINE o == [pc |-> "append", node |-> op[w].node, row |-> op[w].row,
                 seen |-> manifest, todo |-> links]
<1>2. At(w, "plan") /\ UNCHANGED storageVars /\ UNCHANGED <<nextId, owed, gone>>
  BY DEF InsertPlan
<1>3. op[w] \in PlanOps
  BY <1>2, Kinds DEF Inv, Typed, At
<1>4. links \subseteq Nodes
  BY <1>1, BestIn DEF NeighborCandidates, Found, PresentNodes
<1>5. o \in StageOps /\ o \in Ops
  <2>1. op[w].node \in Nodes /\ op[w].row \in Rows /\ manifest \in Manifest
    BY <1>3 DEF PlanOps, Inv, Typed, StorageTypeOK
  <2>2. o \in StageOps
    BY <1>4, <2>1 DEF StageOps, Links
  <2> QED
    BY <2>2 DEF Ops
<1>6. o.node = op[w].node /\ o.row = op[w].row /\ o.pc = "append" /\ o.seen = manifest
  OBVIOUS
<1>7. Goto(w, o)
  BY <1>1
<1> HIDE DEF o
<1>8. op' \in [Writers -> Ops] /\ op'[w] = o /\ \A v \in Writers \ {w} : op'[v] = op[v]
  BY <1>5, <1>7, StepOf DEF Inv, Typed
<1>9. Typed'
  BY <1>2, <1>8, StorageSame DEF Inv, Typed
<1>10. /\ Planning(w) /\ Inserting(w) /\ ~Deleting(w) /\ Busy(w) /\ ~Building(w)
       /\ Mutation(w) = op[w] /\ Node(w) = op[w].node /\ ~At(w, "publish") /\ ~At(w, "tombstone")
  BY <1>3, Stages DEF Planning, Inserting, Deleting, Busy, Building, Mutation, Node, At
<1>11. /\ Planning(w)' /\ Inserting(w)' /\ ~Deleting(w)' /\ ~Building(w)'
       /\ Mutation(w)' = o /\ Node(w)' = op[w].node /\ ~At(w, "publish")' /\ Seen(w)' = manifest
  BY <1>5, <1>6, <1>8, Stages DEF Planning, Inserting, Deleting, Building, Mutation, Node, Seen, At
<1>12. SeenOK(w)'
  <2>1. manifest' = manifest /\ manifest.version \in Nat
    BY <1>2, Counters DEF storageVars, Inv
  <2>2. op'[w] \notin SwapOps
    BY <1>6, <1>8, Stages
  <2> QED
    BY <1>11, <2>1, <2>2 DEF SeenOK, PinnedManifest
<1>13. SameRows /\ UNCHANGED <<manifest, segments, hotDeltas, nextHotDelta, owed, gone>>
  BY <1>2 DEF SameRows, storageVars
<1>14. nextId <= nextId'
  BY <1>2, Counters DEF Inv
<1>15. Mutation(w).row' = Mutation(w).row
  BY <1>6, <1>10, <1>11
<1> QED
  BY <1>8, <1>9, <1>10, <1>11, <1>12, <1>13, <1>14, <1>15, QuietKeeps

LEMMA InsertAppendKeeps ==
  ASSUME Inv, NEW w \in Writers, InsertAppend(w)
  PROVE  Inv'
<1> DEFINE o == [op[w] EXCEPT !.pc = "link"]
           n == op[w].node
           record == [row |-> op[w].row, links |-> op[w].todo]
           X == {n}
<1>1. /\ At(w, "append") /\ AppendNode(n, record) /\ Goto(w, o)
      /\ UNCHANGED <<nextId, owed, gone>>
  BY DEF InsertAppend
<1>2. op[w] \in StageOps
  BY <1>1, Kinds DEF Inv, Typed, At
<1>3. /\ n \in Nodes /\ record \in Record /\ record.row = op[w].row
      /\ o \in StageOps /\ o.node = n /\ o.row = op[w].row /\ o.pc = "link" /\ o.seen = op[w].seen
  BY <1>2 DEF StageOps, Record, Links
<1>4. o \in Ops
  BY <1>3 DEF Ops
<1> HIDE DEF o, record
<1>5. op' \in [Writers -> Ops] /\ op'[w] = o /\ \A v \in Writers \ {w} : op'[v] = op[v]
  BY <1>1, <1>4, StepOf DEF Inv, Typed
<1>6. /\ Planning(w) /\ Inserting(w) /\ ~Deleting(w) /\ Busy(w) /\ ~Building(w)
      /\ Mutation(w) = op[w] /\ Node(w) = n /\ Seen(w) = op[w].seen
  BY <1>1, <1>2, Stages DEF Planning, Inserting, Deleting, Busy, Building, Mutation, Node, Seen, At
<1>7. /\ ~Planning(w)' /\ Inserting(w)' /\ ~Deleting(w)' /\ ~Building(w)'
      /\ Mutation(w)' = o /\ Node(w)' = n /\ ~At(w, "publish")' /\ Seen(w)' = op[w].seen
  BY <1>3, <1>5, Stages DEF Planning, Inserting, Deleting, Building, Mutation, Node, Seen, At
<1>8. /\ UNCHANGED <<manifest, segments, hotDeltas, nextHotDelta>>
      /\ draft'.records = With(draft.records, n, record)
      /\ draft'.tombstones = Without(draft.tombstones, n)
  BY <1>1 DEF AppendNode, Inv, Typed, StorageTypeOK, Draft
<1>9. Typed'
  <2>1. StorageTypeOK'
    BY <1>1, <1>3, AppendNodeTyped DEF Inv, Typed
  <2> QED
    BY <1>1, <1>5, <1>8, <2>1, DraftStep DEF Inv, Typed
<1>10. /\ n \notin InUse /\ \A v \in Writers : v # w /\ Busy(v) => Node(v) # n
  BY <1>6 DEF Inv, FreshOK
<1>11. \A v \in Writers : ~Building(v) /\ ~At(v, "reset")
  BY <1>6, NoBuilder
<1>12. n < nextId
  BY <1>6, <1>11 DEF Inv, IdsOK
<1>13. /\ DOMAIN draft'.records = DOMAIN draft.records \cup {n} /\ draft'.records[n] = record
       /\ \A m \in DOMAIN draft.records \ {n} : draft'.records[m] = draft.records[m]
       /\ DOMAIN draft'.tombstones = DOMAIN draft.tombstones \ {n}
  BY <1>8 DEF With, Without
<1>14. Shown' = Shown
  BY <1>8 DEF Shown, Built, IsImmutable, SegmentsWith, DeltaOf
<1>15. SeenOK(w)'
  <2>1. SeenOK(w)
    BY DEF Inv
  <2>2. o \notin SwapOps
    BY <1>3, Stages
  <2> QED
    BY <1>2, <1>3, <1>5, <1>6, <1>7, <1>8, <2>1, <2>2 DEF SeenOK, PinnedManifest
<1>16. FreshOK(w)' /\ DeleteOK(w)' /\ FrozenOK(w)'
  BY <1>7 DEF FreshOK, DeleteOK, FrozenOK
<1>17. InsertOK(w)'
  <2>1. n \in Staged'
    BY <1>13 DEF Staged
  <2>2. n \notin DOMAIN owed' \cup gone' \cup Shown'
    BY <1>1, <1>10, <1>14, ShownInUse DEF Inv, InUse
  <2>3. \A v \in Writers : Deleting(v)' => Node(v)' # n
    <3>1. ASSUME NEW v \in Writers \ {w}
          PROVE  Deleting(v)' => Node(v)' # n
      <4>1. Deleting(v)' = Deleting(v) /\ Node(v)' = Node(v)
        BY <1>5, SameOp
      <4>2. Deleting(v) => Node(v) # n
        BY <1>10 DEF Busy
      <4> QED
        BY <4>1, <4>2
    <3> QED
      BY <1>7, <3>1
  <2>4. Alone(w)'
    BY <1>7, <2>2, <2>3 DEF Alone
  <2>5. Holds(w, draft)'
    BY <1>3, <1>7, <1>13 DEF Holds
  <2> QED
    BY <1>7, <2>1, <2>4, <2>5 DEF InsertOK
<1>18. /\ X \in SUBSET Nodes
       /\ DOMAIN owed' \subseteq DOMAIN owed /\ (\A m \in DOMAIN owed' : owed'[m] = owed[m])
       /\ Staged \subseteq Staged'
       /\ \A m \in X : m \notin DOMAIN owed' /\ m < nextId'
       /\ X \cap gone \subseteq DOMAIN draft'.tombstones
       /\ \A m \in Nodes \ X :
            /\ m \in DOMAIN draft'.records <=> m \in DOMAIN draft.records
            /\ m \in DOMAIN draft.records => draft'.records[m].row = draft.records[m].row
            /\ m \in DOMAIN draft'.tombstones <=> m \in DOMAIN draft.tombstones
  BY <1>1, <1>3, <1>10, <1>12, <1>13 DEF InUse, Staged
<1>19. \A v \in Writers \ {w} :
         /\ op'[v] = op[v] /\ ~Building(v)
         /\ Deleting(v) /\ Node(v) \in X => Node(v) \in DOMAIN draft'.tombstones
         /\ Planning(v) => Node(v) \notin X
         /\ Inserting(v) /\ ~Planning(v) /\ Current(v) => Node(v) \notin X
  <2>1. \A v \in Writers : Planning(v) => Inserting(v)
    BY BusyFacts DEF Inv, Typed
  <2> QED
    BY <1>5, <1>10, <1>11, <2>1 DEF Busy
<1>20. Busy(w)' => /\ Node(w)' < nextId'
                   /\ \A v \in Writers \ {w} : Planning(v) => Node(v) # Node(w)'
  <2>1. \A v \in Writers : Planning(v) => Busy(v)
    BY BusyFacts DEF Inv, Typed, Busy
  <2> QED
    BY <1>1, <1>7, <1>10, <1>12, <2>1
<1>21. nextId <= nextId' /\ gone' = gone
  BY <1>1, Counters DEF Inv
<1> HIDE DEF X
<1> QED
  BY <1>6, <1>7, <1>8, <1>9, <1>15, <1>16, <1>17, <1>18, <1>19, <1>20, <1>21, StagingKeeps

\* Rewriting neighbors changes links, never a row.
LEMMA RewriteSameRows ==
  ASSUME Typed, NEW n \in Nodes, NEW links \in Links, RewriteNeighbors(n, links)
  PROVE  SameRows /\ UNCHANGED <<manifest, segments, hotDeltas, nextHotDelta>>
<1>1. UNCHANGED <<manifest, segments, hotDeltas, nextHotDelta>>
  BY DEF RewriteNeighbors
<1>2. CASE n \in DOMAIN draft.records
  <2>1. draft.records[n] \in Record
    BY <1>2, DraftParts, PartialApply DEF Typed
  <2>2. /\ draft'.records = With(draft.records, n, [draft.records[n] EXCEPT !.links = links])
        /\ draft'.tombstones = draft.tombstones
    BY <1>2 DEF RewriteNeighbors, Typed, StorageTypeOK, Draft
  <2>3. [draft.records[n] EXCEPT !.links = links].row = draft.records[n].row
    BY <2>1 DEF Record
  <2> QED
    BY <1>1, <1>2, <2>2, <2>3 DEF SameRows, With
<1>3. CASE n \notin DOMAIN draft.records
  <2>1. draft'.records = draft.records /\ draft'.tombstones = draft.tombstones
    BY <1>3 DEF RewriteNeighbors, Typed, StorageTypeOK, Draft
  <2> QED
    BY <1>1, <2>1 DEF SameRows
<1> QED
  BY <1>2, <1>3

\* The insert goes on with what it has left to link, or to its start nodes.
LEMMA InsertMovesOn ==
  ASSUME Inv, NEW w \in Writers, At(w, "link"), NEW o \in StageOps \cup InsertOps, Goto(w, o),
         o.pc # "append", o.node = op[w].node, o.row = op[w].row, o.seen = op[w].seen,
         StorageTypeOK', SameRows, UNCHANGED <<manifest, segments, hotDeltas, nextHotDelta>>,
         UNCHANGED <<owed, gone>>, nextId' \in Nat \ {0}, nextId <= nextId'
  PROVE  Inv'
<1>1. op[w] \in StageOps
  BY Kinds DEF Inv, Typed, At
<1>2. o \in Ops
  BY DEF Ops
<1>3. op' \in [Writers -> Ops] /\ op'[w] = o /\ \A v \in Writers \ {w} : op'[v] = op[v]
  BY <1>2, StepOf DEF Inv, Typed
<1>4. Typed'
  BY <1>3, DraftStep DEF Inv
<1>5. /\ ~Planning(w) /\ Inserting(w) /\ ~Deleting(w) /\ Busy(w) /\ ~Building(w)
      /\ Mutation(w) = op[w] /\ Node(w) = op[w].node /\ Seen(w) = op[w].seen
      /\ ~At(w, "publish") /\ ~At(w, "tombstone")
  BY <1>1, Stages DEF Planning, Inserting, Deleting, Busy, Building, Mutation, Node, Seen, At
<1>6. /\ o \notin PlanOps /\ o \notin RepairOps /\ o \notin DeleteOps /\ o.pc # "publish"
      /\ o \notin LoadOps /\ o \notin SwapOps /\ o \notin ResetOps
      /\ o \in StageOps => o.pc = "link"
  BY Stages, Shapes
<1>7. /\ ~Planning(w)' /\ Inserting(w)' /\ ~Deleting(w)' /\ ~Building(w)'
      /\ Mutation(w)' = o /\ Node(w)' = Node(w) /\ Seen(w)' = Seen(w) /\ ~At(w, "publish")'
  BY <1>3, <1>5, <1>6 DEF Planning, Inserting, Deleting, Building, Mutation, Node, Seen, At
<1>8. SeenOK(w)'
  <2>1. SeenOK(w)
    BY DEF Inv
  <2> QED
    BY <1>1, <1>3, <1>6, <1>7, <2>1 DEF SeenOK, PinnedManifest
<1>9. Mutation(w).row' = Mutation(w).row
  BY <1>5, <1>7
<1> QED
  BY <1>3, <1>4, <1>5, <1>7, <1>8, <1>9, QuietKeeps

LEMMA InsertLinkKeeps ==
  ASSUME Inv, NEW w \in Writers, InsertLink(w)
  PROVE  Inv'
<1>1. op[w] \in StageOps /\ At(w, "link") /\ UNCHANGED <<nextId, owed, gone>>
  BY Kinds DEF Inv, Typed, At, InsertLink
<1>2. PICK n \in op[w].todo :
        LET seen == op[w].seen
            candidates == ((LinksOf(seen, n) \cap PresentNodes(seen)) \cup {op[w].node}) \ {n}
        IN  /\ IF IsPresent(seen, n)
               THEN \E links \in Best(MaxNeighbors, candidates) : RewriteNeighbors(n, links)
               ELSE UNCHANGED storageVars
            /\ Goto(w, [op[w] EXCEPT !.todo = @ \ {n}])
  BY DEF InsertLink
<1> DEFINE o == [op[w] EXCEPT !.todo = @ \ {n}]
           candidates == ((LinksOf(op[w].seen, n) \cap PresentNodes(op[w].seen))
                            \cup {op[w].node}) \ {n}
<1>3. Goto(w, o)
  BY <1>2
<1>4. /\ op[w].pc = "link" /\ op[w].node \in Nodes /\ op[w].row \in Rows
      /\ op[w].seen \in Manifest /\ op[w].todo \in Links
  BY <1>1 DEF StageOps, At
<1>5. n \in Nodes /\ op[w].todo \ {n} \in Links
  BY <1>4 DEF Links
<1>6. o = [pc |-> "link", node |-> op[w].node, row |-> op[w].row, seen |-> op[w].seen,
           todo |-> op[w].todo \ {n}]
  BY <1>1, <1>4 DEF StageOps
<1>7. /\ o \in StageOps /\ o.pc # "append" /\ o.node = op[w].node /\ o.row = op[w].row
       /\ o.seen = op[w].seen
  BY <1>4, <1>5, <1>6 DEF StageOps
<1>8. candidates \subseteq Nodes
  BY <1>4 DEF PresentNodes
<1>9. StorageTypeOK' /\ SameRows /\ UNCHANGED <<manifest, segments, hotDeltas, nextHotDelta>>
  <2>1. CASE UNCHANGED storageVars
    BY <2>1, StorageSame DEF Inv, storageVars, SameRows
  <2>2. ASSUME NEW links \in Best(MaxNeighbors, candidates), RewriteNeighbors(n, links)
        PROVE  StorageTypeOK' /\ SameRows
               /\ UNCHANGED <<manifest, segments, hotDeltas, nextHotDelta>>
    <3>1. links \in Links
      BY <1>8, <2>2, BestIn DEF Links
    <3> QED
      BY <1>5, <2>2, <3>1, RewriteNeighborsTyped, RewriteSameRows DEF Inv, Typed
  <2> QED
    BY <1>2, <2>1, <2>2
<1>10. nextId <= nextId' /\ nextId' \in Nat \ {0}
  BY <1>1, Counters DEF Inv
<1> HIDE DEF o
<1> QED
  BY <1>1, <1>3, <1>7, <1>9, <1>10, InsertMovesOn

\* The start nodes an insert leaves are start nodes.
LEMMA StartsTyped ==
  ASSUME NEW s \in Manifest, NEW node \in Nodes, NEW row \in Rows
  PROVE  StartsAfterInsert(s, node, row) \in Starts
<1> DEFINE base == IF IsPresent(s, s.start.default) THEN s.start
                   ELSE [default |-> node, labeled |-> EmptyFn]
<1>1. s.start \in StartMaps
  BY IndexAssumption DEF Manifest
<1>2. [default |-> node, labeled |-> EmptyFn] \in StartMaps
  BY EmptyPartial DEF StartMaps
<1>3. base \in StartMaps
  BY <1>1, <1>2
<1>4. base.labeled \in PartialFn(Labels, Nodes) /\ base.default \in Nodes \cup {EmptyStart}
  BY <1>3 DEF StartMaps
<1>5. LabelsOf[row] \subseteq Labels
  BY IndexAssumption
<1> DEFINE labeled == [l \in DOMAIN base.labeled \cup LabelsOf[row] |->
                         IF l \in DOMAIN base.labeled THEN base.labeled[l] ELSE node]
<1>6. labeled \in PartialFn(Labels, Nodes)
  <2> HIDE DEF base
  <2>1. DOMAIN base.labeled \subseteq Labels /\ base.labeled \in [DOMAIN base.labeled -> Nodes]
    BY <1>4, PartialApply
  <2>2. labeled \in [DOMAIN base.labeled \cup LabelsOf[row] -> Nodes]
    BY <2>1
  <2> QED
    BY <1>5, <2>1, <2>2 DEF PartialFn
<1>7. StartsAfterInsert(s, node, row) = [base EXCEPT !.labeled = labeled]
  BY DEF StartsAfterInsert
<1> HIDE DEF base, labeled
<1>8. [base EXCEPT !.labeled = labeled] \in StartMaps
  BY <1>3, <1>6 DEF StartMaps
<1> QED
  BY <1>7, <1>8, IndexAssumption

LEMMA InsertStartsKeeps ==
  ASSUME Inv, NEW w \in Writers, InsertStarts(w)
  PROVE  Inv'
<1> DEFINE o == [pc |-> "freeze", node |-> op[w].node, row |-> op[w].row, seen |-> op[w].seen]
           start == StartsAfterInsert(op[w].seen, op[w].node, op[w].row)
<1>1. /\ At(w, "link") /\ Goto(w, o) /\ UNCHANGED <<owed, gone>>
      /\ UNCHANGED storageVars \/ UpdateStartNodes(start)
      /\ nextId' = IF nextId <= op[w].node THEN op[w].node + 1 ELSE nextId
  BY DEF InsertStarts
<1>2. op[w] \in StageOps
  BY <1>1, Kinds DEF Inv, Typed, At
<1>3. op[w].node \in Nodes /\ op[w].row \in Rows /\ op[w].seen \in Manifest
  BY <1>2 DEF StageOps
<1>4. /\ o \in InsertOps /\ o.pc # "append" /\ o.node = op[w].node /\ o.row = op[w].row
      /\ o.seen = op[w].seen
  BY <1>3 DEF InsertOps
<1>5. StorageTypeOK' /\ SameRows /\ UNCHANGED <<manifest, segments, hotDeltas, nextHotDelta>>
  <2>1. CASE UNCHANGED storageVars
    BY <2>1, StorageSame DEF Inv, storageVars, SameRows
  <2>2. CASE UpdateStartNodes(start)
    <3>1. start \in Starts
      BY <1>3, StartsTyped
    <3> HIDE DEF start
    <3>2. StorageTypeOK'
      BY <2>2, <3>1 DEF UpdateStartNodes, Inv, Typed, StorageTypeOK, Draft
    <3>3. draft'.records = draft.records /\ draft'.tombstones = draft.tombstones
      BY <2>2 DEF UpdateStartNodes, Inv, Typed, StorageTypeOK, Draft
    <3> QED
      BY <2>2, <3>2, <3>3 DEF UpdateStartNodes, SameRows
  <2> QED
    BY <1>1, <2>1, <2>2
<1>6. nextId <= nextId' /\ nextId' \in Nat \ {0}
  <2>1. op[w].node \in Nat \ {0} /\ nextId \in Nat \ {0}
    BY <1>3, Counters DEF Inv
  <2> QED
    BY <1>1, <2>1
<1> HIDE DEF o
<1> QED
  BY <1>1, <1>4, <1>5, <1>6, InsertMovesOn

------------------------------------------------------------------------------
(* Deletes *)

\* What a repair elects is a map of start nodes.
LEMMA RepairTyped ==
  ASSUME NEW s, NEW node, NEW visited, NEW start \in RepairedStarts(s, node, visited)
  PROVE  start \in Starts
BY IndexAssumption DEF RepairedStarts

LEMMA DeleteBeginKeeps ==
  ASSUME Inv, NEW w \in Writers, DeleteBegin(w)
  PROVE  Inv'
<1>1. PICK node \in Named :
        /\ \E start \in IF node \in StartIds(manifest)
                        THEN UNION {RepairedStarts(manifest, node, visited) :
                                      visited \in Visits(manifest)}
                        ELSE {NoStart} :
             Goto(w, [pc |-> "tombstone", node |-> node, seen |-> manifest, start |-> start])
        /\ owed' = Without(owed, node)
  BY DEF DeleteBegin
<1>2. PICK start \in Starts \cup {NoStart} :
        Goto(w, [pc |-> "tombstone", node |-> node, seen |-> manifest, start |-> start])
  BY <1>1, RepairTyped
<1> DEFINE o == [pc |-> "tombstone", node |-> node, seen |-> manifest, start |-> start]
           X == {}
<1>3. At(w, "idle") /\ UNCHANGED storageVars /\ UNCHANGED <<nextId, gone>>
  BY DEF DeleteBegin
<1>4. node \in DOMAIN owed \cup gone \cup Shown /\ node \in InUse /\ node \in Nodes
  <2>1. node \in DOMAIN owed \cup gone \cup Shown
    BY ShownInUse DEF Named, Inv
  <2>2. node \in InUse
    BY <2>1, ShownInUse DEF InUse, Inv
  <2>3. InUse \subseteq Nodes
    BY DraftFacts DEF Inv, InUse, Staged
  <2> QED
    BY <2>1, <2>2, <2>3
<1>5. o \in RepairOps /\ o \in Ops
  <2>1. o \in RepairOps
    BY <1>4 DEF RepairOps, Inv, Typed, StorageTypeOK
  <2> QED
    BY <2>1 DEF Ops
<1>6. o.pc = "tombstone" /\ o.node = node /\ o.seen = manifest /\ Goto(w, o)
  BY <1>2
<1> HIDE DEF o
<1>7. op' \in [Writers -> Ops] /\ op'[w] = o /\ \A v \in Writers \ {w} : op'[v] = op[v]
  BY <1>5, <1>6, StepOf DEF Inv, Typed
<1>8. ~Building(w) /\ ~Busy(w) /\ \A v \in Writers : ~Building(v) /\ ~At(v, "reset")
  BY <1>3, NoBuilder, BusyFacts DEF Inv, Typed
<1>9. /\ ~Planning(w)' /\ ~Inserting(w)' /\ Deleting(w)' /\ ~Building(w)' /\ Node(w)' = node
      /\ ~At(w, "publish")' /\ At(w, "tombstone")' /\ Seen(w)' = manifest
  BY <1>5, <1>6, <1>7, Stages
     DEF Planning, Inserting, Deleting, Building, Node, Seen, Mutation, At
<1>10. DOMAIN owed' = DOMAIN owed \ {node} /\ \A n \in DOMAIN owed' : owed'[n] = owed[n]
  BY <1>1 DEF Without
<1>11. Typed'
  <2>1. owed' \in PartialFn(Nodes, Rows)
    BY <1>1, WithoutPartial DEF Inv, Typed
  <2> QED
    BY <1>3, <1>7, <2>1, StorageSame DEF Inv, Typed
<1>12. UNCHANGED <<manifest, segments, hotDeltas, nextHotDelta, draft>>
  BY <1>3 DEF storageVars
<1>13. SeenOK(w)'
  <2>1. manifest.version \in Nat
    BY Counters DEF Inv
  <2>2. o \notin SwapOps
    BY <1>6, Stages
  <2> QED
    BY <1>7, <1>9, <1>12, <2>1, <2>2 DEF SeenOK, PinnedManifest
<1>14. FreshOK(w)' /\ InsertOK(w)' /\ DeleteOK(w)' /\ FrozenOK(w)'
  BY <1>9, <1>10 DEF FreshOK, InsertOK, DeleteOK, FrozenOK
<1>15. /\ X \in SUBSET Nodes
       /\ DOMAIN owed' \subseteq DOMAIN owed /\ (\A n \in DOMAIN owed' : owed'[n] = owed[n])
       /\ Staged \subseteq Staged'
       /\ \A n \in X : n \notin DOMAIN owed' /\ n < nextId'
       /\ X \cap gone \subseteq DOMAIN draft'.tombstones
       /\ \A n \in Nodes \ X :
            /\ n \in DOMAIN draft'.records <=> n \in DOMAIN draft.records
            /\ n \in DOMAIN draft.records => draft'.records[n].row = draft.records[n].row
            /\ n \in DOMAIN draft'.tombstones <=> n \in DOMAIN draft.tombstones
  BY <1>10, <1>12 DEF Staged
<1>16. \A v \in Writers \ {w} :
         /\ op'[v] = op[v] /\ ~Building(v)
         /\ Deleting(v) /\ Node(v) \in X => Node(v) \in DOMAIN draft'.tombstones
         /\ Planning(v) => Node(v) \notin X
         /\ Inserting(v) /\ ~Planning(v) /\ Current(v) => Node(v) \notin X
  BY <1>7, <1>8
<1>17. Busy(w)' => /\ Node(w)' < nextId'
                   /\ \A v \in Writers \ {w} : Planning(v) => Node(v) # Node(w)'
  BY <1>3, <1>4, <1>8, <1>9 DEF Inv, IdsOK, FreshOK
<1>18. Deleting(w)' => \A v \in Writers \ {w} :
                         Inserting(v) /\ ~Planning(v) /\ Current(v) => Node(v) # Node(w)'
  BY <1>4, <1>9 DEF Inv, InsertOK, Alone
<1>19. nextId <= nextId' /\ gone' = gone
  BY <1>3, Counters DEF Inv
<1> HIDE DEF X
<1> QED
  BY <1>8, <1>9, <1>11, <1>12, <1>13, <1>14, <1>15, <1>16, <1>17, <1>18, <1>19, StagingKeeps

LEMMA DeleteTombstoneKeeps ==
  ASSUME Inv, NEW w \in Writers, DeleteTombstone(w)
  PROVE  Inv'
<1> DEFINE o == [op[w] EXCEPT !.pc = "repair"]
           n == op[w].node
           X == {n}
<1>1. /\ At(w, "tombstone") /\ TombstoneNode(n) /\ Goto(w, o)
      /\ UNCHANGED <<nextId, owed, gone>>
  BY DEF DeleteTombstone
<1>2. op[w] \in RepairOps
  BY <1>1, Kinds DEF Inv, Typed, At
<1>3. n \in Nodes /\ o \in RepairOps /\ o.node = n /\ o.pc = "repair" /\ o.seen = op[w].seen
  BY <1>2 DEF RepairOps
<1>4. o \in Ops
  BY <1>3 DEF Ops
<1> HIDE DEF o
<1>5. op' \in [Writers -> Ops] /\ op'[w] = o /\ \A v \in Writers \ {w} : op'[v] = op[v]
  BY <1>1, <1>4, StepOf DEF Inv, Typed
<1>6. /\ ~Inserting(w) /\ Deleting(w) /\ Busy(w) /\ ~Building(w)
      /\ Node(w) = n /\ Seen(w) = op[w].seen
  BY <1>1, <1>2, BusyFacts, Stages DEF Inv, Typed, Deleting, Busy, Mutation, Node, Seen, At
<1>7. /\ ~Planning(w)' /\ ~Inserting(w)' /\ Deleting(w)' /\ ~Building(w)' /\ Node(w)' = n
      /\ ~At(w, "publish")' /\ Seen(w)' = op[w].seen
  BY <1>3, <1>5, Stages DEF Planning, Inserting, Deleting, Building, Node, Seen, Mutation, At
<1>8. /\ UNCHANGED <<manifest, segments, hotDeltas, nextHotDelta>>
      /\ draft'.records = Without(draft.records, n)
      /\ draft'.tombstones = With(draft.tombstones, n, nextEpoch)
  BY <1>1 DEF TombstoneNode, Inv, Typed, StorageTypeOK, Draft
<1>9. Typed'
  <2>1. StorageTypeOK'
    BY <1>1, <1>3, TombstoneNodeTyped DEF Inv, Typed
  <2> QED
    BY <1>1, <1>5, <1>8, <2>1, DraftStep DEF Inv, Typed
<1>10. \A v \in Writers : ~Building(v) /\ ~At(v, "reset")
  BY <1>6, NoBuilder
<1>11. n < nextId /\ n \notin DOMAIN owed
  BY <1>6, <1>10 DEF Inv, IdsOK, DeleteOK
<1>12. /\ DOMAIN draft'.records = DOMAIN draft.records \ {n}
       /\ \A m \in DOMAIN draft.records \ {n} : draft'.records[m] = draft.records[m]
       /\ DOMAIN draft'.tombstones = DOMAIN draft.tombstones \cup {n}
  BY <1>8 DEF With, Without
<1>13. SeenOK(w)'
  <2>1. SeenOK(w)
    BY DEF Inv
  <2>2. o \notin SwapOps
    BY <1>3, Stages
  <2> QED
    BY <1>2, <1>3, <1>5, <1>6, <1>7, <1>8, <2>1, <2>2 DEF SeenOK, PinnedManifest
<1>14. FreshOK(w)' /\ InsertOK(w)' /\ DeleteOK(w)' /\ FrozenOK(w)'
  BY <1>1, <1>7, <1>11, <1>12 DEF FreshOK, InsertOK, DeleteOK, FrozenOK
<1>15. /\ X \in SUBSET Nodes
       /\ DOMAIN owed' \subseteq DOMAIN owed /\ (\A m \in DOMAIN owed' : owed'[m] = owed[m])
       /\ Staged \subseteq Staged'
       /\ \A m \in X : m \notin DOMAIN owed' /\ m < nextId'
       /\ X \cap gone \subseteq DOMAIN draft'.tombstones
       /\ \A m \in Nodes \ X :
            /\ m \in DOMAIN draft'.records <=> m \in DOMAIN draft.records
            /\ m \in DOMAIN draft.records => draft'.records[m].row = draft.records[m].row
            /\ m \in DOMAIN draft'.tombstones <=> m \in DOMAIN draft.tombstones
  BY <1>1, <1>3, <1>11, <1>12 DEF Staged
<1>16. \A v \in Writers \ {w} : Planning(v) => Node(v) # n
  BY <1>6 DEF Inv, FreshOK
<1>17. \A v \in Writers \ {w} : Inserting(v) /\ ~Planning(v) /\ Current(v) => Node(v) # n
  BY <1>6 DEF Inv, InsertOK, Alone
<1>18. \A v \in Writers \ {w} :
         /\ op'[v] = op[v] /\ ~Building(v)
         /\ Deleting(v) /\ Node(v) \in X => Node(v) \in DOMAIN draft'.tombstones
         /\ Planning(v) => Node(v) \notin X
         /\ Inserting(v) /\ ~Planning(v) /\ Current(v) => Node(v) \notin X
  BY <1>5, <1>10, <1>12, <1>16, <1>17
<1>19. /\ Busy(w)' => /\ Node(w)' < nextId'
                      /\ \A v \in Writers \ {w} : Planning(v) => Node(v) # Node(w)'
       /\ Deleting(w)' => \A v \in Writers \ {w} :
                            Inserting(v) /\ ~Planning(v) /\ Current(v) => Node(v) # Node(w)'
  BY <1>1, <1>7, <1>11, <1>16, <1>17
<1>20. nextId <= nextId' /\ gone' = gone
  BY <1>1, Counters DEF Inv
<1> HIDE DEF X
<1> QED
  BY <1>6, <1>7, <1>8, <1>9, <1>13, <1>14, <1>15, <1>18, <1>19, <1>20, StagingKeeps

LEMMA DeleteStartsKeeps ==
  ASSUME Inv, NEW w \in Writers, DeleteStarts(w)
  PROVE  Inv'
<1> DEFINE o == [pc |-> "freeze", node |-> op[w].node, seen |-> op[w].seen]
<1>1. /\ At(w, "repair") /\ Goto(w, o) /\ UNCHANGED <<nextId, owed, gone>>
      /\ UNCHANGED storageVars \/ UpdateStartNodes(op[w].start)
  BY DEF DeleteStarts
<1>2. op[w] \in RepairOps
  BY <1>1, Kinds DEF Inv, Typed, At
<1>3. op[w].node \in Nodes /\ op[w].seen \in Manifest /\ op[w].start \in Starts \cup {NoStart}
  BY <1>2 DEF RepairOps
<1>4. o \in DeleteOps /\ o.node = op[w].node /\ o.seen = op[w].seen /\ o.pc = "freeze"
  BY <1>3 DEF DeleteOps
<1>5. o \in Ops
  BY <1>4 DEF Ops
<1> HIDE DEF o
<1>6. op' \in [Writers -> Ops] /\ op'[w] = o /\ \A v \in Writers \ {w} : op'[v] = op[v]
  BY <1>1, <1>5, StepOf DEF Inv, Typed
<1>7. StorageTypeOK' /\ SameRows /\ UNCHANGED <<manifest, segments, hotDeltas, nextHotDelta>>
  <2>1. CASE UNCHANGED storageVars
    BY <2>1, StorageSame DEF Inv, storageVars, SameRows
  <2>2. CASE UpdateStartNodes(op[w].start)
    <3>1. StorageTypeOK'
      BY <1>3, <2>2 DEF UpdateStartNodes, Inv, Typed, StorageTypeOK, Draft
    <3>2. draft'.records = draft.records /\ draft'.tombstones = draft.tombstones
      BY <2>2 DEF UpdateStartNodes, Inv, Typed, StorageTypeOK, Draft
    <3> QED
      BY <2>2, <3>1, <3>2 DEF UpdateStartNodes, SameRows
  <2> QED
    BY <1>1, <2>1, <2>2
<1>8. Typed'
  BY <1>1, <1>6, <1>7, DraftStep DEF Inv, Typed
<1>9. /\ ~Inserting(w) /\ ~Planning(w) /\ Deleting(w) /\ Busy(w) /\ ~Building(w)
      /\ Node(w) = op[w].node /\ Seen(w) = op[w].seen /\ ~At(w, "publish") /\ ~At(w, "tombstone")
  BY <1>1, <1>2, BusyFacts, Stages DEF Inv, Typed, Deleting, Busy, Mutation, Node, Seen, At
<1>10. /\ ~Inserting(w)' /\ ~Planning(w)' /\ Deleting(w)' /\ ~Building(w)'
       /\ Node(w)' = op[w].node /\ Seen(w)' = op[w].seen /\ ~At(w, "publish")'
  <2>1. o \notin InsertOps
    BY <1>4, Shapes
  <2> QED
    BY <1>4, <1>6, <2>1, Stages
       DEF Inserting, Planning, Deleting, Building, Node, Seen, Mutation, At
<1>11. SeenOK(w)'
  <2>1. SeenOK(w) /\ o \notin SwapOps
    BY <1>4, Stages DEF Inv
  <2> QED
    BY <1>2, <1>6, <1>7, <1>9, <1>10, <2>1 DEF SeenOK, PinnedManifest
<1>12. nextId <= nextId'
  BY <1>1, Counters DEF Inv
<1> QED
  BY <1>1, <1>6, <1>7, <1>8, <1>9, <1>10, <1>11, <1>12, QuietKeeps

------------------------------------------------------------------------------
(* Publishing *)

\* The epoch a freeze reports is the largest one staged.
LEMMA DraftEpochCovers ==
  ASSUME StorageTypeOK
  PROVE  DraftEpoch \in Nat /\ \A n \in DOMAIN draft.tombstones : draft.tombstones[n] <= DraftEpoch
<1> DEFINE epochs == {draft.tombstones[n] : n \in DOMAIN draft.tombstones}
           below == {MaxEpoch - e : e \in epochs}
<1>1. draft.tombstones \in [DOMAIN draft.tombstones -> 1 .. MaxEpoch]
  BY DraftParts, PartialApply
<1>2. \A e \in epochs : e \in 1 .. MaxEpoch
  BY <1>1
<1>3. MaxEpoch \in Nat
  BY StorageAssumption
<1>4. CASE DOMAIN draft.tombstones = {}
  BY <1>4 DEF DraftEpoch
<1>5. CASE DOMAIN draft.tombstones # {}
  <2>1. below \in SUBSET Nat /\ below # {}
    <3> HIDE DEF epochs
    <3>1. epochs # {}
      BY <1>5 DEF epochs
    <3> QED
      BY <1>2, <1>3, <3>1
  <2>2. PICK i \in below : \A j \in below : i <= j
    BY <2>1, LeastExists
  <2>3. PICK e \in epochs : i = MaxEpoch - e
    OBVIOUS
  <2>4. \A f \in epochs : f <= e
    <3> SUFFICES ASSUME NEW f \in epochs
                 PROVE  f <= e
      OBVIOUS
    <3>1. MaxEpoch - e <= MaxEpoch - f
      BY <2>2, <2>3
    <3>2. e \in 1 .. MaxEpoch /\ f \in 1 .. MaxEpoch
      BY <1>2
    <3> QED
      BY <1>3, <3>1, <3>2
  <2>5. DraftEpoch = CHOOSE f \in epochs : \A n \in DOMAIN draft.tombstones : draft.tombstones[n] <= f
    BY <1>5 DEF DraftEpoch
  <2>6. \A n \in DOMAIN draft.tombstones : draft.tombstones[n] <= e
    BY <2>4
  <2>7. DraftEpoch \in epochs
    BY <2>5, <2>6
  <2>8. \A n \in DOMAIN draft.tombstones : draft.tombstones[n] <= DraftEpoch
    BY <2>5, <2>6
  <2> QED
    BY <1>2, <2>7, <2>8
<1> QED
  BY <1>4, <1>5

\* A frozen draft is kept as it is.
LEMMA FrozenAsStaged ==
  ASSUME StorageTypeOK, PublishHotDelta
  PROVE  hotDeltas'[nextHotDelta] = FrozenDraft
<1> DEFINE all == With(hotDeltas, nextHotDelta, FrozenDraft)
<1>1. nextHotDelta \in DOMAIN hotDeltas'
  BY FreezeKeeps
<1>2. hotDeltas' = [d \in Retained(DOMAIN all) |-> all[d]]
  BY DEF PublishHotDelta, CollectSupersededHotDeltas
<1>3. all[nextHotDelta] = FrozenDraft
  BY DEF With
<1> HIDE DEF all
<1> QED
  BY <1>1, <1>2, <1>3

LEMMA FreezeStepKeeps ==
  ASSUME Inv, NEW w \in Writers, Freeze(w)
  PROVE  Inv'
<1> USE DEF Inv
<1> DEFINE o == [op |-> op[w], pc |-> "publish", delta |-> nextHotDelta,
                 epoch |-> DraftEpoch, start |-> draft.start]
<1>1. /\ At(w, "freeze") /\ PublishHotDelta /\ Goto(w, o) /\ UNCHANGED <<nextId, owed, gone>>
      /\ UNCHANGED <<manifest, segments, draft>> /\ nextHotDelta' = nextHotDelta + 1
  BY DEF Freeze, PublishHotDelta
<1>2. op[w] \in InsertOps \cup DeleteOps
  BY <1>1, Kinds DEF Typed, At
<1>3. o \in PublishOps
  <2>1. draft.start \in Starts \cup {NoStart} /\ DraftEpoch \in Nat /\ nextHotDelta \in Nat
    BY DraftParts, DraftEpochCovers, Counters DEF Typed
  <2> QED
    BY <1>2, <2>1 DEF PublishOps
<1>4. /\ o.op = op[w] /\ o.pc = "publish" /\ o.delta = nextHotDelta /\ o.epoch = DraftEpoch
      /\ o \in Ops
  BY <1>3 DEF Ops
<1> HIDE DEF o
<1>5. op' \in [Writers -> Ops] /\ op'[w] = o /\ \A v \in Writers \ {w} : op'[v] = op[v]
  BY <1>1, <1>4, StepOf DEF Typed
<1>6. /\ ~Planning(w) /\ Busy(w) /\ ~Building(w) /\ Mutation(w) = op[w]
      /\ ~At(w, "publish") /\ ~At(w, "tombstone")
      /\ Inserting(w) <=> op[w] \in InsertOps
      /\ Deleting(w) <=> op[w] \in DeleteOps
  BY <1>1, <1>2, Shapes, Stages DEF Planning, Inserting, Deleting, Busy, Building, Mutation, At
<1>7. /\ At(w, "publish")' /\ ~At(w, "reset")' /\ ~Planning(w)' /\ ~Building(w)'
      /\ Mutation(w)' = op[w]
      /\ Inserting(w)' <=> op[w] \in InsertOps
      /\ Deleting(w)' <=> op[w] \in DeleteOps
  BY <1>3, <1>4, <1>5, Stages DEF Planning, Inserting, Deleting, Building, Mutation, At
<1>8. /\ Node(w)' = Node(w) /\ Seen(w)' = Seen(w) /\ (Current(w)' <=> Current(w))
      /\ (Inserting(w)' <=> Inserting(w)) /\ (Deleting(w)' <=> Deleting(w)) /\ (Busy(w)' <=> Busy(w))
      /\ Mutation(w)' = Mutation(w)
  BY <1>1, <1>6, <1>7 DEF Node, Seen, Current, Busy
<1>9. \A v \in Writers : ~Building(v) /\ ~At(v, "reset")
  BY <1>6, NoBuilder
<1>10. \A v \in Writers :
         /\ Node(v)' = Node(v) /\ Seen(v)' = Seen(v) /\ (Current(v)' <=> Current(v))
         /\ (Planning(v)' <=> Planning(v)) /\ (Inserting(v)' <=> Inserting(v))
         /\ (Deleting(v)' <=> Deleting(v)) /\ (Busy(v)' <=> Busy(v))
         /\ Mutation(v)' = Mutation(v) /\ ~Building(v)'
  <2>1. ASSUME NEW v \in Writers \ {w}
        PROVE  /\ Node(v)' = Node(v) /\ Seen(v)' = Seen(v) /\ (Current(v)' <=> Current(v))
               /\ (Planning(v)' <=> Planning(v)) /\ (Inserting(v)' <=> Inserting(v))
               /\ (Deleting(v)' <=> Deleting(v)) /\ (Busy(v)' <=> Busy(v))
               /\ Mutation(v)' = Mutation(v) /\ ~Building(v)'
    BY <1>1, <1>5, <1>9, SameOp DEF Current
  <2>2. Planning(w)' <=> Planning(w)
    BY <1>6, <1>7
  <2> QED
    BY <1>7, <1>8, <2>1, <2>2
<1>11. /\ \A d \in DOMAIN hotDeltas' : d # nextHotDelta =>
            d \in DOMAIN hotDeltas /\ hotDeltas'[d] = hotDeltas[d]
       /\ hotDeltas'[nextHotDelta] = FrozenDraft
       /\ \A d \in DOMAIN hotDeltas : d = manifest.hotDelta => d \in DOMAIN hotDeltas'
  BY <1>1, FreezeKeeps, FrozenAsStaged DEF Typed
<1>12. manifest.hotDelta # 0 =>
         /\ manifest.hotDelta \in DOMAIN hotDeltas /\ manifest.hotDelta \in DOMAIN hotDeltas'
         /\ manifest.hotDelta # nextHotDelta
  BY <1>11, ShownInUse, Counters
<1>13. DeltaOf(manifest)' = DeltaOf(manifest)
  BY <1>1, <1>11, <1>12 DEF DeltaOf
<1>14. /\ Built' = Built /\ Staged' = Staged /\ Shown' = Shown
       /\ Frozen' \subseteq Frozen \cup Staged /\ InUse' \subseteq InUse
  <2>1. Built' = Built /\ Staged' = Staged
    BY <1>1 DEF Built, IsImmutable, SegmentsWith, Staged
  <2>2. Shown' = Shown
    BY <1>13, <2>1 DEF Shown
  <2>3. Frozen' \subseteq Frozen \cup Staged
    BY <1>11 DEF Frozen, Staged, FrozenDraft
  <2> QED
    BY <1>1, <2>1, <2>2, <2>3 DEF InUse
<1>15. /\ \A delta : Honest(delta)' <=> Honest(delta)
       /\ \A delta, e : EpochsWithin(delta, e)' <=> EpochsWithin(delta, e)
       /\ \A delta : \A v \in Writers : Holds(v, delta)' <=> Holds(v, delta)
  BY <1>1, <1>10, SegmentsSame
     DEF Honest, Carries, EpochsWithin, Holds
<1>16. Typed'
  <2>1. StorageTypeOK'
    BY <1>1, FreezeTyped DEF Typed
  <2>2. ManifestResolves'
    BY <1>1, <1>12 DEF Typed, ManifestResolves, ValidReferences, Resolves
  <2> QED
    BY <1>1, <1>5, <2>1, <2>2 DEF Typed
<1>17. IdsOK'
  <2>1. \A n \in DOMAIN owed' \cup gone' \cup Shown' : n <= manifest'.maxId
    BY <1>1, <1>14 DEF IdsOK
  <2> QED
    BY <1>1, <1>9, <1>10, <1>14, <2>1 DEF IdsOK
<1>18. Node(w) \in Staged
  BY <1>2, <1>6 DEF InsertOK, DeleteOK, Staged
<1>19. StagedFirst' /\ ManifestOK' /\ Honest(draft)'
  BY <1>1, <1>13, <1>14, <1>15, <1>18 DEF StagedFirst, ManifestOK
<1>20. \A v \in Writers : Alone(v)' <=> Alone(v)
  BY <1>1, <1>10, <1>14 DEF Alone
<1>21. ASSUME NEW v \in Writers
       PROVE  FreshOK(v)' /\ InsertOK(v)' /\ DeleteOK(v)' /\ BuildOK(v)'
  <2>1. FreshOK(v)'
    BY <1>10, <1>14 DEF FreshOK
  <2>2. InsertOK(v)'
    BY <1>1, <1>10, <1>14, <1>15, <1>20 DEF InsertOK
  <2>3. DeleteOK(v)'
    <3>1. ~At(v, "tombstone")' => ~At(v, "tombstone")
      BY <1>5, <1>6, SameOp
    <3> QED
      BY <1>1, <1>10, <3>1 DEF DeleteOK
  <2> QED
    BY <1>10, <2>1, <2>2, <2>3 DEF BuildOK
<1>22. FrozenOK(w)'
  <2>1. nextHotDelta \in 1 .. nextHotDelta' - 1
    BY <1>1, Counters
  <2>2. EpochsWithin(FrozenDraft, DraftEpoch)
    BY DraftEpochCovers DEF Typed, EpochsWithin, FrozenDraft
  <2>3. Honest(FrozenDraft)
    BY DEF Honest, Carries, FrozenDraft
  <2>4. Current(w) /\ Inserting(w) => Holds(w, FrozenDraft)
    BY <1>6 DEF InsertOK, Holds, FrozenDraft
  <2>5. Deleting(w) => Node(w) \in DOMAIN FrozenDraft.tombstones
    BY <1>6 DEF DeleteOK, FrozenDraft
  <2>6. op'[w].delta = nextHotDelta /\ op'[w].epoch = DraftEpoch
    BY <1>4, <1>5
  <2>7. OwnDelta(w)' \subseteq {FrozenDraft}
    BY <1>11, <2>6 DEF OwnDelta
  <2>8. PICK delta : delta = FrozenDraft
    OBVIOUS
  <2>9. Publishable(w, delta)'
    BY <1>8, <1>15, <2>2, <2>3, <2>4, <2>5, <2>6, <2>8 DEF Publishable
  <2> QED
    BY <1>7, <2>1, <2>6, <2>7, <2>8, <2>9 DEF FrozenOK
<1>23. SeenOK(w)'
  <2>1. op'[w] \notin SwapOps
    BY <1>4, <1>5, Stages
  <2> QED
    BY <1>1, <1>2, <1>3, <1>8, <2>1 DEF SeenOK, PinnedManifest
<1>24. ASSUME NEW v \in Writers \ {w}
       PROVE  SeenOK(v)' /\ FrozenOK(v)'
  <2>1. op'[v] = op[v] /\ At(v, "publish")' = At(v, "publish")
    BY <1>5, SameOp
  <2>2. SeenOK(v)'
    BY <1>1, <1>10, <2>1 DEF SeenOK, PinnedManifest
  <2>3. CASE At(v, "publish")
    <3>1. /\ op[v].delta \in 1 .. nextHotDelta - 1 /\ op[v].delta # nextHotDelta
          /\ op[v].delta \in 1 .. nextHotDelta' - 1
      BY <1>1, <2>3, Counters DEF FrozenOK
    <3>2. OwnDelta(v)' \subseteq OwnDelta(v)
      BY <1>11, <2>1, <3>1 DEF OwnDelta
    <3>3. \A delta : Publishable(v, delta) => Publishable(v, delta)'
      BY <1>10, <1>15, <2>1 DEF Publishable
    <3>4. FrozenOK(v)'
      BY <2>1, <2>3, <3>1, <3>2, <3>3 DEF FrozenOK
    <3> QED
      BY <2>2, <3>4
  <2> QED
    BY <2>1, <2>2, <2>3 DEF FrozenOK
<1> QED
  BY <1>16, <1>17, <1>19, <1>21, <1>22, <1>23, <1>24

\* A manifest's successor is a manifest.
LEMMA SuccessorTyped ==
  ASSUME NEW done \in PublishOps, nextId \in Nat \ {0}
  PROVE  Successor(done) \in Manifest
<1>1. done.op.seen \in Manifest /\ done.delta \in Nat /\ done.epoch \in Nat
      /\ done.start \in Starts \cup {NoStart}
  BY DEF PublishOps, InsertOps, DeleteOps
<1>2. \A a, b \in Nat : Larger(a, b) \in Nat
  BY DEF Larger
<1> DEFINE seen == done.op.seen
           epoch == Larger(seen.epoch, done.epoch)
           start == IF done.start = NoStart THEN seen.start ELSE done.start
           maxId == Larger(seen.maxId, nextId - 1)
<1>3. seen \in Manifest /\ epoch \in Nat /\ maxId \in Nat /\ start \in Starts
  <2>1. seen \in Manifest
    BY <1>1
  <2>2. seen.epoch \in Nat /\ seen.maxId \in Nat /\ seen.start \in Starts
    BY <2>1 DEF Manifest
  <2>3. nextId - 1 \in Nat
    OBVIOUS
  <2> QED
    BY <1>1, <1>2, <2>1, <2>2, <2>3
<1>4. Successor(done) = [seen EXCEPT !.hotDelta = done.delta, !.epoch = epoch,
                                     !.start = start, !.maxId = maxId]
  BY <1>3 DEF Successor, Manifest
<1> HIDE DEF seen, epoch, start, maxId
<1> QED
  BY <1>1, <1>3, <1>4 DEF Manifest

\* What the manifest is after a publish.
LEMMA PublishedManifest ==
  ASSUME Inv, NEW w \in Writers, Publish(w)
  PROVE  /\ manifest.version = Seen(w).version /\ Current(w)
         /\ manifest' \in Manifest
         /\ manifest'.version = manifest.version + 1 /\ manifest'.segments = manifest.segments
         /\ manifest'.hotDelta = op[w].delta
         /\ op[w].delta # 0 /\ op[w].delta \in DOMAIN hotDeltas
         /\ manifest'.epoch \in Nat
         /\ op[w].epoch <= manifest'.epoch
         /\ manifest'.maxId \in Nat
         /\ nextId - 1 <= manifest'.maxId
         /\ manifest.maxId < nextId => manifest'.maxId < nextId
<1>1. /\ At(w, "publish") /\ CompareAndPublish(op[w].op.seen.version, Successor(op[w]))
  BY DEF Publish
<1>2. op[w] \in PublishOps
  BY <1>1, Kinds DEF Inv, Typed, At
<1>3. Seen(w) = op[w].op.seen /\ Mutation(w) = op[w].op
  BY <1>1 DEF Seen, Mutation
<1> DEFINE done == op[w]
<1>4. manifest.version = done.op.seen.version
  BY <1>1 DEF CompareAndPublish
<1>5. done.op.seen = manifest
  BY <1>2, <1>3, <1>4 DEF Inv, SeenOK, PinnedManifest
<1>6. manifest \in Manifest /\ nextId \in Nat \ {0}
  BY DEF Inv, Typed, StorageTypeOK
<1>7. done.delta \in Nat /\ done.epoch \in Nat
  BY <1>2 DEF PublishOps
<1>8. Successor(done) \in Manifest
  BY <1>2, <1>6, SuccessorTyped
<1>9. manifest' = [Successor(done) EXCEPT !.version = manifest.version + 1]
  BY <1>1, <1>4 DEF CompareAndPublish
<1>10. /\ Successor(done).segments = manifest.segments
       /\ Successor(done).hotDelta = done.delta
       /\ Successor(done).epoch = Larger(manifest.epoch, done.epoch)
       /\ Successor(done).maxId = Larger(manifest.maxId, nextId - 1)
  <2> HIDE DEF done
  <2> QED
    BY <1>5, <1>6 DEF Successor, Manifest
<1>11. /\ manifest.maxId \in Nat /\ manifest.version \in Nat /\ manifest.epoch \in Nat
  BY Counters DEF Inv
<1>12. manifest'.maxId = Larger(manifest.maxId, nextId - 1)
       /\ manifest'.epoch = Larger(manifest.epoch, done.epoch)
       /\ manifest'.version = manifest.version + 1 /\ manifest'.segments = manifest.segments
       /\ manifest'.hotDelta = done.delta /\ manifest' \in Manifest
  <2> DEFINE new == Successor(done)
  <2>1. new \in Manifest /\ manifest' = [new EXCEPT !.version = manifest.version + 1]
    BY <1>8, <1>9
  <2>2. /\ new.segments = manifest.segments /\ new.hotDelta = done.delta
        /\ new.epoch = Larger(manifest.epoch, done.epoch)
        /\ new.maxId = Larger(manifest.maxId, nextId - 1)
    BY <1>10
  <2>3. manifest.version + 1 \in Nat
    BY <1>11
  <2> HIDE DEF new, done
  <2>4. manifest' \in Manifest
    BY <2>1, <2>3 DEF Manifest
  <2> QED
    BY <2>1, <2>2, <2>4 DEF Manifest
<1>13. done.delta \in 1 .. nextHotDelta - 1
  BY <1>1 DEF Inv, FrozenOK
<1>14. done.delta \in DOMAIN hotDeltas
  BY <1>1, <1>10, <1>13 DEF CompareAndPublish, ValidReferences, Resolves
<1>15. /\ done.epoch <= manifest'.epoch /\ manifest'.epoch \in Nat
       /\ nextId - 1 <= manifest'.maxId /\ manifest'.maxId \in Nat
       /\ manifest.maxId < nextId => manifest'.maxId < nextId
  BY <1>6, <1>7, <1>11, <1>12 DEF Larger
<1> QED
  BY <1>3, <1>4, <1>12, <1>13, <1>14, <1>15 DEF Current

LEMMA PublishKeeps ==
  ASSUME Inv, NEW w \in Writers, Publish(w)
  PROVE  Inv'
<1> USE DEF Inv
<1> DEFINE delta == hotDeltas[op[w].delta]
           node == Node(w)
<1>1. /\ At(w, "publish") /\ Acknowledge(op[w].op) /\ Goto(w, NoOp) /\ nextId' = nextId
      /\ UNCHANGED <<segments, hotDeltas, nextHotDelta, draft>>
  BY DEF Publish, CompareAndPublish
<1>2. op[w] \in PublishOps /\ op[w].op \in InsertOps \cup DeleteOps
  <2>1. op[w] \in PublishOps
    BY <1>1, Kinds DEF Typed, At
  <2> QED
    BY <2>1 DEF PublishOps
<1>3. /\ Mutation(w) = op[w].op /\ node = op[w].op.node /\ node \in Nodes
      /\ Inserting(w) <=> op[w].op \in InsertOps
      /\ Deleting(w) <=> op[w].op \in DeleteOps
      /\ Busy(w) /\ ~Planning(w) /\ ~Building(w)
      /\ Inserting(w) => Mutation(w).row \in Rows
  <2>1. Inserting(w) <=> op[w].op \in InsertOps
    BY <1>1, <1>2, Stages DEF Inserting, At
  <2>2. Deleting(w) <=> op[w].op \in DeleteOps
    BY <1>1, <1>2, Stages DEF Deleting, At
  <2>3. Busy(w)
    BY <1>2, <2>1, <2>2 DEF Busy
  <2> QED
    BY <1>1, <2>1, <2>2, <2>3, BusyFacts DEF Typed, Mutation, Node, At
<1>4. op' \in [Writers -> Ops] /\ op'[w] = NoOp /\ \A v \in Writers \ {w} : op'[v] = op[v]
  <2>1. NoOp \in Ops
    BY DEF Ops
  <2> QED
    BY <1>1, <2>1, StepOf DEF Typed
<1>5. ~Planning(w)' /\ ~Busy(w)' /\ ~Building(w)' /\ ~At(w, "publish")' /\ ~At(w, "reset")'
  BY <1>4, Stages DEF Planning, Busy, Inserting, Deleting, Building, At
<1>6. /\ \A v \in Writers : ~Building(v) /\ ~At(v, "reset")
  BY <1>3, NoBuilder
<1>7. \A n \in InUse : n < nextId
  BY <1>6 DEF IdsOK
<1>8. node < nextId /\ manifest.maxId < nextId
  BY <1>3, <1>6 DEF IdsOK
<1>9. \/ /\ Inserting(w) /\ ~Deleting(w)
         /\ owed' = With(owed, node, Mutation(w).row) /\ gone' = gone
      \/ /\ Deleting(w) /\ ~Inserting(w)
         /\ owed' = owed /\ gone' = gone \cup {node}
  BY <1>1, <1>2, <1>3, Shapes DEF Acknowledge
<1>10. op[w].delta \in DOMAIN hotDeltas /\ op[w].delta # 0 /\ DeltaOf(manifest)' = delta
  BY <1>1, PublishedManifest DEF DeltaOf
<1>11. /\ EpochsWithin(delta, op[w].epoch) /\ Honest(delta)
       /\ Inserting(w) => Holds(w, delta)
       /\ Deleting(w) => node \in DOMAIN delta.tombstones
  <2>1. delta \in OwnDelta(w)
    BY <1>10 DEF OwnDelta
  <2>2. Publishable(w, delta)
    BY <1>1, <2>1 DEF FrozenOK
  <2> QED
    BY <2>2, PublishedManifest DEF Publishable
<1>12. /\ Inserting(w) => Alone(w) /\ Holds(w, draft)
       /\ Deleting(w) => node \in DOMAIN draft.tombstones
       /\ Deleting(w) => node \notin DOMAIN owed
  BY <1>1, <1>3, PublishedManifest DEF InsertOK, DeleteOK, At
<1>13. \A some, n, row : Carries(some, n, row)' <=> Carries(some, n, row)
  BY <1>1, PublishedManifest, SegmentsSame DEF Carries
<1>14. ASSUME NEW some, Honest(some), Inserting(w) => Holds(w, some),
              Deleting(w) => node \in DOMAIN some.tombstones
       PROVE  Honest(some)'
  <2>1. ASSUME NEW n \in DOMAIN owed'
        PROVE  n \notin DOMAIN some.tombstones /\ Carries(some, n, owed'[n])
    <3>1. CASE n \in DOMAIN owed /\ owed'[n] = owed[n]
      BY <1>14, <3>1 DEF Honest
    <3>2. CASE Inserting(w) /\ n = node /\ owed'[n] = Mutation(w).row
      BY <1>14, <3>2 DEF Holds, Carries
    <3>3. \/ n \in DOMAIN owed /\ owed'[n] = owed[n]
          \/ Inserting(w) /\ n = node /\ owed'[n] = Mutation(w).row
      BY <1>9, <2>1 DEF With
    <3> QED
      BY <3>1, <3>2, <3>3
  <2>2. \A n \in gone' : n \in DOMAIN some.tombstones
    BY <1>9, <1>14 DEF Honest
  <2>3. \A n, row : Carries(some, n, row) => Carries(some, n, row)'
    BY <1>13
  <2> QED
    BY <2>1, <2>2, <2>3 DEF Honest
<1>15. Honest(draft)'
  <2>1. PICK some : some = draft
    OBVIOUS
  <2>2. Honest(some)'
    BY <1>12, <1>14, <2>1
  <2>3. draft' = some
    BY <1>1, <2>1
  <2> QED
    BY <2>2, <2>3 DEF Honest, Carries
<1>16. ManifestOK'
  <2>1. PICK some : some = delta
    OBVIOUS
  <2>2. Honest(some)'
    BY <1>11, <1>14, <2>1
  <2>3. DeltaOf(manifest)' = some
    BY <1>10, <2>1
  <2>4. EpochsWithin(some, manifest'.epoch)
    <3>1. some \in Delta
      BY <1>10, <2>1 DEF Typed, StorageTypeOK
    <3>2. \A n \in DOMAIN some.tombstones : some.tombstones[n] \in Nat
      <4>1. some.tombstones \in PartialFn(Nodes, 1 .. MaxEpoch)
        BY <3>1 DEF Delta
      <4>2. some.tombstones \in [DOMAIN some.tombstones -> 1 .. MaxEpoch]
        BY <4>1, PartialApply
      <4> QED
        BY <4>2, StorageAssumption
    <3>3. op[w].epoch \in Nat
      BY <1>2 DEF PublishOps
    <3> QED
      BY <1>11, <2>1, <3>2, <3>3, PublishedManifest DEF EpochsWithin
  <2> QED
    BY <2>2, <2>3, <2>4 DEF ManifestOK, Honest, Carries, EpochsWithin
<1>17. Typed'
  <2>1. op[w].op.seen.version \in Nat /\ Successor(op[w]) \in Manifest
    BY <1>2, SuccessorTyped DEF Typed, InsertOps, DeleteOps, Manifest
  <2>2. StorageTypeOK'
    BY <2>1, CompareAndPublishTyped DEF Publish, Typed
  <2>3. ManifestResolves'
    BY <1>1, <1>10, PublishedManifest DEF Typed, ManifestResolves, ValidReferences, Resolves
  <2>4. owed' \in PartialFn(Nodes, Rows) /\ gone' \subseteq Nodes
    BY <1>3, <1>9, WithPartial DEF Typed
  <2> QED
    BY <1>1, <1>4, <2>2, <2>3, <2>4 DEF Typed
<1>18. /\ Built' = Built /\ Staged' = Staged /\ Frozen' = Frozen
       /\ Shown' \subseteq Built \cup Frozen
       /\ InUse' \subseteq InUse \cup {node}
  <2>1. Built' = Built /\ Staged' = Staged /\ Frozen' = Frozen
    BY <1>1, PublishedManifest DEF Built, IsImmutable, SegmentsWith, Staged, Frozen
  <2>2. DOMAIN delta.records \subseteq Frozen
    BY <1>10 DEF Frozen
  <2>3. DOMAIN owed' \cup gone' \subseteq DOMAIN owed \cup gone \cup {node}
    BY <1>9 DEF With
  <2> QED
    BY <1>10, <2>1, <2>2, <2>3 DEF Shown, InUse
<1>19. \A v \in Writers \ {w} :
         /\ op'[v] = op[v]
         /\ Node(v)' = Node(v) /\ Seen(v)' = Seen(v) /\ Mutation(v)' = Mutation(v)
         /\ (Planning(v)' <=> Planning(v)) /\ (Inserting(v)' <=> Inserting(v))
         /\ (Deleting(v)' <=> Deleting(v)) /\ (Busy(v)' <=> Busy(v))
         /\ ~Building(v)' /\ \A pc : At(v, pc)' <=> At(v, pc)
  BY <1>4, <1>6, SameOp
<1>20. IdsOK'
  <2>1. \A n \in InUse' : n < nextId'
    BY <1>1, <1>7, <1>8, <1>18
  <2>2. \A v \in Writers : Busy(v)' => Node(v)' < nextId'
    BY <1>1, <1>5, <1>6, <1>19 DEF IdsOK
  <2>3. \A n \in DOMAIN owed' \cup gone' \cup Shown' : n \in Nodes /\ n \in InUse'
    <3>1. Shown' \subseteq InUse'
      BY <1>18 DEF InUse
    <3>2. InUse \subseteq Nodes
      BY DraftFacts DEF InUse, Staged
    <3>3. DOMAIN owed' \cup gone' \cup Shown' \subseteq InUse'
      BY <3>1 DEF InUse
    <3> QED
      BY <1>3, <1>18, <3>2, <3>3
  <2>4. ASSUME NEW n \in DOMAIN owed' \cup gone' \cup Shown'
        PROVE  n <= manifest'.maxId
    <3>1. n \in Nat /\ nextId \in Nat /\ n < nextId
      BY <1>1, <2>1, <2>3, Counters
    <3> QED
      BY <3>1, PublishedManifest
  <2>5. manifest'.maxId < nextId'
    BY <1>1, <1>8, PublishedManifest
  <2> QED
    BY <2>1, <2>2, <2>4, <2>5 DEF IdsOK
<1>21. StagedFirst'
  BY <1>1, <1>18 DEF StagedFirst
<1>22. /\ SeenOK(w)' /\ FreshOK(w)' /\ InsertOK(w)' /\ DeleteOK(w)' /\ FrozenOK(w)' /\ BuildOK(w)'
  BY <1>4, <1>5, Stages DEF SeenOK, FreshOK, InsertOK, DeleteOK, FrozenOK, BuildOK, Busy
<1>23. ASSUME NEW v \in Writers \ {w}
       PROVE  /\ SeenOK(v)' /\ FreshOK(v)' /\ InsertOK(v)' /\ DeleteOK(v)'
              /\ FrozenOK(v)' /\ BuildOK(v)'
  <2>1. op[v] \notin SwapOps
    BY <1>6 DEF Building
  <2>2. op[v] \in StageOps \cup InsertOps \cup RepairOps \cup DeleteOps \cup PublishOps =>
          Seen(v).version \in Nat /\ Seen(v).version < manifest'.version
    <3>1. ASSUME op[v] \in StageOps \cup InsertOps \cup RepairOps \cup DeleteOps \cup PublishOps
          PROVE  Seen(v) \in Manifest
      <4>1. CASE op[v] \in StageOps \cup InsertOps \cup RepairOps \cup DeleteOps
        BY <4>1, Stages DEF Seen, Mutation, At, StageOps, InsertOps, RepairOps, DeleteOps
      <4>2. CASE op[v] \in PublishOps
        <5>1. op[v].op \in InsertOps \cup DeleteOps /\ At(v, "publish")
          BY <4>2, Stages DEF PublishOps, At
        <5> QED
          BY <5>1 DEF Seen, Mutation, InsertOps, DeleteOps
      <4> QED
        BY <3>1, <4>1, <4>2
    <3>2. ASSUME op[v] \in StageOps \cup InsertOps \cup RepairOps \cup DeleteOps \cup PublishOps
          PROVE  Seen(v).version \in Nat /\ Seen(v).version <= manifest.version
      BY <3>1, <3>2 DEF SeenOK, PinnedManifest, Manifest
    <3> QED
      BY <3>2, PublishedManifest, Counters
  <2>3. op[v] \in StageOps \cup InsertOps \cup RepairOps \cup DeleteOps \cup PublishOps => ~Current(v)'
    BY <1>19, <2>2 DEF Current
  <2>4. SeenOK(v)'
    BY <1>19, <2>1, <2>2, PublishedManifest, Counters DEF SeenOK, PinnedManifest
  <2>5. FreshOK(v)'
    BY <1>3, <1>5, <1>18, <1>19 DEF FreshOK
  <2>6. InsertOK(v)'
    <3>1. CASE Inserting(v) /\ ~Planning(v)
      <4>1. op[v] \in StageOps \cup InsertOps \cup PublishOps
        BY <3>1, BusyFacts, Kinds, Stages DEF Typed, Inserting, Planning, At
      <4>2. ~Current(v)'
        BY <2>3, <4>1
      <4> QED
        BY <1>18, <1>19, <3>1, <4>2 DEF InsertOK
    <3>2. CASE ~(Inserting(v) /\ ~Planning(v))
      BY <1>19, <3>2 DEF InsertOK
    <3> QED
      BY <3>1, <3>2
  <2>7. DeleteOK(v)'
    <3>1. CASE Deleting(v)
      <4>1. Node(v) \notin DOMAIN owed'
        BY <1>9, <1>12, <3>1 DEF DeleteOK, Alone, With
      <4>2. ~At(v, "tombstone") => Node(v) \in DOMAIN draft.tombstones
        BY <3>1 DEF DeleteOK
      <4> QED
        BY <1>1, <1>19, <4>1, <4>2 DEF DeleteOK
    <3>2. CASE ~Deleting(v)
      BY <1>19, <3>2 DEF DeleteOK
    <3> QED
      BY <3>1, <3>2
  <2>8. FrozenOK(v)'
    <3>1. CASE At(v, "publish")
      <4>1. op[v] \in PublishOps
        BY <3>1, Kinds DEF Typed, At
      <4>2. ~Current(v)'
        BY <2>3, <4>1
      <4>3. OwnDelta(v)' = OwnDelta(v)
        BY <1>1, <1>19 DEF OwnDelta
      <4>4. \A some : Publishable(v, some) => Publishable(v, some)'
        BY <1>19, <4>2 DEF Publishable, EpochsWithin
      <4> QED
        BY <1>1, <1>19, <3>1, <4>3, <4>4 DEF FrozenOK
    <3>2. CASE ~At(v, "publish")
      BY <1>19, <3>2 DEF FrozenOK
    <3> QED
      BY <3>1, <3>2
  <2>9. BuildOK(v)'
    BY <1>19 DEF BuildOK
  <2> QED
    BY <2>4, <2>5, <2>6, <2>7, <2>8, <2>9
<1> QED
  BY <1>15, <1>16, <1>17, <1>20, <1>21, <1>22, <1>23

------------------------------------------------------------------------------
(* Bulk builds *)

\* Bulk builds come before online mutations, by one writer, if there are any:
\* over a draft that holds mutations a build can lose rows, and another writer
\* could stage some before the replacement is visible.
BulkFirst ==
  \/ MaxBulkBuilds = 0
  \/ ~BuildAnytime /\ \A v, w \in Writers : v = w

\* Over a storage without staged rows or frozen deltas, a reader sees the
\* segments alone.
LEMMA NothingFrozen ==
  ASSUME Typed, DOMAIN hotDeltas = {}
  PROVE  /\ DeltaOf(manifest).records = EmptyFn /\ DeltaOf(manifest).tombstones = EmptyFn
         /\ Frozen = {} /\ Shown = Built
<1>1. manifest.hotDelta = 0
  BY ShownInUse
<1>2. DOMAIN EmptyFn = {}
  BY DEF EmptyFn
<1> QED
  BY <1>1, <1>2 DEF DeltaOf, Frozen, Shown

\* What a writer that builds, alone, has to keep.
LEMMA BuilderKeeps ==
  ASSUME Typed', NEW w \in Writers, \A v \in Writers : v = w,
         ~Building(w)' => op'[w] = NoOp,
         Staged' = {}, DOMAIN hotDeltas' = {}, gone' = {},
         \A n \in DOMAIN owed' :
           IsImmutable(manifest, n)' /\ ImmutableRecord(manifest, n)'.row = owed'[n],
         IdsOK', SeenOK(w)', BuildOK(w)'
  PROVE  Inv'
<1>1. DOMAIN draft'.records = {} /\ DOMAIN draft'.tombstones = {}
  BY DEF Staged
<1>2. DOMAIN DeltaOf(manifest)'.records = {} /\ DOMAIN DeltaOf(manifest)'.tombstones = {}
  <2>1. manifest'.hotDelta = 0
    BY DEF Typed, ManifestResolves, ValidReferences, Resolves
  <2> QED
    BY <2>1 DEF DeltaOf, EmptyFn
<1>3. ASSUME NEW delta, DOMAIN delta.records = {}, DOMAIN delta.tombstones = {}
      PROVE  Honest(delta)'
  BY <1>3 DEF Honest, Carries
<1>4. Honest(draft)'
  <2>1. PICK delta : delta = draft'
    OBVIOUS
  <2> QED
    BY <1>1, <1>3, <2>1 DEF Honest, Carries
<1>5. ManifestOK'
  <2>1. PICK delta : delta = DeltaOf(manifest)'
    OBVIOUS
  <2>2. Honest(DeltaOf(manifest))'
    BY <1>2, <1>3, <2>1 DEF Honest, Carries
  <2>3. EpochsWithin(DeltaOf(manifest), manifest.epoch)'
    BY <1>2 DEF EpochsWithin
  <2> QED
    BY <2>2, <2>3 DEF ManifestOK
<1>6. ~Busy(w)' /\ ~Planning(w)' /\ ~At(w, "publish")'
  BY Stages DEF Building, Busy, Planning, Inserting, Deleting, At
<1>7. \A v \in Writers : FreshOK(v)' /\ InsertOK(v)' /\ DeleteOK(v)' /\ FrozenOK(v)'
  BY <1>6 DEF FreshOK, InsertOK, DeleteOK, FrozenOK, Busy
<1>8. StagedFirst'
  BY DEF StagedFirst
<1> QED
  BY <1>4, <1>5, <1>7, <1>8 DEF Inv

\* A writer that builds finds its storage as the build started.
LEMMA WhileBuilding ==
  ASSUME Inv, NEW w \in Writers, Staged = {}, \A v \in Writers : v = w, ~Busy(w)
  PROVE  /\ DOMAIN hotDeltas = {} /\ gone = {} /\ InUse = DOMAIN owed \cup Built
         /\ \A n \in DOMAIN owed :
              IsImmutable(manifest, n) /\ ImmutableRecord(manifest, n).row = owed[n]
         /\ \A n \in InUse : n <= manifest.maxId
<1>1. DOMAIN hotDeltas = {}
  BY DEF Inv, StagedFirst
<1>2. DOMAIN draft.records = {} /\ DOMAIN draft.tombstones = {}
  BY DEF Staged
<1>3. gone = {} /\ \A n \in DOMAIN owed :
        IsImmutable(manifest, n) /\ ImmutableRecord(manifest, n).row = owed[n]
  BY <1>2 DEF Inv, Honest, Carries
<1>4. Frozen = {} /\ Shown = Built
  BY <1>1, NothingFrozen DEF Inv
<1>5. InUse = DOMAIN owed \cup Built
  BY <1>3, <1>4 DEF InUse
<1> QED
  BY <1>1, <1>3, <1>4, <1>5 DEF Inv, IdsOK

\* The records of a build are records of nodes.
LEMMA BuiltTyped ==
  ASSUME NEW rows \in BuiltRows, NEW graph \in BulkGraphs(rows)
  PROVE  [n \in DOMAIN rows |-> [row |-> rows[n], links |-> graph[n]]] \in PartialFn(Nodes, Record)
<1>1. PICK k \in 0 .. MaxBuiltRows : rows \in [1 .. k -> Rows]
  BY DEF BuiltRows
<1>2. 1 .. k \subseteq Nodes
  <2> DEFINE size == Cardinality(Nodes)
  <2>1. size \in Nat /\ Nodes = 1 .. size /\ MaxBuiltRows \in 0 .. size
    BY FS_CardinalityType, IndexAssumption
  <2> HIDE DEF size
  <2> QED
    BY <2>1
<1>3. graph \in [1 .. k -> SUBSET (1 .. k)]
  BY <1>1 DEF BulkGraphs
<1>4. \A n \in 1 .. k : [row |-> rows[n], links |-> graph[n]] \in Record
  <2>1. ASSUME NEW n \in 1 .. k
        PROVE  rows[n] \in Rows /\ graph[n] \in SUBSET Nodes
    BY <1>1, <1>2, <1>3
  <2> QED
    BY <2>1 DEF Record, Links
<1>5. [n \in DOMAIN rows |-> [row |-> rows[n], links |-> graph[n]]] \in [1 .. k -> Record]
  BY <1>1, <1>4
<1> QED
  BY <1>2, <1>5 DEF PartialFn

\* A build stores one segment with the rows of its input, or nothing.
LEMMA BuiltSegment ==
  ASSUME NEW w \in Writers, NEW rows \in BuiltRows, BulkStore(w, rows)
  PROVE  \E nodes :
           /\ UNCHANGED storageVars \/ InsertImmutableSegment(nodes)
           /\ rows # <<>> =>
                /\ InsertImmutableSegment(nodes) /\ nodes \in PartialFn(Nodes, Record)
                /\ DOMAIN nodes = DOMAIN rows
                /\ \A n \in DOMAIN rows : nodes[n].row = rows[n]
           /\ nodes \in PartialFn(Nodes, Record)
<1>1. CASE rows = <<>>
  <2>1. UNCHANGED storageVars
    BY <1>1 DEF BulkStore
  <2> QED
    BY <1>1, <2>1, EmptyPartial
<1>2. CASE rows # <<>>
  <2>1. PICK graph \in BulkGraphs(rows) :
          InsertImmutableSegment([n \in DOMAIN rows |-> [row |-> rows[n], links |-> graph[n]]])
    BY <1>2 DEF BulkStore
  <2>2. [n \in DOMAIN rows |-> [row |-> rows[n], links |-> graph[n]]] \in PartialFn(Nodes, Record)
    BY BuiltTyped
  <2> QED
    BY <2>1, <2>2
<1> QED
  BY <1>1, <1>2

LEMMA BulkStoreKeeps ==
  ASSUME Inv, BulkFirst, NEW w \in Writers, NEW rows \in BuiltRows,
         BuildAnytime \/ NothingStaged, BulkStore(w, rows)
  PROVE  Inv'
<1> USE DEF Inv
<1> DEFINE o == [pc |-> "load", rows |-> rows,
                 segments |-> IF rows = <<>> THEN <<>> ELSE <<Len(segments) + 1>>]
<1>1. /\ At(w, "idle") /\ manifest.version < MaxBulkBuilds /\ Goto(w, o)
      /\ UNCHANGED <<nextId, owed, gone>>
  BY DEF BulkStore
<1>2. (\A v \in Writers : v = w) /\ NothingStaged
  <2>1. manifest.version \in Nat /\ MaxBulkBuilds \in Nat
    BY Counters, IndexAssumption
  <2> QED
    BY <1>1, <2>1 DEF BulkFirst
<1>3. Staged = {} /\ ~Busy(w) /\ ~At(w, "reset")
  <2>1. ~Busy(w) /\ ~At(w, "reset")
    BY <1>1, BusyFacts DEF Typed, At
  <2> QED
    BY <1>2, <2>1 DEF NothingStaged, Staged, EmptyFn
<1>4. /\ DOMAIN hotDeltas = {} /\ gone = {}
      /\ \A n \in DOMAIN owed :
           IsImmutable(manifest, n) /\ ImmutableRecord(manifest, n).row = owed[n]
  BY <1>2, <1>3, WhileBuilding
<1>5. Len(segments) \in Nat /\ DOMAIN segments = 1 .. Len(segments)
  BY DEF Typed, StorageTypeOK
<1>6. o \in LoadOps /\ o \in Ops
  <2>1. o \in LoadOps
    BY <1>5 DEF LoadOps
  <2> QED
    BY <2>1 DEF Ops
<1>7. o.rows = rows /\ o.segments = (IF rows = <<>> THEN <<>> ELSE <<Len(segments) + 1>>)
  OBVIOUS
<1> HIDE DEF o
<1>8. op' \in [Writers -> Ops] /\ op'[w] = o
  BY <1>1, <1>6, StepOf DEF Typed
<1>9. PICK nodes : /\ UNCHANGED storageVars \/ InsertImmutableSegment(nodes)
                   /\ rows # <<>> =>
                        /\ InsertImmutableSegment(nodes) /\ nodes \in PartialFn(Nodes, Record)
                        /\ DOMAIN nodes = DOMAIN rows
                        /\ \A n \in DOMAIN rows : nodes[n].row = rows[n]
                   /\ nodes \in PartialFn(Nodes, Record)
  BY BuiltSegment
<1>10. /\ UNCHANGED <<manifest, hotDeltas, nextHotDelta, draft, nextEpoch, pins>>
       /\ segments' = segments \/ segments' = Append(segments, nodes)
       /\ rows # <<>> => segments' = Append(segments, nodes)
  BY <1>9 DEF InsertImmutableSegment, storageVars
<1>11. /\ DOMAIN segments \subseteq DOMAIN segments'
       /\ \A k \in DOMAIN segments : segments'[k] = segments[k]
       /\ segments' \in Seq(PartialFn(Nodes, Record))
  <2> DEFINE T == PartialFn(Nodes, Record)
  <2>1. segments \in Seq(T) /\ nodes \in T
    BY <1>9 DEF Typed, StorageTypeOK
  <2> HIDE DEF T
  <2>2. /\ DOMAIN segments \subseteq DOMAIN segments'
        /\ \A k \in DOMAIN segments : segments'[k] = segments[k]
        /\ segments' \in Seq(T)
    BY <1>10, <2>1
  <2> QED
    BY <2>2 DEF T
<1>12. \A i \in DOMAIN manifest.segments : manifest.segments[i] \in DOMAIN segments
  BY DEF Typed, ManifestResolves, ValidReferences
<1>13. Typed'
  <2>1. StorageTypeOK'
    BY <1>10, <1>11 DEF Typed, StorageTypeOK
  <2>2. ManifestResolves'
    BY <1>10, <1>11, <1>12 DEF Typed, ManifestResolves, ValidReferences, Resolves
  <2> QED
    BY <1>1, <1>8, <2>1, <2>2 DEF Typed
<1>14. \A n : SegmentsWith(manifest, n)' = SegmentsWith(manifest, n)
  BY <1>10, <1>11, <1>12 DEF SegmentsWith
<1>15. \A n \in Nodes : /\ IsImmutable(manifest, n)' <=> IsImmutable(manifest, n)
                        /\ IsImmutable(manifest, n) =>
                             ImmutableRecord(manifest, n)' = ImmutableRecord(manifest, n)
  <2>1. ASSUME NEW n \in Nodes
        PROVE  IsImmutable(manifest, n)' <=> IsImmutable(manifest, n)
    BY <1>14 DEF IsImmutable
  <2>2. ASSUME NEW n \in Nodes, IsImmutable(manifest, n)
        PROVE  ImmutableRecord(manifest, n)' = ImmutableRecord(manifest, n)
    <3> DEFINE first == CHOOSE i \in SegmentsWith(manifest, n) :
                          \A j \in SegmentsWith(manifest, n) : i <= j
    <3>1. first \in SegmentsWith(manifest, n)
      BY <2>2, FirstSegment DEF Typed, StorageTypeOK
    <3>2. manifest.segments[first] \in DOMAIN segments
      BY <1>12, <3>1 DEF SegmentsWith
    <3>3. ImmutableRecord(manifest, n) = segments[manifest.segments[first]][n]
      BY DEF ImmutableRecord
    <3>4. ImmutableRecord(manifest, n)' = segments'[manifest.segments[first]][n]
      BY <1>10, <1>14 DEF ImmutableRecord
    <3> QED
      BY <1>11, <3>2, <3>3, <3>4
  <2> QED
    BY <2>1, <2>2
<1>16. \A n \in DOMAIN owed' :
         IsImmutable(manifest, n)' /\ ImmutableRecord(manifest, n)'.row = owed'[n]
  BY <1>1, <1>4, <1>15, DraftFacts
<1>17. Built' = Built /\ Staged' = Staged
  BY <1>10, <1>15 DEF Built, Staged
<1>18. IdsOK'
  <2>1. Frozen' = Frozen /\ Shown' = Shown
    BY <1>10, <1>17 DEF Frozen, Shown, DeltaOf
  <2>2. InUse' = InUse
    BY <1>1, <1>17, <2>1 DEF InUse
  <2>3. (\A v \in Writers : ~At(v, "reset")) /\ (\A v \in Writers : ~Busy(v)')
    BY <1>2, <1>3, <1>6, <1>8, Stages DEF Busy, Inserting, Deleting, At
  <2> QED
    BY <1>1, <1>10, <2>1, <2>2, <2>3 DEF IdsOK
<1>19. Building(w)'
  BY <1>6, <1>8 DEF Building
<1>20. SeenOK(w)'
  BY <1>6, <1>8, Stages DEF SeenOK
<1>21. BuildOK(w)'
  <2>1. PICK built : built = o
    OBVIOUS
  <2>2. HoldsRows(built)'
    <3>1. CASE rows = <<>>
      BY <1>7, <2>1, <3>1 DEF HoldsRows
    <3>2. CASE rows # <<>>
      <4> DEFINE T == PartialFn(Nodes, Record)
      <4>1. segments \in Seq(T) /\ segments' = Append(segments, nodes)
        BY <1>10, <3>2 DEF Typed, StorageTypeOK
      <4> HIDE DEF T
      <4>2. Len(segments) + 1 \in DOMAIN segments' /\ segments'[Len(segments) + 1] = nodes
        BY <4>1
      <4> QED
        BY <1>7, <1>9, <2>1, <3>2, <4>2 DEF HoldsRows
    <3> QED
      BY <3>1, <3>2
  <2>3. op'[w] \notin SwapOps /\ op'[w] \notin ResetOps /\ op'[w] = built
    BY <1>6, <1>8, <2>1, Stages
  <2> QED
    BY <1>2, <1>3, <1>17, <2>2, <2>3 DEF BuildOK, HoldsRows
<1> QED
  BY <1>1, <1>2, <1>3, <1>4, <1>10, <1>13, <1>16, <1>17, <1>18, <1>19, <1>20, <1>21, BuilderKeeps

LEMMA BulkLoadKeeps ==
  ASSUME Inv, NEW w \in Writers, BulkLoad(w)
  PROVE  Inv'
<1> USE DEF Inv
<1> DEFINE o == [op |-> op[w], pc |-> "swap", seen |-> manifest]
<1>1. At(w, "load") /\ Goto(w, o) /\ UNCHANGED storageVars /\ UNCHANGED <<nextId, owed, gone>>
  BY DEF BulkLoad
<1>2. op[w] \in LoadOps
  BY <1>1, Kinds DEF Typed, At
<1>3. o \in SwapOps /\ o \in Ops
  <2>1. o \in SwapOps
    BY <1>2 DEF SwapOps, Typed, StorageTypeOK
  <2> QED
    BY <2>1 DEF Ops
<1>4. o.op = op[w] /\ o.seen = manifest
  OBVIOUS
<1> HIDE DEF o
<1>5. op' \in [Writers -> Ops] /\ op'[w] = o
  BY <1>1, <1>3, StepOf DEF Typed
<1>6. Building(w) /\ ~Busy(w) /\ ~At(w, "reset")
  BY <1>1, <1>2, BusyFacts DEF Typed, Building, At
<1>7. (\A v \in Writers : v = w) /\ Staged = {} /\ HoldsRows(op[w])
  BY <1>2, <1>6 DEF BuildOK
<1>8. /\ DOMAIN hotDeltas = {} /\ gone = {}
      /\ \A n \in DOMAIN owed :
           IsImmutable(manifest, n) /\ ImmutableRecord(manifest, n).row = owed[n]
  BY <1>6, <1>7, WhileBuilding
<1>9. Typed'
  BY <1>1, <1>5, StorageSame DEF Typed
<1>10. /\ \A n \in DOMAIN owed' :
            IsImmutable(manifest, n)' /\ ImmutableRecord(manifest, n)'.row = owed'[n]
       /\ Staged' = Staged /\ hotDeltas' = hotDeltas /\ gone' = gone
  BY <1>1, <1>8, SegmentsSame DEF storageVars, Staged
<1>11. IdsOK'
  <2>1. InUse' = InUse /\ Shown' = Shown /\ manifest' = manifest
    BY <1>1 DEF storageVars, InUse, Staged, Built, IsImmutable, SegmentsWith, Frozen, Shown, DeltaOf
  <2>2. (\A v \in Writers : ~At(v, "reset")) /\ (\A v \in Writers : ~Busy(v)')
    BY <1>3, <1>5, <1>6, <1>7, Stages DEF Busy, Inserting, Deleting, At
  <2> QED
    BY <1>1, <2>1, <2>2 DEF IdsOK
<1>12. SeenOK(w)'
  <2>1. op'[w] \notin StageOps \cup InsertOps \cup RepairOps \cup DeleteOps \cup PublishOps
    BY <1>3, <1>5, Stages
  <2>2. op'[w].seen = manifest /\ manifest' = manifest /\ manifest.version \in Nat
    BY <1>1, <1>4, <1>5, Counters DEF storageVars
  <2> QED
    BY <2>1, <2>2 DEF SeenOK, PinnedManifest
<1>13. BuildOK(w)'
  <2>1. op'[w] \notin LoadOps /\ op'[w] \notin ResetOps /\ op'[w].op = op[w]
    BY <1>3, <1>4, <1>5, Stages
  <2>2. segments' = segments
    BY <1>1 DEF storageVars
  <2> QED
    BY <1>7, <1>10, <2>1, <2>2 DEF BuildOK, HoldsRows
<1>14. Building(w)'
  BY <1>3, <1>5 DEF Building
<1> QED
  BY <1>7, <1>8, <1>9, <1>10, <1>11, <1>12, <1>13, <1>14, BuilderKeeps

\* The start nodes of a build are start nodes.
LEMMA BulkStartsTyped ==
  ASSUME NEW rows \in BuiltRows
  PROVE  /\ BulkStarts(rows) \in Starts /\ DOMAIN rows \subseteq Nodes /\ rows \in PartialFn(Nodes, Rows)
         /\ Len(rows) \in Nat /\ \A n \in DOMAIN rows : n <= Len(rows)
<1>1. PICK k \in 0 .. MaxBuiltRows : rows \in [1 .. k -> Rows]
  BY DEF BuiltRows
<1>2. 1 .. k \subseteq Nodes /\ k \in Nat
  <2> DEFINE size == Cardinality(Nodes)
  <2>1. size \in Nat /\ Nodes = 1 .. size /\ MaxBuiltRows \in 0 .. size
    BY FS_CardinalityType, IndexAssumption
  <2> HIDE DEF size
  <2> QED
    BY <2>1
<1>3. DOMAIN rows = 1 .. k /\ Len(rows) = k
  BY <1>1, <1>2
<1>4. rows \in PartialFn(Nodes, Rows)
  BY <1>1, <1>2 DEF PartialFn
<1> DEFINE carriers(l) == {n \in DOMAIN rows : l \in LabelsOf[rows[n]]}
           first(nodes) == CHOOSE n \in nodes : \A m \in nodes : n <= m
           held == {l \in Labels : carriers(l) # {}}
           labeled == [l \in held |-> first(carriers(l))]
<1>5. \A l \in held : first(carriers(l)) \in Nodes
  <2> SUFFICES ASSUME NEW l \in held
               PROVE  first(carriers(l)) \in Nodes
    OBVIOUS
  <2>1. carriers(l) \in SUBSET Nat /\ carriers(l) # {} /\ carriers(l) \subseteq Nodes
    BY <1>2, <1>3
  <2> HIDE DEF carriers
  <2>2. \E n \in carriers(l) : \A m \in carriers(l) : n <= m
    BY <2>1, LeastExists
  <2>3. first(carriers(l)) \in carriers(l)
    BY <2>2
  <2> QED
    BY <2>1, <2>3
<1>6. labeled \in PartialFn(Labels, Nodes)
  <2>1. labeled \in [held -> Nodes] /\ held \subseteq Labels
    BY <1>5
  <2> QED
    BY <2>1 DEF PartialFn
<1>7. DOMAIN rows # {} => 1 \in Nodes
  BY <1>2, <1>3
<1>8. BulkStarts(rows) = [default |-> IF DOMAIN rows = {} THEN EmptyStart ELSE 1,
                          labeled |-> labeled]
  BY DEF BulkStarts
<1> DEFINE default == IF DOMAIN rows = {} THEN EmptyStart ELSE 1
<1> HIDE DEF labeled
<1>9. BulkStarts(rows) \in StartMaps
  <2>1. default \in Nodes \cup {EmptyStart}
    BY <1>7
  <2>2. BulkStarts(rows) = [default |-> default, labeled |-> labeled]
    BY <1>8
  <2> HIDE DEF default
  <2> QED
    BY <1>6, <2>1, <2>2 DEF StartMaps
<1> QED
  BY <1>2, <1>3, <1>4, <1>9, IndexAssumption

LEMMA BulkSwapKeeps ==
  ASSUME Inv, NEW w \in Writers, BulkSwap(w)
  PROVE  Inv'
<1> USE DEF Inv
<1> DEFINE built == op[w].op
           o == [pc |-> "reset", last |-> Len(built.rows)]
           replacement ==
             [op[w].seen EXCEPT !.segments = built.segments, !.hotDelta = 0, !.epoch = 0,
                                !.start = BulkStarts(built.rows), !.maxId = Len(built.rows)]
<1>1. /\ At(w, "swap") /\ CompareAndPublish(op[w].seen.version, replacement) /\ Goto(w, o)
      /\ owed' = built.rows /\ gone' = {} /\ nextId' = nextId
  BY DEF BulkSwap
<1>2. op[w] \in SwapOps
  BY <1>1, Kinds DEF Typed, At
<1>3. /\ built \in LoadOps /\ op[w].seen \in Manifest
      /\ built.rows \in BuiltRows /\ built.segments \in Seq(Nat)
  BY <1>2 DEF SwapOps, LoadOps
<1>4. Building(w) /\ ~Busy(w)
  BY <1>2, BusyFacts DEF Typed, Building
<1>5. (\A v \in Writers : v = w) /\ Staged = {} /\ HoldsRows(built)
  BY <1>2, <1>4 DEF BuildOK
<1>6. DOMAIN hotDeltas = {}
  BY <1>4, <1>5, WhileBuilding
<1>7. o \in ResetOps /\ o \in Ops /\ o.last = Len(built.rows)
  <2>1. Len(built.rows) \in Nat
    BY <1>3, BulkStartsTyped
  <2>2. o \in ResetOps
    BY <2>1 DEF ResetOps
  <2> QED
    BY <2>2 DEF Ops
<1> HIDE DEF o
<1>8. op' \in [Writers -> Ops] /\ op'[w] = o
  BY <1>1, <1>7, StepOf DEF Typed
<1> HIDE DEF built
<1>9. BulkStarts(built.rows) \in Starts /\ Len(built.rows) \in Nat /\ built.rows \in PartialFn(Nodes, Rows)
      /\ DOMAIN built.rows \subseteq Nodes /\ \A n \in DOMAIN built.rows : n <= Len(built.rows)
  BY <1>3, BulkStartsTyped
<1>10. /\ replacement \in Manifest /\ replacement.segments = built.segments
       /\ replacement.hotDelta = 0 /\ replacement.maxId = Len(built.rows)
  BY <1>3, <1>9 DEF Manifest
<1> HIDE DEF replacement
<1>11. /\ op[w].seen.version \in Nat
       /\ manifest' = [replacement EXCEPT !.version = op[w].seen.version + 1]
       /\ UNCHANGED <<segments, hotDeltas, nextHotDelta, draft, nextEpoch, pins>>
  BY <1>1, <1>3 DEF CompareAndPublish, Manifest
<1>12. /\ manifest'.segments = built.segments /\ manifest'.hotDelta = 0
       /\ manifest'.maxId = Len(built.rows)
  BY <1>10, <1>11 DEF Manifest
<1>13. Typed'
  <2>1. StorageTypeOK'
    BY <1>1, <1>10, <1>11, CompareAndPublishTyped DEF Typed
  <2>2. ManifestResolves'
    BY <1>1, <1>10, <1>11, <1>12 DEF CompareAndPublish, ManifestResolves, ValidReferences, Resolves
  <2> QED
    BY <1>1, <1>8, <1>9, <2>1, <2>2 DEF Typed
<1>14. \A n : SegmentsWith(manifest, n)' = IF n \in DOMAIN built.rows THEN {1} ELSE {}
  <2>1. CASE built.rows = <<>>
    <3>1. built.segments = <<>> /\ DOMAIN built.rows = {}
      BY <1>5, <2>1 DEF HoldsRows
    <3> QED
      BY <1>12, <3>1 DEF SegmentsWith
  <2>2. CASE built.rows # <<>>
    <3>1. PICK k \in DOMAIN segments :
            built.segments = <<k>> /\ DOMAIN segments[k] = DOMAIN built.rows
      BY <1>5, <2>2 DEF HoldsRows
    <3> QED
      BY <1>11, <1>12, <3>1 DEF SegmentsWith
  <2> QED
    BY <2>1, <2>2
<1>15. ASSUME NEW n \in DOMAIN built.rows
       PROVE  IsImmutable(manifest, n)' /\ ImmutableRecord(manifest, n)'.row = built.rows[n]
  <2>1. PICK k \in DOMAIN segments :
          built.segments = <<k>> /\ segments[k][n].row = built.rows[n]
    BY <1>5, <1>15 DEF HoldsRows
  <2>2. SegmentsWith(manifest, n)' = {1}
    BY <1>14, <1>15
  <2>3. \A S : S = {1} => (CHOOSE i \in S : \A j \in S : i <= j) = 1
    OBVIOUS
  <2> DEFINE first == CHOOSE i \in SegmentsWith(manifest, n)' :
                        \A j \in SegmentsWith(manifest, n)' : i <= j
  <2>4. ImmutableRecord(manifest, n)' = segments'[manifest'.segments[first]][n]
    BY DEF ImmutableRecord
  <2>5. first = 1
    BY <2>2, <2>3
  <2> HIDE DEF first
  <2>6. ImmutableRecord(manifest, n)' = segments[k][n]
    BY <1>11, <1>12, <2>1, <2>4, <2>5
  <2> QED
    BY <2>1, <2>2, <2>6 DEF IsImmutable
<1>16. /\ \A n \in DOMAIN owed' :
            IsImmutable(manifest, n)' /\ ImmutableRecord(manifest, n)'.row = owed'[n]
       /\ Staged' = {} /\ DOMAIN hotDeltas' = {}
  BY <1>1, <1>5, <1>6, <1>11, <1>15 DEF Staged
<1>17. At(w, "reset")' /\ Building(w)'
  BY <1>7, <1>8, Stages DEF At, Building
<1>18. IdsOK'
  <2>1. Built' = DOMAIN built.rows
    BY <1>9, <1>14 DEF Built, IsImmutable
  <2>2. Shown' = DOMAIN built.rows
    BY <1>12, <2>1 DEF Shown, DeltaOf, EmptyFn
  <2> QED
    BY <1>1, <1>9, <1>12, <1>17, <2>2 DEF IdsOK
<1>19. SeenOK(w)'
  <2>1. /\ op'[w] \notin StageOps \cup InsertOps \cup RepairOps \cup DeleteOps \cup PublishOps
        /\ op'[w] \notin SwapOps
    BY <1>7, <1>8, Stages
  <2> QED
    BY <2>1 DEF SeenOK
<1>20. BuildOK(w)'
  <2>1. op'[w] \notin LoadOps /\ op'[w] \notin SwapOps /\ op'[w].last = manifest'.maxId
    BY <1>7, <1>8, <1>12, Stages
  <2> QED
    BY <1>5, <1>16, <2>1 DEF BuildOK
<1> QED
  BY <1>1, <1>5, <1>13, <1>16, <1>17, <1>18, <1>19, <1>20, BuilderKeeps

LEMMA BulkResetKeeps ==
  ASSUME Inv, NEW w \in Writers, BulkReset(w)
  PROVE  Inv'
<1> USE DEF Inv
<1>1. /\ At(w, "reset") /\ nextId' = op[w].last + 1 /\ Goto(w, NoOp)
      /\ UNCHANGED storageVars /\ UNCHANGED <<owed, gone>>
  BY DEF BulkReset
<1>2. op[w] \in ResetOps
  BY <1>1, Kinds DEF Typed, At
<1>3. Building(w) /\ ~Busy(w)
  BY <1>2, BusyFacts DEF Typed, Building
<1>4. (\A v \in Writers : v = w) /\ Staged = {} /\ op[w].last = manifest.maxId
  BY <1>2, <1>3 DEF BuildOK
<1>5. /\ DOMAIN hotDeltas = {} /\ gone = {}
      /\ \A n \in DOMAIN owed :
           IsImmutable(manifest, n) /\ ImmutableRecord(manifest, n).row = owed[n]
      /\ InUse = DOMAIN owed \cup Built /\ \A n \in InUse : n <= manifest.maxId
  BY <1>3, <1>4, WhileBuilding
<1>6. op' \in [Writers -> Ops] /\ op'[w] = NoOp
  <2>1. NoOp \in Ops
    BY DEF Ops
  <2> QED
    BY <1>1, <2>1, StepOf DEF Typed
<1>7. manifest.maxId \in Nat /\ nextId' = manifest.maxId + 1 /\ nextId' \in Nat \ {0}
  BY <1>1, <1>4, Counters
<1>8. Typed'
  BY <1>1, <1>6, <1>7, StorageSame DEF Typed
<1>9. /\ \A n \in DOMAIN owed' :
           IsImmutable(manifest, n)' /\ ImmutableRecord(manifest, n)'.row = owed'[n]
      /\ Staged' = Staged /\ hotDeltas' = hotDeltas /\ gone' = gone
  BY <1>1, <1>5, SegmentsSame DEF storageVars, Staged
<1>10. IdsOK'
  <2>1. InUse' = InUse /\ Shown' = Shown /\ manifest' = manifest
    BY <1>1 DEF storageVars, InUse, Staged, Built, IsImmutable, SegmentsWith, Frozen, Shown, DeltaOf
  <2>2. \A v \in Writers : ~Busy(v)'
    BY <1>4, <1>6, Stages DEF Busy, Inserting, Deleting, At
  <2>3. \A n \in InUse : n < nextId'
    <3>1. InUse \subseteq Nodes
      BY DraftFacts DEF InUse, Staged
    <3> QED
      BY <1>5, <1>7, <3>1, Counters
  <2> QED
    BY <1>1, <1>7, <2>1, <2>2, <2>3 DEF IdsOK
<1>11. SeenOK(w)' /\ BuildOK(w)'
  BY <1>6, Stages DEF SeenOK, BuildOK, Building
<1> QED
  BY <1>4, <1>5, <1>6, <1>8, <1>9, <1>10, <1>11, BuilderKeeps

------------------------------------------------------------------------------
(* Errors and readers *)

LEMMA FailKeeps ==
  ASSUME Inv, NEW w \in Writers, Fail(w)
  PROVE  Inv'
<1> USE DEF Inv
<1>1. Goto(w, NoOp) /\ UNCHANGED storageVars /\ UNCHANGED <<nextId, owed, gone>>
  BY DEF Fail
<1>2. ~At(w, "reset")
  BY DEF Fail, Refused, At
<1>3. op' \in [Writers -> Ops] /\ op'[w] = NoOp /\ \A v \in Writers \ {w} : op'[v] = op[v]
  <2>1. NoOp \in Ops
    BY DEF Ops
  <2> QED
    BY <1>1, <2>1, StepOf DEF Typed
<1>4. Typed'
  BY <1>1, <1>3, StorageSame DEF Typed
<1>5. ~Busy(w)' /\ ~Building(w)' /\ ~At(w, "publish")'
  BY <1>3, Stages DEF Busy, Inserting, Deleting, Building, At
<1>6. CASE ~Building(w)
  <2>1. SameRows /\ UNCHANGED <<manifest, segments, hotDeltas, nextHotDelta, owed, gone>>
    BY <1>1 DEF storageVars, SameRows
  <2>2. nextId <= nextId'
    BY <1>1, Counters
  <2> QED
    BY <1>3, <1>4, <1>5, <1>6, <2>1, <2>2, QuietKeeps
<1>7. CASE Building(w)
  <2>1. ~Busy(w) /\ (\A v \in Writers : v = w) /\ Staged = {}
    BY <1>7, BusyFacts DEF Typed, BuildOK
  <2>2. /\ DOMAIN hotDeltas = {} /\ gone = {}
        /\ \A n \in DOMAIN owed :
             IsImmutable(manifest, n) /\ ImmutableRecord(manifest, n).row = owed[n]
    BY <2>1, WhileBuilding
  <2>3. /\ \A n \in DOMAIN owed' :
             IsImmutable(manifest, n)' /\ ImmutableRecord(manifest, n)'.row = owed'[n]
        /\ Staged' = Staged /\ hotDeltas' = hotDeltas /\ gone' = gone
    <3>1. /\ manifest' = manifest /\ segments' = segments /\ draft' = draft
          /\ hotDeltas' = hotDeltas /\ owed' = owed /\ gone' = gone
      BY <1>1 DEF storageVars
    <3>2. \A n : /\ IsImmutable(manifest, n)' <=> IsImmutable(manifest, n)
                 /\ ImmutableRecord(manifest, n)' = ImmutableRecord(manifest, n)
      BY <3>1, SegmentsSame
    <3>3. Staged' = Staged
      BY <3>1 DEF Staged
    <3> QED
      BY <2>2, <3>1, <3>2, <3>3
  <2>4. IdsOK'
    <3>1. InUse' = InUse /\ Shown' = Shown /\ manifest' = manifest
      BY <1>1 DEF storageVars, InUse, Staged, Built, IsImmutable, SegmentsWith, Frozen, Shown, DeltaOf
    <3> QED
      BY <1>1, <1>2, <1>5, <2>1, <3>1 DEF IdsOK
  <2>5. SeenOK(w)' /\ BuildOK(w)'
    BY <1>3, <1>5, Stages DEF SeenOK, BuildOK
  <2> QED
    BY <1>3, <1>4, <2>1, <2>2, <2>3, <2>4, <2>5, BuilderKeeps
<1> QED
  BY <1>6, <1>7

\* The invariant does not speak of the readers.
LEMMA SameKeeps ==
  ASSUME Inv, StorageTypeOK',
         UNCHANGED <<manifest, segments, hotDeltas, nextHotDelta, draft, indexVars>>
  PROVE  Inv'
<1> USE DEF Inv, indexVars
<1>1. /\ Built' = Built /\ Staged' = Staged /\ Frozen' = Frozen /\ InUse' = InUse
      /\ Shown' = Shown /\ DeltaOf(manifest)' = DeltaOf(manifest)
  BY DEF Built, Staged, Frozen, InUse, Shown, DeltaOf, IsImmutable, SegmentsWith
<1>2. Typed'
  BY DEF Typed, ManifestResolves, ValidReferences, Resolves
<1>3. \A v \in Writers :
        /\ Mutation(v)' = Mutation(v) /\ Node(v)' = Node(v) /\ Seen(v)' = Seen(v)
        /\ (Planning(v)' <=> Planning(v)) /\ (Inserting(v)' <=> Inserting(v))
        /\ (Deleting(v)' <=> Deleting(v)) /\ (Busy(v)' <=> Busy(v))
        /\ (Building(v)' <=> Building(v)) /\ (Current(v)' <=> Current(v))
        /\ \A pc : At(v, pc)' <=> At(v, pc)
  BY SameOp DEF Current
<1>4. /\ \A delta : Honest(delta)' <=> Honest(delta)
      /\ \A delta : \A v \in Writers : Holds(v, delta)' <=> Holds(v, delta)
  BY <1>3, SegmentsSame DEF Honest, Carries, Holds
<1>5. IdsOK' /\ StagedFirst' /\ ManifestOK' /\ Honest(draft)'
  <2>1. IdsOK'
    BY <1>1, <1>3 DEF IdsOK
  <2> QED
    BY <1>1, <1>4, <2>1 DEF StagedFirst, ManifestOK, EpochsWithin
<1>6. ASSUME NEW v \in Writers
      PROVE  SeenOK(v)' /\ FreshOK(v)' /\ InsertOK(v)' /\ DeleteOK(v)' /\ FrozenOK(v)' /\ BuildOK(v)'
  <2>1. SeenOK(v)' /\ FreshOK(v)'
    BY <1>1, <1>3 DEF SeenOK, FreshOK, PinnedManifest
  <2>2. Alone(v)' <=> Alone(v)
    BY <1>1, <1>3 DEF Alone
  <2>3. InsertOK(v)' /\ DeleteOK(v)'
    BY <1>1, <1>3, <1>4, <2>2 DEF InsertOK, DeleteOK
  <2>4. \A delta : Publishable(v, delta)' <=> Publishable(v, delta)
    BY <1>3, <1>4 DEF Publishable, EpochsWithin
  <2>5. FrozenOK(v)'
    BY <1>3, <2>4 DEF FrozenOK, OwnDelta
  <2>6. BuildOK(v)'
    BY <1>1, <1>3 DEF BuildOK, HoldsRows
  <2> QED
    BY <2>1, <2>3, <2>5, <2>6
<1> QED
  BY <1>2, <1>5, <1>6

LEMMA LoadSnapshotKeeps ==
  ASSUME Inv, NEW r \in Readers, LoadSnapshot(r), UNCHANGED indexVars
  PROVE  Inv'
<1>1. StorageTypeOK'
  BY DEF LoadSnapshot, Inv, Typed, StorageTypeOK
<1> QED
  BY <1>1, SameKeeps DEF LoadSnapshot

LEMMA StutterKeeps ==
  ASSUME Inv, UNCHANGED vars
  PROVE  Inv'
<1>1. StorageTypeOK'
  BY StorageSame DEF vars, Inv
<1> QED
  BY <1>1, SameKeeps DEF vars, storageVars

------------------------------------------------------------------------------
(* Any writers, failing anywhere *)

\* The invariant holds initially.
LEMMA InitKeeps == Init => Inv
<1> SUFFICES ASSUME Init PROVE Inv
  OBVIOUS
<1> USE DEF Init
<1>1. /\ manifest.segments = <<>> /\ manifest.hotDelta = 0 /\ manifest.maxId = 0
      /\ draft.records = EmptyFn /\ draft.tombstones = EmptyFn /\ hotDeltas = EmptyFn
      /\ nextId = 1 /\ owed = EmptyFn /\ gone = {} /\ DOMAIN EmptyFn = {}
  BY DEF StorageInit, InitialManifest, EmptyFn
<1>2. op \in [Writers -> Ops] /\ \A w \in Writers : op[w] = NoOp
  BY DEF Ops
<1>3. Typed
  BY <1>1, <1>2, InitTyped, EmptyPartial
     DEF Typed, ManifestResolves, ValidReferences, Resolves
<1>4. \A n : ~IsImmutable(manifest, n)
  BY <1>1 DEF IsImmutable, SegmentsWith
<1>5. Staged = {} /\ Built = {} /\ Frozen = {} /\ DOMAIN DeltaOf(manifest).records = {}
      /\ DOMAIN DeltaOf(manifest).tombstones = {}
  BY <1>1, <1>4 DEF Staged, Built, Frozen, DeltaOf
<1>6. InUse = {} /\ Shown = {}
  BY <1>1, <1>5 DEF InUse, Shown
<1>7. \A w \in Writers : ~Busy(w) /\ ~Building(w) /\ ~At(w, "publish") /\ ~Planning(w)
  BY <1>2, Stages DEF Busy, Building, Inserting, Deleting, Planning, At
<1>8. IdsOK /\ StagedFirst
  BY <1>1, <1>6, <1>7 DEF IdsOK, StagedFirst
<1>9. ManifestOK /\ Honest(draft)
  BY <1>1, <1>5 DEF ManifestOK, Honest, EpochsWithin
<1>10. \A w \in Writers :
         SeenOK(w) /\ FreshOK(w) /\ InsertOK(w) /\ DeleteOK(w) /\ FrozenOK(w) /\ BuildOK(w)
  BY <1>2, <1>7, Stages DEF SeenOK, FreshOK, InsertOK, DeleteOK, FrozenOK, BuildOK, Busy
<1> QED
  BY <1>3, <1>8, <1>9, <1>10 DEF Inv

\* Every step keeps it.
LEMMA StepKeeps ==
  ASSUME BulkFirst
  PROVE  Inv /\ [Running]_vars => Inv'
<1> SUFFICES ASSUME Inv, [Running]_vars PROVE Inv'
  OBVIOUS
<1>1. ASSUME NEW w \in Writers, Insert(w)
      PROVE  Inv'
  BY <1>1, InsertBeginKeeps, InsertPlanKeeps, InsertAppendKeeps, InsertLinkKeeps,
     InsertStartsKeeps DEF Insert
<1>2. ASSUME NEW w \in Writers, Delete(w)
      PROVE  Inv'
  BY <1>2, DeleteBeginKeeps, DeleteTombstoneKeeps, DeleteStartsKeeps DEF Delete
<1>3. ASSUME NEW w \in Writers, BulkBuild(w)
      PROVE  Inv'
  <2>1. ASSUME BuildAnytime \/ NothingStaged, NEW n \in 0 .. MaxBuiltRows,
               NEW rows \in [1 .. n -> Rows], BulkStore(w, rows)
        PROVE  Inv'
    <3>1. rows \in BuiltRows
      BY DEF BuiltRows
    <3> QED
      BY <2>1, <3>1, BulkStoreKeeps
  <2> QED
    BY <1>3, <2>1, BulkLoadKeeps, BulkSwapKeeps, BulkResetKeeps DEF BulkBuild
<1>4. ASSUME NEW w \in Writers, Mutate(w)
      PROVE  Inv'
  BY <1>1, <1>2, <1>3, <1>4, FreezeStepKeeps, PublishKeeps, FailKeeps DEF Mutate
<1>5. ASSUME NEW r \in Readers, LoadSnapshot(r), UNCHANGED indexVars
      PROVE  Inv'
  BY <1>5, LoadSnapshotKeeps
<1>6. CASE UNCHANGED vars
  BY <1>6, StutterKeeps
<1> QED
  BY <1>4, <1>5, <1>6 DEF Running

\* The storage, the mutations in flight and the ids handed out agree in every
\* reachable state.
THEOREM IndexInvariant ==
  ASSUME BulkFirst
  PROVE  OneIndexSpec => []Inv
BY InitKeeps, StepKeeps, PTL DEF OneIndexSpec

\* What Honest says of the manifest is what a reader of it sees.
LEMMA HonestReads ==
  ASSUME Inv
  PROVE  OwedRowsVisible /\ DeletedRowsStayGone
<1> DEFINE delta == DeltaOf(manifest)
<1>1. Honest(delta) /\ EpochsWithin(delta, manifest.epoch)
  BY DEF Inv, ManifestOK
<1>2. ASSUME NEW n \in DOMAIN owed
      PROVE  IsPresent(manifest, n) /\ ReadNode(manifest, n).row = owed[n]
  <2>1. n \notin DOMAIN delta.tombstones /\ Carries(delta, n, owed[n])
    BY <1>1 DEF Honest
  <2>2. ~Deleted(manifest, n)
    BY <2>1 DEF Deleted
  <2>3. \A record : Present(record).kind = "present" /\ Present(record).row = record.row
    BY DEF Present
  <2> HIDE DEF delta
  <2>4. CASE n \in DOMAIN delta.records
    <3>1. ReadNode(manifest, n) = Present(delta.records[n]) /\ delta.records[n].row = owed[n]
      BY <2>1, <2>2, <2>4 DEF ReadNode, Carries, delta
    <3> QED
      BY <2>3, <3>1 DEF IsPresent
  <2>5. CASE n \notin DOMAIN delta.records
    <3>1. IsImmutable(manifest, n) /\ ImmutableRecord(manifest, n).row = owed[n]
      BY <2>1, <2>5 DEF Carries
    <3>2. \/ ReadNode(manifest, n) = Present(ImmutableRecord(manifest, n))
          \/ ReadNode(manifest, n) =
               [Present(ImmutableRecord(manifest, n)) EXCEPT !.links = delta.rewrites[n]]
      BY <2>2, <2>5, <3>1 DEF ReadNode, delta
    <3>3. PICK record : record = ImmutableRecord(manifest, n)
      OBVIOUS
    <3>4. ReadNode(manifest, n).kind = "present" /\ ReadNode(manifest, n).row = record.row
      BY <3>2, <3>3 DEF Present
    <3> QED
      BY <3>1, <3>3, <3>4 DEF IsPresent
  <2> QED
    BY <2>4, <2>5
<1>3. ASSUME NEW n \in gone
      PROVE  ~IsPresent(manifest, n)
  <2>1. Deleted(manifest, n)
    BY <1>1 DEF Honest, EpochsWithin, Deleted
  <2>2. ReadNode(manifest, n) = Tombstoned
    BY <2>1 DEF ReadNode
  <2> QED
    BY <2>2 DEF IsPresent, Tombstoned
<1> QED
  BY <1>2, <1>3 DEF OwedRowsVisible, DeletedRowsStayGone, PresentNodes

\* An acknowledged insert is visible in every manifest until someone asks to
\* delete it, whatever the other writers do and whichever calls fail.
THEOREM OwedStaysVisible ==
  ASSUME BulkFirst
  PROVE  OneIndexSpec => []OwedRowsVisible
<1>1. Inv => OwedRowsVisible
  BY HonestReads
<1> QED
  BY <1>1, IndexInvariant, PTL

\* An acknowledged delete is final.
THEOREM DeletedStaysGone ==
  ASSUME BulkFirst
  PROVE  OneIndexSpec => []DeletedRowsStayGone
<1>1. Inv => DeletedRowsStayGone
  BY HonestReads
<1> QED
  BY <1>1, IndexInvariant, PTL

\* While one index is open, the allocator never hands out an id a client saw.
THEOREM IdsFreshWhileOpen ==
  ASSUME BulkFirst
  PROVE  OneIndexSpec => []NamedIdsNeverReused
<1>1. Inv => NamedIdsNeverReused
  <2> SUFFICES ASSUME Inv PROVE NamedIdsNeverReused
    OBVIOUS
  <2>1. Named \subseteq DOMAIN owed \cup gone \cup Shown
    BY ShownInUse DEF Named, Inv
  <2>2. \A n \in Named : n <= manifest.maxId
    BY <2>1 DEF Inv, IdsOK
  <2> QED
    BY <2>2 DEF NamedIdsNeverReused, Inv, IdsOK
<1> QED
  BY <1>1, IndexInvariant, PTL

------------------------------------------------------------------------------
(* Types, whatever the writers do and whenever the index is reopened *)

\* A writer that takes up or goes on with a mutation.
LEMMA GoTyped ==
  ASSUME Typed, NEW w \in Writers, NEW o \in Ops, Goto(w, o)
  PROVE  op' \in [Writers -> Ops]
BY StepOf DEF Typed

\* A link that was written leaves an insert of the same kind.
LEMMA OneLinkLess ==
  ASSUME NEW o \in StageOps, NEW n, o.todo \ {n} \in Links
  PROVE  [o EXCEPT !.todo = @ \ {n}] \in StageOps
<1>1. /\ o.pc \in {"append", "link"} /\ o.node \in Nodes
      /\ o.row \in Rows /\ o.seen \in Manifest
  BY DEF StageOps
<1>2. [o EXCEPT !.todo = @ \ {n}] =
        [pc |-> o.pc, node |-> o.node, row |-> o.row, seen |-> o.seen,
         todo |-> o.todo \ {n}]
  BY DEF StageOps
<1> QED
  BY <1>1, <1>2 DEF StageOps

LEMMA InsertTyped ==
  ASSUME Typed, NEW w \in Writers, Insert(w)
  PROVE  Typed'
<1> USE DEF Typed
<1>1. ASSUME NEW row \in Rows, InsertBegin(w, row)
      PROVE  Typed'
  <2>1. [pc |-> "plan", node |-> nextId, row |-> row] \in Ops
    BY <1>1 DEF InsertBegin, PlanOps, Ops
  <2>2. op' \in [Writers -> Ops]
    BY <1>1, <2>1, GoTyped DEF InsertBegin
  <2> QED
    BY <1>1, <2>2, StorageSame DEF InsertBegin
<1>2. CASE InsertPlan(w)
  <2>1. PICK links \in Best(MaxNeighbors, NeighborCandidates(manifest, op[w].row)) :
          Goto(w, [pc |-> "append", node |-> op[w].node, row |-> op[w].row,
                   seen |-> manifest, todo |-> links])
    BY <1>2 DEF InsertPlan
  <2>2. op[w] \in PlanOps
    BY <1>2, Kinds DEF InsertPlan, At
  <2>3. op[w].node \in Nodes /\ op[w].row \in Rows /\ manifest \in Manifest /\ links \in Links
    BY <2>2, BestIn DEF PlanOps, StorageTypeOK, NeighborCandidates, Found, PresentNodes, Links
  <2>4. [pc |-> "append", node |-> op[w].node, row |-> op[w].row,
         seen |-> manifest, todo |-> links] \in StageOps
    BY <2>3 DEF StageOps
  <2>5. op' \in [Writers -> Ops]
    BY <2>1, <2>4, GoTyped DEF Ops
  <2> QED
    BY <1>2, <2>5, StorageSame DEF InsertPlan
<1>3. ASSUME op[w] \in StageOps
      PROVE  /\ op[w].pc \in {"append", "link"} /\ op[w].node \in Nodes /\ op[w].row \in Rows
             /\ op[w].seen \in Manifest /\ op[w].todo \in Links
  BY <1>3 DEF StageOps
<1>4. CASE InsertAppend(w)
  <2>1. op[w] \in StageOps
    BY <1>4, Kinds DEF InsertAppend, At
  <2>2. [op[w] EXCEPT !.pc = "link"] \in StageOps
    BY <2>1 DEF StageOps
  <2>3. op' \in [Writers -> Ops]
    BY <1>4, <2>2, GoTyped DEF Ops, InsertAppend
  <2>4. [row |-> op[w].row, links |-> op[w].todo] \in Record
    BY <1>3, <2>1 DEF Record
  <2>5. StorageTypeOK'
    BY <1>3, <1>4, <2>1, <2>4, AppendNodeTyped DEF InsertAppend
  <2> QED
    BY <1>4, <2>3, <2>5, DraftStep DEF InsertAppend, AppendNode
<1>5. CASE InsertLink(w)
  <2>1. op[w] \in StageOps
    BY <1>5, Kinds DEF InsertLink, At
  <2>2. PICK n \in op[w].todo :
          /\ UNCHANGED storageVars
               \/ \E links \in Best(MaxNeighbors, ((LinksOf(op[w].seen, n) \cap PresentNodes(op[w].seen))
                                                     \cup {op[w].node}) \ {n}) :
                    RewriteNeighbors(n, links)
          /\ Goto(w, [op[w] EXCEPT !.todo = @ \ {n}])
    BY <1>5 DEF InsertLink
  <2>3. n \in Nodes /\ op[w].todo \ {n} \in Links
    BY <1>3, <2>1 DEF Links
  <2>4. [op[w] EXCEPT !.todo = @ \ {n}] \in StageOps
    BY <2>1, <2>3, OneLinkLess
  <2>5. op' \in [Writers -> Ops]
    BY <2>2, <2>4, GoTyped DEF Ops
  <2>6. CASE UNCHANGED storageVars
    BY <1>5, <2>5, <2>6, StorageSame DEF InsertLink
  <2>7. ASSUME NEW links, RewriteNeighbors(n, links),
               links \subseteq ((LinksOf(op[w].seen, n) \cap PresentNodes(op[w].seen))
                                  \cup {op[w].node}) \ {n}
        PROVE  Typed'
    <3>1. links \in Links
      BY <1>3, <2>1, <2>7 DEF Links, PresentNodes
    <3>2. StorageTypeOK'
      BY <2>3, <2>7, <3>1, RewriteNeighborsTyped
    <3> QED
      BY <1>5, <2>5, <2>7, <3>2, DraftStep DEF InsertLink, RewriteNeighbors
  <2> QED
    BY <2>2, <2>6, <2>7, BestIn
<1>6. CASE InsertStarts(w)
  <2> DEFINE start == StartsAfterInsert(op[w].seen, op[w].node, op[w].row)
  <2>1. op[w] \in StageOps
    BY <1>6, Kinds DEF InsertStarts, At
  <2>2. [pc |-> "freeze", node |-> op[w].node, row |-> op[w].row, seen |-> op[w].seen] \in InsertOps
    BY <1>3, <2>1 DEF InsertOps
  <2>3. op' \in [Writers -> Ops]
    BY <1>6, <2>2, GoTyped DEF Ops, InsertStarts
  <2>4. nextId' \in Nat \ {0}
    BY <1>3, <1>6, <2>1, Counters DEF InsertStarts
  <2>5. UNCHANGED storageVars \/ UpdateStartNodes(start)
    BY <1>6 DEF InsertStarts
  <2>6. start \in Starts
    BY <1>3, <2>1, StartsTyped
  <2> HIDE DEF start
  <2>7. CASE UNCHANGED storageVars
    BY <1>6, <2>3, <2>4, <2>7, StorageSame DEF InsertStarts
  <2>8. CASE UpdateStartNodes(start)
    <3>1. StorageTypeOK'
      BY <2>6, <2>8 DEF UpdateStartNodes, StorageTypeOK, Draft
    <3> QED
      BY <1>6, <2>3, <2>4, <2>8, <3>1, DraftStep DEF InsertStarts, UpdateStartNodes
  <2> QED
    BY <2>5, <2>7, <2>8
<1> QED
  BY <1>1, <1>2, <1>4, <1>5, <1>6 DEF Insert

LEMMA DeleteTyped ==
  ASSUME Typed, NEW w \in Writers, Delete(w)
  PROVE  Typed'
<1> USE DEF Typed
<1>1. CASE DeleteBegin(w)
  <2>1. PICK node \in Named, start \in Starts \cup {NoStart} :
          /\ Goto(w, [pc |-> "tombstone", node |-> node, seen |-> manifest, start |-> start])
          /\ owed' = Without(owed, node)
    BY <1>1, RepairTyped DEF DeleteBegin
  <2>2. node \in Nodes
    BY DraftFacts DEF Named, PresentNodes
  <2>3. [pc |-> "tombstone", node |-> node, seen |-> manifest, start |-> start] \in RepairOps
    BY <2>2 DEF RepairOps, StorageTypeOK
  <2>4. op' \in [Writers -> Ops]
    BY <2>1, <2>3, GoTyped DEF Ops
  <2>5. owed' \in PartialFn(Nodes, Rows)
    BY <2>1, WithoutPartial
  <2> QED
    BY <1>1, <2>4, <2>5, StorageSame DEF DeleteBegin
<1>2. CASE DeleteTombstone(w)
  <2>1. op[w] \in RepairOps
    BY <1>2, Kinds DEF DeleteTombstone, At
  <2>2. op[w].node \in Nodes /\ [op[w] EXCEPT !.pc = "repair"] \in RepairOps
    BY <2>1 DEF RepairOps
  <2>3. op' \in [Writers -> Ops]
    BY <1>2, <2>2, GoTyped DEF Ops, DeleteTombstone
  <2>4. StorageTypeOK'
    BY <1>2, <2>2, TombstoneNodeTyped DEF DeleteTombstone
  <2> QED
    BY <1>2, <2>3, <2>4, DraftStep DEF DeleteTombstone, TombstoneNode
<1>3. CASE DeleteStarts(w)
  <2>1. op[w] \in RepairOps
    BY <1>3, Kinds DEF DeleteStarts, At
  <2>2. op[w].node \in Nodes /\ op[w].seen \in Manifest /\ op[w].start \in Starts \cup {NoStart}
    BY <2>1 DEF RepairOps
  <2>3. [pc |-> "freeze", node |-> op[w].node, seen |-> op[w].seen] \in DeleteOps
    BY <2>2 DEF DeleteOps
  <2>4. op' \in [Writers -> Ops]
    BY <1>3, <2>3, GoTyped DEF Ops, DeleteStarts
  <2>5. CASE UNCHANGED storageVars
    BY <1>3, <2>4, <2>5, StorageSame DEF DeleteStarts
  <2>6. CASE UpdateStartNodes(op[w].start)
    <3>1. StorageTypeOK'
      BY <2>2, <2>6 DEF UpdateStartNodes, StorageTypeOK, Draft
    <3> QED
      BY <1>3, <2>4, <2>6, <3>1, DraftStep DEF DeleteStarts, UpdateStartNodes
  <2> QED
    BY <1>3, <2>5, <2>6 DEF DeleteStarts
<1> QED
  BY <1>1, <1>2, <1>3 DEF Delete

LEMMA PublicationTyped ==
  ASSUME Typed, NEW w \in Writers, Freeze(w) \/ Publish(w) \/ Fail(w)
  PROVE  Typed'
<1> USE DEF Typed
<1>1. CASE Freeze(w)
  <2>1. op[w] \in InsertOps \cup DeleteOps
    BY <1>1, Kinds DEF Freeze, At
  <2>2. draft.start \in Starts \cup {NoStart} /\ DraftEpoch \in Nat /\ nextHotDelta \in Nat
    BY DraftParts, DraftEpochCovers, Counters
  <2>3. [op |-> op[w], pc |-> "publish", delta |-> nextHotDelta,
         epoch |-> DraftEpoch, start |-> draft.start] \in PublishOps
    BY <2>1, <2>2 DEF PublishOps
  <2>4. op' \in [Writers -> Ops]
    BY <1>1, <2>3, GoTyped DEF Ops, Freeze
  <2>5. StorageTypeOK'
    BY <1>1, FreezeTyped DEF Freeze
  <2>6. ManifestResolves'
    BY <1>1, FreezeKeeps DEF Freeze, PublishHotDelta, ManifestResolves, ValidReferences, Resolves
  <2> QED
    BY <1>1, <2>4, <2>5, <2>6 DEF Freeze
<1>2. CASE Publish(w)
  <2>1. op[w] \in PublishOps
    BY <1>2, Kinds DEF Publish, At
  <2>2. op[w].op \in InsertOps \cup DeleteOps
    BY <2>1 DEF PublishOps
  <2>3. op[w].op.seen \in Manifest /\ op[w].op.node \in Nodes
    BY <2>2 DEF InsertOps, DeleteOps
  <2>4. op[w].op.seen.version \in Nat
    BY <2>3 DEF Manifest
  <2>5. Successor(op[w]) \in Manifest
    BY <2>1, SuccessorTyped
  <2>6. StorageTypeOK'
    BY <1>2, <2>4, <2>5, CompareAndPublishTyped DEF Publish
  <2>7. ManifestResolves'
    <3> DEFINE next == Successor(op[w])
    <3>1. ValidReferences(next) /\ UNCHANGED <<segments, hotDeltas>>
          /\ manifest' = [next EXCEPT !.version = op[w].op.seen.version + 1]
      BY <1>2 DEF Publish, CompareAndPublish
    <3> HIDE DEF next
    <3>2. manifest'.segments = next.segments /\ manifest'.hotDelta = next.hotDelta
      BY <2>5, <3>1 DEF next, Manifest
    <3> QED
      BY <3>1, <3>2 DEF ManifestResolves, ValidReferences, Resolves
  <2>8. NoOp \in Ops
    BY DEF Ops
  <2>9. op' \in [Writers -> Ops]
    BY <1>2, <2>8, GoTyped DEF Publish
  <2>10. owed' \in PartialFn(Nodes, Rows) /\ gone' \subseteq Nodes
    <3>1. CASE op[w].op \in InsertOps
      <4>1. op[w].op.row \in Rows /\ owed' = With(owed, op[w].op.node, op[w].op.row) /\ gone' = gone
        BY <1>2, <3>1, Shapes DEF Publish, Acknowledge, InsertOps
      <4> QED
        BY <2>3, <4>1, WithPartial
    <3>2. CASE op[w].op \in DeleteOps
      BY <1>2, <2>3, <3>2, Shapes DEF Publish, Acknowledge
    <3> QED
      BY <2>2, <3>1, <3>2
  <2> QED
    BY <1>2, <2>6, <2>7, <2>9, <2>10 DEF Publish
<1>3. CASE Fail(w)
  <2>1. NoOp \in Ops
    BY DEF Ops
  <2>2. op' \in [Writers -> Ops]
    BY <1>3, <2>1, GoTyped DEF Fail
  <2> QED
    BY <1>3, <2>2, StorageSame DEF Fail
<1> QED
  BY <1>1, <1>2, <1>3

LEMMA BuildTyped ==
  ASSUME Typed, NEW w \in Writers, BulkBuild(w)
  PROVE  Typed'
<1> USE DEF Typed
<1>1. ASSUME NEW n \in 0 .. MaxBuiltRows, NEW rows \in [1 .. n -> Rows], BulkStore(w, rows)
      PROVE  Typed'
  <2> DEFINE T == PartialFn(Nodes, Record)
             o == [pc |-> "load", rows |-> rows,
                   segments |-> IF rows = <<>> THEN <<>> ELSE <<Len(segments) + 1>>]
  <2>1. rows \in BuiltRows
    BY DEF BuiltRows
  <2>2. PICK nodes \in T : UNCHANGED storageVars \/ InsertImmutableSegment(nodes)
    BY <1>1, <2>1, BuiltSegment
  <2>3. segments \in Seq(T)
    BY DEF StorageTypeOK
  <2> HIDE DEF T
  <2>4. o \in LoadOps
    BY <2>1, <2>3 DEF LoadOps
  <2>5. op' \in [Writers -> Ops]
    <3>1. Goto(w, o) /\ o \in Ops
      BY <1>1, <2>4 DEF BulkStore, Ops
    <3> HIDE DEF o
    <3> QED
      BY <3>1, GoTyped
  <2>6. CASE UNCHANGED storageVars
    BY <1>1, <2>5, <2>6, StorageSame DEF BulkStore
  <2>7. CASE InsertImmutableSegment(nodes)
    <3>1. segments' = Append(segments, nodes)
          /\ UNCHANGED <<manifest, hotDeltas, nextHotDelta, draft, nextEpoch, pins>>
      BY <2>7 DEF InsertImmutableSegment
    <3>2. segments' \in Seq(T) /\ DOMAIN segments \subseteq DOMAIN segments'
      BY <2>3, <3>1
    <3>3. StorageTypeOK'
      BY <3>1, <3>2 DEF StorageTypeOK, T
    <3>4. ManifestResolves'
      BY <3>1, <3>2 DEF ManifestResolves, ValidReferences, Resolves
    <3> QED
      BY <1>1, <2>5, <3>3, <3>4 DEF BulkStore
  <2> QED
    BY <2>2, <2>6, <2>7
<1>2. CASE BulkLoad(w)
  <2>1. op[w] \in LoadOps
    BY <1>2, Kinds DEF BulkLoad, At
  <2>2. [op |-> op[w], pc |-> "swap", seen |-> manifest] \in SwapOps
    BY <2>1 DEF SwapOps, StorageTypeOK
  <2>3. op' \in [Writers -> Ops]
    BY <1>2, <2>2, GoTyped DEF BulkLoad, Ops
  <2> QED
    BY <1>2, <2>3, StorageSame DEF BulkLoad
<1>3. CASE BulkSwap(w)
  <2> DEFINE built == op[w].op
             next == [op[w].seen EXCEPT !.segments = built.segments, !.hotDelta = 0, !.epoch = 0,
                        !.start = BulkStarts(built.rows), !.maxId = Len(built.rows)]
  <2>1. op[w] \in SwapOps
    BY <1>3, Kinds DEF BulkSwap, At
  <2>2. built.rows \in BuiltRows /\ built.segments \in Seq(Nat) /\ op[w].seen \in Manifest
    BY <2>1 DEF SwapOps, LoadOps
  <2>3. /\ CompareAndPublish(op[w].seen.version, next)
        /\ Goto(w, [pc |-> "reset", last |-> Len(built.rows)])
        /\ owed' = built.rows /\ gone' = {} /\ nextId' = nextId
    BY <1>3 DEF BulkSwap
  <2> HIDE DEF built
  <2>4. /\ BulkStarts(built.rows) \in Starts /\ Len(built.rows) \in Nat
        /\ built.rows \in PartialFn(Nodes, Rows)
    BY <2>2, BulkStartsTyped
  <2>5. op[w].seen.version \in Nat /\ next \in Manifest
    BY <2>2, <2>4 DEF Manifest
  <2>6. op' \in [Writers -> Ops]
    <3>1. [pc |-> "reset", last |-> Len(built.rows)] \in ResetOps
      BY <2>4 DEF ResetOps
    <3> QED
      BY <2>3, <3>1, GoTyped DEF Ops
  <2> HIDE DEF next
  <2>7. StorageTypeOK'
    BY <2>3, <2>5, CompareAndPublishTyped
  <2>8. ManifestResolves'
    <3>1. manifest'.segments = next.segments /\ manifest'.hotDelta = next.hotDelta
      BY <2>3, <2>5 DEF CompareAndPublish, Manifest
    <3> QED
      BY <2>3, <3>1 DEF CompareAndPublish, ManifestResolves, ValidReferences, Resolves
  <2> QED
    BY <2>3, <2>4, <2>6, <2>7, <2>8
<1>4. CASE BulkReset(w)
  <2>1. op[w] \in ResetOps
    BY <1>4, Kinds DEF BulkReset, At
  <2>2. op[w].last \in Nat
    BY <2>1 DEF ResetOps
  <2>3. NoOp \in Ops
    BY DEF Ops
  <2>4. op' \in [Writers -> Ops]
    BY <1>4, <2>3, GoTyped DEF BulkReset
  <2> QED
    BY <1>4, <2>2, <2>4, StorageSame DEF BulkReset
<1> QED
  BY <1>1, <1>2, <1>3, <1>4 DEF BulkBuild

\* Every step keeps the types, whatever the constants and the writers.
LEMMA StepKeepsTypes == Typed /\ [Next]_vars => Typed'
<1> SUFFICES ASSUME Typed, [Next]_vars PROVE Typed'
  OBVIOUS
<1>1. ASSUME NEW w \in Writers, Mutate(w)
      PROVE  Typed'
  BY <1>1, InsertTyped, DeleteTyped, BuildTyped, PublicationTyped DEF Mutate
<1>2. ASSUME NEW r \in Readers, LoadSnapshot(r), UNCHANGED indexVars
      PROVE  Typed'
  BY <1>2 DEF LoadSnapshot, indexVars, Typed, StorageTypeOK, ManifestResolves, ValidReferences, Resolves
<1>3. CASE Reopen
  BY <1>3, StorageSame, Counters DEF Reopen, Typed
<1>4. CASE UNCHANGED vars
  BY <1>4, StorageSame DEF vars, indexVars, Typed
<1> QED
  BY <1>1, <1>2, <1>3, <1>4 DEF Next, Running

\* Every step is one the storage knows how to keep its own invariant under.
LEMMA StepKeepsStorage == Typed /\ StorageInv /\ [Next]_vars => StorageInv'
<1> SUFFICES ASSUME Typed, StorageInv, [Next]_vars PROVE StorageInv'
  OBVIOUS
<1>1. StorageTypeOK'
  BY StepKeepsTypes DEF Typed
<1>2. CASE UNCHANGED <<manifest, segments, hotDeltas, nextHotDelta, pins>>
  BY <1>1, <1>2, QuietStep
<1>3. ASSUME NEW w \in Writers, Insert(w) \/ Delete(w)
      PROVE  UNCHANGED <<manifest, segments, hotDeltas, nextHotDelta, pins>>
  BY <1>3 DEF Insert, Delete, InsertBegin, InsertPlan, InsertAppend, InsertLink, InsertStarts,
     DeleteBegin, DeleteTombstone, DeleteStarts, AppendNode, RewriteNeighbors, TombstoneNode,
     UpdateStartNodes, storageVars
<1>4. ASSUME NEW w \in Writers, Freeze(w)
      PROVE  StorageInv'
  BY <1>1, <1>4, FreezeInv DEF Freeze
<1>5. ASSUME NEW w \in Writers, Publish(w)
      PROVE  StorageInv'
  <2>1. op[w] \in PublishOps
    BY <1>5, Kinds DEF Publish, At, Typed
  <2>2. op[w].op.seen.version \in Nat
    BY <2>1 DEF PublishOps, InsertOps, DeleteOps, Manifest
  <2>3. Successor(op[w]) \in Manifest
    BY <2>1, SuccessorTyped DEF Typed
  <2> QED
    BY <1>1, <1>5, <2>2, <2>3, CompareAndPublishInv DEF Publish
<1>6. ASSUME NEW w \in Writers, BulkBuild(w)
      PROVE  StorageInv'
  <2>1. ASSUME NEW n \in 0 .. MaxBuiltRows, NEW rows \in [1 .. n -> Rows], BulkStore(w, rows)
        PROVE  StorageInv'
    <3>1. rows \in BuiltRows
      BY DEF BuiltRows
    <3>2. PICK nodes \in PartialFn(Nodes, Record) :
            UNCHANGED storageVars \/ InsertImmutableSegment(nodes)
      BY <2>1, <3>1, BuiltSegment
    <3> QED
      BY <1>1, <1>2, <3>2, SegmentInv DEF storageVars
  <2>2. CASE BulkSwap(w)
    <3> DEFINE built == op[w].op
               next == [op[w].seen EXCEPT !.segments = built.segments, !.hotDelta = 0, !.epoch = 0,
                          !.start = BulkStarts(built.rows), !.maxId = Len(built.rows)]
    <3>1. op[w] \in SwapOps
      BY <2>2, Kinds DEF BulkSwap, At, Typed
    <3>2. built.rows \in BuiltRows /\ built.segments \in Seq(Nat) /\ op[w].seen \in Manifest
      BY <3>1 DEF SwapOps, LoadOps
    <3>3. CompareAndPublish(op[w].seen.version, next)
      BY <2>2 DEF BulkSwap
    <3> HIDE DEF built
    <3>4. op[w].seen.version \in Nat /\ next \in Manifest
      BY <3>2, BulkStartsTyped DEF Manifest
    <3> HIDE DEF next
    <3> QED
      BY <1>1, <3>3, <3>4, CompareAndPublishInv
  <2>3. CASE BulkLoad(w) \/ BulkReset(w)
    BY <1>2, <2>3 DEF BulkLoad, BulkReset, storageVars
  <2> QED
    BY <1>6, <2>1, <2>2, <2>3 DEF BulkBuild
<1>7. ASSUME NEW w \in Writers, Fail(w)
      PROVE  StorageInv'
  BY <1>2, <1>7 DEF Fail, storageVars
<1>8. ASSUME NEW r \in Readers, LoadSnapshot(r)
      PROVE  StorageInv'
  BY <1>1, <1>8, LoadSnapshotInv
<1>9. CASE Reopen \/ UNCHANGED vars
  BY <1>2, <1>9 DEF Reopen, vars, storageVars
<1> QED
  BY <1>2, <1>3, <1>4, <1>5, <1>6, <1>7, <1>8, <1>9 DEF Next, Running, Mutate

\* Both hold initially.
LEMMA InitTypes == Init => Typed /\ StorageInv
BY InitKeeps, InitInv DEF Init, Inv

\* The index keeps its types and those of its storage, however many writers
\* run, fail and reopen it.
THEOREM IndexTypeCorrect == Spec => []TypeOK
<1>1. Typed => TypeOK
  BY Stages DEF Typed, TypeOK, Ops
<1> QED
  BY <1>1, InitTypes, StepKeepsTypes, PTL DEF Spec

\* What the storage promises any client, it promises the index: the manifest
\* resolves, and only a superseded snapshot can have expired.
THEOREM IndexKeepsStorage == Spec => [](ManifestResolves /\ ExpiredOnlyIfSuperseded)
<1> DEFINE Both == Typed /\ StorageInv
<1>1. Init => Both
  BY InitTypes
<1>2. Both /\ [Next]_vars => Both'
  BY StepKeepsTypes, StepKeepsStorage
<1>3. Both => ManifestResolves /\ ExpiredOnlyIfSuperseded
  <2> SUFFICES ASSUME StorageInv PROVE ManifestResolves /\ ExpiredOnlyIfSuperseded
    OBVIOUS
  <2>1. ASSUME NEW r \in Readers, ~Resolves(pins[r])
        PROVE  pins[r].version < manifest.version
    BY <2>1 DEF StorageInv, StorageTypeOK, Manifest, PinnedManifest, ManifestResolves,
                ValidReferences, Resolves
  <2> QED
    BY <2>1 DEF StorageInv, ExpiredOnlyIfSuperseded
<1> HIDE DEF Both
<1> QED
  BY <1>1, <1>2, <1>3, PTL DEF Spec

==============================================================================
