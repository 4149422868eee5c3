----------------------------- MODULE OnlineIndex -----------------------------
(***************************************************************************)
(* StreamingDiskAnnIndex over MemoryStorage: online insert and delete, the *)
(* bulk build, and reopening the index.  The index takes no lock of its    *)
(* own around a mutation, so each storage call is a step, and between two  *)
(* calls of one writer others may run.  A writer plans against the         *)
(* snapshot it loaded, stages into the one shared draft, freezes the draft *)
(* and swaps the manifest; any call may fail, and what was staged stays.   *)
(*                                                                         *)
(* Distances are abstracted to choice: a search of k results returns any k *)
(* of the rows it can reach, and pruning to k keeps any k candidates.      *)
(***************************************************************************)
EXTENDS MemoryStorage, FiniteSetsExt

CONSTANTS
  Writers,         \* threads that mutate the index
  Labels,          \* labels rows carry
  LabelsOf,        \* LabelsOf[row]: the labels of a row
  MaxVisited,      \* QueryBudget::max_visited of the start-node repair
  StorageMayFail,  \* whether storage calls return errors
  MaxBulkBuilds,   \* bound: bulk builds start below this manifest version
  MaxBuiltRows,    \* bound on the rows of a bulk build
  BuildAnytime     \* whether clients bulk build over staged online mutations

\* StartNodes: the default node (EMPTY_START_NODE if none) and one per label.
EmptyStart == 0
StartMaps == [default : Nodes \cup {EmptyStart}, labeled : PartialFn(Labels, Nodes)]

ASSUME IndexAssumption ==
  /\ IsFiniteSet(Nodes) /\ Nodes = 1 .. Cardinality(Nodes)
  /\ Starts = StartMaps
  /\ LabelsOf \in [Rows -> SUBSET Labels]
  /\ MaxVisited \in Nat \ {0}
  /\ StorageMayFail \in BOOLEAN
  /\ MaxBulkBuilds \in Nat
  /\ MaxBuiltRows \in 0 .. Cardinality(Nodes)
  /\ BuildAnytime \in BOOLEAN

VARIABLES
  nextId,   \* next_node_id, the node id allocator
  op,       \* op[w]: the mutation writer w is executing, and how far it got
  owed,     \* history: rows of acknowledged inserts nobody asked to delete
  gone      \* history: node ids whose delete was acknowledged

indexVars == <<nextId, op, owed, gone>>
vars == <<storageVars, indexVars>>

NoOp == [pc |-> "idle"]
At(w, pc) == op[w].pc = pc
Goto(w, state) == op' = [op EXCEPT ![w] = state]

------------------------------------------------------------------------------
(* Traversal of a snapshot *)

IsPresent(s, n) == ReadNode(s, n).kind = "present"
PresentNodes(s) == {n \in Nodes : IsPresent(s, n)}
LinksOf(s, n) == IF IsPresent(s, n) THEN ReadNode(s, n).links ELSE {}
LabelsIn(s, n) == LabelsOf[ReadNode(s, n).row]

\* Every id a walk from the given ids queues, present or not: the least set
\* that holds them and the links of its members.
Queued(s, from) ==
  LET ids == Nodes \cup {EmptyStart}
      closed == {S \in SUBSET ids : from \subseteq S /\ \A n \in S : LinksOf(s, n) \subseteq S}
  IN  {n \in ids : \A S \in closed : n \in S}

Found(s, from) == Queued(s, from) \cap PresentNodes(s)

\* start_node_ids: labeled entries first, and always the default node.
SearchStarts(s, labels) ==
  {s.start.default} \cup {s.start.labeled[l] : l \in labels \cap DOMAIN s.start.labeled}

StartIds(s) == SearchStarts(s, Labels)

\* The k best of a set of candidates, for some choice of distances.
Best(k, candidates) ==
  IF Cardinality(candidates) <= k THEN {candidates} ELSE kSubset(k, candidates)

\* find_insert_neighbors: an unfiltered search, and one filtered by the row's
\* labels if it has any.
NeighborCandidates(s, row) ==
  LET labels == LabelsOf[row]
  IN  Found(s, {s.start.default})
        \cup {n \in Found(s, SearchStarts(s, labels)) :
                labels # {} /\ LabelsIn(s, n) \cap labels # {}}

\* start_nodes_after_insert: a missing default starts the map afresh.
StartsAfterInsert(s, node, row) ==
  LET base == IF IsPresent(s, s.start.default) THEN s.start
              ELSE [default |-> node, labeled |-> EmptyFn]
  IN  [base EXCEPT !.labeled =
         [l \in DOMAIN @ \cup LabelsOf[row] |-> IF l \in DOMAIN @ THEN @[l] ELSE node]]

\* collect_reachable_records: the ids the breadth-first walk visits before
\* max_visited stops it; the default comes first, then the other starts.
Visits(s) ==
  LET all == Queued(s, StartIds(s))
  IN  IF Cardinality(all) <= MaxVisited THEN {all}
      ELSE {visited \in kSubset(MaxVisited, all) :
              /\ s.start.default \in visited
              /\ visited \subseteq StartIds(s) \/ StartIds(s) \subseteq visited
              /\ \A n \in visited \ StartIds(s) : \E m \in visited : n \in LinksOf(s, m)}

\* Which of the nodes the walk reaches first.
Earliest(s, nodes) ==
  IF s.start.default \in nodes THEN {s.start.default}
  ELSE IF nodes \cap StartIds(s) # {} THEN nodes \cap StartIds(s)
  ELSE nodes

\* Mutants of RepairedStarts: the deleted node may be elected; a truncated
\* walk drops the labels it did not meet.
RepairedStartsWithDeleted(s, node, visited) ==
  LET live == visited \cap PresentNodes(s)
      carriers(l) == {n \in live : l \in LabelsIn(s, n)}
  IN  {start \in StartMaps :
         /\ start.default \in Earliest(s, live)
         /\ DOMAIN start.labeled = {l \in Labels : carriers(l) # {}}
         /\ \A l \in DOMAIN start.labeled : start.labeled[l] \in Earliest(s, carriers(l))}
RepairedStartsNoneHeldOver(s, node, visited) ==
  LET live == (visited \cap PresentNodes(s)) \ {node}
      carriers(l) == {n \in live : l \in LabelsIn(s, n)}
  IN  {start \in StartMaps :
         /\ start.default \in IF live = {} THEN {EmptyStart} ELSE Earliest(s, live)
         /\ DOMAIN start.labeled = {l \in Labels : carriers(l) # {}}
         /\ \A l \in DOMAIN start.labeled : start.labeled[l] \in Earliest(s, carriers(l))}

\* repair_start_nodes_after_delete, for a start node: the live records of one
\* walk elect the entries; if the walk was cut short, a label it did not meet
\* keeps an entry that still points at a live node.
RepairedStarts(s, node, visited) ==
  LET live == (visited \cap PresentNodes(s)) \ {node}
      carriers(l) == {n \in live : l \in LabelsIn(s, n)}
      carried == {l \in Labels : carriers(l) # {}}
      heldOver == {l \in DOMAIN s.start.labeled \ carried :
                     /\ visited # Queued(s, StartIds(s))
                     /\ s.start.labeled[l] \in PresentNodes(s) \ {node}}
  IN  {start \in StartMaps :
         /\ start.default \in IF live = {} THEN {EmptyStart} ELSE Earliest(s, live)
         /\ DOMAIN start.labeled = carried \cup heldOver
         /\ \A l \in carried : start.labeled[l] \in Earliest(s, carriers(l))
         /\ \A l \in heldOver : start.labeled[l] = s.start.labeled[l]}

------------------------------------------------------------------------------
(* Insert *)

\* allocate_node_id.  The mutation log is written next; a failure there
\* is a failure at pc "plan".
InsertBegin(w, row) ==
  /\ At(w, "idle")
  /\ nextId \in Nodes
  /\ nextId' = nextId + 1
  /\ Goto(w, [pc |-> "plan", node |-> nextId, row |-> row])
  /\ UNCHANGED <<storageVars, owed, gone>>

\* Load the snapshot and search it for neighbors: a snapshot's view does not
\* change while it resolves, so the reads are taken where it is loaded.
InsertPlan(w) ==
  /\ At(w, "plan")
  /\ \E links \in Best(MaxNeighbors, NeighborCandidates(manifest, op[w].row)) :
       Goto(w, [pc |-> "append", node |-> op[w].node, row |-> op[w].row,
                seen |-> manifest, todo |-> links])
  /\ UNCHANGED <<storageVars, nextId, owed, gone>>

\* record.validate is AppendNode's own guard.
InsertAppend(w) ==
  /\ At(w, "append")
  /\ AppendNode(op[w].node, [row |-> op[w].row, links |-> op[w].todo])
  /\ Goto(w, [op[w] EXCEPT !.pc = "link"])
  /\ UNCHANGED <<nextId, owed, gone>>

\* rewrite_backpointer: prune the neighbor's links plus the new node, all as
\* the snapshot has them, and stage the result.
InsertLink(w) ==
  /\ At(w, "link")
  /\ Resolves(op[w].seen)
  /\ \E n \in op[w].todo :
       LET seen == op[w].seen
           candidates == ((LinksOf(seen, n) \cap PresentNodes(seen)) \cup {op[w].node}) \ {n}
       IN  /\ IF IsPresent(seen, n)
              THEN \E links \in Best(MaxNeighbors, candidates) : RewriteNeighbors(n, links)
              ELSE UNCHANGED storageVars
           /\ Goto(w, [op[w] EXCEPT !.todo = @ \ {n}])
  /\ UNCHANGED <<nextId, owed, gone>>

\* Stage the start nodes if they change, and make sure the allocator is past
\* the new id (it is behind it after a bulk build).
InsertStarts(w) ==
  /\ At(w, "link") /\ op[w].todo = {}
  /\ Resolves(op[w].seen)
  /\ LET start == StartsAfterInsert(op[w].seen, op[w].node, op[w].row)
     IN  IF start = op[w].seen.start THEN UNCHANGED storageVars ELSE UpdateStartNodes(start)
  /\ nextId' = IF nextId <= op[w].node THEN op[w].node + 1 ELSE nextId
  /\ Goto(w, [pc |-> "freeze", node |-> op[w].node, row |-> op[w].row, seen |-> op[w].seen])
  /\ UNCHANGED <<owed, gone>>

------------------------------------------------------------------------------
(* Delete *)

\* The ids a client can name: those acknowledged to it, and those it can see.
Named == DOMAIN owed \cup gone \cup PresentNodes(manifest)

\* Load the snapshot and, for a start node, plan the repair of the map.  From
\* here on the row is no longer owed to the clients.
DeleteBegin(w) ==
  /\ At(w, "idle")
  /\ \E node \in Named :
       /\ \E start \in IF node \in StartIds(manifest)
                     THEN UNION {RepairedStarts(manifest, node, visited) :
                                   visited \in Visits(manifest)}
                     ELSE {NoStart} :
            Goto(w, [pc |-> "tombstone", node |-> node, seen |-> manifest, start |-> start])
       /\ owed' = Without(owed, node)
  /\ UNCHANGED <<storageVars, nextId, gone>>

DeleteTombstone(w) ==
  /\ At(w, "tombstone")
  /\ TombstoneNode(op[w].node)
  /\ Goto(w, [op[w] EXCEPT !.pc = "repair"])
  /\ UNCHANGED <<nextId, owed, gone>>

DeleteStarts(w) ==
  /\ At(w, "repair")
  /\ IF op[w].start = NoStart THEN UNCHANGED storageVars ELSE UpdateStartNodes(op[w].start)
  /\ Goto(w, [pc |-> "freeze", node |-> op[w].node, seen |-> op[w].seen])
  /\ UNCHANGED <<nextId, owed, gone>>

------------------------------------------------------------------------------
(* publish_hot_delta_over: freeze the draft, then swap the manifest *)

Freeze(w) ==
  /\ At(w, "freeze")
  /\ PublishHotDelta
  /\ Goto(w, [op |-> op[w], pc |-> "publish", delta |-> nextHotDelta,
              epoch |-> DraftEpoch, start |-> draft.start])
  /\ UNCHANGED <<nextId, owed, gone>>

Larger(a, b) == IF a < b THEN b ELSE a

\* Mutant of Successor: the staged epoch is left out.
SuccessorOldEpoch(done) ==
  LET seen == done.op.seen
  IN  [seen EXCEPT !.hotDelta = done.delta,
                   !.start = IF done.start = NoStart THEN @ ELSE done.start,
                   !.maxId = Larger(@, nextId - 1)]

Successor(done) ==
  LET seen == done.op.seen
  IN  [seen EXCEPT !.hotDelta = done.delta,
                   !.epoch = Larger(@, done.epoch),
                   !.start = IF done.start = NoStart THEN @ ELSE done.start,
                   !.maxId = Larger(@, nextId - 1)]

\* A mutation that names a row is an insert, any other is a delete.
Acknowledge(mutation) ==
  IF "row" \in DOMAIN mutation
  THEN owed' = With(owed, mutation.node, mutation.row) /\ UNCHANGED gone
  ELSE gone' = gone \cup {mutation.node} /\ UNCHANGED owed

Publish(w) ==
  /\ At(w, "publish")
  /\ CompareAndPublish(op[w].op.seen.version, Successor(op[w]))
  /\ Acknowledge(op[w].op)
  /\ Goto(w, NoOp)
  /\ UNCHANGED nextId

------------------------------------------------------------------------------
(* Errors *)

\* What the storage or the index refuses: a swap that lost the race or names
\* a collected delta, a read through a collected snapshot, a record that
\* would link to itself (its id was visible already).
Refused(w) ==
  \/ At(w, "publish") /\ \/ manifest.version # op[w].op.seen.version
                         \/ ~ValidReferences(Successor(op[w]))
  \/ At(w, "swap") /\ manifest.version # op[w].seen.version
  \/ At(w, "link") /\ ~Resolves(op[w].seen)
  \/ At(w, "append") /\ op[w].node \in op[w].todo

\* The mutation returns an error; what it staged stays in the draft.
Fail(w) ==
  /\ \/ Refused(w)
     \/ StorageMayFail /\ op[w].pc \notin {"idle", "reset"}
  /\ Goto(w, NoOp)
  /\ UNCHANGED <<storageVars, nextId, owed, gone>>

------------------------------------------------------------------------------
(* Bulk build and reopen *)

\* Ids are assigned 1 .. n in input order; assign_bulk_neighbors gives every
\* node an edge to the next one (the last: to the one before), none to itself.
BulkGraphs(rows) ==
  LET last == Cardinality(DOMAIN rows)
      chain(n) == IF n < last THEN n + 1 ELSE n - 1
  IN  {graph \in [DOMAIN rows -> SUBSET DOMAIN rows] :
         \A n \in DOMAIN rows : n \notin graph[n] /\ (last > 1 => chain(n) \in graph[n])}

\* start_nodes_for_records: the first row, and the first row with each label.
BulkStarts(rows) ==
  LET carriers(l) == {n \in DOMAIN rows : l \in LabelsOf[rows[n]]}
      first(nodes) == CHOOSE n \in nodes : \A m \in nodes : n <= m
  IN  [default |-> IF DOMAIN rows = {} THEN EmptyStart ELSE 1,
       labeled |-> [l \in {k \in Labels : carriers(k) # {}} |-> first(carriers(l))]]

\* Store the segment (none for an empty input): nothing refers to it yet.
BulkStore(w, rows) ==
  /\ At(w, "idle")
  /\ manifest.version < MaxBulkBuilds
  /\ IF rows = <<>> THEN UNCHANGED storageVars
     ELSE \E graph \in BulkGraphs(rows) :
            InsertImmutableSegment([n \in DOMAIN rows |-> [row |-> rows[n], links |-> graph[n]]])
  /\ Goto(w, [pc |-> "load", rows |-> rows,
              segments |-> IF rows = <<>> THEN <<>> ELSE <<Len(segments) + 1>>])
  /\ UNCHANGED <<nextId, owed, gone>>

BulkLoad(w) ==
  /\ At(w, "load")
  /\ Goto(w, [op |-> op[w], pc |-> "swap", seen |-> manifest])
  /\ UNCHANGED <<storageVars, nextId, owed, gone>>

\* The replacement drops segments, hot delta and epoch, and restarts the id
\* space.  The draft is not touched.
BulkSwap(w) ==
  /\ At(w, "swap")
  /\ LET built == op[w].op
     IN  /\ CompareAndPublish(op[w].seen.version,
              [op[w].seen EXCEPT !.segments = built.segments, !.hotDelta = 0, !.epoch = 0,
                                 !.start = BulkStarts(built.rows), !.maxId = Len(built.rows)])
         /\ Goto(w, [pc |-> "reset", last |-> Len(built.rows)])
         /\ owed' = built.rows
  /\ gone' = {}
  /\ UNCHANGED nextId

\* Mutant of BulkReset: the allocator hands out the last built id again.
BulkResetToLast(w) ==
  /\ At(w, "reset")
  /\ nextId' = Larger(op[w].last, 1)
  /\ Goto(w, NoOp)
  /\ UNCHANGED <<storageVars, owed, gone>>

BulkReset(w) ==
  /\ At(w, "reset")
  /\ nextId' = op[w].last + 1
  /\ Goto(w, NoOp)
  /\ UNCHANGED <<storageVars, owed, gone>>

\* from_storage over storage an earlier index left: the allocator resumes at
\* the high-water mark (maxId is 0 for a manifest that records none).
Reopen ==
  /\ \A w \in Writers : At(w, "idle")
  /\ nextId' = manifest.maxId + 1
  /\ UNCHANGED <<storageVars, op, owed, gone>>

------------------------------------------------------------------------------
(* Specifications *)

Init ==
  /\ StorageInit
  /\ manifest.start = [default |-> EmptyStart, labeled |-> EmptyFn]
  /\ nextId = 1
  /\ op = [w \in Writers |-> NoOp]
  /\ owed = EmptyFn
  /\ gone = {}

Insert(w) ==
  \/ \E row \in Rows : InsertBegin(w, row)
  \/ InsertPlan(w) \/ InsertAppend(w) \/ InsertLink(w) \/ InsertStarts(w)

Delete(w) ==
  \/ DeleteBegin(w) \/ DeleteTombstone(w) \/ DeleteStarts(w)

NothingStaged ==
  /\ draft.records = EmptyFn /\ draft.rewrites = EmptyFn
  /\ draft.tombstones = EmptyFn /\ draft.start = NoStart

BulkBuild(w) ==
  \/ /\ BuildAnytime \/ NothingStaged
     /\ \E n \in 0 .. MaxBuiltRows : \E rows \in [1 .. n -> Rows] : BulkStore(w, rows)
  \/ BulkLoad(w) \/ BulkSwap(w) \/ BulkReset(w)

Mutate(w) ==
  \/ Insert(w) \/ Delete(w) \/ BulkBuild(w)
  \/ Freeze(w) \/ Publish(w) \/ Fail(w)

Running ==
  \/ \E w \in Writers : Mutate(w)
  \/ \E r \in Readers : LoadSnapshot(r) /\ UNCHANGED indexVars

Next == Running \/ Reopen

Spec == Init /\ [][Next]_vars

\* One index over the storage for its whole life.
OneIndexSpec == Init /\ [][Running]_vars

------------------------------------------------------------------------------
(* Properties *)

TypeOK ==
  /\ StorageTypeOK
  /\ nextId \in Nat \ {0}
  /\ \A w \in Writers :
       op[w].pc \in {"idle", "plan", "append", "link", "tombstone", "repair",
                     "freeze", "publish", "load", "swap", "reset"}
  /\ owed \in PartialFn(Nodes, Rows)
  /\ gone \subseteq Nodes

\* A row whose insert was acknowledged is visible, as inserted, in every
\* manifest from then on, until someone asks to delete it: whatever else is
\* interleaved, whichever mutations fail half way.
OwedRowsVisible ==
  \A n \in DOMAIN owed : IsPresent(manifest, n) /\ ReadNode(manifest, n).row = owed[n]

\* A row whose delete was acknowledged never comes back.
DeletedRowsStayGone == gone \cap PresentNodes(manifest) = {}

\* The manifest's high-water mark covers every id a client ever saw and stays
\* below the allocator (but for the moment in which a bulk build resets it),
\* so no id is handed out twice, even after a reopen.
NamedIdsNeverReused ==
  /\ \A n \in Named : n <= manifest.maxId
  /\ (\A w \in Writers : ~At(w, "reset")) => manifest.maxId < nextId

\* With no mutation running, the manifest shows exactly the rows acknowledged
\* and not deleted (one writer, no failing storage).
QuietManifestExact ==
  (\A w \in Writers : At(w, "idle")) => PresentNodes(manifest) = DOMAIN owed

\* Every start node of the manifest is a live node that carries the label it
\* stands for, and labels have entries only when there is a default.
StartNodesLive ==
  /\ \A l \in DOMAIN manifest.start.labeled :
       LET n == manifest.start.labeled[l]
       IN  IsPresent(manifest, n) /\ l \in LabelsIn(manifest, n)
  /\ manifest.start.default # EmptyStart => IsPresent(manifest, manifest.start.default)
  /\ manifest.start.default = EmptyStart => manifest.start.labeled = EmptyFn

\* No publish drops a label's start entry while the node it names lives on,
\* even when the repair walk was cut short.
LiveLabelsKeepStarts ==
  [][\A l \in DOMAIN manifest.start.labeled :
       manifest.start.labeled[l] \in PresentNodes(manifest)' =>
         l \in DOMAIN manifest'.start.labeled]_vars

\* No mutation of a lone caller is refused: its publish loses no race, neither
\* its snapshot nor its delta is collected under it, its id is its own.
NothingRefused == \A w \in Writers : ~Refused(w)

\* Between mutations, a snapshot at most one publish old can be read.
QuietSnapshotsResolve ==
  (\A w \in Writers : At(w, "idle")) =>
    \A r \in Readers : manifest.version <= pins[r].version + 1 => Resolves(pins[r])

\* The documented effect of a bulk build: it replaces the visible graph, so
\* a row is only visible if it was built or inserted since.
BulkBuildReplacesGraph ==
  (\A w \in Writers : At(w, "idle")) => PresentNodes(manifest) \subseteq DOMAIN owed

==============================================================================
