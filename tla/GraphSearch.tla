----------------------------- MODULE GraphSearch -----------------------------
(***************************************************************************)
(* search_with_snapshot over bulk-built graphs: concurrent searches, each  *)
(* on a published snapshot, that read routing records through the shared   *)
(* record cache and take their quantizer from the shared one-entry cache,  *)
(* while rebuilds and deletes publish new snapshots.                       *)
(*                                                                         *)
(* A search walks best first: the queue holds nodes whose records are      *)
(* parked until they are visited; what is visited is a candidate.  Its     *)
(* memory is accounted in the sizes of records, RecordSize, and one unit   *)
(* for every other entry.                                                  *)
(***************************************************************************)
EXTENDS VamanaGraph, RecordCache

CONSTANTS
  Configs,         \* index configurations
  Inputs,          \* what a bulk build is given: sequences of rows
  Searched,        \* bound: the inputs whose graphs are searched and replaced
  Searches,        \* the searches asked for, a set of [query, filter, size, batch]:
                   \* filter <<>> for none, search_list_size, max_read_batch
  Limit,           \* SearchOptions::limit
  Budget,          \* [visited, candidates, rescore, bytes]
  MaxVersion       \* bound on the snapshots published

ASSUME SearchAssumption ==
  /\ Searched \subseteq Inputs
  /\ Inputs \subseteq Seq([point : Seq(Int), labels : Seq(Int)])
  /\ Limit \in Nat \ {0}
  /\ \A s \in Searches : s.size \in Nat /\ s.size >= Limit /\ s.batch \in Nat \ {0}
  /\ \A field \in DOMAIN Budget : Budget[field] \in Nat \ {0}
  /\ MaxVersion \in Nat

VARIABLES
  config,         \* the configuration of the index
  quantizers,     \* QuantizerStore: the model each reference stands for
  quantizerCache, \* the one reference whose model is cached, and the model
  search          \* search[r]: the search reader r executes, and how far it got

searchVars == <<config, quantizers, quantizerCache, search>>
vars == <<cacheVars, searchVars>>

NoSearch == [pc |-> "idle"]
NoModel == [reference |-> 0, model |-> Untrained]
Tombstone == [tombstoned |-> TRUE]
Present(read) == read # Tombstone

------------------------------------------------------------------------------
(* Publishing *)

\* build_routing_vectors stores a quantizer, but not a trained one for no rows.
NeedsModel(rows) == config.sbq /\ (~config.useMean \/ rows # <<>>)

\* What the builds of the instance give, and the quantizers they store.
Built == [c \in Configs |-> [rows \in Inputs |-> BuiltRecords(c, rows)]]
Models == [c \in Configs |-> [rows \in Inputs |-> Model(c, rows)]]

PublishBuild(rows) ==
  /\ Len(published) < MaxVersion
  /\ LET version == Len(published) + 1
         reference == Len(quantizers) + 1
     IN  /\ Publish([version |-> version, segments |-> <<version>>, hotDelta |-> 0, epoch |-> 0,
                     quantizers |-> IF NeedsModel(rows) THEN <<reference>> ELSE <<>>,
                     rows |-> rows, starts |-> StartsOf(rows),
                     nodes |-> Built[config][rows]])
         /\ quantizers' = IF NeedsModel(rows) THEN Append(quantizers, Models[config][rows])
                          ELSE quantizers
  /\ UNCHANGED <<config, quantizerCache, search>>

\* A delete, of a node that is no start node: the same segment under a delta.
PublishDelete(n) ==
  /\ Len(published) \in 1 .. MaxVersion - 1
  /\ LET last == published[Len(published)]
     IN  /\ last.rows \in Searched
         /\ n # last.starts.default
         /\ \A l \in DOMAIN last.starts.labeled : n # last.starts.labeled[l]
         /\ Publish([version |-> last.version + 1, segments |-> last.segments,
                     hotDelta |-> last.hotDelta + 1, epoch |-> last.epoch + 1,
                     quantizers |-> last.quantizers, rows |-> last.rows, starts |-> last.starts,
                     nodes |-> [last.nodes EXCEPT ![n] = Tombstone]])
  /\ UNCHANGED searchVars

------------------------------------------------------------------------------
(* Memory: QueryMemoryAccountant *)

RecordSize(record) == 1 + Len(record.labels) + Len(record.neighbors)
Size(records) == MapThenSumSet(LAMBDA n : RecordSize(records[n]), DOMAIN records)

Accounted(s, transient) ==
  s.cachedBytes + s.slots + s.candidateBytes + Cardinality(DOMAIN s.candidates)
    + Cardinality(s.queue) + Cardinality(s.seen) + Cardinality(DOMAIN s.candidates) + transient

Fits(s, transient) == Accounted(s, transient) <= Budget.bytes

------------------------------------------------------------------------------
(* One search *)

At(r, pc) == search[r].pc = pc
Goto(r, s) == search' = [search EXCEPT ![r] = s]
Failed(r) == Goto(r, [pc |-> "failed"])

\* start_node_ids, in order.
SearchStarts(starts, filter) ==
  SetToSortSeq({starts.default} \cup
               {starts.labeled[l] : l \in ToSet(filter) \cap DOMAIN starts.labeled}, <)

\* An index that never held anything has no hits.
Begin(r, version, asked) ==
  /\ search[r] = NoSearch   \* bound: one search for each reader
  /\ published[version].rows \in Searched
  /\ Goto(r, IF published[version].rows = <<>>
             THEN [pc |-> "done", version |-> version, asked |-> asked, cut |-> FALSE, hits |-> <<>>]
             ELSE [pc |-> "encode", version |-> version, asked |-> asked])
  /\ UNCHANGED <<cacheVars, config, quantizers, quantizerCache>>

\* Mutant of SnapshotQuantizer: whatever is cached will do.
SnapshotQuantizerCached(reference) ==
  IF quantizerCache # NoModel THEN quantizerCache
  ELSE [reference |-> reference, model |-> quantizers[reference]]

\* load_snapshot_quantizer: the cached model if it is of this reference.
SnapshotQuantizer(reference) ==
  IF quantizerCache.reference = reference THEN quantizerCache
  ELSE [reference |-> reference, model |-> quantizers[reference]]

\* routing_query_for_snapshot, under the mutex of the quantizer cache.
Encode(r) ==
  /\ At(r, "encode")
  /\ LET s == search[r]
         references == published[s.version].quantizers
         entry == IF config.sbq THEN SnapshotQuantizer(references[1]) ELSE NoModel
     IN  /\ quantizerCache' = IF config.sbq THEN entry ELSE quantizerCache
         /\ Goto(r, [pc |-> "starts", version |-> s.version, asked |-> s.asked,
                     code |-> RoutingVector(config, entry.model, s.asked.query),
                     queue |-> {}, seen |-> {}, parked |-> EmptyFn, candidates |-> EmptyFn,
                     toRead |-> SearchStarts(published[s.version].starts, s.asked.filter),
                     records |-> EmptyFn,
                     cachedBytes |-> 0, slots |-> 0, candidateBytes |-> 0])
  /\ UNCHANGED <<cacheVars, config, quantizers>>

Reading(r) == search[r].pc \in {"starts", "neighbors"}

\* read_present_records: in chunks of max_read_batch.
ReadChunk(r) ==
  /\ Reading(r)
  /\ LET ids == search[r].toRead
         batch == search[r].asked.batch
     IN  StartRead(r, search[r].version, IF Len(ids) > batch THEN SubSeq(ids, 1, batch) ELSE ids)
  /\ UNCHANGED searchVars

\* Every record read is queued and parked, its bytes accounted.  Before
\* that the batch itself has to fit.
Parked(s) ==
  [s EXCEPT !.pc = "walk",
            !.seen = @ \cup DOMAIN s.records,
            !.queue = @ \cup DOMAIN s.records,
            !.parked = [n \in DOMAIN @ \cup DOMAIN s.records |->
                          IF n \in DOMAIN s.records THEN s.records[n] ELSE @[n]],
            !.cachedBytes = @ + Size(s.records),
            !.slots = @ + Cardinality(DOMAIN s.records),
            !.records = EmptyFn]

MayPark(s) ==
  /\ Fits(s, Size(s.records))
  /\ Cardinality(Parked(s).seen) <= Budget.candidates
  /\ Fits(Parked(s), 0)

\* The chunk has arrived, with the records of the nodes that are there; after
\* the last one the walk goes on.
TakeChunk(r) ==
  /\ Reading(r)
  /\ FinishRead(r)
  /\ LET reads == request[r].reads
         present == {n \in DOMAIN reads : Present(reads[n])}
         s == [search[r] EXCEPT
                 !.toRead = SubSeq(@, Len(request[r].ids) + 1, Len(@)),
                 !.records = [n \in DOMAIN @ \cup present |->
                                IF n \in present THEN reads[n] ELSE @[n]]]
     IN  IF s.toRead # <<>> THEN Goto(r, s)
         ELSE IF MayPark(s) THEN Goto(r, Parked(s)) ELSE Failed(r)
  /\ UNCHANGED <<config, quantizers, quantizerCache>>

ReadFails(r) ==
  /\ Reading(r)
  /\ FailFetch(r)
  /\ Failed(r)
  /\ UNCHANGED <<config, quantizers, quantizerCache>>

Closest(s) ==
  LET distance == [n \in s.queue |-> RoutingDistance(config, s.code, s.parked[n].code)]
  IN  Nearest(distance, s.queue)

\* The neighbors nobody has seen, in order and each once: it is seen from now on.
Unseen(neighbors, seen) ==
  LET upTo[i \in 0 .. Len(neighbors)] ==
        IF i = 0 THEN <<>>
        ELSE IF neighbors[i] \in seen \cup ToSet(upTo[i - 1]) THEN upTo[i - 1]
        ELSE Append(upTo[i - 1], neighbors[i])
  IN  upTo[Len(neighbors)]

\* Mutants of Taken: the record is moved, but not its bytes; links of rows
\* that the filter excludes are not followed.
TakenUnreleased(s, n) ==
  LET record == s.parked[n]
      found == Unseen(record.neighbors, s.seen)
  IN  [s EXCEPT !.pc = IF found = <<>> THEN "walk" ELSE "neighbors",
         !.queue = @ \ {n}, !.seen = @ \cup ToSet(found), !.toRead = found,
         !.parked = Without(@, n),
         !.candidates = With(@, n, record), !.candidateBytes = @ + RecordSize(record)]
TakenFilteredWalk(s, n) ==
  LET record == s.parked[n]
      found == IF s.asked.filter # <<>> /\ ~Overlaps(record.labels, s.asked.filter) THEN <<>>
               ELSE Unseen(record.neighbors, s.seen)
  IN  [s EXCEPT !.pc = IF found = <<>> THEN "walk" ELSE "neighbors",
         !.queue = @ \ {n}, !.seen = @ \cup ToSet(found), !.toRead = found,
         !.parked = Without(@, n), !.cachedBytes = @ - RecordSize(record),
         !.candidates = With(@, n, record), !.candidateBytes = @ + RecordSize(record)]

\* Visiting n: its record leaves its slot for the candidates, and its
\* neighbors nobody has seen yet are to be read.
Taken(s, n) ==
  LET record == s.parked[n]
      found == Unseen(record.neighbors, s.seen)
  IN  [s EXCEPT !.pc = IF found = <<>> THEN "walk" ELSE "neighbors",
         !.queue = @ \ {n}, !.seen = @ \cup ToSet(found), !.toRead = found,
         !.parked = Without(@, n), !.cachedBytes = @ - RecordSize(record),
         !.candidates = With(@, n, record), !.candidateBytes = @ + RecordSize(record)]

Full(s) == Cardinality(DOMAIN s.candidates) >= s.asked.size

Visit(r) ==
  /\ At(r, "walk")
  /\ search[r].queue # {} /\ ~Full(search[r])
  /\ LET s == search[r]
         taken == Taken(s, Closest(s))
     IN  IF \/ Cardinality(DOMAIN s.candidates) + 1 > Budget.visited
            \/ Cardinality(taken.seen) > Budget.candidates
            \/ ~Fits(taken, Len(taken.toRead))
         THEN Failed(r) ELSE Goto(r, taken)
  /\ UNCHANGED <<cacheVars, config, quantizers, quantizerCache>>

\* label_matches, by merging.
Matches(filter, labels) == filter = <<>> \/ Overlaps(labels, filter)

\* The walk is over: filter, rescore with the full vectors, sort, truncate.
Rescore(r) ==
  /\ At(r, "walk")
  /\ search[r].queue = {} \/ Full(search[r])
  /\ LET s == search[r]
         matching == {n \in DOMAIN s.candidates : Matches(s.asked.filter, s.candidates[n].labels)}
         exact == [n \in matching |-> L2(s.asked.query, s.candidates[n].point)]
         ranked == ByDistance(exact, matching)
     IN  IF Cardinality(matching) > Budget.rescore THEN Failed(r)
         ELSE Goto(r, [pc |-> "done", version |-> s.version, asked |-> s.asked,
                       cut |-> s.queue # {},
                       hits |-> SubSeq(ranked, 1, IF Len(ranked) < Limit THEN Len(ranked) ELSE Limit)])
  /\ UNCHANGED <<cacheVars, config, quantizers, quantizerCache>>

------------------------------------------------------------------------------
(* What the constants give: links to rows, sorted labels, distances. *)

Sorted(labels) ==
  labels \in Seq(Int) /\ \A i, j \in DOMAIN labels : i < j => labels[i] < labels[j]

ASSUME GraphsAssumption ==
  /\ \A asked \in Searches : Sorted(asked.filter)
  /\ \A c \in Configs, rows \in Searched, asked \in Searches : rows # <<>> =>
       LET nodes == Built[c][rows]
           code == RoutingVector(c, Models[c][rows], asked.query)
       IN  /\ SearchStarts(StartsOf(rows), asked.filter) \in Seq(DOMAIN rows)
           /\ \A n \in DOMAIN rows :
                /\ nodes[n].neighbors \in Seq(DOMAIN rows)
                /\ Sorted(nodes[n].labels)
                /\ RoutingDistance(c, code, nodes[n].code) \in Int

------------------------------------------------------------------------------
(* Specification *)

Init ==
  /\ CacheInit
  /\ config \in Configs
  /\ quantizers = <<>> /\ quantizerCache = NoModel
  /\ search = [r \in Readers |-> NoSearch]

PublishNext ==
  \/ \E rows \in IF published = <<>> THEN Inputs ELSE Searched : PublishBuild(rows)
  \/ published # <<>> /\ \E n \in DOMAIN published[Len(published)].nodes : PublishDelete(n)

Search(r) ==
  \/ \E version \in DOMAIN published, asked \in Searches : Begin(r, version, asked)
  \/ Encode(r)
  \/ ReadChunk(r) \/ TakeChunk(r) \/ ReadFails(r)
  \/ CacheWork(r) /\ UNCHANGED searchVars
  \/ Visit(r) \/ Rescore(r)

Next == PublishNext \/ \E r \in Readers : Search(r)

Spec == Init /\ [][Next]_vars

------------------------------------------------------------------------------
(* Properties *)

\* What the walk from these starts comes to; a deleted row has no links.
Links(nodes, n) == IF Present(nodes[n]) THEN ToSet(nodes[n].neighbors) ELSE {}
Reachable(nodes, starts) ==
  LET walk[k \in 0 .. Len(nodes)] ==
        IF k = 0 THEN starts
        ELSE walk[k - 1] \cup UNION {Links(nodes, n) : n \in walk[k - 1]}
  IN  walk[Len(nodes)]

\* A bulk build gives a graph in which the walk from the first row reaches
\* every row, though no row has more than max_neighbors links, none to itself
\* and none twice: whatever the rows, equal ones included, and whatever was
\* pruned or dropped to make room.
BuildConnected ==
  [][published' # published =>
       LET snapshot == published'[Len(published')]
           nodes == snapshot.nodes
       IN  snapshot.hotDelta = 0 =>
           /\ nodes # <<>> => Reachable(nodes, {1}) = DOMAIN nodes
           /\ \A n \in DOMAIN nodes :
                /\ Len(nodes[n].neighbors) <= MaxNeighbors
                /\ ToSet(nodes[n].neighbors) \subseteq DOMAIN nodes \ {n}
                /\ IsInjective(nodes[n].neighbors)]_vars

\* A search that was not cut short by search_list_size returns the nearest
\* rows of its own snapshot that carry a label of the filter, in order:
\* exactly those a scan of the rows its start nodes still reach would return.
\* Quantized routing, reduced dimensions, batches, the cache, other searches
\* and new snapshots make no difference.
SearchesExact ==
  \A r \in Readers : search[r].pc = "done" /\ ~search[r].cut =>
    LET s == search[r]
        nodes == published[s.version].nodes
        starts == ToSet(SearchStarts(published[s.version].starts, s.asked.filter))
        wanted == {n \in DOMAIN nodes :
                     /\ n \in Reachable(nodes, starts)
                     /\ Present(nodes[n])
                     /\ s.asked.filter # <<>> => ToSet(nodes[n].labels) \cap ToSet(s.asked.filter) # {}}
        scan == ByDistance([n \in wanted |-> L2(s.asked.query, nodes[n].point)], wanted)
    IN  s.hits = SubSeq(scan, 1, IF Len(scan) < Limit THEN Len(scan) ELSE Limit)

\* While a search walks, what it has accounted is what it holds: the bytes of
\* parked records are released with them, and no node is parked or queued
\* twice.
AccountingExact ==
  \A r \in Readers : search[r].pc \in {"walk", "neighbors"} =>
    LET s == search[r]
    IN  /\ s.cachedBytes = Size(s.parked)
        /\ s.candidateBytes = Size(s.candidates)
        /\ s.queue = DOMAIN s.parked
        /\ DOMAIN s.parked \cap DOMAIN s.candidates = {}
        /\ s.slots = Cardinality(DOMAIN s.parked \cup DOMAIN s.candidates)

\* A search compares codes of one quantizer: its query is encoded as the
\* build of its snapshot encoded the rows, whichever searches and snapshots
\* went through the one-entry cache before.
QueryEncodedLikeRows ==
  \A r \in Readers : search[r].pc \in {"starts", "walk", "neighbors"} =>
    LET s == search[r]
    IN  s.code = RoutingVector(config, Models[config][published[s.version].rows], s.asked.query)

==============================================================================
