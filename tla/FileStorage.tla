----------------------------- MODULE FileStorage -----------------------------
(***************************************************************************)
(* The directory-backed storage: numbered files for segments, frozen hot   *)
(* deltas and quantizers, the files of the mutation log, and MANIFEST.json,*)
(* which says what is visible.  Every file is written under a temporary    *)
(* name, synced, renamed, and its directory synced after that; memory is   *)
(* updated last.  The calls of an open storage run under its mutex, and a  *)
(* file operation of one may fail, or be the last before the process is    *)
(* killed or the machine crashes.                                          *)
(*                                                                         *)
(* A crash keeps, of each file, what its name meant when the directory was *)
(* last synced or what it means now.  The draft is in memory only.  Names  *)
(* of files are <<directory, number>>; a number 0 in a manifest stands for *)
(* None.  The records of MANIFEST carry what they showed when they were    *)
(* written (history).  What the log holds is in FileMutationLog, and two   *)
(* storages over one directory are in NodeBinding.                         *)
(***************************************************************************)
EXTENDS Integers, Sequences, FiniteSets

CONSTANTS
  Nodes,       \* node ids
  Rows,        \* payloads of records
  Lists,       \* neighbor lists that validate_neighbors accepts
  Trained,     \* serialized quantizers
  MaxFiles,    \* bound on the numbered files
  MaxEpoch,    \* bound on the tombstone epochs
  MaxVersion,  \* bound on the manifest versions
  MaxFaults    \* bound on failing operations, killed processes and crashes

ASSUME FileStorageAssumption ==
  MaxFiles \in Nat /\ MaxEpoch \in Nat /\ MaxVersion \in Nat /\ MaxFaults \in Nat

VARIABLES
  disk,     \* the files, by name
  durable,  \* the files as they were when their directories were last synced
  mem,      \* the FileState of the open storage, or Closed
  op,       \* the call that holds the mutex or the lock, and how far it got
  acked,    \* history: the last manifest whose publication was acknowledged
  life,     \* history: "none", "index" once a create or a publication returned,
            \* "destroying" once a destroy has begun, and "revived" when what it
            \* left over was opened, until an index is created again
  faults    \* the faults that have happened

fileVars == <<disk, durable, mem, op, acked, life, faults>>

Closed == [closed |-> TRUE]
NoOp == [pc |-> "idle"]

IsOpen == mem # Closed
Idle == IsOpen /\ op = NoOp

------------------------------------------------------------------------------
(* Files *)

MANIFEST == <<"root", 0>>
WAL_STATE == <<"wal", 1>>
WAL_LOG == <<"wal", 2>>

Numbered == {"segments", "deltas", "quantizers"}
InDirectory(files, dir) == {name \in DOMAIN files : name[1] = dir}
Numbers(files, dir) == {name[2] : name \in InDirectory(files, dir)}
NumberedFiles(files, dir) == [i \in Numbers(files, dir) |-> files[<<dir, i>>]]

EmptyFn == [x \in {} |-> x]
With(f, x, y) == [z \in DOMAIN f \cup {x} |-> IF z = x THEN y ELSE f[z]]
Without(f, x) == [z \in DOMAIN f \ {x} |-> f[z]]

\* fsync_dir: what the names of dir mean now is durable.
Synced(dir) ==
  [name \in {n \in DOMAIN durable : n[1] # dir} \cup InDirectory(disk, dir) |->
     IF name[1] = dir THEN disk[name] ELSE durable[name]]

\* What a crash may leave: each name keeps its old or its new meaning.
Outcomes ==
  LET changed == {name \in DOMAIN disk \cup DOMAIN durable :
                    ~ (/\ name \in DOMAIN disk \cap DOMAIN durable
                       /\ disk[name] = durable[name])}
      left(new) == (DOMAIN disk \cap new) \cup (DOMAIN durable \ new)
  IN  {[name \in left(new) |-> IF name \in new THEN disk[name] ELSE durable[name]] :
         new \in SUBSET changed}

------------------------------------------------------------------------------
(* Reading through a manifest *)

EmptyDelta == [records |-> EmptyFn, rewrites |-> EmptyFn, tombstones |-> EmptyFn]
DeltaOf(store, m) == IF m.hotDelta = 0 THEN EmptyDelta ELSE store.deltas[m.hotDelta]

Deleted(store, m, n) ==
  LET tombstones == DeltaOf(store, m).tombstones
  IN  n \in DOMAIN tombstones /\ tombstones[n] <= m.epoch

\* find_immutable_record: the first segment that has the node.
InSegments(store, m, n) ==
  {i \in DOMAIN m.segments : n \in DOMAIN store.segments[m.segments[i]]}
ImmutableRecord(store, m, n) ==
  LET first == CHOOSE i \in InSegments(store, m, n) :
                 \A j \in InSegments(store, m, n) : i <= j
  IN  store.segments[m.segments[first]][n]

Missing == [read |-> "missing"]
Tombstoned == [read |-> "tombstoned"]

\* resolve_routing_node; resolve_full_vector consults the same maps.
ReadNode(store, m, n) ==
  LET delta == DeltaOf(store, m)
      immutable == InSegments(store, m, n) # {}
  IN  CASE Deleted(store, m, n) -> Tombstoned
        [] ~Deleted(store, m, n) /\ n \in DOMAIN delta.records -> delta.records[n]
        [] ~Deleted(store, m, n) /\ n \notin DOMAIN delta.records /\ immutable ->
             IF n \in DOMAIN delta.rewrites
             THEN [ImmutableRecord(store, m, n) EXCEPT !.list = delta.rewrites[n]]
             ELSE ImmutableRecord(store, m, n)
        [] OTHER -> Missing

\* load_quantizer
ReadQuantizer(store, m) == IF m.quantizer = 0 THEN "none" ELSE store.quantizers[m.quantizer]

View(store, m) ==
  [nodes |-> [n \in Nodes |-> ReadNode(store, m, n)],
   quantizer |-> ReadQuantizer(store, m)]

\* validate_manifest_references
ValidReferences(store, m) ==
  /\ \A i \in DOMAIN m.segments : m.segments[i] \in DOMAIN store.segments
  /\ m.hotDelta \in DOMAIN store.deltas \cup {0}
  /\ m.quantizer \in DOMAIN store.quantizers \cup {0}

------------------------------------------------------------------------------
(* Opening *)

Largest(S) == IF S = {} THEN 0 ELSE CHOOSE x \in S : \A y \in S : y <= x

\* The directories of numbered files.
Contents(files) == [segments |-> NumberedFiles(files, "segments"),
                    deltas |-> NumberedFiles(files, "deltas"),
                    quantizers |-> NumberedFiles(files, "quantizers")]

\* Files that load and whose manifest refers to nothing that is not there.
Loads(files) ==
  /\ {MANIFEST, WAL_STATE, WAL_LOG} \subseteq DOMAIN files
  /\ ValidReferences(Contents(files), files[MANIFEST])

Epochs(delta) == {delta.tombstones[n] : n \in DOMAIN delta.tombstones}

\* Mutant of Loaded: the next epoch is taken from the manifest alone.
LoadedEpochFromManifest(files) ==
  LET m == files[MANIFEST]
  IN  [manifest |-> m,
       segments |-> NumberedFiles(files, "segments"),
       deltas |-> NumberedFiles(files, "deltas"),
       quantizers |-> NumberedFiles(files, "quantizers"),
       next |-> [dir \in Numbered |-> Largest(Numbers(files, dir)) + 1],
       nextEpoch |-> 1 + m.epoch,
       draft |-> EmptyDelta,
       handed |-> [dir \in Numbered |-> 0]]

\* load: everything but the draft.  Epochs of every frozen delta count, and
\* handed is what this process has been given references to.
Loaded(files) ==
  LET deltas == NumberedFiles(files, "deltas")
      m == files[MANIFEST]
  IN  [manifest |-> m,
       segments |-> NumberedFiles(files, "segments"),
       deltas |-> deltas,
       quantizers |-> NumberedFiles(files, "quantizers"),
       next |-> [dir \in Numbered |-> Largest(Numbers(files, dir)) + 1],
       nextEpoch |-> 1 + Largest({m.epoch} \cup UNION {Epochs(deltas[d]) : d \in DOMAIN deltas}),
       draft |-> EmptyDelta,
       handed |-> [dir \in Numbered |-> 0]]

Open ==
  /\ ~IsOpen /\ op = NoOp
  /\ Loads(disk)
  /\ mem' = Loaded(disk)
  /\ life' = IF life = "destroying" THEN "revived" ELSE life
  /\ UNCHANGED <<disk, durable, op, acked, faults>>

------------------------------------------------------------------------------
(* What the files decode to *)

Records == [row : Rows, list : Lists]

IsSegment(nodes) ==
  DOMAIN nodes \subseteq Nodes /\ \A n \in DOMAIN nodes : nodes[n] \in Records

IsDelta(delta) ==
  /\ DOMAIN delta.records \cup DOMAIN delta.rewrites \cup DOMAIN delta.tombstones \subseteq Nodes
  /\ \A n \in DOMAIN delta.records : delta.records[n] \in Records
  /\ \A n \in DOMAIN delta.rewrites : delta.rewrites[n] \in Lists
  /\ Epochs(delta) \subseteq 1 .. MaxEpoch
  /\ DOMAIN delta.records \cap (DOMAIN delta.rewrites \cup DOMAIN delta.tombstones) = {}

IsManifest(manifest) ==
  /\ manifest.version \in 0 .. MaxVersion
  /\ manifest.segments \in Seq(Nat)
  /\ manifest.hotDelta \in Nat /\ manifest.quantizer \in Nat
  /\ manifest.epoch \in 0 .. MaxEpoch

------------------------------------------------------------------------------
(* write_atomic, and the calls that are made of it *)

\* The temporary file is written and synced; if that fails, nothing happened.
Write(call, name, content) ==
  op' = [pc |-> "rename", call |-> call, name |-> name, content |-> content]

Rename ==
  /\ op.pc = "rename"
  /\ disk' = With(disk, op.name, op.content)
  /\ op' = [op EXCEPT !.pc = "sync"]
  /\ UNCHANGED <<durable, mem, acked, life, faults>>

Fault == faults < MaxFaults /\ faults' = faults + 1

\* A failing rename or fsync ends the call; memory stays as it was.
Fail ==
  /\ op.pc \in {"rename", "sync", "remove"}
  /\ Fault
  /\ op' = NoOp
  /\ UNCHANGED <<disk, durable, mem, acked, life>>

\* Mutants of FinishFile: the directory is not synced; the number is not used up.
FinishFileUnsynced ==
  /\ op.pc = "sync" /\ op.call \in Numbered
  /\ LET id == op.name[2]
     IN  mem' = [mem EXCEPT ![op.call] = With(@, id, op.content),
                            !.next[op.call] = id + 1,
                            !.handed[op.call] = id]
  /\ op' = NoOp
  /\ UNCHANGED <<disk, durable, acked, life, faults>>
FinishFileSameNumber ==
  /\ op.pc = "sync" /\ op.call \in Numbered
  /\ durable' = Synced(op.call)
  /\ LET id == op.name[2]
     IN  mem' = [mem EXCEPT ![op.call] = With(@, id, op.content),
                            !.handed[op.call] = id]
  /\ op' = NoOp
  /\ UNCHANGED <<disk, acked, life, faults>>

\* A call that has written a numbered file: its reference is handed out, and
\* the file's number used up, only now.
FinishFile ==
  /\ op.pc = "sync" /\ op.call \in Numbered
  /\ durable' = Synced(op.call)
  /\ LET id == op.name[2]
     IN  mem' = [mem EXCEPT ![op.call] = With(@, id, op.content),
                            !.next[op.call] = id + 1,
                            !.handed[op.call] = id]
  /\ op' = NoOp
  /\ UNCHANGED <<disk, acked, life, faults>>

CanStart(dir) == Idle /\ Cardinality({name \in DOMAIN disk : name[1] \in Numbered}) < MaxFiles

InsertImmutableSegment(nodes) ==
  /\ CanStart("segments")
  /\ Write("segments", <<"segments", mem.next["segments"]>>, nodes)
  /\ UNCHANGED <<disk, durable, mem, acked, life, faults>>

PublishHotDelta ==
  /\ CanStart("deltas")
  /\ Write("deltas", <<"deltas", mem.next["deltas"]>>, mem.draft)
  /\ UNCHANGED <<disk, durable, mem, acked, life, faults>>

StoreQuantizer(trained) ==
  /\ CanStart("quantizers")
  /\ Write("quantizers", <<"quantizers", mem.next["quantizers"]>>, trained)
  /\ UNCHANGED <<disk, durable, mem, acked, life, faults>>

\* compare_and_publish, up to the rename: the version is still the one the
\* caller has seen.
PublishManifest(replacement) ==
  /\ Idle
  /\ mem.manifest.version < MaxVersion
  /\ ValidReferences(mem, replacement)
  /\ Write("publish", MANIFEST,
           [replacement EXCEPT !.version = mem.manifest.version + 1,
                               !.shows = View(mem, replacement)])
  /\ UNCHANGED <<disk, durable, mem, acked, life, faults>>

\* Mutant of FinishPublish: the root directory is not synced.
FinishPublishUnsynced ==
  /\ op.pc = "sync" /\ op.call = "publish"
  /\ mem' = [mem EXCEPT !.manifest = op.content]
  /\ acked' = op.content
  /\ life' = IF life = "none" THEN "index" ELSE life
  /\ op' = NoOp
  /\ UNCHANGED <<disk, durable, faults>>

FinishPublish ==
  /\ op.pc = "sync" /\ op.call = "publish"
  /\ durable' = Synced("root")
  /\ mem' = [mem EXCEPT !.manifest = op.content]
  /\ acked' = op.content
  /\ life' = IF life = "none" THEN "index" ELSE life
  /\ op' = NoOp
  /\ UNCHANGED <<disk, faults>>

\* What the index publishes: the delta it has just frozen over the manifest,
\* or a bulk build's segment and quantizer instead of everything.
OnlineReplacement ==
  [mem.manifest EXCEPT !.hotDelta = mem.handed["deltas"],
     !.epoch = Largest({@} \cup Epochs(mem.deltas[mem.handed["deltas"]]))]

BulkReplacement ==
  [mem.manifest EXCEPT !.segments = IF mem.handed["segments"] = 0 THEN << >>
                                    ELSE <<mem.handed["segments"]>>,
     !.quantizer = mem.handed["quantizers"], !.hotDelta = 0, !.epoch = 0]

------------------------------------------------------------------------------
(* create and destroy *)

InitialManifest ==
  [version |-> 0, segments |-> << >>, hotDelta |-> 0, epoch |-> 0, quantizer |-> 0,
   shows |-> [nodes |-> [n \in Nodes |-> Missing], quantizer |-> "none"]]

\* The three files, MANIFEST last: until it is there, there is no index.
Create ==
  /\ ~IsOpen /\ op = NoOp
  /\ MANIFEST \notin DOMAIN disk
  /\ Write("create", WAL_STATE, "state")
  /\ UNCHANGED <<disk, durable, mem, acked, life, faults>>

CreateNext ==
  /\ op.pc = "sync" /\ op.call = "create" /\ op.name # MANIFEST
  /\ durable' = Synced("wal")
  /\ IF op.name = WAL_STATE THEN Write("create", WAL_LOG, "log")
     ELSE Write("create", MANIFEST, InitialManifest)
  /\ UNCHANGED <<disk, mem, acked, life, faults>>

FinishCreate ==
  /\ op.pc = "sync" /\ op.call = "create" /\ op.name = MANIFEST
  /\ durable' = Synced("root")
  /\ mem' = Loaded(disk)
  /\ acked' = op.content
  /\ op' = NoOp
  /\ life' = "index"
  /\ UNCHANGED <<disk, faults>>

\* unknown_entries: nothing but what this crate writes.
Owned(files) == \A name \in DOMAIN files : name[1] \in Numbered \cup {"root", "wal"}

Destroy ==
  /\ ~IsOpen /\ op = NoOp
  /\ MANIFEST \in DOMAIN disk
  /\ Owned(disk)
  /\ op' = [pc |-> "remove"]
  /\ acked' = InitialManifest
  /\ life' = IF life = "revived" THEN life ELSE "destroying"
  /\ UNCHANGED <<disk, durable, mem, faults>>

\* The directories in order, the manifest last; nothing is synced.
Removable ==
  LET left(dir) == InDirectory(disk, dir)
      order == <<"segments", "deltas", "quantizers", "wal", "root">>
      first == CHOOSE i \in DOMAIN order :
                 left(order[i]) # {} /\ \A j \in 1 .. i - 1 : left(order[j]) = {}
  IN  left(order[first])

Remove ==
  /\ op.pc = "remove"
  /\ \E name \in Removable : disk' = Without(disk, name)
  /\ op' = IF DOMAIN disk' = {} THEN NoOp ELSE op
  /\ UNCHANGED <<durable, mem, acked, life, faults>>

------------------------------------------------------------------------------
(* The draft, and readers *)

Stage(draft) ==
  /\ mem' = [mem EXCEPT !.draft = draft]
  /\ UNCHANGED <<disk, durable, op, acked, life, faults>>

\* Mutant of AppendNode: the newest frozen delta shares the draft's map.
AppendNodeShared(n, record) ==
  LET d == mem.handed["deltas"]
  IN  /\ Idle
      /\ mem' = [mem EXCEPT
           !.draft.records = With(@, n, record),
           !.deltas = IF d = 0 THEN @ ELSE [@ EXCEPT ![d].records = With(@, n, record)]]
      /\ UNCHANGED <<disk, durable, op, acked, life, faults>>

AppendNode(n, record) ==
  /\ Idle
  /\ Stage([records |-> With(mem.draft.records, n, record),
            rewrites |-> Without(mem.draft.rewrites, n),
            tombstones |-> Without(mem.draft.tombstones, n)])

RewriteNeighbors(n, list) ==
  /\ Idle
  /\ Stage(IF n \in DOMAIN mem.draft.records
           THEN [mem.draft EXCEPT !.records = With(@, n, [@[n] EXCEPT !.list = list])]
           ELSE [mem.draft EXCEPT !.rewrites = With(@, n, list)])

TombstoneNode(n) ==
  /\ Idle
  /\ mem.nextEpoch <= MaxEpoch
  /\ mem' = [mem EXCEPT !.nextEpoch = @ + 1,
                        !.draft = [records |-> Without(@.records, n),
                                   rewrites |-> Without(@.rewrites, n),
                                   tombstones |-> With(@.tombstones, n, mem.nextEpoch)]]
  /\ UNCHANGED <<disk, durable, op, acked, life, faults>>

------------------------------------------------------------------------------
(* The end of the process, and of the machine *)

Kill ==
  /\ IsOpen \/ op # NoOp
  /\ Fault
  /\ mem' = Closed /\ op' = NoOp
  /\ UNCHANGED <<disk, durable, acked, life>>

Crash ==
  /\ disk' \in Outcomes
  /\ durable' = disk'
  /\ Fault
  /\ mem' = Closed /\ op' = NoOp
  /\ UNCHANGED <<acked, life>>

------------------------------------------------------------------------------
(* Specification *)

Init ==
  /\ disk = EmptyFn /\ durable = EmptyFn
  /\ mem = Closed /\ op = NoOp
  /\ acked = InitialManifest /\ life = "none" /\ faults = 0

Next ==
  \/ Create \/ CreateNext \/ FinishCreate \/ Open
  \/ Destroy \/ Remove
  \/ Rename \/ Fail \/ FinishFile \/ FinishPublish
  \/ \E n \in Nodes, record \in Records : AppendNode(n, record)
  \/ \E n \in Nodes, list \in Lists : RewriteNeighbors(n, list)
  \/ \E n \in Nodes : TombstoneNode(n)
  \/ \E n \in Nodes, record \in Records : InsertImmutableSegment([m \in {n} |-> record])
  \/ PublishHotDelta
  \/ \E trained \in Trained : StoreQuantizer(trained)
  \/ IsOpen /\ mem.handed["deltas"] # 0 /\ PublishManifest(OnlineReplacement)
  \/ IsOpen /\ PublishManifest(BulkReplacement)
  \/ Kill \/ Crash

Spec == Init /\ [][Next]_fileVars

------------------------------------------------------------------------------
(* Properties *)

\* What each kind of file decodes to, and the state around it.
FileTypeOK ==
  /\ \A files \in {disk, durable} : \A name \in DOMAIN files :
       CASE name[1] = "segments" -> IsSegment(files[name])
         [] name[1] = "deltas" -> IsDelta(files[name])
         [] name[1] = "quantizers" -> files[name] \in Trained
         [] name = MANIFEST -> IsManifest(files[name])
         [] OTHER -> name \in {WAL_STATE, WAL_LOG}
  /\ IsOpen =>
       /\ IsManifest(mem.manifest) /\ IsDelta(mem.draft)
       /\ \A dir \in Numbered : mem.handed[dir] < mem.next[dir]
       /\ mem.nextEpoch \in 1 .. MaxEpoch + 1
  /\ faults \in 0 .. MaxFaults

\* Whatever crashes now, in the middle of whichever call, the directory opens
\* again: the manifest it is left with refers only to files it is left with.
\* A destroy that has begun is the only exception.
EveryCrashReopens ==
  life = "index" => \A left \in Outcomes : Loads(left)

\* A crash never takes back a publication that was acknowledged: the manifest
\* it leaves is that one, or one whose publication was still under way.
AcknowledgedPublishesSurvive ==
  life = "index" =>
    \A left \in Outcomes :
      LET m == left[MANIFEST]
      IN  m = acked \/ m.version > acked.version

\* A directory that opens shows exactly what its manifest showed when it was
\* written, half-done destroys and reused file numbers included, unless what
\* a half-done destroy left over was opened and written to again.
OpensToWhatWasPublished ==
  life # "revived" => \A left \in Outcomes :
    Loads(left) => View(Contents(left), left[MANIFEST]) = left[MANIFEST].shows

\* Tombstone epochs are never reused: the next one is above every epoch in a
\* delta file, published or not.
EpochsStayFresh ==
  IsOpen => \A d \in InDirectory(disk, "deltas") :
              \A e \in Epochs(disk[d]) : e < mem.nextEpoch

\* What a reference names never changes while the storage is open: pinned
\* snapshots of any age keep showing what they showed.
ReferencesAreImmutable ==
  [][IsOpen /\ mem' # Closed =>
       \A dir \in Numbered : \A i \in DOMAIN mem[dir] :
         i \in DOMAIN mem'[dir] /\ mem'[dir][i] = mem[dir][i]]_fileVars

\* A row whose publication was acknowledged is not taken out of the view by
\* the publication of a later insert: only a deletion does that.
AcknowledgedRowsStay ==
  [][acked'.hotDelta \notin {0, acked.hotDelta}
       /\ mem'.deltas[acked'.hotDelta].records # EmptyFn =>
       \A n \in Nodes :
         "row" \in DOMAIN acked.shows.nodes[n] =>
           acked'.shows.nodes[n] # Missing]_fileVars

==============================================================================
