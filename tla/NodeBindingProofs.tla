-------------------------- MODULE NodeBindingProofs --------------------------
(***************************************************************************)
(* What JavaScript may rely on when it shares one process, one registry,   *)
(* one directory and a few pool threads between any number of handles and  *)
(* tasks: for any calls, any number of tasks, inodes and pool threads.     *)
(*                                                                         *)
(* The invariant has four parts.  Every action keeps each of them.         *)
(* Typed gives the states of a task and what the snapshot it carries has   *)
(* to do with its store: stores only grow, so a snapshot resolves to the   *)
(* rows it was taken of, or not at all.  Owned ties the registry entry to  *)
(* the one live handle of a name.  Locked follows the lock files' inodes.  *)
(* Mapped follows a write from its check of the id map to the update.      *)
(***************************************************************************)
EXTENDS NodeBinding, FiniteSetTheorems, NaturalsInduction, WellFoundedInduction, TLAPS

------------------------------------------------------------------------------
(* Types *)

Intents == {"create", "open", "destroy"}
Kinds == Factories \cup Writes \cup Searches \cup {"destroy", "none"}
Pcs == {"queued", "compute", "lockfile", "flock", "remove", "rmdir", "writer", "stage", "freeze",
        "publish", "load", "swap", "read", "classify", "done", "settled"}

NodeRows == UNION {[D -> Ids] : D \in UNION {SUBSET (0 .. b) : b \in Nat}}
Drafts == [rows : NodeRows, dead : SUBSET Nat]
Frozen == UNION {[D -> Drafts] : D \in SUBSET Nat}
Stores == [version : Nat, base : Nat, delta : Nat, maxId : Nat, draft : Drafts,
           segments : Seq(Seq(Ids)), frozen : Frozen, nextDelta : Nat \ {0}]
Snapshots == [version : Nat, base : Nat, delta : Nat, maxId : Nat]

Codes == {"", "OK", "STORAGE", "INDEX_EXISTS", "INDEX_NOT_FOUND", "CONFIG_MISMATCH",
          "INVALID_ARGUMENT", "MANIFEST_CONFLICT", "SNAPSHOT_EXPIRED"}

IdMaps == UNION {[X -> Nat] : X \in SUBSET Ids}
Handles == [status : {"computed", "open", "closed"}, store : Nat, inode : Nat, named : BOOLEAN,
            writer : Nat, nextId : Nat \ {0}, nodeIds : IdMaps]

Lockfiles == [intent : Intents, inode : Nat]
Stages == [node : Nat, seen : Snapshots]
Publishes == [node : Nat, seen : Snapshots, delta : Nat]
Reads == [snapshot : Snapshots]
PinnedReads == [snapshot : Snapshots, taken : NodeRows]
Results == [rows : NodeRows, taken : NodeRows]
Contexts == {NoContext} \cup [intent : Intents] \cup Lockfiles \cup Stages \cup Publishes
              \cup [base : Nat] \cup [base : Nat, version : Nat] \cup Reads \cup PinnedReads
              \cup Results
Tasks == [kind : Kinds, handle : Nat, arg : BOOLEAN \cup Ids \cup Seq(Ids), ctx : Contexts,
          pc : Pcs, code : Codes]

------------------------------------------------------------------------------
(* Stores and snapshots *)

BaseRows(store) == IF store.base = 0 THEN << >> ELSE store.segments[store.base]
DeltaOf(store) == IF store.delta = 0 THEN EmptyDraft ELSE store.frozen[store.delta]

\* What the manifest names is there, and without a delta it names what a bulk
\* build stored.
StoreOK(store) ==
  /\ store \in Stores
  /\ store.base <= Len(store.segments)
  /\ DOMAIN store.frozen \subseteq 1 .. store.nextDelta - 1
  /\ store.delta \in DOMAIN store.frozen \cup {0}
  /\ \A i \in DOMAIN store.segments : ~HasDuplicates(store.segments[i])
  /\ store.delta = 0 => store.maxId = Len(BaseRows(store))

\* What was stored stays as it was, or is gone for good.
Grown(old, new) ==
  /\ old.version <= new.version
  /\ old.version = new.version => Snapshot(new) = Snapshot(old)
  /\ Len(old.segments) <= Len(new.segments)
  /\ \A i \in 1 .. Len(old.segments) : new.segments[i] = old.segments[i]
  /\ old.nextDelta <= new.nextDelta
  /\ \A d \in DOMAIN new.frozen :
       d < old.nextDelta => d \in DOMAIN old.frozen /\ new.frozen[d] = old.frozen[d]

\* A snapshot of the store, from now or earlier.
SeenOK(store, snapshot) ==
  /\ snapshot \in Snapshots
  /\ snapshot.version <= store.version
  /\ snapshot.version = store.version => snapshot = Snapshot(store)
  /\ snapshot.base <= Len(store.segments)
  /\ snapshot.delta < store.nextDelta

PinOK(store, snapshot, taken) ==
  /\ SeenOK(store, snapshot)
  /\ Resolves(store, snapshot) => Rows(store, snapshot) = taken

BuiltOK(store, base, ids) ==
  /\ ~HasDuplicates(ids)
  /\ base = 0 => ids = << >>
  /\ base # 0 => base <= Len(store.segments) /\ store.segments[base] = ids

------------------------------------------------------------------------------
(* Tasks *)

KindOK(task) ==
  /\ task.pc = "settled" <=> task.kind = "none"
  /\ task.pc \in {"compute", "lockfile", "flock"} => task.kind \in Factories \cup {"destroy"}
  /\ task.pc \in {"remove", "rmdir"} => task.kind = "destroy"
  /\ task.pc = "writer" => task.kind \in Writes
  /\ task.pc \in {"stage", "freeze", "publish"} => task.kind \in {"insert", "delete"}
  /\ task.pc = "load" => task.kind \in {"build", "search"}
  /\ task.pc = "swap" => task.kind = "build"
  /\ task.pc = "read" => task.kind \in Searches
  /\ task.pc = "classify" => task.kind = "search"
  /\ task.kind \in {"insert", "delete"} => task.arg \in Ids
  /\ task.kind = "build" => task.arg \in Seq(Ids)

ContextOK(task) ==
  /\ task.pc = "lockfile" => task.ctx \in [intent : Intents]
  /\ task.pc \in {"flock", "remove", "rmdir"} => task.ctx \in Lockfiles
  /\ task.pc \in {"lockfile", "flock"} =>
       (task.ctx.intent = "destroy" <=> task.kind = "destroy")
  /\ task.pc \in {"stage", "freeze"} => task.ctx \in Stages
  /\ task.pc = "publish" => task.ctx \in Publishes
  /\ task.kind = "build" /\ task.pc = "load" => task.ctx \in [base : Nat]
  /\ task.kind = "build" /\ task.pc = "swap" => task.ctx \in [base : Nat, version : Nat]
  /\ task.kind = "search" /\ task.pc \in {"read", "classify"} => task.ctx \in Reads
  /\ task.kind = "searchPinned" /\ task.pc \in {"queued", "read"} => task.ctx \in PinnedReads

ResultOK(task) ==
  /\ task.kind = "searchPinned" /\ task.pc = "done" /\ task.code = "OK" =>
       task.ctx.rows = task.ctx.taken
  /\ task.kind = "search" => task.code # "STORAGE"

\* What a task of a handle has read of its store.
Sees(task, store) ==
  /\ task.pc \in {"stage", "freeze", "publish"} => SeenOK(store, task.ctx.seen)
  /\ task.pc = "publish" => task.ctx.delta \in 1 .. store.nextDelta - 1
  /\ task.kind = "build" /\ task.pc \in {"load", "swap"} => BuiltOK(store, task.ctx.base, task.arg)
  /\ task.kind = "search" /\ task.pc \in {"read", "classify"} => SeenOK(store, task.ctx.snapshot)
  /\ task.pc = "classify" => task.ctx.snapshot.version < store.version
  /\ task.kind = "searchPinned" /\ task.pc \in {"queued", "read"} =>
       PinOK(store, task.ctx.snapshot, task.ctx.taken)

TaskOK(t) ==
  /\ KindOK(tasks[t]) /\ ContextOK(tasks[t]) /\ ResultOK(tasks[t])
  /\ tasks[t].handle \in 0 .. Len(handles)
  /\ Kind(t) \in Writes \cup Searches => tasks[t].handle # 0 /\ Sees(tasks[t], StoreOf(t))

PinnedOK ==
  /\ pinned \in [handle : 0 .. Len(handles), snapshot : Snapshots, rows : NodeRows]
  /\ pinned.handle # 0 =>
       PinOK(stores[handles[pinned.handle].store], pinned.snapshot, pinned.rows)

Typed ==
  /\ provider \in Providers
  /\ entry \in [store : 0 .. Len(stores), attached : BOOLEAN]
  /\ dir \in [present : BOOLEAN, inode : Nat, index : 0 .. Len(stores), inodes : Nat]
  /\ stores \in Seq(Stores) /\ \A s \in DOMAIN stores : StoreOK(stores[s])
  /\ handles \in Seq(Handles) /\ \A h \in DOMAIN handles : handles[h].store \in DOMAIN stores
  /\ tasks \in Seq(Tasks) /\ \A t \in DOMAIN tasks : TaskOK(t)
  /\ PinnedOK
  /\ orphaned \in BOOLEAN

------------------------------------------------------------------------------
(* The registry *)

\* What only tasks of a directory do.
FilePcs == {"lockfile", "flock", "remove", "rmdir"}

\* A factory that has made a handle and not yet handed it out.
Producing(task) == task.kind \in Factories /\ task.pc = "done" /\ task.code = "OK"

Owned ==
  /\ \A t \in DOMAIN tasks : tasks[t].pc \in FilePcs => provider = "file"
  /\ \A t \in DOMAIN tasks : Producing(tasks[t]) =>
       tasks[t].handle # 0 /\ Handle(t).status = "computed"
  /\ \A t, u \in DOMAIN tasks :
       Producing(tasks[t]) /\ Producing(tasks[u]) /\ tasks[t].handle = tasks[u].handle => t = u
  /\ \A h \in DOMAIN handles : handles[h].named <=> provider = "memory" /\ IsLive(h)
  /\ \A h \in DOMAIN handles : handles[h].named => entry.attached /\ handles[h].store = entry.store
  /\ \A g, h \in DOMAIN handles : handles[g].named /\ handles[h].named => g = h
  /\ entry.attached => \E h \in DOMAIN handles : handles[h].named
  /\ entry.store = 0 => entry = NoEntry
  /\ provider # "memory" =>
       /\ entry = NoEntry
       /\ \A g, h \in DOMAIN handles : handles[g].store = handles[h].store => g = h

------------------------------------------------------------------------------
(* The lock file *)

Locking(task) == task.pc \in {"remove", "rmdir"}
Opened(task) == task.pc \in {"flock", "remove"}

\* flock excludes, whatever became of the directory; while no LOCK was
\* unlinked under a task, all locks are on the one of the directory.
Locked ==
  provider = "file" =>
    /\ \A g, h \in DOMAIN handles :
         InUse(g) /\ InUse(h) /\ handles[g].inode = handles[h].inode => g = h
    /\ \A h \in DOMAIN handles, t \in DOMAIN tasks :
         InUse(h) /\ Locking(tasks[t]) => handles[h].inode # tasks[t].ctx.inode
    /\ \A t, u \in DOMAIN tasks :
         Locking(tasks[t]) /\ Locking(tasks[u]) /\ tasks[t].ctx.inode = tasks[u].ctx.inode => t = u
    /\ ~orphaned =>
         /\ \A h \in DOMAIN handles : InUse(h) => dir.inode # 0 /\ handles[h].inode = dir.inode
         /\ \A t \in DOMAIN tasks :
              Opened(tasks[t]) => dir.inode # 0 /\ tasks[t].ctx.inode = dir.inode

------------------------------------------------------------------------------
(* The id map *)

\* A task that holds the writer lock of its handle.
Writing(task) ==
  \/ task.pc \in {"stage", "freeze", "publish", "swap"}
  \/ task.pc = "load" /\ task.kind = "build"
InFlight(task) == task.kind \in Writes /\ task.pc \notin {"done", "settled"}

Proper(rows, max) ==
  /\ DOMAIN rows \subseteq 1 .. max
  /\ \A m, n \in DOMAIN rows : rows[m] = rows[n] => m = n
Inverts(nodeIds, rows) ==
  /\ DOMAIN nodeIds = {rows[n] : n \in DOMAIN rows}
  /\ \A n \in DOMAIN rows : nodeIds[rows[n]] = n

\* Nothing is staged that is not published, and no two rows share an id.
Clean(store) == store.draft = DeltaOf(store) /\ Proper(Current(store), store.maxId)

Agrees(store, handle) == Clean(store) /\ Inverts(handle.nodeIds, Current(store))

\* The rows over base once draft is published, and the id map that goes with them.
Overlay(base, draft) ==
  [n \in (DOMAIN base \cup DOMAIN draft.rows) \ draft.dead |->
     IF n \in DOMAIN draft.rows THEN draft.rows[n] ELSE base[n]]
NextIds(nodeIds, task) ==
  IF task.kind = "insert" THEN With(nodeIds, task.arg, task.ctx.node)
  ELSE [id \in DOMAIN nodeIds \ {task.arg} |-> nodeIds[id]]

\* The id is free and the node fresh, or the one belongs to the other.
Checked(store, handle, task) ==
  IF task.kind = "insert"
  THEN task.arg \notin DOMAIN handle.nodeIds /\ task.ctx.node \in store.maxId + 1 .. handle.nextId - 1
  ELSE task.arg \in DOMAIN handle.nodeIds /\ handle.nodeIds[task.arg] = task.ctx.node

Staged(store, handle, task, draft) ==
  LET rows == Overlay(BaseRows(store), draft)
  IN  /\ DOMAIN rows \subseteq 1 .. handle.nextId - 1
      /\ Inverts(NextIds(handle.nodeIds, task), rows)

\* What holds of store and handle while task has the writer lock.
Halfway(store, handle, task) ==
  /\ task.pc \in {"load", "swap"} => Agrees(store, handle)
  /\ task.pc \in {"stage", "freeze", "publish"} => task.ctx.seen.version = store.version
  /\ task.pc = "stage" => Agrees(store, handle) /\ Checked(store, handle, task)
  /\ task.pc = "freeze" => Staged(store, handle, task, store.draft)
  /\ task.pc = "publish" /\ task.ctx.delta \in DOMAIN store.frozen =>
       store.frozen[task.ctx.delta] = store.draft /\ Staged(store, handle, task, store.draft)

HandleOK(h) ==
  LET handle == handles[h]
      store == stores[handle.store]
  IN  /\ store.maxId < handle.nextId
      /\ handle.writer = 0 => Agrees(store, handle)
      /\ handle.writer # 0 => Halfway(store, handle, tasks[handle.writer])

Mapped ==
  /\ \A t \in DOMAIN tasks : Writing(tasks[t]) => Handle(t).writer = t
  /\ \A h \in DOMAIN handles : handles[h].writer # 0 =>
       /\ handles[h].writer \in DOMAIN tasks
       /\ Writing(tasks[handles[h].writer]) /\ tasks[handles[h].writer].handle = h
  /\ \A t \in DOMAIN tasks : InFlight(tasks[t]) =>
       IsLive(tasks[t].handle) \/ Handle(t).store \in muddled
  /\ \A h \in DOMAIN handles : IsLive(h) /\ handles[h].store \notin muddled => HandleOK(h)
  /\ entry.store # 0 /\ ~entry.attached /\ entry.store \notin muddled => Clean(stores[entry.store])

BindingInv == Typed /\ Owned /\ Locked /\ Mapped

------------------------------------------------------------------------------
(* Lemmas about the operators *)

\* Replacing an element keeps a sequence one of its elements' set.
LEMMA Replaced ==
  ASSUME NEW E, NEW s \in Seq(E), NEW i \in DOMAIN s, NEW e \in E
  PROVE  /\ [s EXCEPT ![i] = e] \in Seq(E)
         /\ Len([s EXCEPT ![i] = e]) = Len(s)
         /\ DOMAIN [s EXCEPT ![i] = e] = DOMAIN s
OBVIOUS

\* A nonempty set of numbers with a bound has a largest one.
LEMMA LargestExists ==
  ASSUME NEW b \in Nat, NEW S, S \subseteq 0 .. b, S # {}
  PROVE  \E c \in S : \A d \in S : d <= c
<1> DEFINE less == {p \in Nat \X Nat : p[1] < p[2]}
           bounds == {n \in Nat : \A d \in S : d <= n}
<1>1. IsWellFoundedOn(less, Nat)
  BY NatLessThanWellFounded DEF OpToRel
<1>2. b \in bounds /\ bounds \subseteq Nat
  OBVIOUS
<1>3. PICK c \in bounds : \A d \in bounds : <<d, c>> \notin less
  <2> HIDE DEF less, bounds
  <2> QED
    BY <1>1, <1>2, WFMin
<1>4. c \in Nat /\ \A d \in S : d \in Nat /\ d <= c
  BY <1>3
<1>5. ASSUME c \notin S PROVE FALSE
  <2>1. c # 0
    <3>1. PICK d \in S : TRUE
      OBVIOUS
    <3>2. d \in Nat /\ d <= c /\ d # c
      BY <1>4, <1>5
    <3> QED
      BY <1>4, <3>2
  <2>2. c - 1 \in Nat /\ \A d \in S : d <= c - 1
    BY <1>4, <1>5, <2>1
  <2>3. c - 1 \in bounds /\ <<c - 1, c>> \in less
    BY <1>4, <2>2
  <2> QED
    BY <1>3, <2>3
<1> QED
  BY <1>4, <1>5

\* What a snapshot shows is rows by node ids (Snapshot::row ids).
LEMMA RowsTyped ==
  ASSUME NEW store, StoreOK(store), NEW snapshot \in Snapshots, Resolves(store, snapshot)
  PROVE  Rows(store, snapshot) \in NodeRows
<1> DEFINE base == IF snapshot.base = 0 THEN << >> ELSE store.segments[snapshot.base]
           delta == IF snapshot.delta = 0 THEN EmptyDraft ELSE store.frozen[snapshot.delta]
<1>1. base \in Seq(Ids)
  BY DEF StoreOK, Stores, Resolves
<1>2. delta.rows \in NodeRows
  <2>1. EmptyDraft.rows \in [1 .. 0 -> Ids]
    BY DEF EmptyDraft
  <2>2. 1 .. 0 \in UNION {SUBSET (0 .. b) : b \in Nat}
    OBVIOUS
  <2>3. EmptyDraft.rows \in NodeRows
    BY <2>1, <2>2 DEF NodeRows
  <2>4. \A d \in DOMAIN store.frozen : store.frozen[d] \in Drafts
    BY DEF StoreOK, Stores, Frozen
  <2> QED
    BY <2>3, <2>4 DEF Resolves, Drafts
<1>3. PICK b \in Nat : DOMAIN delta.rows \subseteq 0 .. b /\ delta.rows \in [DOMAIN delta.rows -> Ids]
  BY <1>2 DEF NodeRows
<1> DEFINE rows == Rows(store, snapshot)
           top == IF b < Len(base) THEN Len(base) ELSE b
<1>4. rows = [n \in (DOMAIN base \cup DOMAIN delta.rows) \ delta.dead |->
                IF n \in DOMAIN delta.rows THEN delta.rows[n] ELSE base[n]]
  BY DEF Rows
<1>5. \A n \in DOMAIN base : base[n] \in Ids
  BY <1>1
<1>6. rows \in [DOMAIN rows -> Ids]
  <2> HIDE DEF base, delta
  <2> QED
    BY <1>3, <1>4, <1>5
<1>7. top \in Nat /\ DOMAIN rows \subseteq 0 .. top
  <2> HIDE DEF base, delta
  <2>1. DOMAIN base = 1 .. Len(base) /\ Len(base) \in Nat
    BY <1>1
  <2> QED
    BY <1>3, <1>4, <2>1
<1> HIDE DEF rows, top
<1>8. DOMAIN rows \in UNION {SUBSET (0 .. n) : n \in Nat}
  BY <1>7
<1>9. rows \in NodeRows
  BY <1>6, <1>8 DEF NodeRows
<1> QED
  BY <1>9 DEF rows

\* The current snapshot resolves, and is one of the store's.
LEMMA CurrentSeen ==
  ASSUME NEW store, StoreOK(store)
  PROVE  SeenOK(store, Snapshot(store)) /\ Resolves(store, Snapshot(store))
<1>1. Snapshot(store) \in Snapshots
  BY DEF StoreOK, Stores, Snapshot, Snapshots
<1>2. store.base <= Len(store.segments) /\ store.delta < store.nextDelta
  <2>1. store.delta \in 0 .. store.nextDelta - 1 /\ store.nextDelta \in Nat \ {0}
    BY DEF StoreOK, Stores
  <2> QED
    BY <2>1 DEF StoreOK
<1> QED
  BY <1>1, <1>2 DEF StoreOK, Stores, Snapshot, SeenOK, Resolves

\* A store has grown out of itself.
LEMMA GrownRefl ==
  ASSUME NEW store \in Stores PROVE Grown(store, store)
BY DEF Grown, Stores

\* A snapshot of a store that grew is still one, and shows what it showed or
\* does not resolve.
LEMMA SeenStable ==
  ASSUME NEW old, NEW new, NEW snapshot, old \in Stores, new \in Stores, Grown(old, new),
         SeenOK(old, snapshot)
  PROVE  SeenOK(new, snapshot)
<1>1. snapshot \in Snapshots /\ Snapshot(old).version = old.version
  BY DEF SeenOK, Snapshot
<1>2. snapshot.version <= new.version /\ snapshot.base <= Len(new.segments)
      /\ snapshot.delta < new.nextDelta
  BY <1>1, SMTT(20) DEF SeenOK, Grown, Stores, Snapshots
<1>3. snapshot.version = new.version => snapshot = Snapshot(new)
  BY <1>1 DEF SeenOK, Grown, Stores, Snapshots
<1> QED
  BY <1>1, <1>2, <1>3 DEF SeenOK

\* A pinned snapshot still shows its rows, or resolves no more, when its store grows.
LEMMA PinStable ==
  ASSUME NEW old, NEW new, NEW snapshot, NEW taken, old \in Stores, new \in Stores, Grown(old, new),
         PinOK(old, snapshot, taken)
  PROVE  PinOK(new, snapshot, taken)
<1>1. SeenOK(old, snapshot) /\ SeenOK(new, snapshot) /\ snapshot \in Snapshots
  BY SeenStable DEF PinOK, SeenOK
<1>2. SUFFICES ASSUME Resolves(new, snapshot) PROVE Rows(new, snapshot) = taken
  BY <1>1 DEF PinOK
<1>3. snapshot.base \in 0 .. Len(old.segments)
  <2>1. snapshot.base \in Nat /\ snapshot.base <= Len(old.segments)
    BY <1>1 DEF SeenOK, Snapshots
  <2>2. Len(old.segments) \in Nat
    BY DEF Stores
  <2> QED
    BY <2>1, <2>2
<1>4. snapshot.base # 0 => new.segments[snapshot.base] = old.segments[snapshot.base]
  <2>1. snapshot.base # 0 => snapshot.base \in 1 .. Len(old.segments)
    <3>1. Len(old.segments) \in Nat
      BY DEF Stores
    <3> QED
      BY <1>3, <3>1
  <2> QED
    BY <2>1 DEF Grown
<1>5. snapshot.delta # 0 =>
        snapshot.delta \in DOMAIN old.frozen /\ new.frozen[snapshot.delta] = old.frozen[snapshot.delta]
  BY <1>1, <1>2 DEF Resolves, SeenOK, Grown
<1>6. Resolves(old, snapshot)
  BY <1>3, <1>5 DEF Resolves
<1>7. Rows(old, snapshot) = taken
  BY <1>6 DEF PinOK
<1>8. Rows(new, snapshot) = Rows(old, snapshot)
  BY <1>4, <1>5 DEF Rows
<1> QED
  BY <1>7, <1>8

\* What a task has read of its store stays true while the store grows.
LEMMA SeesStable ==
  ASSUME NEW old, NEW new, NEW task, old \in Stores, new \in Stores, Grown(old, new),
         Sees(task, old), KindOK(task), ContextOK(task)
  PROVE  Sees(task, new)
<1>1. task.pc \in {"stage", "freeze", "publish"} => SeenOK(new, task.ctx.seen)
  BY SeenStable DEF Sees
<1>2. task.pc = "publish" => task.ctx.delta \in 1 .. new.nextDelta - 1
  <2> SUFFICES ASSUME task.pc = "publish" PROVE task.ctx.delta \in 1 .. new.nextDelta - 1
    OBVIOUS
  <2>1. task.ctx.delta \in 1 .. old.nextDelta - 1 /\ old.nextDelta <= new.nextDelta
    BY DEF Sees, Grown
  <2>2. old.nextDelta \in Nat /\ new.nextDelta \in Nat
    BY DEF Stores
  <2> QED
    BY <2>1, <2>2
<1>3. task.kind = "build" /\ task.pc \in {"load", "swap"} => BuiltOK(new, task.ctx.base, task.arg)
  <2> SUFFICES ASSUME task.kind = "build", task.pc \in {"load", "swap"}
               PROVE  BuiltOK(new, task.ctx.base, task.arg)
    OBVIOUS
  <2>1. BuiltOK(old, task.ctx.base, task.arg) /\ task.ctx.base \in Nat
    BY DEF Sees, ContextOK
  <2>2. Len(old.segments) \in Nat /\ Len(new.segments) \in Nat
    BY DEF Stores
  <2> QED
    BY <2>1, <2>2 DEF BuiltOK, Grown
<1>4. task.kind = "search" /\ task.pc \in {"read", "classify"} => SeenOK(new, task.ctx.snapshot)
  BY SeenStable DEF Sees
<1>5. task.pc = "classify" => task.ctx.snapshot.version < new.version
  <2> SUFFICES ASSUME task.pc = "classify" PROVE task.ctx.snapshot.version < new.version
    OBVIOUS
  <2>1. task.ctx.snapshot.version < old.version /\ old.version <= new.version
    BY DEF Sees, Grown
  <2>2. task.ctx.snapshot.version \in Nat
    BY DEF KindOK, ContextOK, Reads, Snapshots
  <2>3. old.version \in Nat /\ new.version \in Nat
    BY DEF Stores
  <2> QED
    BY <2>1, <2>2, <2>3
<1>6. task.kind = "searchPinned" /\ task.pc \in {"queued", "read"} =>
        PinOK(new, task.ctx.snapshot, task.ctx.taken)
  BY PinStable DEF Sees
<1> QED
  BY <1>1, <1>2, <1>3, <1>4, <1>5, <1>6 DEF Sees

------------------------------------------------------------------------------
(* Steps, as the parts of the invariant see them *)

\* Stores are only added and only grow; handles stay with their stores.
StoresGrow ==
  /\ stores' \in Seq(Stores) /\ Len(stores) <= Len(stores')
  /\ \A s \in DOMAIN stores : Grown(stores[s], stores'[s])
  /\ \A s \in DOMAIN stores' : StoreOK(stores'[s])
HandlesStay ==
  /\ handles' \in Seq(Handles) /\ Len(handles) <= Len(handles')
  /\ \A h \in DOMAIN handles : handles'[h].store = handles[h].store
  /\ \A h \in DOMAIN handles' : handles'[h].store \in DOMAIN stores'

\* What Typed says of the variables that few steps change.
RestTyped ==
  /\ provider' = provider /\ pinned' = pinned /\ orphaned' \in BOOLEAN
  /\ entry' \in [store : 0 .. Len(stores'), attached : BOOLEAN]
  /\ dir' \in [present : BOOLEAN, inode : Nat, index : 0 .. Len(stores'), inodes : Nat]

MovedTask(t, pc, code, ctx) ==
  [kind |-> Kind(t), handle |-> tasks[t].handle, arg |-> tasks[t].arg, ctx |-> ctx,
   pc |-> pc, code |-> code]
Moved(t, task) == tasks' = [tasks EXCEPT ![t] = task]

\* A state task t may be in next, its store being this one.
TaskGood(t, task, store) ==
  /\ task \in Tasks /\ (task.handle = tasks[t].handle \/ task.handle \in 0 .. Len(handles'))
  /\ KindOK(task) /\ ContextOK(task) /\ ResultOK(task)
  /\ task.kind \in Writes \cup Searches =>
       Kind(t) = task.kind /\ task.handle = tasks[t].handle /\ Sees(task, store)

\* The result of Read, and the task Produce leaves behind.
ReadResult(t) ==
  [rows |-> Rows(StoreOf(t), tasks[t].ctx.snapshot),
   taken |-> IF Kind(t) = "searchPinned" THEN tasks[t].ctx.taken
             ELSE Rows(StoreOf(t), tasks[t].ctx.snapshot)]
MadeTask(t) ==
  [kind |-> Kind(t), handle |-> Len(handles) + 1, arg |-> tasks[t].arg, ctx |-> NoContext,
   pc |-> "done", code |-> "OK"]

LEMMA TaskFacts ==
  ASSUME Typed, NEW t \in DOMAIN tasks
  PROVE  /\ tasks[t] \in Tasks /\ TaskOK(t)
         /\ KindOK(tasks[t]) /\ ContextOK(tasks[t]) /\ ResultOK(tasks[t])
BY DEF Typed, TaskOK

LEMMA StoreFacts ==
  ASSUME Typed, NEW t \in DOMAIN tasks, Kind(t) \in Writes \cup Searches
  PROVE  /\ tasks[t].handle \in DOMAIN handles
         /\ Handle(t) \in Handles /\ Handle(t).store \in DOMAIN stores
         /\ StoreOf(t) \in Stores /\ StoreOK(StoreOf(t)) /\ Sees(tasks[t], StoreOf(t))
<1>1. tasks[t].handle \in 0 .. Len(handles) /\ tasks[t].handle # 0 /\ Sees(tasks[t], StoreOf(t))
  BY TaskFacts DEF TaskOK
<1>2. handles \in Seq(Handles)
  BY DEF Typed
<1>3. tasks[t].handle \in DOMAIN handles
  BY <1>1, <1>2
<1>4. Handle(t) \in Handles /\ Handle(t).store \in DOMAIN stores
  BY <1>2, <1>3 DEF Typed, Handle
<1> QED
  BY <1>1, <1>3, <1>4 DEF Typed, StoreOf

LEMMA TaskIs ==
  ASSUME Typed, NEW t \in DOMAIN tasks
  PROVE  tasks[t] = [kind |-> tasks[t].kind, handle |-> tasks[t].handle, arg |-> tasks[t].arg,
                     ctx |-> tasks[t].ctx, pc |-> tasks[t].pc, code |-> tasks[t].code]
BY TaskFacts DEF Tasks

LEMMA GotoMoves ==
  ASSUME Typed, NEW t \in DOMAIN tasks, NEW pc, NEW ctx, Goto(t, pc, ctx)
  PROVE  Moved(t, MovedTask(t, pc, tasks[t].code, ctx))
<1> DEFINE first == [tasks[t] EXCEPT !.pc = pc]
           second == [first EXCEPT !.ctx = ctx]
<1>1. tasks' = [tasks EXCEPT ![t] = second]
  BY DEF Goto
<1>2. first = [kind |-> tasks[t].kind, handle |-> tasks[t].handle, arg |-> tasks[t].arg,
               ctx |-> tasks[t].ctx, pc |-> pc, code |-> tasks[t].code]
  BY TaskIs
<1> HIDE DEF first
<1>3. second = [kind |-> tasks[t].kind, handle |-> tasks[t].handle, arg |-> tasks[t].arg,
                ctx |-> ctx, pc |-> pc, code |-> tasks[t].code]
  BY <1>2
<1> HIDE DEF second
<1> QED
  BY <1>1, <1>3 DEF Moved, MovedTask, Kind

LEMMA ReturnMoves ==
  ASSUME Typed, NEW t \in DOMAIN tasks, NEW code, Return(t, code)
  PROVE  Moved(t, MovedTask(t, "done", code, NoContext))
<1> DEFINE first == [tasks[t] EXCEPT !.pc = "done"]
           second == [first EXCEPT !.code = code]
           third == [second EXCEPT !.ctx = NoContext]
<1>1. tasks' = [tasks EXCEPT ![t] = third]
  BY DEF Return
<1>2. first = [kind |-> tasks[t].kind, handle |-> tasks[t].handle, arg |-> tasks[t].arg,
               ctx |-> tasks[t].ctx, pc |-> "done", code |-> tasks[t].code]
  BY TaskIs
<1> HIDE DEF first
<1>3. second = [kind |-> tasks[t].kind, handle |-> tasks[t].handle, arg |-> tasks[t].arg,
                ctx |-> tasks[t].ctx, pc |-> "done", code |-> code]
  BY <1>2
<1> HIDE DEF second
<1>4. third = [kind |-> tasks[t].kind, handle |-> tasks[t].handle, arg |-> tasks[t].arg,
               ctx |-> NoContext, pc |-> "done", code |-> code]
  BY <1>3
<1> HIDE DEF third
<1> QED
  BY <1>1, <1>4 DEF Moved, MovedTask, Kind

LEMMA StartMoves ==
  ASSUME Typed, NEW t \in DOMAIN tasks, Start(t)
  PROVE  Moved(t, MovedTask(t, FirstPc(Kind(t)), tasks[t].code, tasks[t].ctx))
<1> DEFINE first == [tasks[t] EXCEPT !.pc = FirstPc(Kind(t))]
<1>1. tasks' = [tasks EXCEPT ![t] = first]
  BY DEF Start
<1>2. first = [kind |-> tasks[t].kind, handle |-> tasks[t].handle, arg |-> tasks[t].arg,
               ctx |-> tasks[t].ctx, pc |-> FirstPc(Kind(t)), code |-> tasks[t].code]
  BY TaskIs
<1> HIDE DEF first
<1> QED
  BY <1>1, <1>2 DEF Moved, MovedTask, Kind

LEMMA ReadMoves ==
  ASSUME Typed, NEW t \in DOMAIN tasks, Read(t)
  PROVE  Moved(t, MovedTask(t, "done", "OK", ReadResult(t)))
<1> DEFINE first == [tasks[t] EXCEPT !.pc = "done"]
           second == [first EXCEPT !.code = "OK"]
           result == [rows |-> Rows(StoreOf(t), second.ctx.snapshot),
                      taken |-> IF Kind(t) = "searchPinned" THEN second.ctx.taken
                                ELSE Rows(StoreOf(t), second.ctx.snapshot)]
           third == [second EXCEPT !.ctx = result]
<1>1. tasks' = [tasks EXCEPT ![t] = third]
  BY DEF Read
<1>2. first = [kind |-> tasks[t].kind, handle |-> tasks[t].handle, arg |-> tasks[t].arg,
               ctx |-> tasks[t].ctx, pc |-> "done", code |-> tasks[t].code]
  BY TaskIs
<1> HIDE DEF first
<1>3. second = [kind |-> tasks[t].kind, handle |-> tasks[t].handle, arg |-> tasks[t].arg,
                ctx |-> tasks[t].ctx, pc |-> "done", code |-> "OK"]
  BY <1>2
<1> HIDE DEF second
<1>4. result = ReadResult(t)
  <2>1. second.ctx = tasks[t].ctx
    BY <1>3
  <2> QED
    BY <2>1 DEF ReadResult
<1> HIDE DEF result
<1>5. third = [kind |-> tasks[t].kind, handle |-> tasks[t].handle, arg |-> tasks[t].arg,
               ctx |-> ReadResult(t), pc |-> "done", code |-> "OK"]
  BY <1>3, <1>4
<1> HIDE DEF third
<1> QED
  BY <1>1, <1>5 DEF Moved, MovedTask, Kind

LEMMA ProduceMoves ==
  ASSUME Typed, NEW t \in DOMAIN tasks, NEW s, NEW store, NEW inode, Produce(t, s, store, inode)
  PROVE  Moved(t, MadeTask(t)) /\ handles' = Append(handles, NewHandle(s, store, inode))
<1> DEFINE first == [tasks[t] EXCEPT !.pc = "done"]
           second == [first EXCEPT !.code = "OK"]
           third == [second EXCEPT !.handle = Len(handles) + 1]
           fourth == [third EXCEPT !.ctx = NoContext]
<1>1. tasks' = [tasks EXCEPT ![t] = fourth]
  BY DEF Produce
<1>2. first = [kind |-> tasks[t].kind, handle |-> tasks[t].handle, arg |-> tasks[t].arg,
               ctx |-> tasks[t].ctx, pc |-> "done", code |-> tasks[t].code]
  BY TaskIs
<1> HIDE DEF first
<1>3. second = [kind |-> tasks[t].kind, handle |-> tasks[t].handle, arg |-> tasks[t].arg,
                ctx |-> tasks[t].ctx, pc |-> "done", code |-> "OK"]
  BY <1>2
<1> HIDE DEF second
<1>4. third = [kind |-> tasks[t].kind, handle |-> Len(handles) + 1, arg |-> tasks[t].arg,
               ctx |-> tasks[t].ctx, pc |-> "done", code |-> "OK"]
  BY <1>3
<1> HIDE DEF third
<1>5. fourth = [kind |-> tasks[t].kind, handle |-> Len(handles) + 1, arg |-> tasks[t].arg,
                ctx |-> NoContext, pc |-> "done", code |-> "OK"]
  BY <1>4
<1> HIDE DEF fourth
<1> QED
  BY <1>1, <1>5 DEF Produce, Moved, MadeTask, Kind

LEMMA MovedFacts ==
  ASSUME tasks \in Seq(Tasks), NEW t \in DOMAIN tasks, NEW task \in Tasks, Moved(t, task)
  PROVE  /\ tasks' \in Seq(Tasks) /\ DOMAIN tasks' = DOMAIN tasks /\ Len(tasks') = Len(tasks)
         /\ tasks'[t] = task
         /\ \A u \in DOMAIN tasks : u # t => tasks'[u] = tasks[u]
BY Replaced DEF Moved

LEMMA StoresUnchanged ==
  ASSUME Typed, stores' = stores PROVE StoresGrow
BY GrownRefl DEF Typed, StoresGrow

LEMMA StoresUpdated ==
  ASSUME Typed, NEW t \in DOMAIN tasks, Kind(t) \in Writes, NEW store, Update(t, store),
         StoreOK(store), Grown(StoreOf(t), store)
  PROVE  /\ StoresGrow /\ Len(stores') = Len(stores) /\ DOMAIN stores' = DOMAIN stores
         /\ stores'[Handle(t).store] = store
         /\ \A s \in DOMAIN stores : s # Handle(t).store => stores'[s] = stores[s]
<1>1. Handle(t).store \in DOMAIN stores /\ stores \in Seq(Stores) /\ store \in Stores
  BY StoreFacts DEF Typed, StoreOK
<1>2. /\ stores' \in Seq(Stores) /\ Len(stores') = Len(stores) /\ DOMAIN stores' = DOMAIN stores
  BY <1>1, Replaced DEF Update
<1>3. /\ stores'[Handle(t).store] = store
      /\ \A s \in DOMAIN stores : s # Handle(t).store => stores'[s] = stores[s]
  BY <1>1 DEF Update
<1>4. \A s \in DOMAIN stores : Grown(stores[s], stores'[s])
  BY <1>1, <1>3, GrownRefl DEF StoreOf
<1>5. \A s \in DOMAIN stores' : StoreOK(stores'[s])
  BY <1>2, <1>3 DEF Typed
<1>6. Len(stores) <= Len(stores')
  BY <1>1, <1>2
<1> QED
  BY <1>2, <1>3, <1>4, <1>5, <1>6 DEF StoresGrow

LEMMA StoresAppended ==
  ASSUME Typed, NEW store, StoreOK(store), stores' = Append(stores, store)
  PROVE  /\ StoresGrow /\ Len(stores') = Len(stores) + 1
         /\ stores'[Len(stores) + 1] = store /\ Len(stores) + 1 \in DOMAIN stores'
         /\ \A s \in DOMAIN stores : s \in DOMAIN stores' /\ stores'[s] = stores[s]
<1>1. stores \in Seq(Stores) /\ store \in Stores /\ Len(stores) \in Nat
  BY DEF Typed, StoreOK
<1>2. /\ stores' \in Seq(Stores) /\ Len(stores') = Len(stores) + 1
      /\ DOMAIN stores = 1 .. Len(stores) /\ DOMAIN stores' = 1 .. Len(stores) + 1
      /\ stores'[Len(stores) + 1] = store
      /\ \A s \in 1 .. Len(stores) : stores'[s] = stores[s]
  BY <1>1
<1>3. \A s \in DOMAIN stores : Grown(stores[s], stores'[s])
  BY <1>1, <1>2, GrownRefl
<1>4. \A s \in DOMAIN stores' : StoreOK(stores'[s])
  <2> SUFFICES ASSUME NEW s \in 1 .. Len(stores) + 1 PROVE StoreOK(stores'[s])
    BY <1>2
  <2>1. CASE s = Len(stores) + 1
    BY <1>2, <2>1
  <2>2. CASE s \in 1 .. Len(stores)
    BY <1>2, <2>2 DEF Typed
  <2> QED
    BY <1>1, <2>1, <2>2
<1> QED
  BY <1>1, <1>2, <1>3, <1>4 DEF StoresGrow

LEMMA HandlesUnchanged ==
  ASSUME Typed, StoresGrow, handles' = handles PROVE HandlesStay
<1>1. DOMAIN stores \subseteq DOMAIN stores'
  <2>1. Len(stores) \in Nat /\ Len(stores') \in Nat /\ Len(stores) <= Len(stores')
        /\ DOMAIN stores = 1 .. Len(stores) /\ DOMAIN stores' = 1 .. Len(stores')
    BY DEF Typed, StoresGrow
  <2> QED
    BY <2>1
<1> QED
  BY <1>1 DEF Typed, HandlesStay

LEMMA HandlesSet ==
  ASSUME Typed, StoresGrow, NEW h \in DOMAIN handles, NEW handle \in Handles,
         handles' = [handles EXCEPT ![h] = handle], handle.store = handles[h].store
  PROVE  /\ HandlesStay /\ Len(handles') = Len(handles) /\ DOMAIN handles' = DOMAIN handles
         /\ handles'[h] = handle
         /\ \A g \in DOMAIN handles : g # h => handles'[g] = handles[g]
<1>1. handles \in Seq(Handles) /\ \A g \in DOMAIN handles : handles[g].store \in DOMAIN stores
  BY DEF Typed
<1>2. /\ handles' \in Seq(Handles) /\ Len(handles') = Len(handles)
      /\ DOMAIN handles' = DOMAIN handles
  BY <1>1, Replaced
<1>3. handles'[h] = handle /\ \A g \in DOMAIN handles : g # h => handles'[g] = handles[g]
  BY <1>1
<1>4. DOMAIN stores \subseteq DOMAIN stores'
  <2>1. Len(stores) \in Nat /\ Len(stores') \in Nat /\ Len(stores) <= Len(stores')
        /\ DOMAIN stores = 1 .. Len(stores) /\ DOMAIN stores' = 1 .. Len(stores')
    BY DEF Typed, StoresGrow
  <2> QED
    BY <2>1
<1>5. \A g \in DOMAIN handles : handles'[g].store = handles[g].store
  BY <1>3
<1> QED
  BY <1>1, <1>2, <1>3, <1>4, <1>5 DEF HandlesStay

\* A step that takes one task on and lets stores grow keeps the types.
LEMMA MoveTyped ==
  ASSUME Typed, StoresGrow, HandlesStay, RestTyped,
         NEW t \in DOMAIN tasks, NEW task, Moved(t, task),
         TaskGood(t, task, stores'[Handle(t).store])
  PROVE  Typed'
<1> USE DEF TaskGood
<1>1. /\ tasks' \in Seq(Tasks) /\ DOMAIN tasks' = DOMAIN tasks
      /\ tasks'[t] = task
      /\ \A u \in DOMAIN tasks : u # t => tasks'[u] = tasks[u]
  BY MovedFacts DEF Typed
<1>2. Len(handles) \in Nat /\ Len(handles') \in Nat /\ Len(handles) <= Len(handles')
      /\ DOMAIN handles = 1 .. Len(handles) /\ DOMAIN handles' = 1 .. Len(handles')
  BY DEF Typed, HandlesStay
<1>3. 0 .. Len(handles) \subseteq 0 .. Len(handles')
  BY <1>2
<1>4. TaskOK(t)'
  <2>1. task.handle \in 0 .. Len(handles')
    BY <1>3, TaskFacts DEF TaskOK
  <2>2. ASSUME task.kind \in Writes \cup Searches
        PROVE  /\ task.handle # 0
               /\ Sees(task, stores'[handles'[task.handle].store])
    <3>1. /\ Kind(t) = task.kind /\ task.handle = tasks[t].handle
          /\ Sees(task, stores'[Handle(t).store])
      BY <2>2
    <3>2. tasks[t].handle \in DOMAIN handles /\ tasks[t].handle # 0
      BY <2>2, <3>1, <1>2, StoreFacts
    <3>3. handles'[task.handle].store = Handle(t).store
      BY <3>1, <3>2 DEF HandlesStay, Handle
    <3> QED
      BY <3>1, <3>2, <3>3
  <2> QED
    BY <1>1, <2>1, <2>2 DEF TaskOK, Kind, StoreOf, Handle
<1>5. ASSUME NEW u \in DOMAIN tasks, u # t PROVE TaskOK(u)'
  <2>1. tasks'[u] = tasks[u] /\ TaskOK(u)
    BY <1>1, <1>5, TaskFacts
  <2>2. tasks[u].handle \in 0 .. Len(handles')
    BY <2>1, <1>3 DEF TaskOK
  <2>3. ASSUME Kind(u) \in Writes \cup Searches
        PROVE  /\ tasks[u].handle # 0
               /\ Sees(tasks[u], stores'[handles'[tasks[u].handle].store])
    <3>1. /\ tasks[u].handle \in DOMAIN handles /\ Handle(u).store \in DOMAIN stores
          /\ StoreOf(u) \in Stores /\ Sees(tasks[u], StoreOf(u))
      BY <2>3, StoreFacts
    <3>2. handles'[tasks[u].handle].store = Handle(u).store
      BY <3>1 DEF HandlesStay, Handle
    <3>3. Grown(StoreOf(u), stores'[Handle(u).store])
      BY <3>1 DEF StoresGrow, StoreOf
    <3>4. stores'[Handle(u).store] \in Stores
      <4>1. Handle(u).store \in DOMAIN stores'
        <5>1. Handle(u).store = handles'[tasks[u].handle].store
          BY <3>2
        <5>2. tasks[u].handle \in DOMAIN handles'
          BY <3>1, <1>2
        <5> QED
          BY <5>1, <5>2 DEF HandlesStay
      <4> QED
        BY <4>1 DEF StoresGrow, StoreOK
    <3>5. KindOK(tasks[u]) /\ ContextOK(tasks[u])
      BY TaskFacts
    <3>6. Sees(tasks[u], stores'[Handle(u).store])
      BY <3>1, <3>3, <3>4, <3>5, SeesStable
    <3> QED
      BY <1>2, <3>1, <3>2, <3>6
  <2> QED
    BY <2>1, <2>2, <2>3 DEF TaskOK, Kind, StoreOf, Handle
<1>6. PinnedOK'
  <2>1. pinned' = pinned /\ PinnedOK
    BY DEF RestTyped, Typed
  <2>2. pinned \in [handle : 0 .. Len(handles'), snapshot : Snapshots, rows : NodeRows]
    BY <1>3, <2>1 DEF PinnedOK
  <2>3. ASSUME pinned.handle # 0
        PROVE  PinOK(stores'[handles'[pinned.handle].store], pinned.snapshot, pinned.rows)
    <3> DEFINE s == handles[pinned.handle].store
    <3>1. pinned.handle \in DOMAIN handles /\ pinned.handle \in DOMAIN handles'
      BY <1>2, <2>1, <2>3 DEF PinnedOK
    <3>2. s \in DOMAIN stores /\ handles'[pinned.handle].store = s /\ s \in DOMAIN stores'
      BY <3>1 DEF Typed, HandlesStay
    <3>3. stores[s] \in Stores /\ stores'[s] \in Stores /\ Grown(stores[s], stores'[s])
      BY <3>2 DEF Typed, StoresGrow, StoreOK
    <3>4. PinOK(stores[s], pinned.snapshot, pinned.rows)
      BY <2>1, <2>3 DEF PinnedOK
    <3> HIDE DEF s
    <3> QED
      BY <3>2, <3>3, <3>4, PinStable
  <2> QED
    BY <2>1, <2>2, <2>3 DEF PinnedOK
<1> QED
  BY <1>1, <1>4, <1>5, <1>6 DEF Typed, StoresGrow, HandlesStay, RestTyped

\* A step that takes one task on and touches nothing else.
Quietly == UNCHANGED <<provider, entry, dir, stores, handles, pinned, orphaned>>

LEMMA RestUnchanged ==
  ASSUME Typed, UNCHANGED <<provider, entry, dir, pinned, orphaned>>, StoresGrow PROVE RestTyped
<1>1. 0 .. Len(stores) \subseteq 0 .. Len(stores')
  BY DEF Typed, StoresGrow
<1> QED
  BY <1>1 DEF Typed, RestTyped

LEMMA QuietTyped ==
  ASSUME Typed, Quietly, NEW t \in DOMAIN tasks, NEW task, Moved(t, task),
         TaskGood(t, task, StoreOf(t))
  PROVE  Typed'
<1>1. StoresGrow /\ HandlesStay
  BY StoresUnchanged, HandlesUnchanged DEF Quietly
<1>2. RestTyped
  BY <1>1, RestUnchanged DEF Quietly
<1>3. TaskGood(t, task, stores'[Handle(t).store])
  BY DEF Quietly, StoreOf
<1> QED
  BY <1>1, <1>2, <1>3, MoveTyped

\* A task that returns an error, or OK where no result is kept.
LEMMA DoneGood ==
  ASSUME Typed, NEW t \in DOMAIN tasks, tasks[t].pc # "settled", NEW code \in Codes, NEW store,
         Kind(t) = "search" => code # "STORAGE", Kind(t) = "searchPinned" => code # "OK"
  PROVE  TaskGood(t, MovedTask(t, "done", code, NoContext), store)
<1> DEFINE task == MovedTask(t, "done", code, NoContext)
<1>1. tasks[t] \in Tasks /\ KindOK(tasks[t])
  BY TaskFacts
<1>2. /\ task.kind = Kind(t) /\ task.handle = tasks[t].handle /\ task.arg = tasks[t].arg
      /\ task.pc = "done" /\ task.code = code /\ task.ctx = NoContext
  BY DEF MovedTask
<1>3. task \in Tasks
  BY <1>1 DEF Tasks, MovedTask, Kind, Pcs, Contexts
<1> HIDE DEF task
<1>4. KindOK(task) /\ ContextOK(task) /\ ResultOK(task)
  BY <1>1, <1>2 DEF KindOK, ContextOK, ResultOK, Kind
<1>5. Sees(task, store)
  BY <1>2 DEF Sees
<1>6. TaskGood(t, task, store)
  BY <1>2, <1>3, <1>4, <1>5 DEF TaskGood
<1> QED
  BY <1>6 DEF task

LEMMA ReturnTyped ==
  ASSUME Typed, Quietly, NEW t \in DOMAIN tasks, tasks[t].pc # "settled", NEW code \in Codes,
         Return(t, code),
         Kind(t) = "search" => code # "STORAGE", Kind(t) = "searchPinned" => code # "OK"
  PROVE  Typed'
<1>1. Moved(t, MovedTask(t, "done", code, NoContext))
  BY ReturnMoves
<1>2. TaskGood(t, MovedTask(t, "done", code, NoContext), StoreOf(t))
  BY DoneGood
<1> QED
  BY <1>1, <1>2, QuietTyped

\* What MovedTask is, field by field.
LEMMA MovedIs ==
  ASSUME Typed, NEW t \in DOMAIN tasks, NEW pc \in Pcs, NEW ctx \in Contexts
  PROVE  LET task == MovedTask(t, pc, tasks[t].code, ctx)
         IN  /\ task.kind = Kind(t) /\ task.handle = tasks[t].handle /\ task.arg = tasks[t].arg
             /\ task.pc = pc /\ task.code = tasks[t].code /\ task.ctx = ctx
             /\ task \in Tasks
BY TaskFacts DEF Tasks, MovedTask, Kind

LEMMA StartTyped ==
  ASSUME Typed, NEW t \in DOMAIN tasks, Start(t) PROVE Typed'
<1> DEFINE task == MovedTask(t, FirstPc(Kind(t)), tasks[t].code, tasks[t].ctx)
<1>1. Moved(t, task) /\ Quietly /\ tasks[t].pc = "queued"
  BY StartMoves DEF Start, Quietly, At
<1>2. /\ tasks[t] \in Tasks /\ KindOK(tasks[t]) /\ ContextOK(tasks[t]) /\ ResultOK(tasks[t])
      /\ tasks[t].ctx \in Contexts /\ Kind(t) \in Kinds
  BY TaskFacts DEF Tasks, Kind
<1>3. /\ Kind(t) \in Writes => FirstPc(Kind(t)) = "writer"
      /\ Kind(t) = "search" => FirstPc(Kind(t)) = "load"
      /\ Kind(t) = "searchPinned" => FirstPc(Kind(t)) = "read"
      /\ Kind(t) \in Factories \cup {"destroy"} => FirstPc(Kind(t)) = "compute"
  BY DEF FirstPc, Writes, Factories
<1>4. Kind(t) # "none"
  BY <1>1, <1>2 DEF KindOK, Kind
<1>5. FirstPc(Kind(t)) \in Pcs
  BY <1>2, <1>3, <1>4 DEF Kinds, Pcs, Searches
<1>6. /\ task.kind = Kind(t) /\ task.handle = tasks[t].handle /\ task.arg = tasks[t].arg
      /\ task.pc = FirstPc(Kind(t)) /\ task.code = tasks[t].code /\ task.ctx = tasks[t].ctx
      /\ task \in Tasks
  BY <1>2, <1>5, MovedIs
<1> HIDE DEF task
<1>7. KindOK(task)
  BY <1>1, <1>2, <1>3, <1>4, <1>6 DEF KindOK, Kinds, Kind, Writes, Searches, Factories
<1>8. ContextOK(task) /\ ResultOK(task)
  BY <1>1, <1>2, <1>3, <1>4, <1>6 DEF ContextOK, ResultOK, Kinds, Kind, Writes, Searches, Factories
<1>9. Kind(t) \in Writes \cup Searches => Sees(task, StoreOf(t))
  <2> SUFFICES ASSUME Kind(t) \in Writes \cup Searches PROVE Sees(task, StoreOf(t))
    OBVIOUS
  <2>1. Sees(tasks[t], StoreOf(t))
    BY StoreFacts
  <2> QED
    BY <2>1, <1>1, <1>3, <1>6 DEF Sees, Kind, Writes, Searches
<1>10. TaskGood(t, task, StoreOf(t))
  BY <1>6, <1>7, <1>8, <1>9 DEF TaskGood
<1> QED
  BY <1>1, <1>10, QuietTyped

LEMMA RefuseTyped ==
  ASSUME Typed, NEW t \in DOMAIN tasks,
         \/ RefuseAnonymous(t) \/ RefuseNamed(t) \/ RefuseFile(t) \/ RefuseDuplicates(t)
  PROVE  Typed'
<1>1. CASE RefuseAnonymous(t)
  BY <1>1, TaskFacts, ReturnTyped DEF RefuseAnonymous, Quietly, At, Codes, KindOK, Kind
<1>2. CASE RefuseNamed(t)
  <2>1. NamedRefusal(t) \in Codes \cup {"none"} /\ NamedRefusal(t) # "OK"
    BY DEF NamedRefusal, Codes
  <2>2. Kind(t) \in Factories \cup {"destroy"} /\ tasks[t].pc = "compute"
    BY <1>2, TaskFacts DEF RefuseNamed, At, KindOK, Kind
  <2> QED
    BY <1>2, <2>1, <2>2, ReturnTyped DEF RefuseNamed, Quietly, Factories
<1>3. CASE RefuseFile(t)
  <2>1. FileRefusal(t) \in Codes \cup {"none"} /\ FileRefusal(t) # "OK"
    BY DEF FileRefusal, Codes
  <2>2. Kind(t) \in Factories \cup {"destroy"} /\ tasks[t].pc = "flock"
    BY <1>3, TaskFacts DEF RefuseFile, At, KindOK, Kind
  <2> QED
    BY <1>3, <2>1, <2>2, ReturnTyped DEF RefuseFile, Quietly, Factories
<1>4. CASE RefuseDuplicates(t)
  BY <1>4, ReturnTyped DEF RefuseDuplicates, Quietly, At, Codes
<1> QED
  BY <1>1, <1>2, <1>3, <1>4

LEMMA ProbeTyped ==
  ASSUME Typed, NEW t \in DOMAIN tasks, Probe(t) PROVE Typed'
<1>1. /\ tasks[t].pc = "compute" /\ Quietly /\ Kind(t) \in Factories \cup {"destroy"}
      /\ KindOK(tasks[t]) /\ ResultOK(tasks[t])
  BY TaskFacts DEF Probe, Quietly, At, KindOK, Kind
<1>2. FileIntent(t) \in Intents \cup Codes /\ FileIntent(t) # "OK"
      /\ (FileIntent(t) \in Intents => (FileIntent(t) = "destroy" <=> Kind(t) = "destroy"))
  BY <1>1 DEF FileIntent, Factories, Intents, Codes
<1>3. CASE FileIntent(t) \in Intents
  <2> DEFINE ctx == [intent |-> FileIntent(t)]
             task == MovedTask(t, "lockfile", tasks[t].code, ctx)
  <2>1. Moved(t, task)
    BY <1>3, GotoMoves DEF Probe, Intents
  <2>2. ctx \in [intent : Intents] /\ ctx.intent = FileIntent(t)
    BY <1>3
  <2>3. ctx \in Contexts
    BY <2>2 DEF Contexts
  <2> HIDE DEF ctx
  <2>4. /\ task.kind = Kind(t) /\ task.handle = tasks[t].handle /\ task.arg = tasks[t].arg
        /\ task.pc = "lockfile" /\ task.code = tasks[t].code /\ task.ctx = ctx
        /\ task \in Tasks
    BY <2>3, MovedIs DEF Pcs
  <2> HIDE DEF task
  <2>5. KindOK(task) /\ ContextOK(task) /\ ResultOK(task)
    BY <1>1, <1>2, <2>2, <2>4 DEF KindOK, ContextOK, ResultOK, Kind, Factories
  <2>6. TaskGood(t, task, StoreOf(t))
    BY <1>1, <2>4, <2>5 DEF TaskGood, Factories, Writes, Searches
  <2> QED
    BY <1>1, <2>1, <2>6, QuietTyped
<1>4. CASE FileIntent(t) \notin Intents
  BY <1>1, <1>2, <1>4, ReturnTyped DEF Probe, Intents, Factories
<1> QED
  BY <1>3, <1>4

LEMMA LoadTyped ==
  ASSUME Typed, NEW t \in DOMAIN tasks, LoadForBuild(t) PROVE Typed'
<1> DEFINE ctx == [base |-> tasks[t].ctx.base, version |-> StoreOf(t).version]
           task == MovedTask(t, "swap", tasks[t].code, ctx)
<1>1. /\ Moved(t, task) /\ Quietly /\ tasks[t].pc = "load" /\ Kind(t) = "build"
  BY GotoMoves DEF LoadForBuild, Quietly, At
<1>2. KindOK(tasks[t]) /\ ContextOK(tasks[t]) /\ ResultOK(tasks[t])
  BY TaskFacts
<1>3. StoreOf(t) \in Stores /\ Sees(tasks[t], StoreOf(t))
  BY <1>1, StoreFacts DEF Writes
<1>4. tasks[t].ctx \in [base : Nat] /\ BuiltOK(StoreOf(t), tasks[t].ctx.base, tasks[t].arg)
  BY <1>1, <1>2, <1>3 DEF ContextOK, Sees, Kind
<1>5. ctx \in [base : Nat, version : Nat] /\ ctx.base = tasks[t].ctx.base
  BY <1>3, <1>4 DEF Stores
<1> HIDE DEF ctx
<1>6. ctx \in Contexts
  BY <1>5 DEF Contexts
<1>7. /\ task.kind = Kind(t) /\ task.handle = tasks[t].handle /\ task.arg = tasks[t].arg
      /\ task.pc = "swap" /\ task.code = tasks[t].code /\ task.ctx = ctx
      /\ task \in Tasks
  BY <1>6, MovedIs DEF Pcs
<1> HIDE DEF task
<1>8. KindOK(task) /\ ContextOK(task) /\ ResultOK(task)
  BY <1>1, <1>2, <1>5, <1>7 DEF KindOK, ContextOK, ResultOK, Kind
<1>9. Sees(task, StoreOf(t))
  BY <1>1, <1>4, <1>5, <1>7 DEF Sees
<1>10. TaskGood(t, task, StoreOf(t))
  BY <1>7, <1>8, <1>9 DEF TaskGood
<1> QED
  BY <1>1, <1>10, QuietTyped

LEMMA LoadSnapshotTyped ==
  ASSUME Typed, NEW t \in DOMAIN tasks, LoadSnapshot(t) PROVE Typed'
<1> DEFINE ctx == [snapshot |-> Snapshot(StoreOf(t))]
           task == MovedTask(t, "read", tasks[t].code, ctx)
<1>1. /\ Moved(t, task) /\ Quietly /\ tasks[t].pc = "load" /\ Kind(t) = "search"
  BY GotoMoves DEF LoadSnapshot, Quietly, At
<1>2. KindOK(tasks[t]) /\ ResultOK(tasks[t])
  BY TaskFacts
<1>3. SeenOK(StoreOf(t), Snapshot(StoreOf(t)))
  BY <1>1, StoreFacts, CurrentSeen DEF Searches
<1>4. ctx \in Reads /\ ctx.snapshot = Snapshot(StoreOf(t))
  BY <1>3 DEF SeenOK, Reads
<1> HIDE DEF ctx
<1>5. ctx \in Contexts
  BY <1>4 DEF Contexts
<1>6. /\ task.kind = Kind(t) /\ task.handle = tasks[t].handle /\ task.arg = tasks[t].arg
      /\ task.pc = "read" /\ task.code = tasks[t].code /\ task.ctx = ctx
      /\ task \in Tasks
  BY <1>5, MovedIs DEF Pcs
<1> HIDE DEF task
<1>7. KindOK(task) /\ ContextOK(task) /\ ResultOK(task)
  BY <1>1, <1>2, <1>4, <1>6 DEF KindOK, ContextOK, ResultOK, Kind, Searches
<1>8. Sees(task, StoreOf(t))
  BY <1>1, <1>3, <1>4, <1>6 DEF Sees
<1>9. TaskGood(t, task, StoreOf(t))
  BY <1>6, <1>7, <1>8 DEF TaskGood
<1> QED
  BY <1>1, <1>9, QuietTyped

LEMMA ReadTyped ==
  ASSUME Typed, NEW t \in DOMAIN tasks, Read(t) PROVE Typed'
<1> DEFINE ctx == ReadResult(t)
           task == MovedTask(t, "done", "OK", ctx)
<1>1. /\ Moved(t, task) /\ Quietly /\ tasks[t].pc = "read"
      /\ Resolves(StoreOf(t), tasks[t].ctx.snapshot)
  BY ReadMoves DEF Read, Quietly, At
<1>2. tasks[t] \in Tasks /\ KindOK(tasks[t]) /\ ContextOK(tasks[t]) /\ Kind(t) \in Searches
  BY <1>1, TaskFacts DEF KindOK, Kind
<1>3. StoreOK(StoreOf(t)) /\ Sees(tasks[t], StoreOf(t))
  BY <1>2, StoreFacts
<1>4. tasks[t].ctx.snapshot \in Snapshots
  BY <1>1, <1>2 DEF ContextOK, Kind, Searches, Reads, PinnedReads
<1>5. Rows(StoreOf(t), tasks[t].ctx.snapshot) \in NodeRows
  BY <1>1, <1>3, <1>4, RowsTyped
<1>6. Kind(t) = "searchPinned" => /\ tasks[t].ctx.taken \in NodeRows
                                  /\ Rows(StoreOf(t), tasks[t].ctx.snapshot) = tasks[t].ctx.taken
  BY <1>1, <1>2, <1>3 DEF ContextOK, Kind, PinnedReads, Sees, PinOK
<1>7. ctx \in Results /\ ctx.rows = ctx.taken
  BY <1>5, <1>6 DEF ReadResult, Results
<1> HIDE DEF ctx
<1>8. ctx \in Contexts
  BY <1>7 DEF Contexts
<1>9. /\ task.kind = Kind(t) /\ task.handle = tasks[t].handle /\ task.arg = tasks[t].arg
      /\ task.pc = "done" /\ task.code = "OK" /\ task.ctx = ctx
  BY DEF MovedTask
<1>10. task \in Tasks
  BY <1>2, <1>8 DEF MovedTask, Tasks, Kind, Pcs, Codes
<1> HIDE DEF task
<1>11. KindOK(task) /\ ContextOK(task) /\ ResultOK(task)
  BY <1>1, <1>2, <1>7, <1>9 DEF KindOK, ContextOK, ResultOK, Kind, Searches
<1>12. Sees(task, StoreOf(t))
  BY <1>9 DEF Sees
<1>13. TaskGood(t, task, StoreOf(t))
  BY <1>9, <1>10, <1>11, <1>12 DEF TaskGood
<1> QED
  BY <1>1, <1>13, QuietTyped

\* A snapshot that no longer resolves is not the current one.
LEMMA ReadFailsTyped ==
  ASSUME Typed, NEW t \in DOMAIN tasks, ReadFails(t) PROVE Typed'
<1> DEFINE task == MovedTask(t, "classify", tasks[t].code, tasks[t].ctx)
<1>1. /\ Moved(t, task) /\ Quietly /\ tasks[t].pc = "read" /\ Kind(t) = "search"
      /\ ~Resolves(StoreOf(t), tasks[t].ctx.snapshot)
  BY GotoMoves DEF ReadFails, Quietly, At
<1>2. tasks[t] \in Tasks /\ KindOK(tasks[t]) /\ ContextOK(tasks[t]) /\ ResultOK(tasks[t])
  BY TaskFacts
<1>3. StoreOK(StoreOf(t)) /\ Sees(tasks[t], StoreOf(t))
  BY <1>1, StoreFacts DEF Searches
<1>4. tasks[t].ctx \in Reads /\ tasks[t].ctx \in Contexts
  BY <1>1, <1>2 DEF ContextOK, Kind, Tasks
<1>5. SeenOK(StoreOf(t), tasks[t].ctx.snapshot)
  BY <1>1, <1>3 DEF Sees, Kind
<1>6. tasks[t].ctx.snapshot.version < StoreOf(t).version
  <2>1. tasks[t].ctx.snapshot # Snapshot(StoreOf(t))
    BY <1>1, <1>3, CurrentSeen
  <2>2. tasks[t].ctx.snapshot.version \in Nat /\ StoreOf(t).version \in Nat
    BY <1>3, <1>5 DEF SeenOK, Snapshots, StoreOK, Stores
  <2> QED
    BY <1>5, <2>1, <2>2 DEF SeenOK
<1>7. /\ task.kind = Kind(t) /\ task.handle = tasks[t].handle /\ task.arg = tasks[t].arg
      /\ task.pc = "classify" /\ task.code = tasks[t].code /\ task.ctx = tasks[t].ctx
      /\ task \in Tasks
  BY <1>4, MovedIs DEF Pcs
<1> HIDE DEF task
<1>8. KindOK(task) /\ ContextOK(task) /\ ResultOK(task)
  BY <1>1, <1>2, <1>4, <1>7 DEF KindOK, ContextOK, ResultOK, Kind
<1>9. Sees(task, StoreOf(t))
  BY <1>1, <1>5, <1>6, <1>7 DEF Sees
<1>10. TaskGood(t, task, StoreOf(t))
  BY <1>7, <1>8, <1>9 DEF TaskGood
<1> QED
  BY <1>1, <1>10, QuietTyped

LEMMA SearchReturnsTyped ==
  ASSUME Typed, NEW t \in DOMAIN tasks, ReadPinnedFails(t) \/ Classify(t) PROVE Typed'
<1>1. CASE ReadPinnedFails(t)
  BY <1>1, ReturnTyped DEF ReadPinnedFails, Quietly, At, Codes
<1>2. CASE Classify(t)
  <2>1. tasks[t].pc = "classify" /\ Kind(t) = "search" /\ Quietly
    BY <1>2, TaskFacts DEF Classify, At, Quietly, KindOK, Kind
  <2>2. Sees(tasks[t], StoreOf(t)) /\ StoreOf(t) \in Stores
    BY <2>1, StoreFacts DEF Searches
  <2>3. StoreOf(t).version > tasks[t].ctx.snapshot.version
    <3>1. tasks[t].ctx.snapshot.version < StoreOf(t).version
      BY <2>1, <2>2 DEF Sees
    <3>2. tasks[t].ctx.snapshot.version \in Nat
      BY <2>1, TaskFacts DEF ContextOK, Kind, Reads, Snapshots
    <3> QED
      BY <2>2, <3>1, <3>2 DEF Stores
  <2>4. Return(t, "SNAPSHOT_EXPIRED")
    BY <1>2, <2>3 DEF Classify
  <2> QED
    BY <2>1, <2>4, ReturnTyped DEF Codes
<1> QED
  BY <1>1, <1>2

LEMMA OpenLockFileTyped ==
  ASSUME Typed, NEW t \in DOMAIN tasks, OpenLockFile(t) PROVE Typed'
<1> DEFINE intent == tasks[t].ctx.intent
           inode == IF dir.inode = 0 THEN dir.inodes + 1 ELSE dir.inode
<1>1. /\ tasks[t].pc = "lockfile" /\ Kind(t) \in Factories \cup {"destroy"}
      /\ KindOK(tasks[t]) /\ ContextOK(tasks[t]) /\ ResultOK(tasks[t])
      /\ UNCHANGED <<provider, entry, stores, handles, pinned, orphaned>>
  BY TaskFacts DEF OpenLockFile, At, KindOK, Kind
<1>2. tasks[t].ctx \in [intent : Intents] /\ intent \in Intents
  BY <1>1 DEF ContextOK
<1>3. CASE intent # "create" /\ ~dir.present
  <2>1. Quietly
    BY <1>1, <1>3 DEF OpenLockFile, Quietly
  <2>2. \E code \in Codes \ {"OK"} : Return(t, code)
    BY <1>3 DEF OpenLockFile, Codes
  <2> QED
    BY <1>1, <2>1, <2>2, ReturnTyped DEF Factories
<1>4. CASE ~(intent # "create" /\ ~dir.present)
  <2> DEFINE ctx == [intent |-> intent, inode |-> inode]
             task == MovedTask(t, "flock", tasks[t].code, ctx)
  <2>1. /\ dir' = [dir EXCEPT !.present = TRUE, !.inode = inode, !.inodes = Larger(@, inode)]
        /\ Goto(t, "flock", ctx)
    BY <1>4 DEF OpenLockFile
  <2>2. dir \in [present : BOOLEAN, inode : Nat, index : 0 .. Len(stores), inodes : Nat]
    BY DEF Typed
  <2>3. inode \in Nat /\ Larger(dir.inodes, inode) \in Nat
    BY <2>2 DEF Larger
  <2>4. dir' \in [present : BOOLEAN, inode : Nat, index : 0 .. Len(stores), inodes : Nat]
    <3> HIDE DEF inode
    <3> DEFINE top == Larger(dir.inodes, inode)
    <3>1. dir' = [dir EXCEPT !.present = TRUE, !.inode = inode, !.inodes = top]
      BY <2>1
    <3> HIDE DEF top
    <3>2. dir' = [present |-> TRUE, inode |-> inode, index |-> dir.index, inodes |-> top]
      BY <2>2, <3>1
    <3> QED
      BY <2>2, <2>3, <3>2 DEF top
  <2>5. Moved(t, task)
    BY <2>1, GotoMoves
  <2>6. ctx \in Lockfiles /\ ctx.intent = intent
    BY <1>2, <2>3 DEF Lockfiles
  <2> HIDE DEF ctx
  <2>7. ctx \in Contexts
    BY <2>6 DEF Contexts
  <2>8. /\ task.kind = Kind(t) /\ task.handle = tasks[t].handle /\ task.arg = tasks[t].arg
        /\ task.pc = "flock" /\ task.code = tasks[t].code /\ task.ctx = ctx
        /\ task \in Tasks
    BY <2>7, MovedIs DEF Pcs
  <2> HIDE DEF task, intent
  <2>9. KindOK(task) /\ ContextOK(task) /\ ResultOK(task)
    <3>1. tasks[t].ctx.intent = "destroy" <=> Kind(t) = "destroy"
      BY <1>1 DEF ContextOK, Kind
    <3>2. KindOK(task)
      BY <1>1, <2>8 DEF KindOK, Kind, Factories
    <3>3. ContextOK(task)
      BY <1>1, <3>1, <2>6, <2>8 DEF ContextOK, Kind, Factories, intent
    <3>4. ResultOK(task)
      BY <1>1, <2>8 DEF ResultOK, Kind, Factories
    <3> QED
      BY <3>2, <3>3, <3>4
  <2>10. TaskGood(t, task, stores'[Handle(t).store])
    BY <1>1, <2>8, <2>9 DEF TaskGood, Factories, Writes, Searches
  <2>11. StoresGrow /\ HandlesStay
    BY <1>1, StoresUnchanged, HandlesUnchanged
  <2>12. RestTyped
    BY <1>1, <2>4 DEF Typed, RestTyped
  <2> QED
    BY <2>5, <2>10, <2>11, <2>12, MoveTyped
<1> QED
  BY <1>3, <1>4

LEMMA DestroyLockTyped ==
  ASSUME Typed, NEW t \in DOMAIN tasks, DestroyLock(t) \/ DestroyFiles(t) PROVE Typed'
<1>1. PICK pc \in {"remove", "rmdir"} :
        Goto(t, pc, tasks[t].ctx) /\ (pc = "remove" => Quietly /\ tasks[t].pc = "flock")
                                  /\ (pc = "rmdir" => DestroyFiles(t))
  BY DEF DestroyLock, DestroyFiles, Quietly, AtFlock, At
<1> DEFINE task == MovedTask(t, pc, tasks[t].code, tasks[t].ctx)
<1>2. /\ KindOK(tasks[t]) /\ ContextOK(tasks[t]) /\ ResultOK(tasks[t]) /\ tasks[t].ctx \in Contexts
      /\ tasks[t].pc \in {"flock", "remove"} /\ Kind(t) = "destroy" /\ tasks[t].ctx \in Lockfiles
  <2>1. tasks[t] \in Tasks /\ KindOK(tasks[t]) /\ ContextOK(tasks[t]) /\ ResultOK(tasks[t])
    BY TaskFacts
  <2>2. CASE DestroyLock(t)
    BY <2>1, <2>2 DEF DestroyLock, AtFlock, At, ContextOK, Tasks, Kind
  <2>3. CASE DestroyFiles(t)
    BY <2>1, <2>3 DEF DestroyFiles, At, ContextOK, KindOK, Tasks, Kind
  <2> QED
    BY <2>2, <2>3
<1>3. Moved(t, task)
  BY <1>1, GotoMoves
<1>4. /\ task.kind = Kind(t) /\ task.handle = tasks[t].handle /\ task.arg = tasks[t].arg
      /\ task.pc = pc /\ task.code = tasks[t].code /\ task.ctx = tasks[t].ctx
      /\ task \in Tasks
  BY <1>2, MovedIs DEF Pcs
<1> HIDE DEF task
<1>5. KindOK(task) /\ ContextOK(task) /\ ResultOK(task)
  BY <1>2, <1>4 DEF KindOK, ContextOK, ResultOK, Kind
<1>6. ASSUME NEW store PROVE TaskGood(t, task, store)
  BY <1>2, <1>4, <1>5 DEF TaskGood, Writes, Searches
<1>7. CASE pc = "remove"
  BY <1>1, <1>3, <1>6, <1>7, QuietTyped
<1>8. CASE pc = "rmdir"
  <2>1. /\ UNCHANGED <<provider, entry, stores, handles, pinned>>
        /\ dir' = [dir EXCEPT !.index = 0, !.inode = 0] /\ orphaned' \in BOOLEAN
    BY <1>1, <1>8 DEF DestroyFiles, Typed
  <2>2. dir' \in [present : BOOLEAN, inode : Nat, index : 0 .. Len(stores), inodes : Nat]
    <3>1. dir \in [present : BOOLEAN, inode : Nat, index : 0 .. Len(stores), inodes : Nat]
      BY DEF Typed
    <3>2. dir' = [present |-> dir.present, inode |-> 0, index |-> 0, inodes |-> dir.inodes]
      BY <2>1, <3>1
    <3>3. 0 \in 0 .. Len(stores)
      BY DEF Typed
    <3> QED
      BY <3>1, <3>2, <3>3
  <2>3. StoresGrow /\ HandlesStay
    BY <2>1, StoresUnchanged, HandlesUnchanged
  <2>4. RestTyped
    BY <2>1, <2>2 DEF Typed, RestTyped
  <2> QED
    BY <1>3, <1>6, <2>3, <2>4, MoveTyped
<1> QED
  BY <1>7, <1>8

LEMMA DestroyedTyped ==
  ASSUME Typed, NEW t \in DOMAIN tasks, DestroyNamed(t) \/ DestroyDir(t) PROVE Typed'
<1>1. /\ UNCHANGED <<provider, stores, handles, pinned, orphaned>>
      /\ tasks[t].pc # "settled" /\ Kind(t) = "destroy" /\ \E code \in Codes : Return(t, code)
  BY TaskFacts DEF DestroyNamed, DestroyDir, At, KindOK, Kind, Codes
<1>2. StoresGrow /\ HandlesStay
  BY <1>1, StoresUnchanged, HandlesUnchanged
<1>3. RestTyped
  <2>1. 0 \in 0 .. Len(stores)
    BY DEF Typed
  <2>2. CASE DestroyNamed(t)
    BY <1>1, <2>1, <2>2 DEF DestroyNamed, NoEntry, Typed, RestTyped
  <2>3. CASE DestroyDir(t)
    <3>1. dir \in [present : BOOLEAN, inode : Nat, index : 0 .. Len(stores), inodes : Nat]
      BY DEF Typed
    <3>2. dir' = dir \/ dir' = [dir EXCEPT !.present = FALSE]
      BY <2>3 DEF DestroyDir
    <3>3. dir' \in [present : BOOLEAN, inode : Nat, index : 0 .. Len(stores), inodes : Nat]
      BY <3>1, <3>2
    <3> QED
      BY <1>1, <2>3, <3>3 DEF DestroyDir, Typed, RestTyped
  <2> QED
    BY <2>2, <2>3
<1>4. PICK code \in Codes : Return(t, code)
  BY <1>1
<1>5. Moved(t, MovedTask(t, "done", code, NoContext))
  BY <1>4, ReturnMoves
<1>6. TaskGood(t, MovedTask(t, "done", code, NoContext), stores'[Handle(t).store])
  BY <1>1, DoneGood
<1> QED
  BY <1>2, <1>3, <1>5, <1>6, MoveTyped

------------------------------------------------------------------------------
(* New handles *)

LEMMA NewStoreOK == StoreOK(NewStore)
<1>1. << >> \in [1 .. 0 -> Ids] /\ << >> \in Seq(Seq(Ids)) /\ << >> \in [1 .. 0 -> Drafts]
  OBVIOUS
<1>2. 1 .. 0 \in UNION {SUBSET (0 .. b) : b \in Nat} /\ 1 .. 0 \in SUBSET Nat
  OBVIOUS
<1>3. << >> \in NodeRows /\ << >> \in Frozen
  BY <1>1, <1>2 DEF NodeRows, Frozen
<1>4. EmptyDraft \in Drafts
  BY <1>3 DEF EmptyDraft, Drafts
<1>5. NewStore \in Stores
  BY <1>1, <1>3, <1>4 DEF NewStore, Stores
<1> QED
  BY <1>5 DEF NewStore, StoreOK, BaseRows

LEMMA ReloadedOK ==
  ASSUME NEW store, StoreOK(store) PROVE StoreOK(Reloaded(store))
<1>1. EmptyDraft \in Drafts
  BY NewStoreOK DEF StoreOK, Stores, NewStore
<1>2. store \in Stores
  BY DEF StoreOK
<1>3. Reloaded(store) =
        [version |-> store.version, base |-> store.base, delta |-> store.delta,
         maxId |-> store.maxId, draft |-> EmptyDraft, segments |-> store.segments,
         frozen |-> store.frozen, nextDelta |-> store.nextDelta]
  <2>1. store = [version |-> store.version, base |-> store.base, delta |-> store.delta,
                 maxId |-> store.maxId, draft |-> store.draft, segments |-> store.segments,
                 frozen |-> store.frozen, nextDelta |-> store.nextDelta]
    BY <1>2 DEF Stores
  <2> QED
    BY <2>1 DEF Reloaded
<1>4. Reloaded(store) \in Stores
  BY <1>1, <1>2, <1>3 DEF Stores
<1> QED
  BY <1>3, <1>4 DEF StoreOK, BaseRows

\* rebuild_node_ids maps external ids to node ids.
LEMMA RebuildTyped ==
  ASSUME NEW store, StoreOK(store) PROVE RebuildNodeIds(store) \in IdMaps
<1> DEFINE rows == Current(store)
           ids == {rows[n] : n \in DOMAIN rows \cap 1 .. store.maxId}
           nodes(x) == {n \in DOMAIN rows : rows[n] = x}
           node(x) == CHOOSE n \in DOMAIN rows :
                        rows[n] = x /\ \A m \in DOMAIN rows : rows[m] = x => m <= n
<1>1. rows \in NodeRows
  BY CurrentSeen, RowsTyped DEF Current, SeenOK
<1>2. PICK b \in Nat : DOMAIN rows \subseteq 0 .. b /\ rows \in [DOMAIN rows -> Ids]
  BY <1>1 DEF NodeRows
<1>3. ids \subseteq Ids
  BY <1>2
<1>4. ASSUME NEW x \in ids PROVE node(x) \in Nat
  <2>1. nodes(x) \subseteq 0 .. b /\ nodes(x) # {}
    BY <1>2
  <2>2. PICK n \in nodes(x) : \A m \in nodes(x) : m <= n
    <3> HIDE DEF nodes
    <3> QED
      BY <2>1, LargestExists
  <2>3. \E c \in DOMAIN rows : rows[c] = x /\ \A m \in DOMAIN rows : rows[m] = x => m <= c
    BY <2>2
  <2>4. node(x) \in DOMAIN rows
    BY <2>3
  <2> QED
    BY <1>2, <2>4
<1>5. RebuildNodeIds(store) = [x \in ids |-> node(x)]
  BY DEF RebuildNodeIds
<1>6. RebuildNodeIds(store) \in [ids -> Nat]
  <2> HIDE DEF ids, node
  <2> QED
    BY <1>4, <1>5
<1> HIDE DEF ids
<1> QED
  BY <1>3, <1>6 DEF IdMaps

LEMMA NewHandleTyped ==
  ASSUME Typed, NEW s \in Nat, NEW store, StoreOK(store), NEW inode \in Nat
  PROVE  NewHandle(s, store, inode) \in Handles
<1>1. store.maxId \in Nat /\ store.maxId + 1 \in Nat \ {0}
  BY DEF StoreOK, Stores
<1>2. RebuildNodeIds(store) \in IdMaps
  BY RebuildTyped
<1> QED
  BY <1>1, <1>2 DEF NewHandle, Handles

LEMMA ProduceTyped ==
  ASSUME Typed, StoresGrow, RestTyped, NEW t \in DOMAIN tasks, tasks[t].pc # "settled",
         Kind(t) \in Factories, NEW s \in DOMAIN stores', NEW store, StoreOK(store),
         NEW inode \in Nat, Produce(t, s, store, inode)
  PROVE  Typed'
<1> DEFINE handle == NewHandle(s, store, inode)
           task == MadeTask(t)
<1>1. Moved(t, task) /\ handles' = Append(handles, handle)
  BY ProduceMoves
<1>2. handle \in Handles /\ handle.store = s
  <2>1. s \in Nat
    BY DEF StoresGrow
  <2> QED
    BY <2>1, NewHandleTyped DEF NewHandle
<1> HIDE DEF handle
<1>3. handles \in Seq(Handles) /\ Len(handles) \in Nat
      /\ \A h \in DOMAIN handles : handles[h].store \in DOMAIN stores
  BY DEF Typed
<1>4. /\ handles' \in Seq(Handles) /\ Len(handles') = Len(handles) + 1
      /\ DOMAIN handles = 1 .. Len(handles) /\ DOMAIN handles' = 1 .. Len(handles) + 1
      /\ handles'[Len(handles) + 1] = handle
      /\ \A h \in 1 .. Len(handles) : handles'[h] = handles[h]
  BY <1>1, <1>2, <1>3
<1>5. DOMAIN stores \subseteq DOMAIN stores'
  <2>1. Len(stores) \in Nat /\ Len(stores') \in Nat /\ Len(stores) <= Len(stores')
        /\ DOMAIN stores = 1 .. Len(stores) /\ DOMAIN stores' = 1 .. Len(stores')
    BY DEF Typed, StoresGrow
  <2> QED
    BY <2>1
<1>6. \A h \in DOMAIN handles' : handles'[h].store \in DOMAIN stores'
  <2> SUFFICES ASSUME NEW h \in 1 .. Len(handles) + 1 PROVE handles'[h].store \in DOMAIN stores'
    BY <1>4
  <2>1. CASE h = Len(handles) + 1
    BY <1>2, <1>4, <2>1
  <2>2. CASE h \in 1 .. Len(handles)
    BY <1>3, <1>4, <1>5, <2>2
  <2> QED
    BY <1>3, <2>1, <2>2
<1>7. HandlesStay
  BY <1>3, <1>4, <1>6 DEF HandlesStay
<1>8. tasks[t] \in Tasks
  BY TaskFacts
<1>9. /\ task.kind = Kind(t) /\ task.handle = Len(handles) + 1 /\ task.arg = tasks[t].arg
      /\ task.pc = "done" /\ task.code = "OK" /\ task.ctx = NoContext
  BY DEF MadeTask
<1>10. task \in Tasks
  <2>1. tasks[t].kind \in Kinds /\ tasks[t].arg \in BOOLEAN \cup Ids \cup Seq(Ids)
    BY <1>8 DEF Tasks
  <2>2. Len(handles) + 1 \in Nat /\ "done" \in Pcs /\ "OK" \in Codes /\ NoContext \in Contexts
    BY <1>3 DEF Pcs, Codes, Contexts
  <2> QED
    BY <2>1, <2>2 DEF MadeTask, Tasks, Kind
<1> HIDE DEF task
<1>11. KindOK(task) /\ ContextOK(task) /\ ResultOK(task)
  BY <1>9 DEF KindOK, ContextOK, ResultOK, Factories
<1>12. TaskGood(t, task, stores'[Handle(t).store])
  BY <1>3, <1>4, <1>9, <1>10, <1>11 DEF TaskGood, Factories, Writes, Searches
<1> QED
  BY <1>1, <1>7, <1>12, MoveTyped

LEMMA CreateTyped ==
  ASSUME Typed, NEW t \in DOMAIN tasks, CreateAnonymous(t) \/ CreateNamed(t) \/ CreateFile(t)
  PROVE  Typed'
<1>1. /\ stores' = Append(stores, NewStore) /\ UNCHANGED <<provider, pinned, orphaned>>
      /\ \E inode \in Nat : Produce(t, Len(stores) + 1, NewStore, inode)
      /\ tasks[t].pc # "settled" /\ Kind(t) \in Factories
  <2>1. CASE CreateAnonymous(t)
    BY <2>1 DEF CreateAnonymous, At, Factories
  <2>2. CASE CreateNamed(t)
    BY <2>2 DEF CreateNamed, At, Factories
  <2>3. CASE CreateFile(t)
    <3>1. KindOK(tasks[t]) /\ ContextOK(tasks[t])
      BY TaskFacts
    <3>2. tasks[t].ctx \in Lockfiles /\ Kind(t) \in Factories \cup {"destroy"}
      BY <2>3, <3>1 DEF CreateFile, AtFlock, At, ContextOK, KindOK, Kind
    <3>3. Kind(t) # "destroy"
      <4> SUFFICES ASSUME Kind(t) = "destroy" PROVE FALSE
        OBVIOUS
      <4>1. tasks[t].ctx.intent = "destroy"
        BY <3>1, <2>3 DEF ContextOK, Kind, CreateFile, AtFlock, At
      <4> QED
        BY <4>1, <2>3 DEF CreateFile, AtFlock
    <3> QED
      BY <2>3, <3>2, <3>3 DEF CreateFile, AtFlock, At, Lockfiles
  <2> QED
    BY <2>1, <2>2, <2>3
<1>2. /\ StoresGrow /\ Len(stores') = Len(stores) + 1 /\ Len(stores) + 1 \in DOMAIN stores'
  BY <1>1, NewStoreOK, StoresAppended
<1>3. RestTyped
  <2>1. 0 .. Len(stores) \subseteq 0 .. Len(stores') /\ Len(stores) + 1 \in 0 .. Len(stores')
    BY <1>2 DEF Typed, StoresGrow
  <2>2. CASE CreateAnonymous(t)
    BY <2>1, <2>2 DEF CreateAnonymous, Typed, RestTyped
  <2>3. CASE CreateNamed(t)
    BY <2>1, <2>3 DEF CreateNamed, Typed, RestTyped
  <2>4. CASE CreateFile(t)
    <3>1. dir \in [present : BOOLEAN, inode : Nat, index : 0 .. Len(stores), inodes : Nat]
      BY DEF Typed
    <3>2. dir' = [dir EXCEPT !.index = Len(stores) + 1]
      BY <2>4 DEF CreateFile
    <3>3. dir' = [present |-> dir.present, inode |-> dir.inode, index |-> Len(stores) + 1,
                  inodes |-> dir.inodes]
      BY <3>1, <3>2
    <3>4. dir' \in [present : BOOLEAN, inode : Nat, index : 0 .. Len(stores'), inodes : Nat]
      BY <2>1, <3>1, <3>3
    <3> QED
      BY <2>1, <2>4, <3>4 DEF CreateFile, Typed, RestTyped
  <2> QED
    BY <2>2, <2>3, <2>4
<1>4. PICK inode \in Nat : Produce(t, Len(stores) + 1, NewStore, inode)
  BY <1>1
<1> QED
  BY <1>1, <1>2, <1>3, <1>4, NewStoreOK, ProduceTyped

LEMMA OpenFileTyped ==
  ASSUME Typed, NEW t \in DOMAIN tasks, OpenFile(t) PROVE Typed'
<1> DEFINE store == Reloaded(stores[dir.index])
<1>1. /\ stores' = Append(stores, store) /\ UNCHANGED <<provider, entry, pinned, orphaned>>
      /\ Produce(t, Len(stores) + 1, stores'[Len(stores')], tasks[t].ctx.inode)
      /\ tasks[t].pc = "flock" /\ tasks[t].ctx.intent = "open" /\ dir.index # 0
      /\ dir' = [dir EXCEPT !.index = Len(stores) + 1]
  BY DEF OpenFile, AtFlock, At, Exists
<1>2. KindOK(tasks[t]) /\ ContextOK(tasks[t])
  BY TaskFacts
<1>3. tasks[t].ctx.inode \in Nat /\ Kind(t) \in Factories \cup {"destroy"}
  BY <1>1, <1>2 DEF ContextOK, KindOK, Kind, Lockfiles
<1>4. dir \in [present : BOOLEAN, inode : Nat, index : 0 .. Len(stores), inodes : Nat]
  BY DEF Typed
<1>5. StoreOK(store)
  <2>1. dir.index \in DOMAIN stores
    BY <1>1, <1>4 DEF Typed
  <2> QED
    BY <2>1, ReloadedOK DEF Typed
<1> HIDE DEF store
<1>6. /\ StoresGrow /\ Len(stores') = Len(stores) + 1 /\ Len(stores) + 1 \in DOMAIN stores'
      /\ stores'[Len(stores) + 1] = store
  BY <1>1, <1>5, StoresAppended
<1>7. RestTyped
  <2>1. 0 .. Len(stores) \subseteq 0 .. Len(stores') /\ Len(stores) + 1 \in 0 .. Len(stores')
    BY <1>6 DEF Typed, StoresGrow
  <2>2. dir' = [present |-> dir.present, inode |-> dir.inode, index |-> Len(stores) + 1,
                inodes |-> dir.inodes]
    BY <1>1, <1>4
  <2>3. dir' \in [present : BOOLEAN, inode : Nat, index : 0 .. Len(stores'), inodes : Nat]
    BY <1>4, <2>1, <2>2
  <2> QED
    BY <1>1, <2>1, <2>3 DEF Typed, RestTyped
<1>8. Produce(t, Len(stores) + 1, store, tasks[t].ctx.inode)
  BY <1>1, <1>6
<1>9. Kind(t) \in Factories
  <2> SUFFICES ASSUME Kind(t) = "destroy" PROVE FALSE
    BY <1>3
  <2>1. tasks[t].ctx.intent = "destroy"
    BY <1>1, <1>2 DEF ContextOK, Kind
  <2> QED
    BY <1>1, <2>1
<1> QED
  BY <1>1, <1>3, <1>5, <1>6, <1>7, <1>8, <1>9, ProduceTyped

LEMMA OpenNamedTyped ==
  ASSUME Typed, Owned, NEW t \in DOMAIN tasks, OpenNamed(t) PROVE Typed'
<1>1. /\ Produce(t, entry.store, stores[entry.store], 0) /\ entry' = [entry EXCEPT !.attached = TRUE]
      /\ UNCHANGED <<provider, dir, stores, pinned, orphaned>>
      /\ tasks[t].pc # "settled" /\ Kind(t) \in Factories /\ entry # NoEntry
  BY DEF OpenNamed, At, Factories
<1>2. entry \in [store : 0 .. Len(stores), attached : BOOLEAN] /\ entry.store # 0
  BY <1>1 DEF Typed, Owned
<1>3. entry.store \in DOMAIN stores /\ StoreOK(stores[entry.store])
  BY <1>2 DEF Typed
<1>4. StoresGrow
  BY <1>1, StoresUnchanged
<1>5. RestTyped
  BY <1>1, <1>2 DEF Typed, RestTyped
<1> QED
  BY <1>1, <1>3, <1>4, <1>5, ProduceTyped

LEMMA SettleTyped ==
  ASSUME Typed, Owned, NEW t \in DOMAIN tasks, Settle(t) PROVE Typed'
<1>1. /\ Moved(t, Settled) /\ tasks[t].pc = "done"
      /\ UNCHANGED <<provider, entry, dir, stores, pinned, orphaned>>
      /\ handles' = IF Producing(tasks[t])
                    THEN [handles EXCEPT ![tasks[t].handle].status = "open"] ELSE handles
  BY DEF Settle, Moved, At, Producing, Kind
<1>2. StoresGrow
  BY <1>1, StoresUnchanged
<1>3. HandlesStay
  <2>1. CASE ~Producing(tasks[t])
    BY <1>1, <1>2, <2>1, HandlesUnchanged
  <2>2. CASE Producing(tasks[t])
    <3> DEFINE h == tasks[t].handle
               handle == [handles[h] EXCEPT !.status = "open"]
    <3>1. h \in DOMAIN handles
      <4>1. h \in 0 .. Len(handles) /\ h # 0 /\ handles \in Seq(Handles)
        BY <2>2, TaskFacts DEF TaskOK, Owned, Typed
      <4> QED
        BY <4>1
    <3>2. handles[h] \in Handles
      BY <3>1 DEF Typed
    <3>3. handle \in Handles /\ handle.store = handles[h].store
      BY <3>2 DEF Handles
    <3>4. handles' = [handles EXCEPT ![h] = handle]
      BY <1>1, <2>2
    <3> HIDE DEF h, handle
    <3> QED
      BY <1>2, <3>1, <3>3, <3>4, HandlesSet
  <2> QED
    BY <2>1, <2>2
<1>4. RestTyped
  BY <1>1, <1>2, RestUnchanged
<1>5. TaskGood(t, Settled, stores'[Handle(t).store])
  <2>1. Settled \in Tasks
    BY DEF Settled, Tasks, Kinds, Contexts, Pcs, Codes
  <2>2. KindOK(Settled) /\ ContextOK(Settled) /\ ResultOK(Settled)
    BY DEF Settled, KindOK, ContextOK, ResultOK, Factories, Writes, Searches
  <2>3. Settled.handle \in 0 .. Len(handles') /\ Settled.kind \notin Writes \cup Searches
    BY <1>3 DEF HandlesStay, Settled, Writes, Searches
  <2> QED
    BY <2>1, <2>2, <2>3 DEF TaskGood
<1> QED
  BY <1>1, <1>2, <1>3, <1>4, <1>5, MoveTyped

LEMMA CloseTyped ==
  ASSUME Typed, NEW h \in DOMAIN handles, Close(h) PROVE Typed'
<1> DEFINE handle == [handles[h] EXCEPT !.status = "closed", !.named = FALSE]
<1>1. /\ UNCHANGED <<provider, dir, stores, tasks, pinned, orphaned>>
      /\ handles' = [handles EXCEPT ![h] = handle]
      /\ entry' = IF handles[h].named THEN [entry EXCEPT !.attached = FALSE] ELSE entry
  BY DEF Close
<1>2. handle \in Handles /\ handle.store = handles[h].store
  <2>1. handles[h] \in Handles
    BY DEF Typed
  <2> QED
    BY <2>1 DEF Handles
<1> HIDE DEF handle
<1>3. StoresGrow
  BY <1>1, StoresUnchanged
<1>4. HandlesStay /\ Len(handles') = Len(handles) /\ DOMAIN handles' = DOMAIN handles
  BY <1>1, <1>2, <1>3, HandlesSet
<1>5. entry' \in [store : 0 .. Len(stores), attached : BOOLEAN]
  BY <1>1 DEF Typed
<1>6. \A t \in DOMAIN tasks : TaskOK(t)'
  <2> SUFFICES ASSUME NEW t \in DOMAIN tasks PROVE TaskOK(t)'
    OBVIOUS
  <2>1. TaskOK(t)
    BY TaskFacts
  <2>2. Kind(t) \in Writes \cup Searches =>
          /\ tasks[t].handle \in DOMAIN handles
          /\ handles'[tasks[t].handle].store = handles[tasks[t].handle].store
    BY <1>4, StoreFacts DEF HandlesStay
  <2> QED
    BY <1>1, <1>4, <2>1, <2>2 DEF TaskOK, Kind, StoreOf, Handle
<1>7. PinnedOK'
  <2>1. PinnedOK
    BY DEF Typed
  <2>2. pinned.handle # 0 => pinned.handle \in DOMAIN handles
    BY <2>1 DEF PinnedOK, Typed
  <2> QED
    BY <1>1, <1>4, <2>1, <2>2 DEF PinnedOK, HandlesStay
<1> QED
  BY <1>1, <1>3, <1>4, <1>5, <1>6, <1>7 DEF Typed, HandlesStay

LEMMA TakeSnapshotTyped ==
  ASSUME Typed, NEW h \in DOMAIN handles, TakeSnapshot(h) PROVE Typed'
<1> DEFINE store == stores[handles[h].store]
<1>1. /\ UNCHANGED <<provider, entry, dir, stores, handles, tasks, orphaned>>
      /\ pinned' = [handle |-> h, snapshot |-> Snapshot(store), rows |-> Current(store)]
  BY DEF TakeSnapshot
<1>2. StoreOK(store)
  BY DEF Typed
<1> HIDE DEF store
<1>3. SeenOK(store, Snapshot(store)) /\ Snapshot(store) \in Snapshots /\ Current(store) \in NodeRows
  BY <1>2, CurrentSeen, RowsTyped DEF SeenOK, Current
<1>4. PinOK(store, Snapshot(store), Current(store))
  BY <1>3 DEF PinOK, Current
<1>5. h \in 0 .. Len(handles)
  BY DEF Typed
<1>6. PinnedOK'
  BY <1>1, <1>3, <1>4, <1>5 DEF PinnedOK, store
<1>7. \A t \in DOMAIN tasks : TaskOK(t)'
  BY <1>1, TaskFacts DEF TaskOK, Kind, StoreOf, Handle
<1> QED
  BY <1>1, <1>6, <1>7 DEF Typed

\* A call queues one more task.
LEMMA CallTyped ==
  ASSUME Typed, NEW call, NEW h \in 0 .. Len(handles), NEW ctx \in Contexts, Call(call, h, ctx),
         call.kind \in Kinds \ {"none"}, call.arg \in BOOLEAN \cup Ids \cup Seq(Ids),
         call.kind \in {"insert", "delete"} => call.arg \in Ids,
         call.kind = "build" => call.arg \in Seq(Ids),
         call.kind \in Writes \cup Searches => h # 0,
         call.kind = "searchPinned" =>
           ctx \in PinnedReads /\ PinOK(stores[handles[h].store], ctx.snapshot, ctx.taken)
  PROVE  Typed'
<1> DEFINE task == [kind |-> call.kind, handle |-> h, arg |-> call.arg, ctx |-> ctx,
                    pc |-> "queued", code |-> ""]
<1>1. tasks' = Append(tasks, task) /\ Quietly
  BY DEF Call, Quietly
<1>2. h \in Nat /\ "queued" \in Pcs /\ "" \in Codes
  BY DEF Pcs, Codes, Typed
<1>3. task \in Tasks
  BY <1>2 DEF Tasks
<1>4. /\ task.kind = call.kind /\ task.handle = h /\ task.arg = call.arg
      /\ task.pc = "queued" /\ task.code = "" /\ task.ctx = ctx
  OBVIOUS
<1> HIDE DEF task
<1>5. tasks \in Seq(Tasks) /\ Len(tasks) \in Nat
  BY DEF Typed
<1>6. /\ tasks' \in Seq(Tasks) /\ DOMAIN tasks' = 1 .. Len(tasks) + 1
      /\ tasks'[Len(tasks) + 1] = task
      /\ \A t \in 1 .. Len(tasks) : tasks'[t] = tasks[t] /\ t \in DOMAIN tasks
  BY <1>1, <1>3, <1>5
<1>7. KindOK(task) /\ ContextOK(task) /\ ResultOK(task)
  <2>1. KindOK(task)
    BY <1>4 DEF KindOK
  <2>2. ContextOK(task)
    BY <1>4 DEF ContextOK
  <2>3. ResultOK(task)
    BY <1>4 DEF ResultOK
  <2> QED
    BY <2>1, <2>2, <2>3
<1>8. call.kind \in Writes \cup Searches => Sees(task, stores[handles[h].store])
  BY <1>4 DEF Sees
<1>9. ASSUME NEW t \in 1 .. Len(tasks) + 1 PROVE TaskOK(t)'
  <2>1. CASE t = Len(tasks) + 1
    BY <1>1, <1>4, <1>6, <1>7, <1>8, <2>1 DEF TaskOK, Quietly, Kind, StoreOf, Handle
  <2>2. CASE t \in 1 .. Len(tasks)
    BY <1>1, <1>6, <2>2, TaskFacts DEF TaskOK, Quietly, Kind, StoreOf, Handle
  <2> QED
    BY <1>5, <2>1, <2>2
<1> QED
  BY <1>1, <1>6, <1>9 DEF Typed, Quietly, PinnedOK

LEMMA CallsTyped ==
  ASSUME Typed,
         CallOnUri \/ \E h \in DOMAIN handles : CallOnHandle(h) \/ CallSearchPinned(h)
  PROVE  Typed'
<1>1. \A call \in Calls[provider] :
        /\ call.kind \in Kinds \ {"none"} /\ call.arg \in BOOLEAN \cup Ids \cup Seq(Ids)
        /\ call.kind \in {"insert", "delete"} => call.arg \in Ids
        /\ call.kind = "build" => call.arg \in Seq(Ids)
  <2>1. Calls[provider] \subseteq
          [kind : Factories, arg : BOOLEAN] \cup [kind : Searches \cup {"destroy"}, arg : {TRUE}]
            \cup [kind : {"insert", "delete"}, arg : Ids] \cup [kind : {"build"}, arg : Seq(Ids)]
    BY BindingAssumption DEF Typed
  <2> QED
    BY <2>1 DEF Kinds, Factories, Writes, Searches
<1>2. NoContext \in Contexts /\ 0 \in 0 .. Len(handles) /\ DOMAIN handles \subseteq 0 .. Len(handles)
      /\ 0 \notin DOMAIN handles
  BY DEF Contexts, Typed
<1>3. CASE CallOnUri
  <2>1. PICK call \in Calls[provider] :
          call.kind \in Factories \cup {"destroy"} /\ Call(call, 0, NoContext)
    BY <1>3 DEF CallOnUri
  <2>2. call.kind \notin Writes \cup Searches
    BY <2>1 DEF Factories, Writes, Searches
  <2> QED
    BY <1>1, <1>2, <2>1, <2>2, CallTyped DEF Searches
<1>4. ASSUME NEW h \in DOMAIN handles, CallOnHandle(h) PROVE Typed'
  <2>1. PICK call \in Calls[provider] :
          call.kind \in Writes \cup {"search"} /\ Call(call, h, NoContext)
    BY <1>4 DEF CallOnHandle
  <2>2. call.kind # "searchPinned"
    BY <2>1 DEF Writes
  <2> QED
    BY <1>1, <1>2, <2>1, <2>2, CallTyped
<1>5. ASSUME NEW h \in DOMAIN handles, CallSearchPinned(h) PROVE Typed'
  <2> DEFINE call == [kind |-> "searchPinned", arg |-> TRUE]
             ctx == [snapshot |-> pinned.snapshot, taken |-> pinned.rows]
  <2>1. Call(call, h, ctx) /\ pinned.handle = h
    BY <1>5 DEF CallSearchPinned
  <2>2. /\ pinned \in [handle : 0 .. Len(handles), snapshot : Snapshots, rows : NodeRows]
        /\ PinOK(stores[handles[h].store], pinned.snapshot, pinned.rows)
    BY <1>2, <2>1 DEF Typed, PinnedOK
  <2>3. /\ ctx \in PinnedReads /\ ctx \in Contexts
        /\ PinOK(stores[handles[h].store], ctx.snapshot, ctx.taken)
    BY <2>2 DEF PinnedReads, Contexts
  <2>4. call.kind = "searchPinned" /\ call.arg = TRUE
    OBVIOUS
  <2> HIDE DEF call, ctx
  <2>5. call.kind \in Kinds \ {"none"} /\ h \in 0 .. Len(handles) /\ h # 0
    BY <1>2, <2>4 DEF Kinds, Searches
  <2> QED
    BY <2>1, <2>3, <2>4, <2>5, CallTyped
<1> QED
  BY <1>3, <1>4, <1>5

------------------------------------------------------------------------------
(* What the steps of a write make of a store *)

StoreRec(version, base, delta, maxId, draft, segments, frozen, nextDelta) ==
  [version |-> version, base |-> base, delta |-> delta, maxId |-> maxId, draft |-> draft,
   segments |-> segments, frozen |-> frozen, nextDelta |-> nextDelta]

\* The draft with one more row or tombstone (append_node, tombstone_node).
StagedDraft(draft, task) ==
  IF task.kind = "insert"
  THEN [rows |-> With(draft.rows, task.ctx.node, task.arg), dead |-> draft.dead \ {task.ctx.node}]
  ELSE [rows |-> [n \in DOMAIN draft.rows \ {task.ctx.node} |-> draft.rows[n]],
        dead |-> draft.dead \cup {task.ctx.node}]

LEMMA StoreIs ==
  ASSUME NEW store \in Stores
  PROVE  store = StoreRec(store.version, store.base, store.delta, store.maxId, store.draft,
                          store.segments, store.frozen, store.nextDelta)
BY DEF Stores, StoreRec

LEMMA RowAdded ==
  ASSUME NEW rows \in NodeRows, NEW n \in Nat, NEW x \in Ids
  PROVE  /\ With(rows, n, x) \in NodeRows
         /\ DOMAIN With(rows, n, x) = DOMAIN rows \cup {n}
         /\ With(rows, n, x)[n] = x
         /\ \A m \in DOMAIN rows : m # n => With(rows, n, x)[m] = rows[m]
<1>1. PICK b \in Nat : DOMAIN rows \subseteq 0 .. b /\ rows \in [DOMAIN rows -> Ids]
  BY DEF NodeRows
<1> DEFINE new == With(rows, n, x)
           top == IF b < n THEN n ELSE b
<1>2. new = [m \in {n} \cup DOMAIN rows |-> IF m = n THEN x ELSE rows[m]]
  BY DEF With
<1> HIDE DEF new
<1>3. DOMAIN new = DOMAIN rows \cup {n} /\ new \in [DOMAIN new -> Ids]
  BY <1>1, <1>2
<1>4. top \in Nat /\ DOMAIN new \subseteq 0 .. top
  BY <1>1, <1>3
<1> HIDE DEF top
<1>5. new \in NodeRows
  <2>1. DOMAIN new \in UNION {SUBSET (0 .. c) : c \in Nat}
    BY <1>4
  <2> QED
    BY <1>3, <2>1 DEF NodeRows
<1>6. new[n] = x /\ \A m \in DOMAIN rows : m # n => new[m] = rows[m]
  BY <1>2
<1> QED
  BY <1>3, <1>5, <1>6 DEF new

LEMMA RowRemoved ==
  ASSUME NEW rows \in NodeRows, NEW n
  PROVE  [m \in DOMAIN rows \ {n} |-> rows[m]] \in NodeRows
<1>1. PICK b \in Nat : DOMAIN rows \subseteq 0 .. b /\ rows \in [DOMAIN rows -> Ids]
  BY DEF NodeRows
<1> DEFINE D == DOMAIN rows \ {n}
           new == [m \in D |-> rows[m]]
<1>2. D \in UNION {SUBSET (0 .. c) : c \in Nat}
  BY <1>1
<1>3. new \in [D -> Ids]
  BY <1>1
<1> HIDE DEF D, new
<1>4. new \in NodeRows
  BY <1>2, <1>3 DEF NodeRows
<1> QED
  BY <1>4 DEF D, new

LEMMA StageIs ==
  ASSUME NEW store \in Stores, NEW task, task.ctx.node \in Nat,
         task.kind = "insert" => task.arg \in Ids
  PROVE  /\ Stage(store, task)
              = StoreRec(store.version, store.base, store.delta, store.maxId,
                         StagedDraft(store.draft, task),
                         store.segments, store.frozen, store.nextDelta)
         /\ StagedDraft(store.draft, task) \in Drafts
<1> DEFINE node == task.ctx.node
           draft == store.draft
           added == With(draft.rows, node, task.arg)
           kept == [n \in DOMAIN draft.rows \ {node} |-> draft.rows[n]]
<1>1. draft \in Drafts /\ draft.rows \in NodeRows /\ draft.dead \in SUBSET Nat
      /\ draft = [rows |-> draft.rows, dead |-> draft.dead]
  BY DEF Stores, Drafts
<1>2. store = StoreRec(store.version, store.base, store.delta, store.maxId, draft,
                       store.segments, store.frozen, store.nextDelta)
  BY StoreIs
<1>3. CASE task.kind = "insert"
  <2> DEFINE first == [store EXCEPT !.draft.rows = With(@, node, task.arg)]
             second == [first EXCEPT !.draft.dead = @ \ {node}]
  <2>1. Stage(store, task) = second
    BY <1>3 DEF Stage
  <2>2. first = [store EXCEPT !.draft.rows = added]
    OBVIOUS
  <2> HIDE DEF added, first, node
  <2>3. first = StoreRec(store.version, store.base, store.delta, store.maxId,
                         [rows |-> added, dead |-> draft.dead],
                         store.segments, store.frozen, store.nextDelta)
    BY <1>1, <1>2, <2>2 DEF StoreRec
  <2>4. second = StoreRec(store.version, store.base, store.delta, store.maxId,
                          [rows |-> added, dead |-> draft.dead \ {node}],
                          store.segments, store.frozen, store.nextDelta)
    BY <2>3 DEF StoreRec
  <2> HIDE DEF second
  <2>5. added \in NodeRows
    BY <1>1, <1>3, RowAdded DEF added, node
  <2>6. StagedDraft(draft, task) = [rows |-> added, dead |-> draft.dead \ {node}]
    BY <1>3 DEF StagedDraft, added, node
  <2>7. [rows |-> added, dead |-> draft.dead \ {node}] \in Drafts
    BY <1>1, <2>5 DEF Drafts
  <2> QED
    BY <2>1, <2>4, <2>6, <2>7 DEF node
<1>4. CASE task.kind # "insert"
  <2> DEFINE first == [store EXCEPT !.draft.rows = [n \in DOMAIN @ \ {task.ctx.node} |-> @[n]]]
             second == [first EXCEPT !.draft.dead = @ \cup {node}]
  <2>1. Stage(store, task) = second
    BY <1>4 DEF Stage
  <2>2. first = [store EXCEPT !.draft.rows = kept]
    OBVIOUS
  <2> HIDE DEF kept, first
  <2>3. first = StoreRec(store.version, store.base, store.delta, store.maxId,
                         [rows |-> kept, dead |-> draft.dead],
                         store.segments, store.frozen, store.nextDelta)
    BY <1>1, <1>2, <2>2 DEF StoreRec
  <2>4. second = StoreRec(store.version, store.base, store.delta, store.maxId,
                          [rows |-> kept, dead |-> draft.dead \cup {node}],
                          store.segments, store.frozen, store.nextDelta)
    BY <2>3 DEF StoreRec
  <2> HIDE DEF second
  <2>5. kept \in NodeRows
    BY <1>1, RowRemoved DEF kept
  <2>6. StagedDraft(draft, task) = [rows |-> kept, dead |-> draft.dead \cup {node}]
    BY <1>4 DEF StagedDraft, kept
  <2>7. [rows |-> kept, dead |-> draft.dead \cup {node}] \in Drafts
    BY <1>1, <2>5 DEF Drafts
  <2> QED
    BY <2>1, <2>4, <2>6, <2>7
<1> QED
  BY <1>3, <1>4

\* Staging a row or a tombstone leaves the store in order.
LEMMA StageOK ==
  ASSUME NEW store, StoreOK(store), NEW task, task.ctx.node \in Nat,
         task.kind = "insert" => task.arg \in Ids
  PROVE  StoreOK(Stage(store, task)) /\ Grown(store, Stage(store, task))
<1> DEFINE new == Stage(store, task)
           draft == StagedDraft(store.draft, task)
<1>1. store \in Stores
  BY DEF StoreOK
<1>2. /\ new = StoreRec(store.version, store.base, store.delta, store.maxId, draft,
                        store.segments, store.frozen, store.nextDelta)
      /\ draft \in Drafts
  BY <1>1, StageIs
<1> HIDE DEF new, draft
<1>3. new \in Stores
  BY <1>1, <1>2 DEF StoreRec, Stores
<1>4. /\ new.version = store.version /\ new.base = store.base /\ new.delta = store.delta
      /\ new.maxId = store.maxId /\ new.segments = store.segments /\ new.frozen = store.frozen
      /\ new.nextDelta = store.nextDelta
  BY <1>2 DEF StoreRec
<1>5. StoreOK(new)
  BY <1>3, <1>4 DEF StoreOK, BaseRows
<1>6. Grown(store, new)
  BY <1>1, <1>4, GrownRefl DEF Grown, Snapshot
<1> QED
  BY <1>5, <1>6 DEF new

\* freeze_draft: the new delta joins those that are retained, the current one
\* among them.
LEMMA FreezeIs ==
  ASSUME NEW store, StoreOK(store)
  PROVE  /\ Freeze(store)
              = StoreRec(store.version, store.base, store.delta, store.maxId, store.draft,
                         store.segments, Freeze(store).frozen, store.nextDelta + 1)
         /\ Freeze(store).frozen \in Frozen
         /\ DOMAIN Freeze(store).frozen \subseteq DOMAIN store.frozen \cup {store.nextDelta}
         /\ store.delta # 0 => store.delta \in DOMAIN Freeze(store).frozen
         /\ \A d \in DOMAIN Freeze(store).frozen :
              Freeze(store).frozen[d] = IF d = store.nextDelta THEN store.draft ELSE store.frozen[d]
<1> DEFINE deltas == DOMAIN store.frozen \cup {store.nextDelta}
           kept == Kept(store, deltas)
           frozen == [d \in kept |-> IF d = store.nextDelta THEN store.draft ELSE store.frozen[d]]
           first == [store EXCEPT !.nextDelta = @ + 1]
           next == store.nextDelta + 1
<1>1. store \in Stores /\ store.frozen \in Frozen /\ store.draft \in Drafts
      /\ store.nextDelta \in Nat \ {0}
  BY DEF StoreOK, Stores
<1>2. store = StoreRec(store.version, store.base, store.delta, store.maxId, store.draft,
                       store.segments, store.frozen, store.nextDelta)
  BY <1>1, StoreIs
<1>3. Freeze(store) = [first EXCEPT !.frozen = [d \in kept |-> IF d = store.nextDelta
                                                               THEN store.draft ELSE @[d]]]
  BY DEF Freeze
<1>4. first = [store EXCEPT !.nextDelta = next]
  OBVIOUS
<1> HIDE DEF kept, first, next
<1>5. first = StoreRec(store.version, store.base, store.delta, store.maxId, store.draft,
                       store.segments, store.frozen, next)
  BY <1>2, <1>4 DEF StoreRec
<1>6. Freeze(store) = [first EXCEPT !.frozen = frozen]
  BY <1>3, <1>5 DEF StoreRec
<1> HIDE DEF frozen
<1>7. Freeze(store) = StoreRec(store.version, store.base, store.delta, store.maxId, store.draft,
                               store.segments, frozen, next)
  BY <1>5, <1>6 DEF StoreRec
<1>8. Freeze(store).frozen = frozen
  BY <1>7 DEF StoreRec
<1>9. kept \subseteq deltas /\ (store.delta \in deltas => store.delta \in kept)
  BY DEF Kept, kept
<1>10. deltas \subseteq Nat /\ (store.delta # 0 => store.delta \in deltas)
  <2>1. DOMAIN store.frozen \subseteq Nat
    BY <1>1 DEF StoreOK
  <2> QED
    BY <1>1, <2>1 DEF StoreOK
<1>11. \A d \in DOMAIN store.frozen : store.frozen[d] \in Drafts
  BY <1>1 DEF Frozen
<1>12. frozen \in [kept -> Drafts] /\ kept \in SUBSET Nat /\ DOMAIN frozen = kept
  BY <1>1, <1>9, <1>10, <1>11 DEF frozen
<1>13. frozen \in Frozen
  BY <1>12 DEF Frozen
<1> QED
  BY <1>7, <1>8, <1>9, <1>10, <1>12, <1>13 DEF next, frozen

\* Freezing the draft leaves the store in order.
LEMMA FreezeOK ==
  ASSUME NEW store, StoreOK(store)
  PROVE  StoreOK(Freeze(store)) /\ Grown(store, Freeze(store))
<1> DEFINE new == Freeze(store)
           next == store.nextDelta + 1
<1>1. store \in Stores /\ store.nextDelta \in Nat \ {0}
      /\ DOMAIN store.frozen \subseteq 1 .. store.nextDelta - 1
  BY DEF StoreOK, Stores
<1>2. /\ new = StoreRec(store.version, store.base, store.delta, store.maxId, store.draft,
                        store.segments, new.frozen, next)
      /\ new.frozen \in Frozen
      /\ DOMAIN new.frozen \subseteq DOMAIN store.frozen \cup {store.nextDelta}
      /\ store.delta # 0 => store.delta \in DOMAIN new.frozen
      /\ \A d \in DOMAIN new.frozen :
           new.frozen[d] = IF d = store.nextDelta THEN store.draft ELSE store.frozen[d]
  BY FreezeIs
<1>3. next \in Nat \ {0} /\ store.nextDelta <= next /\ next - 1 = store.nextDelta
  BY <1>1
<1> HIDE DEF new, next
<1>4. /\ new.version = store.version /\ new.base = store.base /\ new.delta = store.delta
      /\ new.maxId = store.maxId /\ new.segments = store.segments /\ new.nextDelta = next
      /\ new.draft = store.draft
  BY <1>2 DEF StoreRec
<1>5. new \in Stores
  <2>1. /\ store.version \in Nat /\ store.base \in Nat /\ store.delta \in Nat /\ store.maxId \in Nat
        /\ store.draft \in Drafts /\ store.segments \in Seq(Seq(Ids))
    BY <1>1 DEF Stores
  <2> QED
    BY <1>2, <1>3, <2>1 DEF StoreRec, Stores
<1>6. DOMAIN new.frozen \subseteq 1 .. next - 1
  <2>1. DOMAIN store.frozen \cup {store.nextDelta} \subseteq 1 .. store.nextDelta
    BY <1>1
  <2> QED
    BY <1>2, <1>3, <2>1
<1>7. StoreOK(new)
  <2>1. new.delta \in DOMAIN new.frozen \cup {0}
    BY <1>2, <1>4
  <2>2. new.base <= Len(new.segments) /\ (new.delta = 0 => new.maxId = Len(BaseRows(new)))
        /\ \A i \in DOMAIN new.segments : ~HasDuplicates(new.segments[i])
    BY <1>4 DEF StoreOK, BaseRows
  <2> QED
    BY <1>4, <1>5, <1>6, <2>1, <2>2 DEF StoreOK
<1>8. Grown(store, new)
  <2>1. \A d \in DOMAIN new.frozen :
          d < store.nextDelta => d \in DOMAIN store.frozen /\ new.frozen[d] = store.frozen[d]
    <3> SUFFICES ASSUME NEW d \in DOMAIN new.frozen, d < store.nextDelta
                 PROVE  d \in DOMAIN store.frozen /\ new.frozen[d] = store.frozen[d]
      OBVIOUS
    <3>1. d # store.nextDelta
      BY <1>1
    <3> QED
      BY <1>2, <3>1
  <2>2. Snapshot(new) = Snapshot(store)
    BY <1>4 DEF Snapshot
  <2>3. store.version <= store.version /\ Len(store.segments) <= Len(store.segments)
    BY <1>1 DEF Stores
  <2> QED
    BY <1>3, <1>4, <2>1, <2>2, <2>3 DEF Grown
<1> QED
  BY <1>7, <1>8 DEF new

\* What a manifest swap makes of a store, by a write or by a bulk build.
LEMMA SwapOK ==
  ASSUME NEW store, StoreOK(store), NEW base \in Nat, NEW delta \in Nat, NEW maxId \in Nat,
         base <= Len(store.segments), delta \in DOMAIN store.frozen \cup {0},
         delta = 0 => maxId = Len(IF base = 0 THEN << >> ELSE store.segments[base]),
         NEW new, new = [store EXCEPT !.version = @ + 1, !.base = base, !.delta = delta,
                                      !.maxId = maxId]
  PROVE  /\ StoreOK(new) /\ Grown(store, new)
         /\ new = StoreRec(store.version + 1, base, delta, maxId, store.draft,
                           store.segments, store.frozen, store.nextDelta)
<1> DEFINE next == store.version + 1
           first == [store EXCEPT !.version = next]
           second == [first EXCEPT !.base = base]
           third == [second EXCEPT !.delta = delta]
           fourth == [third EXCEPT !.maxId = maxId]
<1>1. store \in Stores /\ next \in Nat /\ store.version < next
  BY DEF StoreOK, Stores
<1>2. store = StoreRec(store.version, store.base, store.delta, store.maxId, store.draft,
                       store.segments, store.frozen, store.nextDelta)
  BY <1>1, StoreIs
<1>3. new = fourth
  OBVIOUS
<1> HIDE DEF next
<1>4. first = StoreRec(next, store.base, store.delta, store.maxId, store.draft,
                       store.segments, store.frozen, store.nextDelta)
  BY <1>2 DEF StoreRec
<1> HIDE DEF first
<1>5. second = StoreRec(next, base, store.delta, store.maxId, store.draft,
                        store.segments, store.frozen, store.nextDelta)
  BY <1>4 DEF StoreRec
<1> HIDE DEF second
<1>6. third = StoreRec(next, base, delta, store.maxId, store.draft,
                       store.segments, store.frozen, store.nextDelta)
  BY <1>5 DEF StoreRec
<1> HIDE DEF third
<1>7. fourth = StoreRec(next, base, delta, maxId, store.draft,
                        store.segments, store.frozen, store.nextDelta)
  BY <1>6 DEF StoreRec
<1> HIDE DEF fourth
<1>8. /\ new.version = next /\ new.base = base /\ new.delta = delta /\ new.maxId = maxId
      /\ new.draft = store.draft /\ new.segments = store.segments
      /\ new.frozen = store.frozen /\ new.nextDelta = store.nextDelta
  <2>1. new = StoreRec(next, base, delta, maxId, store.draft,
                       store.segments, store.frozen, store.nextDelta)
    BY <1>3, <1>7
  <2> DEFINE rec == StoreRec(next, base, delta, maxId, store.draft,
                             store.segments, store.frozen, store.nextDelta)
  <2>2. /\ rec.version = next /\ rec.base = base /\ rec.delta = delta /\ rec.maxId = maxId
        /\ rec.draft = store.draft /\ rec.segments = store.segments
        /\ rec.frozen = store.frozen /\ rec.nextDelta = store.nextDelta
    BY DEF StoreRec
  <2> HIDE DEF rec
  <2>3. new = rec
    BY <2>1 DEF rec
  <2> QED
    BY <2>2, <2>3
<1>9. new \in Stores
  BY <1>1, <1>3, <1>7 DEF StoreRec, Stores
<1>10. StoreOK(new)
  BY <1>8, <1>9 DEF StoreOK, BaseRows
<1>11. Grown(store, new)
  <2>1. store.version \in Nat /\ Len(store.segments) \in Nat /\ store.nextDelta \in Nat
    BY <1>1 DEF Stores
  <2> QED
    BY <1>1, <1>8, <2>1 DEF Grown
<1> QED
  BY <1>3, <1>7, <1>10, <1>11 DEF next

\* bulk_build stores one more segment.
LEMMA SegmentOK ==
  ASSUME NEW store, StoreOK(store), NEW ids \in Seq(Ids), ~HasDuplicates(ids),
         NEW new, new = [store EXCEPT !.segments = Append(@, ids)]
  PROVE  /\ StoreOK(new) /\ Grown(store, new)
         /\ BuiltOK(new, Len(store.segments) + 1, ids)
         /\ new = StoreRec(store.version, store.base, store.delta, store.maxId, store.draft,
                           Append(store.segments, ids), store.frozen, store.nextDelta)
         /\ BaseRows(new) = BaseRows(store)
<1> DEFINE segments == Append(store.segments, ids)
<1>1. store \in Stores /\ store.segments \in Seq(Seq(Ids)) /\ Len(store.segments) \in Nat
      /\ store.base \in Nat /\ store.base <= Len(store.segments)
  BY DEF StoreOK, Stores
<1>2. store = StoreRec(store.version, store.base, store.delta, store.maxId, store.draft,
                       store.segments, store.frozen, store.nextDelta)
  BY <1>1, StoreIs
<1>3. /\ segments \in Seq(Seq(Ids)) /\ Len(segments) = Len(store.segments) + 1
      /\ segments[Len(store.segments) + 1] = ids
      /\ \A i \in 1 .. Len(store.segments) : segments[i] = store.segments[i]
      /\ DOMAIN segments = 1 .. Len(store.segments) + 1
      /\ DOMAIN store.segments = 1 .. Len(store.segments)
  BY <1>1
<1>4. new = [store EXCEPT !.segments = segments]
  OBVIOUS
<1> HIDE DEF segments
<1>5. new = StoreRec(store.version, store.base, store.delta, store.maxId, store.draft,
                     segments, store.frozen, store.nextDelta)
  BY <1>2, <1>4 DEF StoreRec
<1>6. /\ new.version = store.version /\ new.base = store.base /\ new.delta = store.delta
      /\ new.maxId = store.maxId /\ new.draft = store.draft /\ new.segments = segments
      /\ new.frozen = store.frozen /\ new.nextDelta = store.nextDelta
  BY <1>5 DEF StoreRec
<1>7. new \in Stores
  <2>1. /\ store.version \in Nat /\ store.base \in Nat /\ store.delta \in Nat /\ store.maxId \in Nat
        /\ store.draft \in Drafts /\ store.frozen \in Frozen /\ store.nextDelta \in Nat \ {0}
    BY <1>1 DEF Stores
  <2>2. segments \in Seq(Seq(Ids))
    BY <1>3
  <2>3. StoreRec(store.version, store.base, store.delta, store.maxId, store.draft,
                 segments, store.frozen, store.nextDelta) \in Stores
    <3> HIDE <1>4
    <3> QED
      BY <2>1, <2>2 DEF StoreRec, Stores
  <2> QED
    BY <1>5, <2>3
<1>8. BaseRows(new) = BaseRows(store)
  <2>1. store.base # 0 => store.base \in 1 .. Len(store.segments)
    BY <1>1
  <2> QED
    BY <1>3, <1>6, <2>1 DEF BaseRows
<1>9. \A i \in DOMAIN segments : ~HasDuplicates(segments[i])
  <2> SUFFICES ASSUME NEW i \in 1 .. Len(store.segments) + 1 PROVE ~HasDuplicates(segments[i])
    BY <1>3
  <2>1. CASE i = Len(store.segments) + 1
    BY <1>3, <2>1
  <2>2. CASE i \in 1 .. Len(store.segments)
    BY <1>3, <2>2 DEF StoreOK
  <2> QED
    BY <1>1, <2>1, <2>2
<1>10. store.base <= Len(segments)
  BY <1>1, <1>3
<1>11. StoreOK(new)
  BY <1>6, <1>7, <1>8, <1>9, <1>10 DEF StoreOK
<1>12. Grown(store, new)
  <2>1. Len(store.segments) <= Len(segments) /\ store.version \in Nat /\ store.nextDelta \in Nat
    BY <1>1, <1>3 DEF Stores
  <2>2. Snapshot(new) = Snapshot(store)
    BY <1>6 DEF Snapshot
  <2> QED
    BY <1>3, <1>6, <2>1, <2>2 DEF Grown
<1>13. BuiltOK(new, Len(store.segments) + 1, ids)
  <2>1. Len(store.segments) + 1 # 0 /\ Len(store.segments) + 1 <= Len(segments)
    BY <1>1, <1>3
  <2> QED
    BY <1>3, <1>6, <2>1 DEF BuiltOK
<1> QED
  BY <1>5, <1>8, <1>11, <1>12, <1>13 DEF segments

\* What a bulk build stored is what it is to publish.
LEMMA BuiltRows ==
  ASSUME NEW store, StoreOK(store), NEW base \in Nat, NEW ids \in Seq(Ids), BuiltOK(store, base, ids)
  PROVE  /\ base <= Len(store.segments)
         /\ (IF base = 0 THEN << >> ELSE store.segments[base]) = ids
         /\ Len(ids) \in Nat
<1>1. Len(store.segments) \in Nat
  BY DEF StoreOK, Stores
<1> QED
  BY <1>1 DEF BuiltOK

------------------------------------------------------------------------------
(* Writes keep the types *)

\* A write task, its handle and its store.
LEMMA WriteFacts ==
  ASSUME Typed, NEW t \in DOMAIN tasks, Kind(t) \in Writes
  PROVE  /\ tasks[t].handle \in DOMAIN handles
         /\ Handle(t) \in Handles /\ Handle(t).store \in DOMAIN stores
         /\ StoreOf(t) \in Stores /\ StoreOK(StoreOf(t)) /\ Sees(tasks[t], StoreOf(t))
         /\ tasks[t] \in Tasks
         /\ KindOK(tasks[t]) /\ ContextOK(tasks[t]) /\ ResultOK(tasks[t])
BY StoreFacts, TaskFacts

\* A write that moves on within its kind.
LEMMA WriteGood ==
  ASSUME Typed, NEW t \in DOMAIN tasks, Kind(t) \in Writes, NEW pc \in Pcs, NEW ctx \in Contexts,
         NEW store,
         \/ pc \in {"stage", "freeze"} /\ Kind(t) # "build" /\ ctx \in Stages /\ SeenOK(store, ctx.seen)
         \/ /\ pc = "publish" /\ Kind(t) # "build" /\ ctx \in Publishes /\ SeenOK(store, ctx.seen)
            /\ ctx.delta \in 1 .. store.nextDelta - 1
         \/ /\ pc = "load" /\ Kind(t) = "build" /\ ctx \in [base : Nat]
            /\ BuiltOK(store, ctx.base, tasks[t].arg)
  PROVE  TaskGood(t, MovedTask(t, pc, tasks[t].code, ctx), store)
<1> DEFINE task == MovedTask(t, pc, tasks[t].code, ctx)
<1>1. /\ task.kind = Kind(t) /\ task.handle = tasks[t].handle /\ task.arg = tasks[t].arg
      /\ task.pc = pc /\ task.code = tasks[t].code /\ task.ctx = ctx
      /\ task \in Tasks
  BY MovedIs
<1>2. KindOK(tasks[t])
  BY TaskFacts
<1> HIDE DEF task
<1>3. KindOK(task)
  BY <1>1, <1>2 DEF KindOK, Kind, Writes
<1>4. ContextOK(task) /\ ResultOK(task)
  BY <1>1 DEF ContextOK, ResultOK, Writes
<1>5. Sees(task, store)
  BY <1>1 DEF Sees, Writes
<1>6. TaskGood(t, task, store)
  BY <1>1, <1>3, <1>4, <1>5 DEF TaskGood
<1> QED
  BY <1>6 DEF task

LEMMA LockTyped ==
  ASSUME Typed, NEW t \in DOMAIN tasks, LockInsert(t) \/ LockDelete(t) PROVE Typed'
<1>1. /\ tasks[t].pc = "writer" /\ Kind(t) \in {"insert", "delete"} /\ Kind(t) \in Writes
      /\ UNCHANGED <<provider, entry, dir, stores, pinned, orphaned>>
  BY DEF LockInsert, LockDelete, At, Writes
<1>2. CASE Return(t, "INVALID_ARGUMENT") /\ UNCHANGED handles
  BY <1>1, <1>2, ReturnTyped DEF Quietly, Codes
<1>3. CASE \E node \in Nat, handle \in Handles :
             /\ SetHandle(t, handle) /\ handle.store = Handle(t).store
             /\ Goto(t, "stage", [node |-> node, seen |-> Snapshot(StoreOf(t))])
  <2>1. PICK node \in Nat, handle \in Handles :
             /\ SetHandle(t, handle) /\ handle.store = Handle(t).store
             /\ Goto(t, "stage", [node |-> node, seen |-> Snapshot(StoreOf(t))])
    BY <1>3
  <2> DEFINE ctx == [node |-> node, seen |-> Snapshot(StoreOf(t))]
  <2>2. Moved(t, MovedTask(t, "stage", tasks[t].code, ctx))
    BY <2>1, GotoMoves
  <2>3. StoresGrow
    BY <1>1, StoresUnchanged
  <2>4. HandlesStay
    BY <1>1, <2>1, <2>3, HandlesSet, WriteFacts DEF SetHandle, Handle
  <2>5. RestTyped
    BY <1>1, <2>3, RestUnchanged
  <2>6. SeenOK(StoreOf(t), Snapshot(StoreOf(t)))
    BY <1>1, WriteFacts, CurrentSeen
  <2>7. ctx \in Stages /\ ctx.seen = Snapshot(StoreOf(t))
    BY <2>6 DEF SeenOK, Stages
  <2> HIDE DEF ctx
  <2>8. ctx \in Contexts /\ "stage" \in Pcs
    BY <2>7 DEF Contexts, Pcs
  <2>9. TaskGood(t, MovedTask(t, "stage", tasks[t].code, ctx), StoreOf(t))
    BY <1>1, <2>6, <2>7, <2>8, WriteGood
  <2>10. TaskGood(t, MovedTask(t, "stage", tasks[t].code, ctx), stores'[Handle(t).store])
    BY <1>1, <2>9 DEF StoreOf
  <2> QED
    BY <2>2, <2>3, <2>4, <2>5, <2>10, MoveTyped
<1>4. ASSUME Kind(t) = "insert", tasks[t].arg \notin DOMAIN Handle(t).nodeIds PROVE Typed'
  <2> DEFINE next == Handle(t).nextId + 1
             handle == [Handle(t) EXCEPT !.writer = t, !.nextId = next]
  <2>1. SetHandle(t, handle) /\ Goto(t, "stage", [node |-> Handle(t).nextId, seen |-> Snapshot(StoreOf(t))])
    BY <1>1, <1>4 DEF LockInsert, LockDelete
  <2>2. Handle(t) \in Handles /\ t \in Nat
    BY <1>1, WriteFacts DEF Typed
  <2>3. next \in Nat \ {0} /\ Handle(t).nextId \in Nat
    BY <2>2 DEF Handles
  <2> HIDE DEF next
  <2>4. handle \in Handles /\ handle.store = Handle(t).store
    BY <2>2, <2>3 DEF Handles
  <2> QED
    BY <1>3, <2>1, <2>3, <2>4
<1>5. ASSUME Kind(t) = "delete", tasks[t].arg \in DOMAIN Handle(t).nodeIds PROVE Typed'
  <2> DEFINE handle == [Handle(t) EXCEPT !.writer = t]
  <2>1. /\ SetHandle(t, handle)
        /\ Goto(t, "stage", [node |-> Handle(t).nodeIds[tasks[t].arg], seen |-> Snapshot(StoreOf(t))])
    BY <1>1, <1>5 DEF LockInsert, LockDelete
  <2>2. Handle(t) \in Handles /\ t \in Nat
    BY <1>1, WriteFacts DEF Typed
  <2>3. Handle(t).nodeIds[tasks[t].arg] \in Nat
    BY <1>5, <2>2 DEF Handles, IdMaps
  <2>4. handle \in Handles /\ handle.store = Handle(t).store
    BY <2>2 DEF Handles
  <2> QED
    BY <1>3, <2>1, <2>3, <2>4
<1> QED
  BY <1>1, <1>2, <1>4, <1>5 DEF LockInsert, LockDelete

LEMMA LockBuildTyped ==
  ASSUME Typed, NEW t \in DOMAIN tasks, LockBuild(t) PROVE Typed'
<1> DEFINE ids == tasks[t].arg
           handle == [Handle(t) EXCEPT !.writer = t]
           store == [StoreOf(t) EXCEPT !.segments = Append(@, ids)]
           base == IF ids = << >> THEN 0 ELSE Len(StoreOf(t).segments) + 1
           ctx == [base |-> base]
           new == IF ids = << >> THEN StoreOf(t) ELSE store
<1>1. /\ tasks[t].pc = "writer" /\ Kind(t) = "build" /\ Kind(t) \in Writes /\ ~HasDuplicates(ids)
      /\ SetHandle(t, handle) /\ UNCHANGED <<provider, entry, dir, pinned, orphaned>>
      /\ Goto(t, "load", ctx) /\ (IF ids = << >> THEN UNCHANGED stores ELSE Update(t, store))
  BY DEF LockBuild, At, Writes
<1>2. /\ Handle(t) \in Handles /\ StoreOK(StoreOf(t)) /\ StoreOf(t) \in Stores /\ KindOK(tasks[t])
      /\ tasks[t].handle \in DOMAIN handles
  BY <1>1, WriteFacts
<1>3. ids \in Seq(Ids)
  BY <1>1, <1>2 DEF KindOK, Kind
<1>4. Moved(t, MovedTask(t, "load", tasks[t].code, ctx))
  BY <1>1, GotoMoves
<1>5. base \in Nat
  BY <1>2 DEF Stores
<1>6. StoreOK(store) /\ Grown(StoreOf(t), store) /\ BuiltOK(store, Len(StoreOf(t).segments) + 1, ids)
  <2> HIDE DEF store, ids
  <2> QED
    BY <1>1, <1>2, <1>3, SegmentOK DEF store
<1>7. BuiltOK(new, base, ids)
  <2>1. ids # << >> => Len(StoreOf(t).segments) + 1 # 0
    BY <1>2 DEF Stores
  <2> HIDE DEF store
  <2> QED
    BY <1>1, <1>6, <2>1 DEF BuiltOK
<1> HIDE DEF store, ids
<1>8. StoresGrow /\ stores'[Handle(t).store] = new
  BY <1>1, <1>6, StoresUnchanged, StoresUpdated DEF StoreOf
<1> HIDE DEF new, base
<1>9. handle \in Handles /\ handle.store = Handle(t).store
  <2>1. t \in Nat
    BY DEF Typed
  <2> QED
    BY <1>2, <2>1 DEF Handles
<1>10. HandlesStay
  <2> HIDE DEF handle
  <2> QED
    BY <1>1, <1>2, <1>8, <1>9, HandlesSet DEF SetHandle, Handle
<1>11. RestTyped
  BY <1>1, <1>8, RestUnchanged
<1>12. ctx \in [base : Nat] /\ ctx.base = base
  BY <1>5
<1> HIDE DEF ctx
<1>13. ctx \in Contexts /\ "load" \in Pcs
  BY <1>12 DEF Contexts, Pcs
<1>14. TaskGood(t, MovedTask(t, "load", tasks[t].code, ctx), new)
  BY <1>1, <1>7, <1>12, <1>13, WriteGood DEF ids
<1> QED
  BY <1>4, <1>8, <1>10, <1>11, <1>14, MoveTyped

LEMMA StageTyped ==
  ASSUME Typed, NEW t \in DOMAIN tasks, StageRow(t) PROVE Typed'
<1> DEFINE store == Stage(StoreOf(t), tasks[t])
<1>1. /\ tasks[t].pc = "stage" /\ Update(t, store) /\ Goto(t, "freeze", tasks[t].ctx)
      /\ UNCHANGED <<provider, entry, dir, handles, pinned, orphaned>>
  BY DEF StageRow, At
<1>2. Kind(t) \in {"insert", "delete"} /\ Kind(t) \in Writes
  BY <1>1, TaskFacts DEF KindOK, Kind, Writes
<1>3. /\ StoreOK(StoreOf(t)) /\ StoreOf(t) \in Stores /\ Sees(tasks[t], StoreOf(t))
      /\ KindOK(tasks[t]) /\ ContextOK(tasks[t])
  BY <1>2, WriteFacts
<1>4. tasks[t].ctx \in Stages /\ tasks[t].ctx.node \in Nat /\ SeenOK(StoreOf(t), tasks[t].ctx.seen)
  BY <1>1, <1>3 DEF ContextOK, Stages, Sees
<1>5. tasks[t].kind = "insert" => tasks[t].arg \in Ids
  BY <1>3 DEF KindOK
<1>6. StoreOK(store) /\ Grown(StoreOf(t), store)
  BY <1>3, <1>4, <1>5, StageOK
<1> HIDE DEF store
<1>7. StoresGrow /\ stores'[Handle(t).store] = store
  BY <1>1, <1>2, <1>6, StoresUpdated
<1>8. SeenOK(store, tasks[t].ctx.seen)
  BY <1>3, <1>4, <1>6, SeenStable DEF StoreOK
<1>9. Moved(t, MovedTask(t, "freeze", tasks[t].code, tasks[t].ctx))
  BY <1>1, GotoMoves
<1>10. tasks[t].ctx \in Contexts /\ "freeze" \in Pcs
  BY <1>4 DEF Contexts, Pcs
<1>11. TaskGood(t, MovedTask(t, "freeze", tasks[t].code, tasks[t].ctx), store)
  BY <1>2, <1>4, <1>8, <1>10, WriteGood
<1>12. HandlesStay /\ RestTyped
  BY <1>1, <1>7, HandlesUnchanged, RestUnchanged
<1> QED
  BY <1>7, <1>9, <1>11, <1>12, MoveTyped

LEMMA FreezeTyped ==
  ASSUME Typed, NEW t \in DOMAIN tasks, FreezeDraft(t) PROVE Typed'
<1> DEFINE store == Freeze(StoreOf(t))
           ctx == [node |-> tasks[t].ctx.node, seen |-> tasks[t].ctx.seen,
                   delta |-> StoreOf(t).nextDelta]
<1>1. /\ tasks[t].pc = "freeze" /\ Update(t, store) /\ Goto(t, "publish", ctx)
      /\ UNCHANGED <<provider, entry, dir, handles, pinned, orphaned>>
  BY DEF FreezeDraft, At
<1>2. Kind(t) \in {"insert", "delete"} /\ Kind(t) \in Writes
  BY <1>1, TaskFacts DEF KindOK, Kind, Writes
<1>3. /\ StoreOK(StoreOf(t)) /\ StoreOf(t) \in Stores /\ Sees(tasks[t], StoreOf(t))
      /\ KindOK(tasks[t]) /\ ContextOK(tasks[t])
  BY <1>2, WriteFacts
<1>4. tasks[t].ctx \in Stages /\ SeenOK(StoreOf(t), tasks[t].ctx.seen)
      /\ StoreOf(t).nextDelta \in Nat \ {0}
  BY <1>1, <1>3 DEF ContextOK, Stages, Sees, Stores
<1>5. ctx \in Publishes /\ ctx.seen = tasks[t].ctx.seen /\ ctx.delta = StoreOf(t).nextDelta
  BY <1>4 DEF Stages, Publishes
<1>6. /\ StoreOK(store) /\ Grown(StoreOf(t), store) /\ store.nextDelta = StoreOf(t).nextDelta + 1
  BY <1>3, FreezeOK, FreezeIs DEF StoreRec
<1> HIDE DEF store, ctx
<1>7. StoresGrow /\ stores'[Handle(t).store] = store
  BY <1>1, <1>2, <1>6, StoresUpdated
<1>8. SeenOK(store, ctx.seen)
  BY <1>3, <1>4, <1>5, <1>6, SeenStable DEF StoreOK
<1>9. ctx.delta \in 1 .. store.nextDelta - 1
  BY <1>4, <1>5, <1>6
<1>10. Moved(t, MovedTask(t, "publish", tasks[t].code, ctx))
  BY <1>1, GotoMoves
<1>11. ctx \in Contexts /\ "publish" \in Pcs
  BY <1>5 DEF Contexts, Pcs
<1>12. TaskGood(t, MovedTask(t, "publish", tasks[t].code, ctx), store)
  BY <1>2, <1>5, <1>8, <1>9, <1>11, WriteGood
<1>13. HandlesStay /\ RestTyped
  BY <1>1, <1>7, HandlesUnchanged, RestUnchanged
<1> QED
  BY <1>7, <1>10, <1>12, <1>13, MoveTyped

\* The map after a publish, and the handle the writer lock is released with.
LEMMA IdsTyped ==
  ASSUME NEW nodeIds \in IdMaps, NEW task, task.kind \in {"insert", "delete"}, task.arg \in Ids,
         task.ctx.node \in Nat
  PROVE  NextIds(nodeIds, task) \in IdMaps
<1>1. DOMAIN nodeIds \subseteq Ids /\ nodeIds \in [DOMAIN nodeIds -> Nat]
  BY DEF IdMaps
<1> DEFINE D == IF task.kind = "insert" THEN DOMAIN nodeIds \cup {task.arg}
                ELSE DOMAIN nodeIds \ {task.arg}
<1>2. D \in SUBSET Ids /\ NextIds(nodeIds, task) \in [D -> Nat]
  BY <1>1 DEF NextIds, With
<1> HIDE DEF D
<1> QED
  BY <1>2 DEF IdMaps

\* Handles change in the lock, the allocator and the map only.
LEMMA HandleIs ==
  ASSUME NEW handle \in Handles, NEW next \in Nat \ {0}, NEW nodeIds \in IdMaps
  PROVE  /\ Released(handle) \in Handles /\ Released(handle).store = handle.store
         /\ [Released(handle) EXCEPT !.nodeIds = nodeIds] \in Handles
         /\ [Released(handle) EXCEPT !.nodeIds = nodeIds].store = handle.store
         /\ [Released(handle) EXCEPT !.nextId = next, !.nodeIds = nodeIds] \in Handles
         /\ [Released(handle) EXCEPT !.nextId = next, !.nodeIds = nodeIds].store = handle.store
<1>1. Released(handle) \in Handles /\ Released(handle).store = handle.store
  BY DEF Released, Handles
<1> DEFINE released == Released(handle)
           first == [released EXCEPT !.nextId = next]
           second == [first EXCEPT !.nodeIds = nodeIds]
<1>2. [Released(handle) EXCEPT !.nextId = next, !.nodeIds = nodeIds] = second
  OBVIOUS
<1> HIDE DEF released
<1>3. /\ [released EXCEPT !.nodeIds = nodeIds] \in Handles
      /\ [released EXCEPT !.nodeIds = nodeIds].store = handle.store
      /\ first \in Handles /\ first.store = handle.store
  BY <1>1 DEF Handles, released
<1> HIDE DEF first
<1>4. second \in Handles /\ second.store = handle.store
  BY <1>3 DEF Handles
<1> QED
  BY <1>1, <1>2, <1>3, <1>4 DEF released

\* A write that is over and gives its lock back.
LEMMA WriteDoneTyped ==
  ASSUME Typed, StoresGrow, NEW t \in DOMAIN tasks, Kind(t) \in Writes, tasks[t].pc # "settled",
         UNCHANGED <<provider, entry, dir, pinned, orphaned>>,
         NEW handle \in Handles, handle.store = Handle(t).store, SetHandle(t, handle),
         NEW code \in Codes, Return(t, code)
  PROVE  Typed'
<1>1. HandlesStay
  BY WriteFacts, HandlesSet DEF SetHandle, Handle
<1>2. RestTyped
  BY RestUnchanged
<1>3. Moved(t, MovedTask(t, "done", code, NoContext))
  BY ReturnMoves
<1>4. TaskGood(t, MovedTask(t, "done", code, NoContext), stores'[Handle(t).store])
  BY DoneGood DEF Writes
<1> QED
  BY <1>1, <1>2, <1>3, <1>4, MoveTyped

LEMMA SwapBuildIs ==
  ASSUME Typed, NEW t \in DOMAIN tasks, SwapBuild(t)
  PROVE  LET ids == tasks[t].arg
             base == tasks[t].ctx.base
             store == [StoreOf(t) EXCEPT !.version = @ + 1, !.base = base, !.delta = 0,
                                         !.maxId = Len(ids)]
         IN  /\ Kind(t) = "build" /\ Kind(t) \in Writes /\ ids \in Seq(Ids) /\ base \in Nat
             /\ ~HasDuplicates(ids)
             /\ (IF base = 0 THEN << >> ELSE StoreOf(t).segments[base]) = ids
             /\ StoreOK(StoreOf(t)) /\ StoreOK(store) /\ Grown(StoreOf(t), store)
             /\ Update(t, store)
             /\ store = StoreRec(StoreOf(t).version + 1, base, 0, Len(ids), StoreOf(t).draft,
                                 StoreOf(t).segments, StoreOf(t).frozen, StoreOf(t).nextDelta)
<1> DEFINE ids == tasks[t].arg
           base == tasks[t].ctx.base
           store == [StoreOf(t) EXCEPT !.version = @ + 1, !.base = base, !.delta = 0,
                                       !.maxId = Len(ids)]
<1>1. tasks[t].pc = "swap" /\ Update(t, store)
  BY DEF SwapBuild, At
<1>2. Kind(t) = "build" /\ Kind(t) \in Writes
  BY <1>1, TaskFacts DEF KindOK, Kind, Writes
<1>3. /\ StoreOK(StoreOf(t)) /\ Sees(tasks[t], StoreOf(t))
      /\ KindOK(tasks[t]) /\ ContextOK(tasks[t])
  BY <1>2, WriteFacts
<1>4. ids \in Seq(Ids) /\ base \in Nat /\ BuiltOK(StoreOf(t), base, ids)
  BY <1>1, <1>2, <1>3 DEF KindOK, ContextOK, Sees, Kind
<1> HIDE DEF ids, base
<1>5. /\ base <= Len(StoreOf(t).segments) /\ Len(ids) \in Nat
      /\ (IF base = 0 THEN << >> ELSE StoreOf(t).segments[base]) = ids
  BY <1>3, <1>4, BuiltRows
<1>6. /\ StoreOK(store) /\ Grown(StoreOf(t), store)
      /\ store = StoreRec(StoreOf(t).version + 1, base, 0, Len(ids), StoreOf(t).draft,
                          StoreOf(t).segments, StoreOf(t).frozen, StoreOf(t).nextDelta)
  BY <1>3, <1>5, <1>4, SwapOK
<1> HIDE DEF store
<1>7. ~HasDuplicates(ids)
  BY <1>4 DEF BuiltOK
<1> QED
  BY <1>1, <1>2, <1>3, <1>4, <1>5, <1>6, <1>7 DEF ids, base, store

LEMMA SwapBuildTyped ==
  ASSUME Typed, NEW t \in DOMAIN tasks, SwapBuild(t) PROVE Typed'
<1> DEFINE ids == tasks[t].arg
           base == tasks[t].ctx.base
           store == [StoreOf(t) EXCEPT !.version = @ + 1, !.base = base, !.delta = 0,
                                       !.maxId = Len(ids)]
           nodeIds == [x \in {ids[n] : n \in DOMAIN ids} |-> CHOOSE n \in DOMAIN ids : ids[n] = x]
           next == Len(ids) + 1
           handle == [Released(Handle(t)) EXCEPT !.nextId = next, !.nodeIds = nodeIds]
<1>1. /\ SetHandle(t, handle) /\ Return(t, "OK") /\ tasks[t].pc # "settled"
      /\ UNCHANGED <<provider, entry, dir, pinned, orphaned>>
  BY DEF SwapBuild, At
<1>2. /\ Kind(t) \in Writes /\ ids \in Seq(Ids) /\ Update(t, store)
      /\ StoreOK(store) /\ Grown(StoreOf(t), store)
  BY SwapBuildIs
<1>3. nodeIds \in IdMaps /\ next \in Nat \ {0}
  <2>1. DOMAIN ids \subseteq Nat /\ \A n \in DOMAIN ids : ids[n] \in Ids
    BY <1>2
  <2> DEFINE D == {ids[n] : n \in DOMAIN ids}
  <2>2. D \in SUBSET Ids
    BY <2>1
  <2>3. \A x \in D : (CHOOSE n \in DOMAIN ids : ids[n] = x) \in Nat
    BY <2>1
  <2>4. nodeIds \in [D -> Nat]
    <3> HIDE DEF D
    <3>1. nodeIds = [x \in D |-> CHOOSE n \in DOMAIN ids : ids[n] = x]
      BY DEF D
    <3> QED
      BY <2>3, <3>1
  <2>5. next \in Nat \ {0}
    BY <1>2
  <2> HIDE DEF D, nodeIds
  <2> QED
    BY <2>2, <2>4, <2>5 DEF IdMaps
<1> HIDE DEF store, ids, nodeIds, next
<1>4. handle \in Handles /\ handle.store = Handle(t).store
  BY <1>2, <1>3, HandleIs, WriteFacts
<1> HIDE DEF handle
<1>5. StoresGrow
  BY <1>2, StoresUpdated
<1> QED
  BY <1>1, <1>2, <1>4, <1>5, WriteDoneTyped DEF Codes

\* A publish goes through only while the snapshot the write read is current.
LEMMA PublishIs ==
  ASSUME Typed, NEW t \in DOMAIN tasks, Publish(t)
  PROVE  LET store == StoreOf(t)
             task == tasks[t]
             maxId == Larger(store.maxId, Handle(t).nextId - 1)
         IN  /\ Kind(t) \in {"insert", "delete"} /\ Kind(t) \in Writes /\ task.arg \in Ids
             /\ task.ctx \in Publishes /\ task.ctx.seen = Snapshot(store)
             /\ task.ctx.delta \in DOMAIN store.frozen /\ task.ctx.delta \in Nat \ {0}
             /\ maxId \in Nat
             /\ StoreOK(store) /\ StoreOK(Published(t)) /\ Grown(store, Published(t))
             /\ Published(t) = StoreRec(store.version + 1, store.base, task.ctx.delta, maxId,
                                        store.draft, store.segments, store.frozen, store.nextDelta)
<1> DEFINE store == StoreOf(t)
           maxId == Larger(store.maxId, Handle(t).nextId - 1)
           delta == tasks[t].ctx.delta
<1>1. tasks[t].pc = "publish" /\ Publishable(t)
  BY DEF Publish, At
<1>2. Kind(t) \in {"insert", "delete"} /\ Kind(t) \in Writes
  BY <1>1, TaskFacts DEF KindOK, Kind, Writes
<1>3. /\ StoreOK(store) /\ store \in Stores /\ Sees(tasks[t], store) /\ Handle(t) \in Handles
      /\ KindOK(tasks[t]) /\ ContextOK(tasks[t])
  BY <1>2, WriteFacts
<1>4. tasks[t].ctx \in Publishes /\ tasks[t].arg \in Ids /\ SeenOK(store, tasks[t].ctx.seen)
  BY <1>1, <1>2, <1>3 DEF KindOK, ContextOK, Sees, Kind
<1>5. tasks[t].ctx.seen = Snapshot(store)
  BY <1>1, <1>4 DEF Publishable, SeenOK
<1>6. tasks[t].ctx.seen.base = store.base /\ tasks[t].ctx.seen.maxId = store.maxId
  BY <1>5 DEF Snapshot
<1>7. delta \in DOMAIN store.frozen /\ delta \in Nat \ {0}
  <2>1. delta \in DOMAIN store.frozen
    BY <1>1 DEF Publishable
  <2>2. DOMAIN store.frozen \subseteq Nat \ {0}
    BY <1>3 DEF StoreOK, Stores
  <2> QED
    BY <2>1, <2>2
<1>8. maxId \in Nat /\ store.base \in Nat /\ store.base <= Len(store.segments)
  <2>1. store.maxId \in Nat /\ Handle(t).nextId \in Nat \ {0} /\ Handle(t).nextId - 1 \in Nat
    BY <1>3 DEF Stores, Handles
  <2> QED
    BY <1>3, <2>1 DEF StoreOK, Stores, Larger
<1>9. Published(t) = [store EXCEPT !.version = @ + 1, !.delta = delta, !.base = store.base,
                                   !.maxId = maxId]
  BY <1>6 DEF Published
<1> HIDE DEF store, maxId, delta
<1>10. [store EXCEPT !.version = @ + 1, !.delta = delta, !.base = store.base, !.maxId = maxId]
         = [store EXCEPT !.version = @ + 1, !.base = store.base, !.delta = delta, !.maxId = maxId]
  <2>1. store = StoreRec(store.version, store.base, store.delta, store.maxId, store.draft,
                         store.segments, store.frozen, store.nextDelta)
    BY <1>3, StoreIs
  <2> DEFINE first == [store EXCEPT !.version = @ + 1]
             second == [first EXCEPT !.delta = delta]
             third == [second EXCEPT !.base = store.base]
             other == [first EXCEPT !.base = store.base]
             otherThird == [other EXCEPT !.delta = delta]
  <2>2. first = StoreRec(store.version + 1, store.base, store.delta, store.maxId, store.draft,
                         store.segments, store.frozen, store.nextDelta)
    BY <2>1 DEF StoreRec
  <2> HIDE DEF first
  <2>3. second = StoreRec(store.version + 1, store.base, delta, store.maxId, store.draft,
                          store.segments, store.frozen, store.nextDelta)
    BY <2>2 DEF StoreRec
  <2>4. other = first
    BY <2>2 DEF StoreRec
  <2> HIDE DEF second, other
  <2>5. third = second
    BY <2>3 DEF StoreRec
  <2>6. otherThird = second
    BY <2>4 DEF second
  <2>7. third = otherThird
    BY <2>5, <2>6
  <2> HIDE DEF third, otherThird
  <2>8. [third EXCEPT !.maxId = maxId] = [otherThird EXCEPT !.maxId = maxId]
    BY <2>7
  <2> QED
    BY <2>8 DEF third, otherThird, second, other, first
<1>11. /\ StoreOK(Published(t)) /\ Grown(store, Published(t))
       /\ Published(t) = StoreRec(store.version + 1, store.base, delta, maxId,
                                  store.draft, store.segments, store.frozen, store.nextDelta)
  BY <1>3, <1>7, <1>8, <1>9, <1>10, SwapOK
<1> QED
  BY <1>2, <1>3, <1>4, <1>5, <1>7, <1>8, <1>11 DEF store, maxId, delta

LEMMA PublishTyped ==
  ASSUME Typed, NEW t \in DOMAIN tasks, Publish(t) PROVE Typed'
<1> DEFINE nodeIds == NextIds(Handle(t).nodeIds, tasks[t])
           handle == [Released(Handle(t)) EXCEPT !.nodeIds = nodeIds]
<1>1. /\ Kind(t) \in {"insert", "delete"} /\ Kind(t) \in Writes /\ tasks[t].arg \in Ids
      /\ tasks[t].ctx \in Publishes /\ StoreOK(Published(t)) /\ Grown(StoreOf(t), Published(t))
  BY PublishIs
<1>2. Handle(t) \in Handles
  BY <1>1, WriteFacts
<1>3. /\ Update(t, Published(t)) /\ Return(t, "OK") /\ tasks[t].pc # "settled"
      /\ UNCHANGED <<provider, entry, dir, pinned, orphaned>>
  BY DEF Publish, At
<1>4. Released(Handle(t)).nodeIds = Handle(t).nodeIds
  BY <1>2 DEF Released, Handles
<1>5. SetHandle(t, handle)
  BY <1>4 DEF Publish, NextIds, Kind
<1>6. nodeIds \in IdMaps
  <2>1. Handle(t).nodeIds \in IdMaps /\ tasks[t].ctx.node \in Nat
    BY <1>1, <1>2 DEF Handles, Publishes
  <2> QED
    BY <1>1, <2>1, IdsTyped DEF Kind
<1> HIDE DEF nodeIds
<1>7. handle \in Handles /\ handle.store = Handle(t).store
  <2>1. 1 \in Nat \ {0}
    OBVIOUS
  <2> QED
    BY <1>2, <1>6, <2>1, HandleIs
<1> HIDE DEF handle
<1>8. StoresGrow
  BY <1>1, <1>3, StoresUpdated
<1> QED
  BY <1>1, <1>3, <1>5, <1>7, <1>8, WriteDoneTyped DEF Codes

\* Only a task that holds its writer lock can fail.
LEMMA FailIs ==
  ASSUME Typed, NEW t \in DOMAIN tasks, NEW code \in CoreErrors(t) \cup IoErrors(t)
  PROVE  /\ tasks[t].pc \in {"stage", "freeze", "publish", "swap"} /\ Kind(t) \in Writes
         /\ code \in Codes \ {"OK"}
<1>1. tasks[t].pc \in {"stage", "freeze", "publish", "swap"} /\ code \in Codes \ {"OK"}
  BY DEF CoreErrors, IoErrors, At, Codes
<1> QED
  BY <1>1, TaskFacts DEF KindOK, Kind, Writes

LEMMA FailTyped ==
  ASSUME Typed, NEW t \in DOMAIN tasks, FailWrite(t) PROVE Typed'
<1>1. PICK code \in CoreErrors(t) \cup IoErrors(t) : Return(t, code)
  BY DEF FailWrite
<1>2. /\ tasks[t].pc # "settled" /\ Kind(t) \in Writes /\ code \in Codes
  BY <1>1, FailIs
<1>3. Released(Handle(t)) \in Handles /\ Released(Handle(t)).store = Handle(t).store
  BY <1>2, WriteFacts DEF Released, Handles
<1>4. /\ SetHandle(t, Released(Handle(t))) /\ stores' = stores
      /\ UNCHANGED <<provider, entry, dir, pinned, orphaned>>
  BY DEF FailWrite
<1> QED
  BY <1>1, <1>2, <1>3, <1>4, StoresUnchanged, WriteDoneTyped

\* Every action keeps the types and what a task has read.
LEMMA TypedStep ==
  ASSUME Typed, Owned, Next PROVE Typed'
<1>1. CASE JavaScript
  BY <1>1, CallsTyped, TakeSnapshotTyped, CloseTyped DEF JavaScript
<1>2. ASSUME NEW t \in DOMAIN tasks, Work(t) PROVE Typed'
  BY <1>2, StartTyped, SettleTyped, CreateTyped, RefuseTyped, OpenNamedTyped, DestroyedTyped,
     ProbeTyped, OpenLockFileTyped, OpenFileTyped, DestroyLockTyped, LockTyped, LockBuildTyped,
     LoadTyped, SwapBuildTyped, StageTyped, FreezeTyped, PublishTyped, FailTyped,
     LoadSnapshotTyped, ReadTyped, SearchReturnsTyped, ReadFailsTyped DEF Work
<1> QED
  BY <1>1, <1>2 DEF Next

------------------------------------------------------------------------------
(* Steps that only take one task on *)

\* Handles do not come or go, or change hands.
HandlesKept ==
  /\ DOMAIN handles' = DOMAIN handles
  /\ \A h \in DOMAIN handles :
       /\ handles'[h].status = handles[h].status /\ handles'[h].named = handles[h].named
       /\ handles'[h].store = handles[h].store /\ handles'[h].inode = handles[h].inode

\* A task goes on without a new handle and without a lock on the directory.
Plain(t, task) ==
  /\ task \in Tasks /\ Moved(t, task)
  /\ task.kind = Kind(t) /\ task.handle = tasks[t].handle
  /\ tasks[t].pc # "settled" /\ task.pc \notin {"settled", "flock", "remove", "rmdir"}
  /\ task.pc = "lockfile" => provider = "file"
  /\ ~Producing(task)
  /\ HandlesKept
  /\ UNCHANGED <<provider, entry, orphaned>> /\ dir'.inode = dir.inode

LEMMA PlainReturn ==
  ASSUME Typed, NEW t \in DOMAIN tasks, NEW code \in Codes, Return(t, code),
         code # "OK" \/ Kind(t) \notin Factories, tasks[t].pc # "settled", HandlesKept,
         UNCHANGED <<provider, entry, orphaned>>, dir'.inode = dir.inode
  PROVE  Plain(t, MovedTask(t, "done", code, NoContext))
<1> DEFINE task == MovedTask(t, "done", code, NoContext)
<1>1. tasks[t] \in Tasks /\ Moved(t, task)
  BY TaskFacts, ReturnMoves
<1>2. /\ task.kind = Kind(t) /\ task.handle = tasks[t].handle
      /\ task.pc = "done" /\ task.code = code
  BY DEF MovedTask
<1>3. task \in Tasks
  BY <1>1 DEF Tasks, MovedTask, Kind, Pcs, Contexts
<1> HIDE DEF task
<1>4. Plain(t, task)
  BY <1>1, <1>2, <1>3 DEF Plain, Producing
<1> QED
  BY <1>4 DEF task

LEMMA PlainGoto ==
  ASSUME Typed, NEW t \in DOMAIN tasks, NEW pc \in Pcs, NEW ctx,
         Moved(t, MovedTask(t, pc, tasks[t].code, ctx)), ctx \in Contexts,
         tasks[t].pc # "settled", pc \notin {"settled", "done", "flock", "remove", "rmdir"},
         pc = "lockfile" => provider = "file", HandlesKept,
         UNCHANGED <<provider, entry, orphaned>>, dir'.inode = dir.inode
  PROVE  Plain(t, MovedTask(t, pc, tasks[t].code, ctx))
<1> DEFINE task == MovedTask(t, pc, tasks[t].code, ctx)
<1>1. tasks[t] \in Tasks
  BY TaskFacts
<1>2. task.kind = Kind(t) /\ task.handle = tasks[t].handle /\ task.pc = pc
  BY DEF MovedTask
<1>3. task \in Tasks
  BY <1>1 DEF Tasks, MovedTask, Kind
<1>4. Moved(t, task)
  OBVIOUS
<1> HIDE DEF task
<1>5. Plain(t, task)
  BY <1>2, <1>3, <1>4 DEF Plain, Producing
<1> QED
  BY <1>5 DEF task

\* The steps of searches, of refusals and before a lock are plain.
LEMMA SearchPlain ==
  ASSUME Typed, NEW t \in DOMAIN tasks,
         LoadSnapshot(t) \/ Read(t) \/ ReadPinnedFails(t) \/ ReadFails(t) \/ Classify(t)
  PROVE  \E task : Plain(t, task)
<1>1. HandlesKept /\ dir'.inode = dir.inode /\ UNCHANGED <<provider, entry, orphaned>>
  BY DEF LoadSnapshot, Read, ReadPinnedFails, ReadFails, Classify, HandlesKept
<1>2. tasks[t] \in Tasks /\ KindOK(tasks[t]) /\ ContextOK(tasks[t]) /\ tasks[t].ctx \in Contexts
  BY TaskFacts DEF Tasks
<1>3. CASE LoadSnapshot(t)
  <2> DEFINE ctx == [snapshot |-> Snapshot(StoreOf(t))]
  <2>1. /\ Moved(t, MovedTask(t, "read", tasks[t].code, ctx))
        /\ tasks[t].pc = "load" /\ Kind(t) = "search"
    BY <1>3, GotoMoves DEF LoadSnapshot, At
  <2>2. Snapshot(StoreOf(t)) \in Snapshots
    BY <2>1, StoreFacts, CurrentSeen DEF Searches, SeenOK
  <2>3. ctx \in Contexts /\ "read" \in Pcs
    BY <2>2 DEF Contexts, Reads, Pcs
  <2> HIDE DEF ctx
  <2> QED
    BY <1>1, <2>1, <2>3, PlainGoto
<1>4. CASE Read(t)
  <2> DEFINE task == MovedTask(t, "done", "OK", ReadResult(t))
  <2>1. Moved(t, task) /\ tasks[t].pc = "read" /\ Resolves(StoreOf(t), tasks[t].ctx.snapshot)
    BY <1>4, ReadMoves DEF Read, At
  <2>2. Kind(t) \in Searches
    BY <1>2, <2>1 DEF KindOK, Kind
  <2>3. StoreOK(StoreOf(t)) /\ tasks[t].ctx.snapshot \in Snapshots
    BY <1>2, <2>1, <2>2, StoreFacts DEF ContextOK, Kind, Searches, Reads, PinnedReads
  <2>4. Rows(StoreOf(t), tasks[t].ctx.snapshot) \in NodeRows
    BY <2>1, <2>3, RowsTyped
  <2>5. Kind(t) = "searchPinned" => tasks[t].ctx.taken \in NodeRows
    BY <1>2, <2>1 DEF ContextOK, Kind, PinnedReads
  <2>6. ReadResult(t) \in Contexts /\ "done" \in Pcs /\ "OK" \in Codes
    BY <2>4, <2>5 DEF ReadResult, Results, Contexts, Pcs, Codes
  <2>7. /\ task.kind = Kind(t) /\ task.handle = tasks[t].handle /\ task.pc = "done"
    BY DEF MovedTask
  <2>8. task \in Tasks
    BY <1>2, <2>6 DEF Tasks, MovedTask, Kind
  <2> HIDE DEF task
  <2>9. Plain(t, task)
    BY <1>1, <2>1, <2>2, <2>7, <2>8 DEF Plain, Producing, Searches, Factories
  <2> QED
    BY <2>9
<1>5. CASE ReadFails(t)
  <2>1. Moved(t, MovedTask(t, "classify", tasks[t].code, tasks[t].ctx)) /\ tasks[t].pc = "read"
    BY <1>5, GotoMoves DEF ReadFails, At
  <2>2. "classify" \in Pcs
    BY DEF Pcs
  <2> QED
    BY <1>1, <1>2, <2>1, <2>2, PlainGoto
<1>6. CASE ReadPinnedFails(t) \/ Classify(t)
  <2>1. \E code \in Codes \ {"OK"} : Return(t, code)
    BY <1>6 DEF ReadPinnedFails, Classify, Codes
  <2>2. tasks[t].pc # "settled"
    BY <1>6 DEF ReadPinnedFails, Classify, At
  <2> QED
    BY <1>1, <2>1, <2>2, PlainReturn
<1> QED
  BY <1>3, <1>4, <1>5, <1>6

LEMMA StartPlain ==
  ASSUME Typed, NEW t \in DOMAIN tasks, Start(t) PROVE \E task : Plain(t, task)
<1>1. /\ Moved(t, MovedTask(t, FirstPc(Kind(t)), tasks[t].code, tasks[t].ctx))
      /\ tasks[t].pc = "queued" /\ UNCHANGED <<provider, entry, dir, handles, orphaned>>
  BY StartMoves DEF Start, At
<1>2. FirstPc(Kind(t)) \in {"writer", "load", "read", "compute"}
  BY DEF FirstPc
<1>3. tasks[t].ctx \in Contexts /\ FirstPc(Kind(t)) \in Pcs /\ HandlesKept
  BY <1>1, <1>2, TaskFacts DEF Tasks, Pcs, HandlesKept
<1> QED
  BY <1>1, <1>2, <1>3, PlainGoto

LEMMA RefusePlain ==
  ASSUME Typed, NEW t \in DOMAIN tasks,
         \/ RefuseAnonymous(t) \/ RefuseNamed(t) \/ RefuseFile(t) \/ RefuseDuplicates(t)
         \/ DestroyDir(t)
  PROVE  \E task : Plain(t, task)
<1>1. HandlesKept /\ UNCHANGED <<provider, entry, orphaned>> /\ tasks[t].pc # "settled"
  BY DEF RefuseAnonymous, RefuseNamed, RefuseFile, RefuseDuplicates, DestroyDir, HandlesKept, At
<1>2. dir'.inode = dir.inode
  <2>1. dir \in [present : BOOLEAN, inode : Nat, index : 0 .. Len(stores), inodes : Nat]
    BY DEF Typed
  <2>2. dir' = dir \/ dir' = [dir EXCEPT !.present = FALSE]
    BY DEF RefuseAnonymous, RefuseNamed, RefuseFile, RefuseDuplicates, DestroyDir
  <2> QED
    BY <2>1, <2>2
<1>3. \E code \in Codes : Return(t, code) /\ (code # "OK" \/ Kind(t) \notin Factories)
  <2>1. CASE RefuseAnonymous(t)
    BY <2>1 DEF RefuseAnonymous, Codes
  <2>2. CASE RefuseNamed(t)
    <3>1. NamedRefusal(t) \in Codes \cup {"none"} /\ NamedRefusal(t) # "OK"
      BY DEF NamedRefusal, Codes
    <3> QED
      BY <2>2, <3>1 DEF RefuseNamed
  <2>3. CASE RefuseFile(t)
    <3>1. FileRefusal(t) \in Codes \cup {"none"} /\ FileRefusal(t) # "OK"
      BY DEF FileRefusal, Codes
    <3> QED
      BY <2>3, <3>1 DEF RefuseFile
  <2>4. CASE RefuseDuplicates(t)
    BY <2>4 DEF RefuseDuplicates, Codes
  <2>5. CASE DestroyDir(t)
    BY <2>5, TaskFacts DEF DestroyDir, At, KindOK, Kind, Codes, Factories
  <2> QED
    BY <2>1, <2>2, <2>3, <2>4, <2>5
<1> QED
  BY <1>1, <1>2, <1>3, PlainReturn

LEMMA ProbePlain ==
  ASSUME Typed, NEW t \in DOMAIN tasks, Probe(t) PROVE \E task : Plain(t, task)
<1>1. /\ tasks[t].pc = "compute" /\ HandlesKept /\ provider = "file"
      /\ UNCHANGED <<provider, entry, orphaned>> /\ dir'.inode = dir.inode
  BY DEF Probe, HandlesKept, At
<1>2. FileIntent(t) \in Intents \cup Codes /\ FileIntent(t) # "OK"
  BY TaskFacts, <1>1 DEF FileIntent, Factories, Intents, Codes, KindOK, Kind
<1>3. CASE FileIntent(t) \in Intents
  <2> DEFINE ctx == [intent |-> FileIntent(t)]
  <2>1. Moved(t, MovedTask(t, "lockfile", tasks[t].code, ctx))
    BY <1>3, GotoMoves DEF Probe, Intents
  <2>2. ctx \in Contexts /\ "lockfile" \in Pcs
    BY <1>3 DEF Contexts, Pcs
  <2> HIDE DEF ctx
  <2> QED
    BY <1>1, <2>1, <2>2, PlainGoto
<1>4. CASE FileIntent(t) \notin Intents
  <2>1. Return(t, FileIntent(t)) /\ FileIntent(t) \in Codes
    BY <1>2, <1>4 DEF Probe, Intents
  <2> QED
    BY <1>1, <1>2, <2>1, PlainReturn
<1> QED
  BY <1>3, <1>4
------------------------------------------------------------------------------
(* Steps of a write *)

HandleRec(handle, writer, nextId, nodeIds) ==
  [status |-> handle.status, store |-> handle.store, inode |-> handle.inode,
   named |-> handle.named, writer |-> writer, nextId |-> nextId, nodeIds |-> nodeIds]

\* A task's store and handle afterwards, all others being what they were.
StoreAfter(t, store) ==
  /\ DOMAIN stores' = DOMAIN stores /\ stores'[Handle(t).store] = store
  /\ \A s \in DOMAIN stores : s # Handle(t).store => stores'[s] = stores[s]
HandleAfter(t, handle) ==
  /\ DOMAIN handles' = DOMAIN handles /\ handles'[tasks[t].handle] = handle
  /\ \A h \in DOMAIN handles : h # tasks[t].handle => handles'[h] = handles[h]
  /\ handle = HandleRec(Handle(t), handle.writer, handle.nextId, handle.nodeIds)

\* What a step of a write does to its task, its store and its handle.
WriteMove(t, task, store, handle) ==
  /\ InFlight(tasks[t]) /\ Moved(t, task) /\ task \in Tasks
  /\ task.kind = Kind(t) /\ task.handle = tasks[t].handle /\ task.arg = tasks[t].arg
  /\ task.pc \in {"load", "swap", "stage", "freeze", "publish", "done"}
  /\ StoreAfter(t, store) /\ HandleAfter(t, handle)
  /\ UNCHANGED <<provider, entry, dir, orphaned>> /\ muddled \subseteq muddled'

LEMMA HandleRecIs ==
  ASSUME NEW handle \in Handles
  PROVE  handle = HandleRec(handle, handle.writer, handle.nextId, handle.nodeIds)
BY DEF Handles, HandleRec

LEMMA ReleasedIs ==
  ASSUME NEW handle \in Handles, NEW nodeIds
  PROVE  /\ Released(handle) = HandleRec(handle, 0, handle.nextId, handle.nodeIds)
         /\ [Released(handle) EXCEPT !.nodeIds = nodeIds]
              = HandleRec(handle, 0, handle.nextId, nodeIds)
<1> DEFINE released == Released(handle)
<1>1. released = HandleRec(handle, 0, handle.nextId, handle.nodeIds)
  <2>1. handle = HandleRec(handle, handle.writer, handle.nextId, handle.nodeIds)
    BY HandleRecIs
  <2> QED
    BY <2>1 DEF Released, HandleRec
<1> HIDE DEF released
<1>2. [released EXCEPT !.nodeIds = nodeIds] = HandleRec(handle, 0, handle.nextId, nodeIds)
  BY <1>1 DEF HandleRec
<1> QED
  BY <1>1, <1>2 DEF released

\* The handle a bulk build leaves behind.
LEMMA RebuiltIs ==
  ASSUME NEW handle \in Handles, NEW nextId, NEW nodeIds, NEW new,
         new = [Released(handle) EXCEPT !.nextId = nextId, !.nodeIds = nodeIds]
  PROVE  new = HandleRec(handle, 0, nextId, nodeIds)
<1> DEFINE released == Released(handle)
           first == [released EXCEPT !.nextId = nextId]
           second == [first EXCEPT !.nodeIds = nodeIds]
<1>1. released = HandleRec(handle, 0, handle.nextId, handle.nodeIds)
  BY ReleasedIs
<1>2. new = second
  OBVIOUS
<1> HIDE DEF released
<1>3. first = HandleRec(handle, 0, nextId, handle.nodeIds)
  BY <1>1 DEF HandleRec
<1> HIDE DEF first
<1>4. second = HandleRec(handle, 0, nextId, nodeIds)
  BY <1>3 DEF HandleRec
<1> HIDE DEF second
<1> QED
  BY <1>2, <1>4

\* The handle a write locks.
LEMMA TakenIs ==
  ASSUME NEW handle \in Handles, NEW t, NEW nextId
  PROVE  /\ [handle EXCEPT !.writer = t] = HandleRec(handle, t, handle.nextId, handle.nodeIds)
         /\ [handle EXCEPT !.writer = t, !.nextId = nextId]
              = HandleRec(handle, t, nextId, handle.nodeIds)
<1> DEFINE first == [handle EXCEPT !.writer = t]
<1>1. first = HandleRec(handle, t, handle.nextId, handle.nodeIds)
  <2>1. handle = HandleRec(handle, handle.writer, handle.nextId, handle.nodeIds)
    BY HandleRecIs
  <2> QED
    BY <2>1 DEF HandleRec
<1> HIDE DEF first
<1>2. [first EXCEPT !.nextId = nextId] = HandleRec(handle, t, nextId, handle.nodeIds)
  BY <1>1 DEF HandleRec
<1> QED
  BY <1>1, <1>2 DEF first

LEMMA StoreUpdated ==
  ASSUME Typed, NEW t \in DOMAIN tasks, Kind(t) \in Writes
  PROVE  /\ stores' = stores => StoreAfter(t, StoreOf(t))
         /\ \A store \in Stores : Update(t, store) => StoreAfter(t, store)
<1>1. Handle(t).store \in DOMAIN stores /\ stores \in Seq(Stores)
  BY WriteFacts DEF Typed
<1>2. ASSUME NEW store \in Stores, Update(t, store) PROVE StoreAfter(t, store)
  BY <1>1, <1>2, Replaced DEF Update, StoreAfter
<1>3. stores' = stores => StoreAfter(t, StoreOf(t))
  BY <1>1 DEF StoreAfter, StoreOf
<1> QED
  BY <1>2, <1>3

LEMMA HandleKept ==
  ASSUME Typed, NEW t \in DOMAIN tasks, Kind(t) \in Writes, handles' = handles
  PROVE  HandleAfter(t, Handle(t))
BY WriteFacts, HandleRecIs DEF HandleAfter, Handle

LEMMA HandleSet ==
  ASSUME Typed, NEW t \in DOMAIN tasks, Kind(t) \in Writes, NEW handle, SetHandle(t, handle),
         handle = HandleRec(Handle(t), handle.writer, handle.nextId, handle.nodeIds)
  PROVE  HandleAfter(t, handle)
BY WriteFacts DEF HandleAfter, SetHandle

\* What is enough to know of a step of a write.
LEMMA WriteMoves ==
  ASSUME Typed, NEW t \in DOMAIN tasks, Kind(t) \in Writes, tasks[t].pc \notin {"done", "settled"},
         NEW task \in Tasks, Moved(t, task),
         task.kind = Kind(t), task.handle = tasks[t].handle, task.arg = tasks[t].arg,
         task.pc \in {"load", "swap", "stage", "freeze", "publish", "done"},
         NEW store, StoreAfter(t, store), NEW handle, HandleAfter(t, handle),
         UNCHANGED <<provider, entry, dir, orphaned>>, muddled \subseteq muddled'
  PROVE  WriteMove(t, task, store, handle)
BY DEF InFlight, Kind, WriteMove

LEMMA WritePlain ==
  ASSUME Typed, NEW t \in DOMAIN tasks, NEW task, NEW store, NEW handle,
         WriteMove(t, task, store, handle)
  PROVE  Plain(t, task)
<1>1. Kind(t) \in Writes /\ tasks[t].pc # "settled"
  BY DEF WriteMove, InFlight, Kind
<1>2. /\ handle.status = Handle(t).status /\ handle.named = Handle(t).named
      /\ handle.store = Handle(t).store /\ handle.inode = Handle(t).inode
  BY DEF WriteMove, HandleAfter, HandleRec
<1>3. HandlesKept
  <2>1. handles'[tasks[t].handle] = handle /\ DOMAIN handles' = DOMAIN handles
        /\ \A h \in DOMAIN handles : h # tasks[t].handle => handles'[h] = handles[h]
    BY DEF WriteMove, HandleAfter
  <2> QED
    BY <1>2, <2>1 DEF HandlesKept, Handle
<1>4. ~Producing(task)
  BY <1>1 DEF WriteMove, Producing, Writes, Factories
<1> QED
  BY <1>1, <1>3, <1>4 DEF WriteMove, Plain

\* A task that moves on to a program counter of its own.
LEMMA WriteGoes ==
  ASSUME Typed, NEW t \in DOMAIN tasks, NEW pc \in Pcs, NEW ctx \in Contexts, Goto(t, pc, ctx)
  PROVE  \E task \in Tasks :
           /\ Moved(t, task)
           /\ task.kind = Kind(t) /\ task.handle = tasks[t].handle /\ task.arg = tasks[t].arg
           /\ task.pc = pc /\ task.ctx = ctx
<1> DEFINE task == MovedTask(t, pc, tasks[t].code, ctx)
<1>1. /\ task.kind = Kind(t) /\ task.handle = tasks[t].handle /\ task.arg = tasks[t].arg
      /\ task.pc = pc /\ task.ctx = ctx /\ task \in Tasks
  BY MovedIs
<1>2. Moved(t, task)
  BY GotoMoves
<1> HIDE DEF task
<1> QED
  BY <1>1, <1>2

LEMMA WriteEnds ==
  ASSUME Typed, NEW t \in DOMAIN tasks, Kind(t) \in Writes, tasks[t].pc \notin {"done", "settled"},
         NEW code \in Codes, Return(t, code),
         NEW store, StoreAfter(t, store), NEW handle, HandleAfter(t, handle),
         UNCHANGED <<provider, entry, dir, orphaned>>, muddled \subseteq muddled'
  PROVE  \E task : WriteMove(t, task, store, handle) /\ task.pc = "done"
<1> DEFINE task == MovedTask(t, "done", code, NoContext)
<1>1. tasks[t] \in Tasks
  BY TaskFacts
<1>2. /\ task.kind = Kind(t) /\ task.handle = tasks[t].handle /\ task.arg = tasks[t].arg
      /\ task.pc = "done"
  BY DEF MovedTask
<1>3. task \in Tasks
  BY <1>1 DEF Tasks, MovedTask, Kind, Pcs, Contexts
<1>4. Moved(t, task)
  BY ReturnMoves
<1> HIDE DEF task
<1>5. WriteMove(t, task, store, handle)
  BY <1>2, <1>3, <1>4, WriteMoves
<1> QED
  BY <1>2, <1>5
------------------------------------------------------------------------------
(* The registry *)

\* No step turns an idle task into one that hands out a handle, but Produce.
LEMMA OwnedKept ==
  ASSUME Typed, Owned, HandlesKept, UNCHANGED <<provider, entry>>,
         \A u \in DOMAIN tasks' :
           /\ tasks'[u].pc \in FilePcs => provider = "file"
           /\ Producing(tasks'[u]) => u \in DOMAIN tasks /\ tasks'[u] = tasks[u]
  PROVE  Owned'
<1>1. ASSUME NEW u \in DOMAIN tasks', Producing(tasks'[u])
      PROVE  tasks'[u].handle # 0 /\ Handle(u)'.status = "computed"
  <2>1. /\ u \in DOMAIN tasks /\ tasks'[u] = tasks[u]
        /\ tasks[u].handle # 0 /\ Handle(u).status = "computed"
    BY <1>1 DEF Owned
  <2>2. tasks[u].handle \in DOMAIN handles
    BY <2>1, TaskFacts DEF TaskOK, Typed
  <2> QED
    BY <2>1, <2>2 DEF HandlesKept, Handle
<1>2. ASSUME NEW u \in DOMAIN tasks', NEW v \in DOMAIN tasks', Producing(tasks'[u]),
             Producing(tasks'[v]), tasks'[u].handle = tasks'[v].handle
      PROVE  u = v
  BY <1>2 DEF Owned
<1>3. \A h \in DOMAIN handles : IsLive(h)' <=> IsLive(h)
  BY DEF HandlesKept, IsLive
<1>4. \A h \in DOMAIN handles' : handles'[h].named <=> provider' = "memory" /\ IsLive(h)'
  BY <1>3 DEF HandlesKept, Owned
<1>5. /\ \A h \in DOMAIN handles' : handles'[h].named => entry'.attached /\ handles'[h].store = entry'.store
      /\ \A g, h \in DOMAIN handles' : handles'[g].named /\ handles'[h].named => g = h
      /\ entry'.attached => \E h \in DOMAIN handles' : handles'[h].named
  BY DEF HandlesKept, Owned
<1>6. /\ entry'.store = 0 => entry' = NoEntry
      /\ provider' # "memory" =>
           /\ entry' = NoEntry
           /\ \A g, h \in DOMAIN handles' : handles'[g].store = handles'[h].store => g = h
  BY DEF HandlesKept, Owned
<1>7. \A u \in DOMAIN tasks' : tasks'[u].pc \in FilePcs => provider' = "file"
  OBVIOUS
<1> QED
  BY <1>1, <1>2, <1>4, <1>5, <1>6, <1>7 DEF Owned

\* A task that moves without handing anything out.
LEMMA MovedOwned ==
  ASSUME Typed, Owned, HandlesKept, UNCHANGED <<provider, entry>>,
         NEW t \in DOMAIN tasks, NEW task \in Tasks, Moved(t, task),
         task.pc \in FilePcs => provider = "file", ~Producing(task)
  PROVE  Owned'
<1>1. /\ DOMAIN tasks' = DOMAIN tasks /\ tasks'[t] = task
      /\ \A u \in DOMAIN tasks : u # t => tasks'[u] = tasks[u]
  BY MovedFacts DEF Typed
<1>2. \A u \in DOMAIN tasks' : tasks'[u].pc \in FilePcs => provider = "file"
  BY <1>1 DEF Owned
<1>3. \A u \in DOMAIN tasks' : Producing(tasks'[u]) => u \in DOMAIN tasks /\ tasks'[u] = tasks[u]
  BY <1>1
<1> QED
  BY <1>2, <1>3, OwnedKept

LEMMA PlainOwned ==
  ASSUME Typed, Owned, NEW t \in DOMAIN tasks, NEW task, Plain(t, task) PROVE Owned'
<1>1. task.pc \in FilePcs => provider = "file"
  BY DEF Plain, FilePcs
<1> QED
  BY <1>1, MovedOwned DEF Plain

\* What a call leaves behind: one more task, in the queue.
Queues(task) ==
  /\ tasks' = Append(tasks, task) /\ task \in Tasks /\ task.pc = "queued"
  /\ task.kind \in Writes => task.handle \in DOMAIN handles /\ IsOpen(task.handle)
  /\ task.handle # 0 => task.handle \in DOMAIN handles /\ IsOpen(task.handle)
  /\ UNCHANGED <<provider, entry, dir, stores, handles, pinned, muddled, orphaned>>

LEMMA CallQueues ==
  ASSUME Typed, NEW call, NEW h \in 0 .. Len(handles), NEW ctx \in Contexts, Call(call, h, ctx),
         call.kind \in Kinds, call.arg \in BOOLEAN \cup Ids \cup Seq(Ids),
         h = 0 => call.kind \notin Writes, h # 0 => h \in DOMAIN handles /\ IsOpen(h)
  PROVE  \E task : Queues(task)
<1> DEFINE task == [kind |-> call.kind, handle |-> h, arg |-> call.arg, ctx |-> ctx,
                    pc |-> "queued", code |-> ""]
<1>1. h \in Nat /\ "queued" \in Pcs /\ "" \in Codes
  BY DEF Pcs, Codes, Typed
<1>2. task \in Tasks
  BY <1>1 DEF Tasks
<1>3. task.pc = "queued" /\ task.handle = h /\ task.kind = call.kind
  OBVIOUS
<1>4. /\ tasks' = Append(tasks, task)
      /\ UNCHANGED <<provider, entry, dir, stores, handles, pinned, muddled, orphaned>>
  BY DEF Call
<1> HIDE DEF task
<1>5. Queues(task)
  BY <1>2, <1>3, <1>4 DEF Queues
<1> QED
  BY <1>5

LEMMA CallsQueue ==
  ASSUME Typed, CallOnUri \/ \E h \in DOMAIN handles : CallOnHandle(h) \/ CallSearchPinned(h)
  PROVE  \E task : Queues(task)
<1>1. \A call \in Calls[provider] :
        call.kind \in Kinds /\ call.arg \in BOOLEAN \cup Ids \cup Seq(Ids)
  <2>1. Calls[provider] \subseteq
          [kind : Factories, arg : BOOLEAN] \cup [kind : Searches \cup {"destroy"}, arg : {TRUE}]
            \cup [kind : {"insert", "delete"}, arg : Ids] \cup [kind : {"build"}, arg : Seq(Ids)]
    BY BindingAssumption DEF Typed
  <2> QED
    BY <2>1 DEF Kinds, Factories, Writes, Searches
<1>2. NoContext \in Contexts /\ 0 \in 0 .. Len(handles) /\ DOMAIN handles \subseteq 0 .. Len(handles)
      /\ 0 \notin DOMAIN handles
  BY DEF Contexts, Typed
<1>3. CASE CallOnUri
  <2>1. PICK call \in Calls[provider] :
          call.kind \in Factories \cup {"destroy"} /\ Call(call, 0, NoContext)
    BY <1>3 DEF CallOnUri
  <2>2. call.kind \notin Writes
    BY <2>1 DEF Factories, Writes
  <2> QED
    BY <1>1, <1>2, <2>1, <2>2, CallQueues
<1>4. ASSUME NEW h \in DOMAIN handles, CallOnHandle(h) PROVE \E task : Queues(task)
  <2>1. PICK call \in Calls[provider] : IsOpen(h) /\ Call(call, h, NoContext)
    BY <1>4 DEF CallOnHandle
  <2>2. h # 0 /\ h \in 0 .. Len(handles)
    BY <1>2
  <2> QED
    BY <1>1, <1>2, <2>1, <2>2, CallQueues
<1>5. ASSUME NEW h \in DOMAIN handles, CallSearchPinned(h) PROVE \E task : Queues(task)
  <2> DEFINE call == [kind |-> "searchPinned", arg |-> TRUE]
             ctx == [snapshot |-> pinned.snapshot, taken |-> pinned.rows]
  <2>1. Call(call, h, ctx) /\ IsOpen(h)
    BY <1>5 DEF CallSearchPinned
  <2>2. pinned \in [handle : 0 .. Len(handles), snapshot : Snapshots, rows : NodeRows]
    BY DEF Typed, PinnedOK
  <2>3. ctx \in Contexts
    BY <2>2 DEF PinnedReads, Contexts
  <2>4. call.kind = "searchPinned" /\ call.arg = TRUE
    OBVIOUS
  <2> HIDE DEF call, ctx
  <2>5. call.kind \in Kinds /\ h \in 0 .. Len(handles) /\ h # 0
    BY <1>2, <2>4 DEF Kinds, Searches
  <2> QED
    BY <2>1, <2>3, <2>4, <2>5, CallQueues
<1> QED
  BY <1>3, <1>4, <1>5

LEMMA QueuesFacts ==
  ASSUME Typed, NEW task, Queues(task)
  PROVE  /\ Len(tasks) \in Nat /\ DOMAIN tasks = 1 .. Len(tasks)
         /\ DOMAIN tasks' = 1 .. Len(tasks) + 1 /\ tasks'[Len(tasks) + 1] = task
         /\ \A u \in DOMAIN tasks : u \in DOMAIN tasks' /\ tasks'[u] = tasks[u]
         /\ \A u \in DOMAIN tasks' : u \in DOMAIN tasks \/ u = Len(tasks) + 1
<1>1. tasks \in Seq(Tasks) /\ task \in Tasks /\ tasks' = Append(tasks, task)
  BY DEF Queues, Typed
<1>2. /\ Len(tasks) \in Nat /\ DOMAIN tasks = 1 .. Len(tasks)
      /\ DOMAIN tasks' = 1 .. Len(tasks) + 1 /\ tasks'[Len(tasks) + 1] = task
      /\ \A u \in 1 .. Len(tasks) : tasks'[u] = tasks[u]
  BY <1>1
<1>3. \A u \in 1 .. Len(tasks) : u \in 1 .. Len(tasks) + 1
  BY <1>2
<1>4. \A u \in 1 .. Len(tasks) + 1 : u \in 1 .. Len(tasks) \/ u = Len(tasks) + 1
  BY <1>2
<1> QED
  BY <1>2, <1>3, <1>4

LEMMA QueuesOwned ==
  ASSUME Typed, Owned, NEW task, Queues(task) PROVE Owned'
<1>1. HandlesKept /\ UNCHANGED <<provider, entry>> /\ task.pc = "queued"
  BY DEF Queues, HandlesKept
<1>2. ASSUME NEW u \in DOMAIN tasks'
      PROVE  /\ tasks'[u].pc \in FilePcs => provider = "file"
             /\ Producing(tasks'[u]) => u \in DOMAIN tasks /\ tasks'[u] = tasks[u]
  <2>1. CASE u \in DOMAIN tasks
    BY <2>1, QueuesFacts DEF Owned
  <2>2. CASE tasks'[u] = task
    BY <1>1, <2>2 DEF FilePcs, Producing
  <2> QED
    BY <2>1, <2>2, QueuesFacts
<1> QED
  BY <1>1, <1>2, OwnedKept

\* A destroy and an unlinking of LOCK hand nothing out either.
LEMMA FileOwned ==
  ASSUME Typed, Owned, NEW t \in DOMAIN tasks, OpenLockFile(t) \/ DestroyLock(t) \/ DestroyFiles(t)
  PROVE  Owned'
<1>1. /\ HandlesKept /\ UNCHANGED <<provider, entry>> /\ tasks[t].pc \in FilePcs
  BY DEF OpenLockFile, DestroyLock, DestroyFiles, HandlesKept, At, AtFlock, FilePcs
<1>2. provider = "file" /\ tasks[t] \in Tasks
  BY <1>1, TaskFacts DEF Owned
<1>3. PICK pc \in Pcs, code \in Codes, ctx \in Contexts :
        Moved(t, MovedTask(t, pc, code, ctx)) /\ (pc # "done" \/ code # "OK")
  <2>1. CASE OpenLockFile(t)
    <3> DEFINE intent == tasks[t].ctx.intent
               inode == IF dir.inode = 0 THEN dir.inodes + 1 ELSE dir.inode
    <3>1. CASE \E code \in Codes \ {"OK"} : Return(t, code)
      <4>1. "done" \in Pcs /\ NoContext \in Contexts
        BY DEF Pcs, Contexts
      <4> QED
        BY <3>1, <4>1, ReturnMoves
    <3>2. CASE Goto(t, "flock", [intent |-> intent, inode |-> inode])
      <4>1. tasks[t].ctx \in [intent : Intents]
        BY <2>1, TaskFacts DEF OpenLockFile, At, ContextOK
      <4>2. inode \in Nat
        BY DEF Typed
      <4>3. [intent |-> intent, inode |-> inode] \in Contexts /\ "flock" \in Pcs
        BY <4>1, <4>2 DEF Contexts, Lockfiles, Pcs
      <4>4. Moved(t, MovedTask(t, "flock", tasks[t].code, [intent |-> intent, inode |-> inode]))
        BY <3>2, GotoMoves
      <4>5. tasks[t].code \in Codes /\ "flock" # "done"
        BY <1>2 DEF Tasks
      <4> HIDE DEF intent, inode
      <4> QED
        BY <4>3, <4>4, <4>5
    <3> QED
      BY <2>1, <3>1, <3>2 DEF OpenLockFile, Codes
  <2>2. ASSUME NEW pc \in {"remove", "rmdir"}, Goto(t, pc, tasks[t].ctx)
        PROVE  \E code \in Codes, ctx \in Contexts : Moved(t, MovedTask(t, pc, code, ctx))
    <3>1. tasks[t].ctx \in Contexts /\ tasks[t].code \in Codes
      BY <1>2 DEF Tasks
    <3> QED
      BY <2>2, <3>1, GotoMoves
  <2>3. CASE DestroyLock(t) \/ DestroyFiles(t)
    <3>1. \E pc \in {"remove", "rmdir"} : Goto(t, pc, tasks[t].ctx)
      BY <2>3 DEF DestroyLock, DestroyFiles
    <3>2. {"remove", "rmdir"} \subseteq Pcs \ {"done"}
      BY DEF Pcs
    <3> QED
      BY <2>2, <3>1, <3>2
  <2> QED
    BY <2>1, <2>3
<1> DEFINE task == MovedTask(t, pc, code, ctx)
<1>4. task \in Tasks /\ ~Producing(task)
  BY <1>2, <1>3 DEF Tasks, MovedTask, Kind, Producing
<1> HIDE DEF task
<1> QED
  BY <1>1, <1>2, <1>3, <1>4, MovedOwned DEF task

\* A destroy of a name finds it unowned.
LEMMA DestroyNamedOwned ==
  ASSUME Typed, Owned, NEW t \in DOMAIN tasks, DestroyNamed(t) PROVE Owned'
<1>1. /\ provider = "memory" /\ Kind(t) = "destroy" /\ ~entry.attached /\ entry' = NoEntry
      /\ Return(t, "OK") /\ UNCHANGED <<provider, handles>>
  BY DEF DestroyNamed
<1> DEFINE task == MovedTask(t, "done", "OK", NoContext)
<1>2. Moved(t, task)
  BY <1>1, ReturnMoves
<1>3. task \in Tasks
  BY TaskFacts DEF Tasks, MovedTask, Kind, Pcs, Codes, Contexts
<1>4. ~Producing(task) /\ task.pc \notin FilePcs
  BY <1>1 DEF MovedTask, Producing, Factories, FilePcs
<1> HIDE DEF task
<1>5. /\ DOMAIN tasks' = DOMAIN tasks /\ tasks'[t] = task
      /\ \A u \in DOMAIN tasks : u # t => tasks'[u] = tasks[u]
  BY <1>2, <1>3, MovedFacts DEF Typed
<1>6. \A u \in DOMAIN tasks' : tasks'[u].pc \in FilePcs => provider' = "file"
  BY <1>1, <1>4, <1>5 DEF Owned
<1>7. \A u \in DOMAIN tasks' : Producing(tasks'[u]) =>
        u \in DOMAIN tasks /\ tasks'[u] = tasks[u]
  BY <1>4, <1>5
<1>8. \A u \in DOMAIN tasks' : Producing(tasks'[u]) =>
        tasks'[u].handle # 0 /\ Handle(u)'.status = "computed"
  BY <1>1, <1>7 DEF Owned, Handle
<1>9. \A u, v \in DOMAIN tasks' :
        Producing(tasks'[u]) /\ Producing(tasks'[v]) /\ tasks'[u].handle = tasks'[v].handle => u = v
  BY <1>7 DEF Owned
<1>10. \A h \in DOMAIN handles : ~handles[h].named
  BY <1>1 DEF Owned
<1>11. \A h \in DOMAIN handles' : handles'[h].named <=> provider' = "memory" /\ IsLive(h)'
  BY <1>1 DEF Owned, IsLive
<1> QED
  BY <1>1, <1>6, <1>8, <1>9, <1>10, <1>11 DEF Owned, NoEntry

\* The first close of a named handle detaches the name; a handle of another
\* provider has none.
LEMMA CloseOwned ==
  ASSUME Typed, Owned, NEW h \in DOMAIN handles, Close(h) PROVE Owned'
<1> DEFINE handle == [handles[h] EXCEPT !.status = "closed", !.named = FALSE]
<1>1. /\ UNCHANGED <<provider, tasks>> /\ handles' = [handles EXCEPT ![h] = handle]
      /\ entry' = IF handles[h].named THEN [entry EXCEPT !.attached = FALSE] ELSE entry
      /\ handles[h].status \in {"open", "closed"}
  BY DEF Close
<1>2. handle.status = "closed" /\ handle.named = FALSE /\ handle.store = handles[h].store
  <2>1. handles[h] \in Handles
    BY DEF Typed
  <2> QED
    BY <2>1 DEF Handles
<1> HIDE DEF handle
<1>3. /\ DOMAIN handles' = DOMAIN handles /\ handles'[h] = handle
      /\ \A g \in DOMAIN handles : g # h => handles'[g] = handles[g]
  BY <1>1
<1>4. \A u \in DOMAIN tasks : Producing(tasks[u]) => tasks[u].handle # h
  BY <1>1 DEF Owned, Handle
<1>5. \A u \in DOMAIN tasks' : Producing(tasks'[u]) =>
        tasks'[u].handle # 0 /\ Handle(u)'.status = "computed"
  <2> SUFFICES ASSUME NEW u \in DOMAIN tasks, Producing(tasks[u])
               PROVE  tasks[u].handle # 0 /\ handles'[tasks[u].handle].status = "computed"
    BY <1>1 DEF Handle
  <2>1. tasks[u].handle \in DOMAIN handles /\ Handle(u).status = "computed" /\ tasks[u].handle # 0
    BY TaskFacts DEF TaskOK, Typed, Owned
  <2> QED
    BY <1>3, <1>4, <2>1 DEF Handle
<1>6. \A g \in DOMAIN handles' : handles'[g].named <=> provider' = "memory" /\ IsLive(g)'
  <2> SUFFICES ASSUME NEW g \in DOMAIN handles
               PROVE  handles'[g].named <=> provider = "memory" /\ handles'[g].status \in {"computed", "open"}
    BY <1>1, <1>3 DEF IsLive
  <2>1. CASE g = h
    BY <1>2, <1>3, <2>1
  <2>2. CASE g # h
    BY <1>3, <2>2 DEF Owned, IsLive
  <2> QED
    BY <2>1, <2>2
<1>7. entry \in [store : 0 .. Len(stores), attached : BOOLEAN]
  BY DEF Typed
<1>8. \A g \in DOMAIN handles : handles'[g].store = handles[g].store
  BY <1>2, <1>3
<1>9. \A g \in DOMAIN handles' : handles'[g].named => handles[g].named /\ g # h
  BY <1>2, <1>3
<1>10. CASE handles[h].named
  <2>1. entry' = [entry EXCEPT !.attached = FALSE]
    BY <1>1, <1>10
  <2>2. entry'.store = entry.store /\ entry'.attached = FALSE
    BY <1>7, <2>1
  <2>3. \A g \in DOMAIN handles' : ~handles'[g].named
    BY <1>3, <1>9, <1>10 DEF Owned
  <2>4. provider = "memory" /\ entry.attached
    BY <1>10 DEF Owned
  <2>5. entry.store # 0
    BY <2>4 DEF Owned, NoEntry
  <2> QED
    BY <1>1, <1>5, <1>6, <2>2, <2>3, <2>4, <2>5 DEF Owned
<1>11. CASE ~handles[h].named
  <2>1. entry' = entry
    BY <1>1, <1>11
  <2>2. \A g \in DOMAIN handles : handles'[g].named <=> handles[g].named
    BY <1>2, <1>3, <1>11
  <2>3. /\ \A g \in DOMAIN handles' : handles'[g].named => entry'.attached /\ handles'[g].store = entry'.store
        /\ \A f, g \in DOMAIN handles' : handles'[f].named /\ handles'[g].named => f = g
        /\ entry'.attached => \E g \in DOMAIN handles' : handles'[g].named
    BY <1>3, <1>8, <2>1, <2>2 DEF Owned
  <2>4. /\ entry'.store = 0 => entry' = NoEntry
        /\ provider' # "memory" =>
             /\ entry' = NoEntry
             /\ \A f, g \in DOMAIN handles' : handles'[f].store = handles'[g].store => f = g
    BY <1>1, <1>3, <1>8, <2>1 DEF Owned
  <2> QED
    BY <1>1, <1>5, <1>6, <2>3, <2>4 DEF Owned
<1> QED
  BY <1>10, <1>11

\* A handle that is handed out was made by that task alone.
LEMMA SettleOwned ==
  ASSUME Typed, Owned, NEW t \in DOMAIN tasks, Settle(t) PROVE Owned'
<1>1. /\ Moved(t, Settled) /\ UNCHANGED <<provider, entry>>
      /\ handles' = IF Producing(tasks[t])
                    THEN [handles EXCEPT ![tasks[t].handle].status = "open"] ELSE handles
  BY DEF Settle, Moved, At, Producing, Kind
<1>2. Settled \in Tasks /\ ~Producing(Settled) /\ Settled.pc \notin FilePcs
  BY DEF Settled, Tasks, Kinds, Contexts, Pcs, Codes, Producing, FilePcs
<1>3. CASE ~Producing(tasks[t])
  <2>1. HandlesKept
    BY <1>1, <1>3 DEF HandlesKept
  <2> QED
    BY <1>1, <1>2, <2>1, MovedOwned
<1>4. CASE Producing(tasks[t])
  <2> DEFINE h == tasks[t].handle
             handle == [handles[h] EXCEPT !.status = "open"]
  <2>1. h \in DOMAIN handles /\ handles[h].status = "computed"
    BY <1>4, TaskFacts DEF TaskOK, Typed, Owned, Handle
  <2>2. handles' = [handles EXCEPT ![h] = handle]
    BY <1>1, <1>4
  <2>3. /\ handle.status = "open" /\ handle.named = handles[h].named
        /\ handle.store = handles[h].store
    <3>1. handles[h] \in Handles
      BY <2>1 DEF Typed
    <3> QED
      BY <3>1 DEF Handles
  <2> HIDE DEF handle
  <2>4. /\ DOMAIN handles' = DOMAIN handles /\ handles'[h] = handle
        /\ \A g \in DOMAIN handles : g # h => handles'[g] = handles[g]
    BY <2>1, <2>2
  <2>5. /\ DOMAIN tasks' = DOMAIN tasks /\ tasks'[t] = Settled
        /\ \A u \in DOMAIN tasks : u # t => tasks'[u] = tasks[u]
    BY <1>1, <1>2, MovedFacts DEF Typed
  <2>6. \A u \in DOMAIN tasks' : Producing(tasks'[u]) =>
          u # t /\ u \in DOMAIN tasks /\ tasks'[u] = tasks[u]
    BY <1>2, <2>5
  <2>7. \A u \in DOMAIN tasks' : Producing(tasks'[u]) =>
          tasks'[u].handle # 0 /\ Handle(u)'.status = "computed"
    <3> SUFFICES ASSUME NEW u \in DOMAIN tasks', Producing(tasks'[u])
                 PROVE  tasks'[u].handle # 0 /\ handles'[tasks'[u].handle].status = "computed"
      BY DEF Handle
    <3>1. u # t /\ u \in DOMAIN tasks /\ tasks'[u] = tasks[u] /\ Producing(tasks[u])
      BY <2>6
    <3>2. /\ tasks[u].handle \in DOMAIN handles /\ tasks[u].handle # 0
          /\ handles[tasks[u].handle].status = "computed"
      BY <3>1, TaskFacts DEF TaskOK, Typed, Owned, Handle
    <3>3. tasks[u].handle # h
      BY <1>4, <3>1 DEF Owned
    <3> QED
      BY <2>4, <3>1, <3>2, <3>3
  <2>8. \A u, v \in DOMAIN tasks' :
          Producing(tasks'[u]) /\ Producing(tasks'[v]) /\ tasks'[u].handle = tasks'[v].handle => u = v
    BY <2>6 DEF Owned
  <2>9. \A g \in DOMAIN handles :
          /\ IsLive(g)' <=> IsLive(g)
          /\ handles'[g].named <=> handles[g].named
          /\ handles'[g].store = handles[g].store
    BY <2>1, <2>3, <2>4 DEF IsLive
  <2>10. \A u \in DOMAIN tasks' : tasks'[u].pc \in FilePcs => provider' = "file"
    BY <1>1, <1>2, <2>5 DEF Owned
  <2>11. \A g \in DOMAIN handles' : handles'[g].named <=> provider' = "memory" /\ IsLive(g)'
    BY <1>1, <2>4, <2>9 DEF Owned
  <2>12. /\ \A g \in DOMAIN handles' : handles'[g].named => entry'.attached /\ handles'[g].store = entry'.store
         /\ \A f, g \in DOMAIN handles' : handles'[f].named /\ handles'[g].named => f = g
         /\ entry'.attached => \E g \in DOMAIN handles' : handles'[g].named
    BY <1>1, <2>4, <2>9 DEF Owned
  <2>13. /\ entry'.store = 0 => entry' = NoEntry
         /\ provider' # "memory" =>
              /\ entry' = NoEntry
              /\ \A f, g \in DOMAIN handles' : handles'[f].store = handles'[g].store => f = g
    BY <1>1, <2>4, <2>9 DEF Owned
  <2> QED
    BY <2>7, <2>8, <2>10, <2>11, <2>12, <2>13 DEF Owned
<1> QED
  BY <1>3, <1>4

\* A factory makes a handle, over a new store or over the named one, whose
\* name no one owns.
Makes(t, s, store, inode) ==
  /\ Produce(t, s, store, inode) /\ inode \in Nat
  /\ Kind(t) \in Factories /\ tasks[t].pc \in {"compute", "flock"}
  /\ UNCHANGED <<provider, orphaned>> /\ dir'.inode = dir.inode
  /\ DOMAIN stores \subseteq DOMAIN stores' /\ \A i \in DOMAIN stores : stores'[i] = stores[i]
  /\ s \in DOMAIN stores' /\ s # 0 /\ StoreOK(store) /\ stores'[s] = store
  /\ muddled \subseteq muddled'
  /\ provider = "file" => tasks[t].pc = "flock" /\ inode = tasks[t].ctx.inode /\ Lockable(t)
  /\ IF provider = "memory"
     THEN ~entry.attached /\ entry' = [store |-> s, attached |-> TRUE]
     ELSE entry' = entry /\ s \notin DOMAIN stores

LEMMA LockedFacts ==
  ASSUME Typed, Owned, NEW t \in DOMAIN tasks, tasks[t].pc = "flock", tasks[t].ctx.intent # "destroy"
  PROVE  tasks[t].ctx.inode \in Nat /\ Kind(t) \in Factories /\ provider = "file"
<1>1. KindOK(tasks[t]) /\ ContextOK(tasks[t])
  BY TaskFacts
<1>2. tasks[t].ctx.inode \in Nat /\ Kind(t) \in Factories \cup {"destroy"}
  BY <1>1 DEF ContextOK, KindOK, Kind, Lockfiles
<1>3. tasks[t].kind # "destroy"
  BY <1>1 DEF ContextOK
<1> QED
  BY <1>2, <1>3 DEF Owned, FilePcs, Kind

LEMMA CreateMakes ==
  ASSUME Typed, Owned, NEW t \in DOMAIN tasks,
         CreateAnonymous(t) \/ CreateNamed(t) \/ CreateFile(t)
  PROVE  \E inode : Makes(t, Len(stores) + 1, NewStore, inode)
<1>1. /\ stores' = Append(stores, NewStore) /\ UNCHANGED <<provider, orphaned, muddled>>
      /\ tasks[t].pc \in {"compute", "flock"}
  BY DEF CreateAnonymous, CreateNamed, CreateFile, At, AtFlock
<1>2. /\ stores'[Len(stores) + 1] = NewStore /\ Len(stores) + 1 \in DOMAIN stores'
      /\ \A s \in DOMAIN stores : s \in DOMAIN stores' /\ stores'[s] = stores[s]
  BY <1>1, NewStoreOK, StoresAppended
<1>3. Len(stores) + 1 \notin DOMAIN stores /\ Len(stores) + 1 # 0
  BY DEF Typed
<1>4. CASE CreateAnonymous(t)
  <2>1. /\ Produce(t, Len(stores) + 1, NewStore, 0) /\ Kind(t) \in Factories /\ 0 \in Nat
        /\ UNCHANGED <<entry, dir>> /\ provider = "anonymous"
    BY <1>4 DEF CreateAnonymous, Factories
  <2>2. Makes(t, Len(stores) + 1, NewStore, 0)
    BY <1>1, <1>2, <1>3, <2>1, NewStoreOK DEF Makes
  <2> QED
    BY <2>2
<1>5. CASE CreateNamed(t)
  <2>1. /\ Produce(t, Len(stores) + 1, NewStore, 0) /\ Kind(t) \in Factories /\ 0 \in Nat
        /\ UNCHANGED dir /\ provider = "memory" /\ ~entry.attached
        /\ entry' = [store |-> Len(stores) + 1, attached |-> TRUE]
    BY <1>5 DEF CreateNamed, Factories, NoEntry
  <2>2. Makes(t, Len(stores) + 1, NewStore, 0)
    BY <1>1, <1>2, <1>3, <2>1, NewStoreOK DEF Makes
  <2> QED
    BY <2>2
<1>6. CASE CreateFile(t)
  <2>1. /\ Produce(t, Len(stores) + 1, NewStore, tasks[t].ctx.inode) /\ Lockable(t)
        /\ tasks[t].pc = "flock" /\ tasks[t].ctx.intent = "create" /\ UNCHANGED entry
        /\ dir' = [dir EXCEPT !.index = Len(stores) + 1]
    BY <1>6 DEF CreateFile, AtFlock, At
  <2>2. tasks[t].ctx.inode \in Nat /\ Kind(t) \in Factories /\ provider = "file"
    BY <2>1, LockedFacts
  <2>3. dir'.inode = dir.inode
    BY <2>1 DEF Typed
  <2>4. Makes(t, Len(stores) + 1, NewStore, tasks[t].ctx.inode)
    BY <1>1, <1>2, <1>3, <2>1, <2>2, <2>3, NewStoreOK DEF Makes
  <2> QED
    BY <2>4
<1> QED
  BY <1>4, <1>5, <1>6

LEMMA OpenFileMakes ==
  ASSUME Typed, Owned, NEW t \in DOMAIN tasks, OpenFile(t)
  PROVE  /\ Makes(t, Len(stores) + 1, Reloaded(stores[dir.index]), tasks[t].ctx.inode)
         /\ dir.index \in DOMAIN stores
         /\ Len(stores) + 1 \notin muddled' => stores[dir.index].delta = 0
<1> DEFINE store == Reloaded(stores[dir.index])
<1>1. /\ stores' = Append(stores, store) /\ UNCHANGED <<provider, entry, orphaned>>
      /\ Produce(t, Len(stores) + 1, stores'[Len(stores')], tasks[t].ctx.inode)
      /\ tasks[t].pc = "flock" /\ tasks[t].ctx.intent = "open" /\ dir.index # 0 /\ Lockable(t)
      /\ dir' = [dir EXCEPT !.index = Len(stores) + 1]
      /\ muddled' = muddled \cup {s \in {Len(stores) + 1} : stores[dir.index].delta # 0}
  BY DEF OpenFile, AtFlock, At, Exists
<1>2. dir.index \in DOMAIN stores /\ dir'.inode = dir.inode
  BY <1>1 DEF Typed
<1>3. StoreOK(store)
  BY <1>2, ReloadedOK DEF Typed
<1> HIDE DEF store
<1>4. /\ Len(stores') = Len(stores) + 1 /\ Len(stores) + 1 \in DOMAIN stores'
      /\ stores'[Len(stores) + 1] = store
      /\ \A s \in DOMAIN stores : s \in DOMAIN stores' /\ stores'[s] = stores[s]
  BY <1>1, <1>3, StoresAppended
<1>5. tasks[t].ctx.inode \in Nat /\ Kind(t) \in Factories /\ provider = "file"
  BY <1>1, LockedFacts
<1>6. Len(stores) + 1 \notin DOMAIN stores /\ Len(stores) + 1 # 0
  BY DEF Typed
<1>7. Makes(t, Len(stores) + 1, store, tasks[t].ctx.inode)
  BY <1>1, <1>2, <1>3, <1>4, <1>5, <1>6 DEF Makes
<1>8. Len(stores) + 1 \notin muddled' => stores[dir.index].delta = 0
  BY <1>1
<1> QED
  BY <1>2, <1>7, <1>8 DEF store

LEMMA OpenNamedMakes ==
  ASSUME Typed, Owned, NEW t \in DOMAIN tasks, OpenNamed(t)
  PROVE  Makes(t, entry.store, stores[entry.store], 0) /\ ~entry.attached /\ entry.store # 0
<1>1. /\ Produce(t, entry.store, stores[entry.store], 0) /\ entry' = [entry EXCEPT !.attached = TRUE]
      /\ UNCHANGED <<provider, dir, stores, muddled, orphaned>> /\ provider = "memory"
      /\ tasks[t].pc = "compute" /\ Kind(t) \in Factories /\ entry # NoEntry /\ ~entry.attached
  BY DEF OpenNamed, At, Factories
<1>2. entry \in [store : 0 .. Len(stores), attached : BOOLEAN] /\ entry.store # 0
  BY <1>1 DEF Typed, Owned
<1>3. entry.store \in DOMAIN stores /\ StoreOK(stores[entry.store])
  BY <1>2 DEF Typed
<1>4. entry' = [store |-> entry.store, attached |-> TRUE] /\ 0 \in Nat
  BY <1>1, <1>2
<1> QED
  BY <1>1, <1>2, <1>3, <1>4 DEF Makes

\* The tasks and the handles once a handle is made.
LEMMA MakesFacts ==
  ASSUME Typed, NEW t \in DOMAIN tasks, NEW s, NEW store, NEW inode, Makes(t, s, store, inode)
  PROVE  /\ DOMAIN tasks' = DOMAIN tasks /\ tasks'[t] = MadeTask(t)
         /\ \A u \in DOMAIN tasks : u # t => tasks'[u] = tasks[u]
         /\ Len(handles) \in Nat /\ DOMAIN handles = 1 .. Len(handles)
         /\ DOMAIN handles' = 1 .. Len(handles) + 1
         /\ handles'[Len(handles) + 1] = NewHandle(s, store, inode)
         /\ \A h \in DOMAIN handles : h \in DOMAIN handles' /\ handles'[h] = handles[h]
         /\ \A h \in DOMAIN handles' : h \in DOMAIN handles \/ h = Len(handles) + 1
<1> DEFINE handle == NewHandle(s, store, inode)
<1>1. Moved(t, MadeTask(t)) /\ handles' = Append(handles, handle)
  BY ProduceMoves DEF Makes
<1>2. handles \in Seq(Handles) /\ Len(handles) \in Nat /\ tasks \in Seq(Tasks)
  BY DEF Typed
<1>3. MadeTask(t) \in Tasks
  <2>1. tasks[t].kind \in Kinds /\ tasks[t].arg \in BOOLEAN \cup Ids \cup Seq(Ids)
    BY TaskFacts DEF Tasks
  <2>2. Len(handles) + 1 \in Nat /\ "done" \in Pcs /\ "OK" \in Codes /\ NoContext \in Contexts
    BY <1>2 DEF Pcs, Codes, Contexts
  <2> QED
    BY <2>1, <2>2 DEF MadeTask, Tasks, Kind
<1>4. /\ DOMAIN tasks' = DOMAIN tasks /\ tasks'[t] = MadeTask(t)
      /\ \A u \in DOMAIN tasks : u # t => tasks'[u] = tasks[u]
  BY <1>1, <1>2, <1>3, MovedFacts
<1> HIDE DEF handle
<1>5. /\ DOMAIN handles = 1 .. Len(handles) /\ DOMAIN handles' = 1 .. Len(handles) + 1
      /\ handles'[Len(handles) + 1] = handle
      /\ \A h \in 1 .. Len(handles) : handles'[h] = handles[h]
  BY <1>1, <1>2
<1>6. \A h \in 1 .. Len(handles) : h \in 1 .. Len(handles) + 1
  BY <1>2
<1>7. \A h \in 1 .. Len(handles) + 1 : h \in 1 .. Len(handles) \/ h = Len(handles) + 1
  BY <1>2
<1> QED
  BY <1>2, <1>4, <1>5, <1>6, <1>7 DEF handle

LEMMA MakesOwned ==
  ASSUME Typed, Owned, NEW t \in DOMAIN tasks, NEW s, NEW store, NEW inode, Makes(t, s, store, inode)
  PROVE  Owned'
<1> DEFINE new == Len(handles) + 1
           handle == NewHandle(s, store, inode)
<1>1. /\ handle.status = "computed" /\ handle.store = s
      /\ handle.named <=> provider = "memory"
  BY DEF NewHandle
<1>2. /\ DOMAIN tasks' = DOMAIN tasks /\ tasks'[t] = MadeTask(t)
      /\ \A u \in DOMAIN tasks : u # t => tasks'[u] = tasks[u]
  BY MakesFacts
<1>3. /\ new \in DOMAIN handles' /\ new \notin DOMAIN handles /\ new # 0 /\ handles'[new] = handle
      /\ \A h \in DOMAIN handles : h \in DOMAIN handles' /\ handles'[h] = handles[h]
      /\ \A h \in DOMAIN handles' : h \in DOMAIN handles \/ h = new
  <2>1. Len(handles) \in Nat
    BY MakesFacts
  <2> QED
    BY <2>1, MakesFacts
<1> HIDE DEF handle, new
<1>4. MadeTask(t).pc = "done" /\ MadeTask(t).handle = new
  BY DEF MadeTask, new
<1>5. \A u \in DOMAIN tasks : Producing(tasks[u]) =>
        /\ tasks[u].handle \in DOMAIN handles /\ tasks[u].handle # 0
        /\ handles[tasks[u].handle].status = "computed"
  BY TaskFacts DEF TaskOK, Typed, Owned, Handle
<1>6. provider' = provider
  BY DEF Makes
<1>7. \A u \in DOMAIN tasks' : tasks'[u].pc \in FilePcs => provider' = "file"
  BY <1>2, <1>4, <1>6 DEF Owned, FilePcs
<1>8. \A u \in DOMAIN tasks' : Producing(tasks'[u]) =>
        tasks'[u].handle # 0 /\ Handle(u)'.status = "computed"
  <2> SUFFICES ASSUME NEW u \in DOMAIN tasks, Producing(tasks'[u])
               PROVE  tasks'[u].handle # 0 /\ handles'[tasks'[u].handle].status = "computed"
    BY <1>2 DEF Handle
  <2>1. CASE u = t
    BY <1>1, <1>2, <1>3, <1>4, <2>1
  <2>2. CASE u # t
    BY <1>2, <1>3, <1>5, <2>2
  <2> QED
    BY <2>1, <2>2
<1>9. \A u, v \in DOMAIN tasks' :
        Producing(tasks'[u]) /\ Producing(tasks'[v]) /\ tasks'[u].handle = tasks'[v].handle => u = v
  <2> SUFFICES ASSUME NEW u \in DOMAIN tasks, NEW v \in DOMAIN tasks, Producing(tasks'[u]),
                      Producing(tasks'[v]), tasks'[u].handle = tasks'[v].handle
               PROVE  u = v
    BY <1>2
  <2>1. CASE u # t /\ v # t
    BY <1>2, <2>1 DEF Owned
  <2>2. CASE u = t \/ v = t
    BY <1>2, <1>3, <1>4, <1>5, <2>2
  <2> QED
    BY <2>1, <2>2
<1>10. \A h \in DOMAIN handles' : handles'[h].named <=> provider' = "memory" /\ IsLive(h)'
  <2> SUFFICES ASSUME NEW h \in DOMAIN handles'
               PROVE  handles'[h].named <=> provider = "memory" /\ handles'[h].status \in {"computed", "open"}
    BY <1>6 DEF IsLive
  <2>1. CASE h = new
    BY <1>1, <1>3, <2>1
  <2>2. CASE h \in DOMAIN handles
    BY <1>3, <2>2 DEF Owned, IsLive
  <2> QED
    BY <1>3, <2>1, <2>2
<1>11. CASE provider = "memory"
  <2>1. ~entry.attached /\ entry' = [store |-> s, attached |-> TRUE] /\ s # 0
    BY <1>11 DEF Makes
  <2>2. \A h \in DOMAIN handles : ~handles[h].named
    BY <2>1 DEF Owned
  <2>3. \A h \in DOMAIN handles' : handles'[h].named => h = new
    BY <1>3, <2>2
  <2>4. handles'[new].named /\ handles'[new].store = s
    BY <1>1, <1>3, <1>11
  <2>5. entry'.store = s /\ entry'.attached
    BY <2>1
  <2> QED
    BY <1>3, <1>6, <1>7, <1>8, <1>9, <1>10, <1>11, <2>1, <2>3, <2>4, <2>5 DEF Owned
<1>12. CASE provider # "memory"
  <2>1. entry' = entry /\ s \notin DOMAIN stores /\ entry = NoEntry
    BY <1>12 DEF Makes, Owned
  <2>2. \A h \in DOMAIN handles' : ~handles'[h].named
    BY <1>6, <1>10, <1>12
  <2>3. \A h \in DOMAIN handles : handles[h].store # s
    BY <2>1 DEF Typed
  <2>4. \A g, h \in DOMAIN handles' : handles'[g].store = handles'[h].store => g = h
    BY <1>1, <1>3, <1>12, <2>3 DEF Owned
  <2> QED
    BY <1>6, <1>7, <1>8, <1>9, <1>10, <2>1, <2>2, <2>4 DEF Owned, NoEntry
<1> QED
  BY <1>11, <1>12

------------------------------------------------------------------------------
(* The lock file *)

\* A step that takes no lock, and neither opens nor unlinks LOCK.
LEMMA LockShrinks ==
  ASSUME Locked, UNCHANGED <<provider, orphaned>>, dir'.inode = dir.inode,
         DOMAIN handles' = DOMAIN handles,
         \A h \in DOMAIN handles : handles'[h].inode = handles[h].inode /\ (InUse(h)' => InUse(h)),
         \A u \in DOMAIN tasks' : Locking(tasks'[u]) \/ Opened(tasks'[u]) =>
           u \in DOMAIN tasks /\ tasks'[u] = tasks[u]
  PROVE  Locked'
<1> SUFFICES ASSUME provider = "file" PROVE Locked'
  BY DEF Locked
<1>1. \A g, h \in DOMAIN handles' :
        InUse(g)' /\ InUse(h)' /\ handles'[g].inode = handles'[h].inode => g = h
  BY DEF Locked
<1>2. \A h \in DOMAIN handles', u \in DOMAIN tasks' :
        InUse(h)' /\ Locking(tasks'[u]) => handles'[h].inode # tasks'[u].ctx.inode
  BY DEF Locked
<1>3. \A u, v \in DOMAIN tasks' :
        Locking(tasks'[u]) /\ Locking(tasks'[v]) /\ tasks'[u].ctx.inode = tasks'[v].ctx.inode => u = v
  BY DEF Locked
<1>4. ~orphaned' => \A h \in DOMAIN handles' :
        InUse(h)' => dir'.inode # 0 /\ handles'[h].inode = dir'.inode
  BY DEF Locked
<1>5. ~orphaned' => \A u \in DOMAIN tasks' :
        Opened(tasks'[u]) => dir'.inode # 0 /\ tasks'[u].ctx.inode = dir'.inode
  BY DEF Locked
<1> QED
  BY <1>1, <1>2, <1>3, <1>4, <1>5 DEF Locked

\* A state stays in use through the tasks it is in use through.
LEMMA MovedInUse ==
  ASSUME Typed, HandlesKept, NEW t \in DOMAIN tasks, NEW task \in Tasks, Moved(t, task),
         tasks[t].pc # "settled", task.pc # "settled" => task.handle = tasks[t].handle
  PROVE  \A h \in DOMAIN handles : InUse(h)' => InUse(h)
<1>1. /\ DOMAIN tasks' = DOMAIN tasks /\ tasks'[t] = task
      /\ \A u \in DOMAIN tasks : u # t => tasks'[u] = tasks[u]
  BY MovedFacts DEF Typed
<1> QED
  BY <1>1 DEF HandlesKept, InUse, IsLive

LEMMA PlainLocked ==
  ASSUME Typed, Locked, NEW t \in DOMAIN tasks, NEW task, Plain(t, task) PROVE Locked'
<1>1. /\ UNCHANGED <<provider, orphaned>> /\ dir'.inode = dir.inode /\ task \in Tasks
      /\ HandlesKept /\ Moved(t, task) /\ tasks[t].pc # "settled" /\ task.handle = tasks[t].handle
      /\ task.pc \notin {"flock", "remove", "rmdir"}
  BY DEF Plain
<1>2. \A h \in DOMAIN handles : InUse(h)' => InUse(h)
  BY <1>1, MovedInUse
<1>3. \A u \in DOMAIN tasks' : Locking(tasks'[u]) \/ Opened(tasks'[u]) =>
        u \in DOMAIN tasks /\ tasks'[u] = tasks[u]
  <2>1. /\ DOMAIN tasks' = DOMAIN tasks /\ tasks'[t] = task
        /\ \A u \in DOMAIN tasks : u # t => tasks'[u] = tasks[u]
    BY <1>1, MovedFacts DEF Typed
  <2> QED
    BY <1>1, <2>1 DEF Locking, Opened
<1> QED
  BY <1>1, <1>2, <1>3, LockShrinks DEF HandlesKept

LEMMA QueuesLocked ==
  ASSUME Typed, Locked, NEW task, Queues(task) PROVE Locked'
<1>1. UNCHANGED <<provider, orphaned, dir, handles>> /\ task.pc = "queued"
  BY DEF Queues
<1>2. ASSUME NEW h \in DOMAIN handles, InUse(h)' PROVE InUse(h)
  <2>1. CASE handles'[h].status \in {"computed", "open"}
    BY <1>1, <2>1 DEF InUse, IsLive
  <2>2. ASSUME NEW u \in DOMAIN tasks', tasks'[u].handle = h, tasks'[u].pc # "settled"
        PROVE  InUse(h)
    <3>1. CASE u \in DOMAIN tasks
      BY <2>2, <3>1, QueuesFacts DEF InUse
    <3>2. CASE tasks'[u] = task
      <4>1. h # 0
        BY DEF Typed
      <4> QED
        BY <2>2, <3>2, <4>1 DEF Queues, IsOpen, InUse, IsLive
    <3> QED
      BY <2>2, <3>1, <3>2, QueuesFacts
  <2> QED
    BY <1>2, <2>1, <2>2 DEF InUse, IsLive
<1>3. ASSUME NEW u \in DOMAIN tasks', Locking(tasks'[u]) \/ Opened(tasks'[u])
      PROVE  u \in DOMAIN tasks /\ tasks'[u] = tasks[u]
  BY <1>1, <1>3, QueuesFacts DEF Locking, Opened
<1> QED
  BY <1>1, <1>2, <1>3, LockShrinks

LEMMA CloseLocked ==
  ASSUME Typed, Locked, NEW h \in DOMAIN handles, Close(h) PROVE Locked'
<1> DEFINE handle == [handles[h] EXCEPT !.status = "closed", !.named = FALSE]
<1>1. /\ UNCHANGED <<provider, dir, tasks, orphaned>> /\ handles' = [handles EXCEPT ![h] = handle]
  BY DEF Close
<1>2. handle.status = "closed" /\ handle.inode = handles[h].inode
  <2>1. handles[h] \in Handles
    BY DEF Typed
  <2> QED
    BY <2>1 DEF Handles
<1> HIDE DEF handle
<1>3. /\ DOMAIN handles' = DOMAIN handles /\ handles'[h] = handle
      /\ \A g \in DOMAIN handles : g # h => handles'[g] = handles[g]
  BY <1>1
<1>4. \A g \in DOMAIN handles : handles'[g].inode = handles[g].inode /\ (InUse(g)' => InUse(g))
  BY <1>1, <1>2, <1>3 DEF InUse, IsLive
<1> QED
  BY <1>1, <1>3, <1>4, LockShrinks

LEMMA SettleLocked ==
  ASSUME Typed, Owned, Locked, NEW t \in DOMAIN tasks, Settle(t) PROVE Locked'
<1>1. /\ Moved(t, Settled) /\ UNCHANGED <<provider, dir, orphaned>> /\ tasks[t].pc = "done"
      /\ handles' = IF Producing(tasks[t])
                    THEN [handles EXCEPT ![tasks[t].handle].status = "open"] ELSE handles
  BY DEF Settle, Moved, At, Producing, Kind
<1>2. Settled \in Tasks /\ Settled.pc = "settled" /\ Settled.handle = 0
  BY DEF Settled, Tasks, Kinds, Contexts, Pcs, Codes
<1>3. /\ DOMAIN handles' = DOMAIN handles
      /\ \A h \in DOMAIN handles : handles'[h].inode = handles[h].inode /\ (IsLive(h)' => IsLive(h))
  <2>1. CASE ~Producing(tasks[t])
    BY <1>1, <2>1 DEF IsLive
  <2>2. CASE Producing(tasks[t])
    <3> DEFINE h == tasks[t].handle
               handle == [handles[h] EXCEPT !.status = "open"]
    <3>1. h \in DOMAIN handles /\ handles[h].status = "computed"
      BY <2>2, TaskFacts DEF TaskOK, Typed, Owned, Handle
    <3>2. handles' = [handles EXCEPT ![h] = handle]
      BY <1>1, <2>2
    <3>3. handle.inode = handles[h].inode
      <4>1. handles[h] \in Handles
        BY <3>1 DEF Typed
      <4> QED
        BY <4>1 DEF Handles
    <3> HIDE DEF handle, h
    <3> QED
      BY <3>1, <3>2, <3>3 DEF IsLive
  <2> QED
    BY <2>1, <2>2
<1>4. /\ DOMAIN tasks' = DOMAIN tasks /\ tasks'[t] = Settled
      /\ \A u \in DOMAIN tasks : u # t => tasks'[u] = tasks[u]
  BY <1>1, <1>2, MovedFacts DEF Typed
<1>5. \A h \in DOMAIN handles : InUse(h)' => InUse(h)
  <2>1. \A h \in DOMAIN handles : InUse(h)' =>
          IsLive(h)' \/ \E u \in DOMAIN tasks' : tasks'[u].handle = h /\ tasks'[u].pc # "settled"
    BY DEF InUse
  <2> QED
    BY <1>2, <1>3, <1>4, <2>1 DEF InUse
<1>6. \A u \in DOMAIN tasks' : Locking(tasks'[u]) \/ Opened(tasks'[u]) =>
        u \in DOMAIN tasks /\ tasks'[u] = tasks[u]
  BY <1>2, <1>4 DEF Locking, Opened
<1> QED
  BY <1>1, <1>3, <1>5, <1>6, LockShrinks

\* LOCK is created only when the directory has none, and no task holds one.
LEMMA OpenLockFileLocked ==
  ASSUME Typed, Owned, Locked, NEW t \in DOMAIN tasks, OpenLockFile(t) PROVE Locked'
<1> DEFINE intent == tasks[t].ctx.intent
           inode == IF dir.inode = 0 THEN dir.inodes + 1 ELSE dir.inode
           ctx == [intent |-> intent, inode |-> inode]
           task == MovedTask(t, "flock", tasks[t].code, ctx)
<1>1. /\ tasks[t].pc = "lockfile" /\ UNCHANGED <<provider, entry, handles, orphaned>> /\ HandlesKept
  BY DEF OpenLockFile, At, HandlesKept
<1>2. CASE intent # "create" /\ ~dir.present
  <2>1. (\E code \in Codes \ {"OK"} : Return(t, code)) /\ dir' = dir
    BY <1>2 DEF OpenLockFile, Codes
  <2> QED
    BY <1>1, <2>1, PlainReturn, PlainLocked
<1>3. CASE ~(intent # "create" /\ ~dir.present)
  <2>1. /\ Goto(t, "flock", ctx)
        /\ dir' = [dir EXCEPT !.present = TRUE, !.inode = inode, !.inodes = Larger(@, inode)]
    BY <1>3 DEF OpenLockFile
  <2>2. dir \in [present : BOOLEAN, inode : Nat, index : 0 .. Len(stores), inodes : Nat]
    BY DEF Typed
  <2>3. inode \in Nat \ {0} /\ (dir.inode # 0 => inode = dir.inode)
    BY <2>2
  <2>4. Moved(t, task)
    BY <2>1, GotoMoves
  <2> HIDE DEF inode
  <2>5. dir'.inode = inode
    BY <2>1, <2>2
  <2>6. task \in Tasks /\ task.pc = "flock" /\ task.handle = tasks[t].handle /\ task.ctx.inode = inode
    <3>1. tasks[t] \in Tasks /\ tasks[t].ctx \in [intent : Intents]
      BY <1>1, TaskFacts DEF ContextOK
    <3>2. ctx \in Contexts /\ "flock" \in Pcs
      BY <2>3, <3>1 DEF Contexts, Lockfiles, Pcs
    <3>3. ctx.inode = inode
      OBVIOUS
    <3> HIDE DEF ctx
    <3> QED
      BY <3>1, <3>2, <3>3 DEF MovedTask, Tasks, Kind
  <2> HIDE DEF task
  <2>7. \A h \in DOMAIN handles : InUse(h)' => InUse(h)
    BY <1>1, <2>4, <2>6, MovedInUse
  <2>8. /\ DOMAIN tasks' = DOMAIN tasks /\ tasks'[t] = task
        /\ \A u \in DOMAIN tasks : u # t => tasks'[u] = tasks[u]
    BY <2>4, <2>6, MovedFacts DEF Typed
  <2>9. \A u \in DOMAIN tasks' : Locking(tasks'[u]) => tasks'[u] = tasks[u]
    BY <2>6, <2>8 DEF Locking
  <2>10. provider = "file"
    BY <1>1 DEF Owned, FilePcs
  <2>11. /\ \A g, h \in DOMAIN handles' :
              InUse(g)' /\ InUse(h)' /\ handles'[g].inode = handles'[h].inode => g = h
         /\ \A h \in DOMAIN handles', u \in DOMAIN tasks' :
              InUse(h)' /\ Locking(tasks'[u]) => handles'[h].inode # tasks'[u].ctx.inode
         /\ \A u, v \in DOMAIN tasks' :
              Locking(tasks'[u]) /\ Locking(tasks'[v]) /\ tasks'[u].ctx.inode = tasks'[v].ctx.inode => u = v
    BY <1>1, <2>7, <2>8, <2>9, <2>10 DEF Locked
  <2>12. ASSUME ~orphaned
         PROVE  /\ \A h \in DOMAIN handles' : InUse(h)' => dir'.inode # 0 /\ handles'[h].inode = dir'.inode
                /\ \A u \in DOMAIN tasks' :
                     Opened(tasks'[u]) => dir'.inode # 0 /\ tasks'[u].ctx.inode = dir'.inode
    <3>1. \A h \in DOMAIN handles : InUse(h) => dir.inode # 0 /\ handles[h].inode = dir.inode
      BY <2>10, <2>12 DEF Locked
    <3>2. \A u \in DOMAIN tasks : Opened(tasks[u]) => dir.inode # 0 /\ tasks[u].ctx.inode = dir.inode
      BY <2>10, <2>12 DEF Locked
    <3>3. \A h \in DOMAIN handles' : InUse(h)' => dir'.inode # 0 /\ handles'[h].inode = dir'.inode
      BY <1>1, <2>3, <2>5, <2>7, <3>1
    <3>4. ASSUME NEW u \in DOMAIN tasks', Opened(tasks'[u])
          PROVE  dir'.inode # 0 /\ tasks'[u].ctx.inode = dir'.inode
      <4>1. CASE u = t
        BY <2>3, <2>5, <2>6, <2>8, <4>1
      <4>2. CASE u # t
        BY <2>3, <2>5, <2>8, <3>2, <3>4, <4>2
      <4> QED
        BY <4>1, <4>2
    <3> QED
      BY <3>3, <3>4
  <2> QED
    BY <1>1, <2>11, <2>12 DEF Locked
<1> QED
  BY <1>2, <1>3

\* flock gives a new handle the inode no one holds.
LEMMA MakesLocked ==
  ASSUME Typed, Locked, NEW t \in DOMAIN tasks, NEW s, NEW store, NEW inode, Makes(t, s, store, inode)
  PROVE  Locked'
<1> DEFINE new == Len(handles) + 1
<1>1. UNCHANGED <<provider, orphaned>> /\ dir'.inode = dir.inode
  BY DEF Makes
<1> SUFFICES ASSUME provider = "file" PROVE Locked'
  BY <1>1 DEF Locked
<1>2. tasks[t].pc = "flock" /\ inode = tasks[t].ctx.inode /\ ~IsLocked(inode)
  BY DEF Makes, Lockable
<1>3. /\ DOMAIN tasks' = DOMAIN tasks /\ tasks'[t] = MadeTask(t)
      /\ \A u \in DOMAIN tasks : u # t => tasks'[u] = tasks[u]
  BY MakesFacts
<1>4. /\ new \notin DOMAIN handles /\ handles'[new].inode = inode
      /\ \A h \in DOMAIN handles : h \in DOMAIN handles' /\ handles'[h] = handles[h]
      /\ \A h \in DOMAIN handles' : h \in DOMAIN handles \/ h = new
  <2>1. Len(handles) \in Nat
    BY MakesFacts
  <2>2. NewHandle(s, store, inode).inode = inode
    BY DEF NewHandle
  <2> QED
    BY <2>1, <2>2, MakesFacts
<1> HIDE DEF new
<1>5. MadeTask(t).pc = "done" /\ MadeTask(t).handle = new
  BY DEF MadeTask, new
<1>6. \A h \in DOMAIN handles : InUse(h)' => InUse(h)
  <2> SUFFICES ASSUME NEW h \in DOMAIN handles,
                      \/ handles'[h].status \in {"computed", "open"}
                      \/ \E u \in DOMAIN tasks' : tasks'[u].handle = h /\ tasks'[u].pc # "settled"
               PROVE  InUse(h)
    BY DEF InUse, IsLive
  <2>1. CASE handles'[h].status \in {"computed", "open"}
    BY <1>4, <2>1 DEF InUse, IsLive
  <2>2. ASSUME NEW u \in DOMAIN tasks', tasks'[u].handle = h, tasks'[u].pc # "settled" PROVE InUse(h)
    <3>1. u # t
      BY <1>3, <1>4, <1>5, <2>2
    <3> QED
      BY <1>3, <2>2, <3>1 DEF InUse
  <2> QED
    BY <2>1, <2>2
<1>7. /\ \A h \in DOMAIN handles : InUse(h) => handles[h].inode # inode
      /\ \A u \in DOMAIN tasks : Locking(tasks[u]) => tasks[u].ctx.inode # inode
  BY <1>2 DEF IsLocked, Locking
<1>8. \A u \in DOMAIN tasks' : Locking(tasks'[u]) \/ Opened(tasks'[u]) => tasks'[u] = tasks[u]
  BY <1>3, <1>5 DEF Locking, Opened
<1>9. ASSUME NEW g \in DOMAIN handles', NEW h \in DOMAIN handles', InUse(g)', InUse(h)',
             handles'[g].inode = handles'[h].inode
      PROVE  g = h
  <2>1. CASE g \in DOMAIN handles /\ h \in DOMAIN handles
    BY <1>4, <1>6, <1>9, <2>1 DEF Locked
  <2>2. CASE g \notin DOMAIN handles \/ h \notin DOMAIN handles
    BY <1>4, <1>6, <1>7, <1>9, <2>2
  <2> QED
    BY <2>1, <2>2
<1>10. ASSUME NEW h \in DOMAIN handles', NEW u \in DOMAIN tasks', InUse(h)', Locking(tasks'[u])
       PROVE  handles'[h].inode # tasks'[u].ctx.inode
  <2>1. tasks'[u] = tasks[u] /\ u \in DOMAIN tasks
    BY <1>3, <1>8, <1>10
  <2>2. CASE h \in DOMAIN handles
    BY <1>4, <1>6, <1>10, <2>1, <2>2 DEF Locked
  <2>3. CASE h = new
    BY <1>4, <1>7, <1>10, <2>1, <2>3
  <2> QED
    BY <1>4, <2>2, <2>3
<1>11. \A u, v \in DOMAIN tasks' :
         Locking(tasks'[u]) /\ Locking(tasks'[v]) /\ tasks'[u].ctx.inode = tasks'[v].ctx.inode => u = v
  BY <1>3, <1>8 DEF Locked
<1>12. ASSUME ~orphaned
       PROVE  /\ \A h \in DOMAIN handles' : InUse(h)' => dir'.inode # 0 /\ handles'[h].inode = dir'.inode
              /\ \A u \in DOMAIN tasks' :
                   Opened(tasks'[u]) => dir'.inode # 0 /\ tasks'[u].ctx.inode = dir'.inode
  <2>1. \A h \in DOMAIN handles : InUse(h) => dir.inode # 0 /\ handles[h].inode = dir.inode
    BY <1>12 DEF Locked
  <2>2. \A u \in DOMAIN tasks : Opened(tasks[u]) => dir.inode # 0 /\ tasks[u].ctx.inode = dir.inode
    BY <1>12 DEF Locked
  <2>3. dir.inode # 0 /\ inode = dir.inode
    BY <1>2, <2>2 DEF Opened
  <2>4. \A h \in DOMAIN handles' : InUse(h)' => dir'.inode # 0 /\ handles'[h].inode = dir'.inode
    BY <1>1, <1>4, <1>6, <2>1, <2>3
  <2>5. \A u \in DOMAIN tasks' : Opened(tasks'[u]) => dir'.inode # 0 /\ tasks'[u].ctx.inode = dir'.inode
    BY <1>1, <1>3, <1>8, <2>2
  <2> QED
    BY <2>4, <2>5
<1> QED
  BY <1>1, <1>9, <1>10, <1>11, <1>12 DEF Locked

\* The task of a destroy as it goes on with its lock.
LEMMA DestroyMoves ==
  ASSUME Typed, NEW t \in DOMAIN tasks, NEW pc \in {"remove", "rmdir"}, Goto(t, pc, tasks[t].ctx),
         tasks[t].pc \in {"flock", "remove"}, handles' = handles
  PROVE  /\ DOMAIN tasks' = DOMAIN tasks
         /\ tasks'[t].pc = pc /\ tasks'[t].ctx = tasks[t].ctx
         /\ \A u \in DOMAIN tasks : u # t => tasks'[u] = tasks[u]
         /\ \A h \in DOMAIN handles : InUse(h)' => InUse(h)
<1> DEFINE task == MovedTask(t, pc, tasks[t].code, tasks[t].ctx)
<1>1. Moved(t, task)
  BY GotoMoves
<1>2. /\ task \in Tasks /\ task.pc = pc /\ task.ctx = tasks[t].ctx /\ task.handle = tasks[t].handle
  <2>1. tasks[t] \in Tasks /\ pc \in Pcs
    BY TaskFacts DEF Pcs
  <2> QED
    BY <2>1 DEF MovedTask, Tasks, Kind
<1> HIDE DEF task
<1>3. /\ DOMAIN tasks' = DOMAIN tasks /\ tasks'[t] = task
      /\ \A u \in DOMAIN tasks : u # t => tasks'[u] = tasks[u]
  BY <1>1, <1>2, MovedFacts DEF Typed
<1>4. \A h \in DOMAIN handles : InUse(h)' => InUse(h)
  <2>1. HandlesKept
    BY DEF HandlesKept
  <2> QED
    BY <1>1, <1>2, <2>1, MovedInUse
<1> QED
  BY <1>2, <1>3, <1>4

LEMMA DestroyLockLocked ==
  ASSUME Typed, Owned, Locked, NEW t \in DOMAIN tasks, DestroyLock(t) PROVE Locked'
<1>1. /\ UNCHANGED <<provider, dir, handles, orphaned>> /\ Goto(t, "remove", tasks[t].ctx)
      /\ tasks[t].pc = "flock" /\ ~IsLocked(tasks[t].ctx.inode)
  BY DEF DestroyLock, AtFlock, At, Lockable
<1>2. provider = "file"
  BY <1>1 DEF Owned, FilePcs
<1>3. /\ DOMAIN tasks' = DOMAIN tasks
      /\ tasks'[t].pc = "remove" /\ tasks'[t].ctx = tasks[t].ctx
      /\ \A u \in DOMAIN tasks : u # t => tasks'[u] = tasks[u]
      /\ \A h \in DOMAIN handles : InUse(h)' => InUse(h)
  BY <1>1, DestroyMoves
<1>4. /\ \A h \in DOMAIN handles : InUse(h) => handles[h].inode # tasks[t].ctx.inode
      /\ \A u \in DOMAIN tasks : Locking(tasks[u]) => tasks[u].ctx.inode # tasks[t].ctx.inode
  BY <1>1 DEF IsLocked, Locking
<1>5. \A g, h \in DOMAIN handles' :
        InUse(g)' /\ InUse(h)' /\ handles'[g].inode = handles'[h].inode => g = h
  BY <1>1, <1>2, <1>3 DEF Locked
<1>6. ASSUME NEW h \in DOMAIN handles', NEW u \in DOMAIN tasks', InUse(h)', Locking(tasks'[u])
      PROVE  handles'[h].inode # tasks'[u].ctx.inode
  <2>1. CASE u = t
    BY <1>1, <1>3, <1>4, <1>6, <2>1
  <2>2. CASE u # t
    BY <1>1, <1>2, <1>3, <1>6, <2>2 DEF Locked
  <2> QED
    BY <2>1, <2>2
<1>7. ASSUME NEW u \in DOMAIN tasks', NEW v \in DOMAIN tasks', Locking(tasks'[u]), Locking(tasks'[v]),
             tasks'[u].ctx.inode = tasks'[v].ctx.inode
      PROVE  u = v
  <2>1. CASE u # t /\ v # t
    BY <1>2, <1>3, <1>7, <2>1 DEF Locked
  <2>2. CASE u = t \/ v = t
    BY <1>3, <1>4, <1>7, <2>2
  <2> QED
    BY <2>1, <2>2
<1>8. ~orphaned => \A h \in DOMAIN handles' :
        InUse(h)' => dir'.inode # 0 /\ handles'[h].inode = dir'.inode
  BY <1>1, <1>2, <1>3 DEF Locked
<1>9. ~orphaned => \A u \in DOMAIN tasks' :
        Opened(tasks'[u]) => dir'.inode # 0 /\ tasks'[u].ctx.inode = dir'.inode
  <2>1. \A u \in DOMAIN tasks : Opened(tasks'[u]) => Opened(tasks[u]) /\ tasks'[u].ctx = tasks[u].ctx
    BY <1>1, <1>3 DEF Opened
  <2> QED
    BY <1>1, <1>2, <1>3, <2>1 DEF Locked
<1> QED
  BY <1>1, <1>5, <1>6, <1>7, <1>8, <1>9 DEF Locked

\* While no LOCK was unlinked under a task, whoever removes the files is alone
\* with the directory, and afterwards no one has opened its LOCK.
LEMMA DestroyFilesLocked ==
  ASSUME Typed, Owned, Locked, NEW t \in DOMAIN tasks, DestroyFiles(t) PROVE Locked'
<1>1. /\ UNCHANGED <<provider, handles>> /\ Goto(t, "rmdir", tasks[t].ctx) /\ tasks[t].pc = "remove"
      /\ orphaned' = (orphaned \/ \E u \in DOMAIN tasks :
                        tasks[u].pc = "flock" /\ tasks[u].ctx.inode = dir.inode)
  BY DEF DestroyFiles, At
<1>2. provider = "file"
  BY <1>1 DEF Owned, FilePcs
<1>3. /\ DOMAIN tasks' = DOMAIN tasks
      /\ tasks'[t].pc = "rmdir" /\ tasks'[t].ctx = tasks[t].ctx
      /\ \A u \in DOMAIN tasks : u # t => tasks'[u] = tasks[u]
      /\ \A h \in DOMAIN handles : InUse(h)' => InUse(h)
  BY <1>1, DestroyMoves
<1>4. \A u \in DOMAIN tasks : Locking(tasks'[u]) => Locking(tasks[u]) /\ tasks'[u].ctx = tasks[u].ctx
  BY <1>1, <1>3 DEF Locking
<1>5. /\ \A g, h \in DOMAIN handles' :
           InUse(g)' /\ InUse(h)' /\ handles'[g].inode = handles'[h].inode => g = h
      /\ \A h \in DOMAIN handles', u \in DOMAIN tasks' :
           InUse(h)' /\ Locking(tasks'[u]) => handles'[h].inode # tasks'[u].ctx.inode
      /\ \A u, v \in DOMAIN tasks' :
           Locking(tasks'[u]) /\ Locking(tasks'[v]) /\ tasks'[u].ctx.inode = tasks'[v].ctx.inode => u = v
  BY <1>1, <1>2, <1>3, <1>4 DEF Locked
<1>6. ASSUME ~orphaned'
      PROVE  /\ \A h \in DOMAIN handles' : ~InUse(h)'
             /\ \A u \in DOMAIN tasks' : ~Opened(tasks'[u])
  <2>1. ~orphaned /\ \A u \in DOMAIN tasks : tasks[u].pc = "flock" => tasks[u].ctx.inode # dir.inode
    BY <1>1, <1>6
  <2>2. \A h \in DOMAIN handles : InUse(h) => handles[h].inode = dir.inode
    BY <1>2, <2>1 DEF Locked
  <2>3. \A u \in DOMAIN tasks : Opened(tasks[u]) => tasks[u].ctx.inode = dir.inode
    BY <1>2, <2>1 DEF Locked
  <2>4. tasks[t].ctx.inode = dir.inode /\ Locking(tasks[t])
    BY <1>1, <2>3 DEF Opened, Locking
  <2>5. \A h \in DOMAIN handles : ~InUse(h)
    BY <1>2, <2>2, <2>4 DEF Locked
  <2>6. ASSUME NEW u \in DOMAIN tasks, Opened(tasks[u]) PROVE u = t
    <3>1. tasks[u].pc = "remove" /\ tasks[u].ctx.inode = dir.inode
      BY <2>1, <2>3, <2>6 DEF Opened
    <3> QED
      BY <1>2, <2>4, <3>1 DEF Locked, Locking
  <2> QED
    BY <1>1, <1>3, <2>5, <2>6 DEF Opened
<1> QED
  BY <1>5, <1>6 DEF Locked

------------------------------------------------------------------------------
(* Rows, and the id map that goes with them *)

LEMMA CurrentIs ==
  ASSUME NEW store PROVE Current(store) = Overlay(BaseRows(store), DeltaOf(store))
BY DEF Current, Rows, Snapshot, Overlay, BaseRows, DeltaOf

\* What a staged insert or delete makes of the rows.
RowsAfter(rows, new, task) ==
  /\ task.kind = "insert" =>
       /\ DOMAIN new = DOMAIN rows \cup {task.ctx.node} /\ new[task.ctx.node] = task.arg
       /\ \A m \in DOMAIN rows \ {task.ctx.node} : new[m] = rows[m]
  /\ task.kind # "insert" =>
       /\ DOMAIN new = DOMAIN rows \ {task.ctx.node}
       /\ \A m \in DOMAIN new : new[m] = rows[m]

LEMMA RowsStaged ==
  ASSUME NEW base, NEW draft, NEW task
  PROVE  RowsAfter(Overlay(base, draft), Overlay(base, StagedDraft(draft, task)), task)
<1> DEFINE rows == Overlay(base, draft)
           new == Overlay(base, StagedDraft(draft, task))
           node == task.ctx.node
           staged == StagedDraft(draft, task)
<1>1. DOMAIN rows = (DOMAIN base \cup DOMAIN draft.rows) \ draft.dead
      /\ \A m \in DOMAIN rows : rows[m] = IF m \in DOMAIN draft.rows THEN draft.rows[m] ELSE base[m]
  BY DEF Overlay
<1>2. DOMAIN new = (DOMAIN base \cup DOMAIN staged.rows) \ staged.dead
      /\ \A m \in DOMAIN new : new[m] = IF m \in DOMAIN staged.rows THEN staged.rows[m] ELSE base[m]
  BY DEF Overlay
<1>3. CASE task.kind = "insert"
  <2>1. /\ DOMAIN staged.rows = DOMAIN draft.rows \cup {node} /\ staged.dead = draft.dead \ {node}
        /\ staged.rows[node] = task.arg
        /\ \A m \in DOMAIN draft.rows \ {node} : staged.rows[m] = draft.rows[m]
    BY <1>3 DEF StagedDraft, With
  <2> HIDE DEF staged, node, rows, new
  <2> QED
    BY <1>1, <1>2, <1>3, <2>1 DEF node, rows, new, RowsAfter
<1>4. CASE task.kind # "insert"
  <2>1. /\ DOMAIN staged.rows = DOMAIN draft.rows \ {node} /\ staged.dead = draft.dead \cup {node}
        /\ \A m \in DOMAIN draft.rows \ {node} : staged.rows[m] = draft.rows[m]
    BY <1>4 DEF StagedDraft
  <2> HIDE DEF staged, node, rows, new
  <2> QED
    BY <1>1, <1>2, <1>4, <2>1 DEF node, rows, new, RowsAfter
<1> QED
  BY <1>3, <1>4

\* The map follows the rows through an insert and through a delete.
LEMMA InvertsNext ==
  ASSUME NEW nodeIds, NEW rows, NEW new, NEW task, Inverts(nodeIds, rows),
         \/ /\ task.kind = "insert" /\ task.arg \notin DOMAIN nodeIds
            /\ task.ctx.node \notin DOMAIN rows
            /\ DOMAIN new = DOMAIN rows \cup {task.ctx.node} /\ new[task.ctx.node] = task.arg
         \/ /\ task.kind # "insert" /\ task.arg \in DOMAIN nodeIds
            /\ nodeIds[task.arg] = task.ctx.node
            /\ DOMAIN new = DOMAIN rows \ {task.ctx.node},
         \A m \in DOMAIN rows \ {task.ctx.node} : new[m] = rows[m]
  PROVE  Inverts(NextIds(nodeIds, task), new)
<1> DEFINE node == task.ctx.node
           next == NextIds(nodeIds, task)
<1>1. /\ DOMAIN nodeIds = {rows[n] : n \in DOMAIN rows}
      /\ \A n \in DOMAIN rows : rows[n] \in DOMAIN nodeIds /\ nodeIds[rows[n]] = n
  BY DEF Inverts
<1>2. CASE task.kind = "insert"
  <2>1. /\ DOMAIN next = DOMAIN nodeIds \cup {task.arg} /\ next[task.arg] = node
        /\ \A id \in DOMAIN nodeIds : id # task.arg => next[id] = nodeIds[id]
    BY <1>2 DEF NextIds, With
  <2> HIDE DEF next
  <2>2. DOMAIN next = {new[n] : n \in DOMAIN new}
    BY <1>1, <1>2, <2>1
  <2>3. \A n \in DOMAIN new : next[new[n]] = n
    BY <1>1, <1>2, <2>1
  <2> QED
    BY <2>2, <2>3 DEF Inverts, next
<1>3. CASE task.kind # "insert"
  <2>1. /\ DOMAIN next = DOMAIN nodeIds \ {task.arg}
        /\ \A id \in DOMAIN next : next[id] = nodeIds[id]
    BY <1>3 DEF NextIds
  <2> HIDE DEF next
  <2>2. node \in DOMAIN rows /\ rows[node] = task.arg
    BY <1>1, <1>3
  <2>3. \A n \in DOMAIN rows : rows[n] = task.arg => n = node
    BY <1>1, <1>3
  <2>4. DOMAIN next = {new[n] : n \in DOMAIN new}
    BY <1>1, <1>3, <2>1, <2>2, <2>3
  <2>5. \A n \in DOMAIN new : next[new[n]] = n
    BY <1>1, <1>3, <2>1, <2>3
  <2> QED
    BY <2>4, <2>5 DEF Inverts, next
<1> QED
  BY <1>2, <1>3

\* A map that inverts the rows has no two rows with one id.
LEMMA InvertsProper ==
  ASSUME NEW nodeIds, NEW rows, Inverts(nodeIds, rows), NEW max, DOMAIN rows \subseteq 1 .. max
  PROVE  Proper(rows, max)
BY DEF Inverts, Proper

\* rebuild_node_ids finds the inverse of the rows.
LEMMA RebuildInverts ==
  ASSUME NEW store, Proper(Current(store), store.maxId), store.maxId \in Nat
  PROVE  Inverts(RebuildNodeIds(store), Current(store))
<1> DEFINE rows == Current(store)
           ids == {rows[n] : n \in DOMAIN rows \cap 1 .. store.maxId}
           node(x) == CHOOSE n \in DOMAIN rows :
                        rows[n] = x /\ \A m \in DOMAIN rows : rows[m] = x => m <= n
<1>1. /\ DOMAIN rows \subseteq 1 .. store.maxId
      /\ \A m, n \in DOMAIN rows : rows[m] = rows[n] => m = n
  BY DEF Proper
<1>2. RebuildNodeIds(store) = [x \in ids |-> node(x)]
  BY DEF RebuildNodeIds
<1>3. ids = {rows[n] : n \in DOMAIN rows}
  BY <1>1
<1>4. ASSUME NEW n \in DOMAIN rows PROVE node(rows[n]) = n
  <2>1. n \in Nat /\ n <= n
    BY <1>1
  <2>2. \A m \in DOMAIN rows : rows[m] = rows[n] => m <= n
    BY <1>1, <2>1
  <2> HIDE DEF rows
  <2>3. \E c \in DOMAIN rows : rows[c] = rows[n] /\ \A m \in DOMAIN rows : rows[m] = rows[n] => m <= c
    BY <2>2
  <2>4. node(rows[n]) \in DOMAIN rows /\ rows[node(rows[n])] = rows[n]
    BY <2>3
  <2> QED
    BY <1>1, <2>4
<1> HIDE DEF node, rows
<1>5. Inverts([x \in ids |-> node(x)], rows)
  BY <1>3, <1>4 DEF Inverts
<1> QED
  BY <1>2, <1>5 DEF rows

\* A handle over a clean store starts with the inverse of its rows.
LEMMA NewHandleAgrees ==
  ASSUME NEW s, NEW store, StoreOK(store), Clean(store), NEW inode
  PROVE  LET handle == NewHandle(s, store, inode)
         IN  Agrees(store, handle) /\ store.maxId < handle.nextId
<1>1. store.maxId \in Nat /\ store.maxId < store.maxId + 1
  BY DEF StoreOK, Stores
<1>2. Inverts(RebuildNodeIds(store), Current(store))
  BY <1>1, RebuildInverts DEF Clean
<1> QED
  BY <1>1, <1>2 DEF Agrees, NewHandle

\* The rows of a bulk build alone.
LEMMA BaseAlone ==
  ASSUME NEW ids \in Seq(Ids), ~HasDuplicates(ids)
  PROVE  Overlay(ids, EmptyDraft) = ids /\ Proper(ids, Len(ids))
<1>1. DOMAIN ids = 1 .. Len(ids) /\ ids = [n \in 1 .. Len(ids) |-> ids[n]]
  OBVIOUS
<1>2. DOMAIN EmptyDraft.rows = {} /\ EmptyDraft.dead = {}
  <2>1. DOMAIN << >> = {}
    OBVIOUS
  <2> QED
    BY <2>1 DEF EmptyDraft
<1>3. Overlay(ids, EmptyDraft) = [n \in 1 .. Len(ids) |-> ids[n]]
  BY <1>1, <1>2 DEF Overlay
<1>4. Proper(ids, Len(ids))
  BY <1>1 DEF Proper, HasDuplicates
<1> QED
  BY <1>1, <1>3, <1>4

\* A store that a bulk build has just left is clean.
LEMMA BaseClean ==
  ASSUME NEW store, StoreOK(store), store.delta = 0, store.draft = EmptyDraft
  PROVE  Clean(store) /\ Current(store) = BaseRows(store)
<1> DEFINE base == BaseRows(store)
<1>1. base \in Seq(Ids) /\ ~HasDuplicates(base)
  <2>1. store.segments \in Seq(Seq(Ids)) /\ store.base \in Nat /\ store.base <= Len(store.segments)
    BY DEF StoreOK, Stores
  <2>2. store.base # 0 => store.base \in DOMAIN store.segments
    BY <2>1
  <2>3. ~HasDuplicates(<< >>)
    <3>1. DOMAIN << >> = {}
      OBVIOUS
    <3> QED
      BY <3>1 DEF HasDuplicates
  <2> QED
    BY <2>1, <2>2, <2>3 DEF BaseRows, StoreOK
<1>2. DeltaOf(store) = EmptyDraft /\ store.maxId = Len(base)
  BY DEF DeltaOf, StoreOK
<1>3. Overlay(base, EmptyDraft) = base /\ Proper(base, Len(base))
  BY <1>1, BaseAlone
<1> HIDE DEF base
<1>4. Current(store) = base
  BY <1>2, <1>3, CurrentIs DEF base
<1> QED
  BY <1>2, <1>3, <1>4 DEF Clean, base
------------------------------------------------------------------------------
(* What each step of a write leaves the other steps of its handle *)

\* What HandleOK says of the handle of a task.
Before(t) ==
  /\ StoreOf(t).maxId < Handle(t).nextId
  /\ Handle(t).writer = 0 => Agrees(StoreOf(t), Handle(t))
  /\ Writing(tasks[t]) => Halfway(StoreOf(t), Handle(t), tasks[t])

\* And what a step makes of it, unless a known hazard has touched the store.
Follows(t, task, store, handle) ==
  /\ Writing(tasks[t]) \/ Handle(t).writer = 0
  /\ handle.writer = IF Writing(task) THEN t ELSE 0
  /\ Handle(t).store \notin muddled' /\ Before(t) =>
       /\ store.maxId < handle.nextId
       /\ IF Writing(task) THEN Halfway(store, handle, task) ELSE Agrees(store, handle)

\* The checks of an insert hold until it stages.
LEMMA LockInsertFollows ==
  ASSUME Typed, NEW t \in DOMAIN tasks, LockInsert(t)
  PROVE  \E task, store, handle : WriteMove(t, task, store, handle) /\ Follows(t, task, store, handle)
<1>1. /\ tasks[t].pc = "writer" /\ Kind(t) = "insert" /\ Kind(t) \in Writes /\ Handle(t).writer = 0
      /\ UNCHANGED <<provider, entry, dir, stores, orphaned>> /\ muddled \subseteq muddled'
  BY DEF LockInsert, At, Writes
<1>2. Handle(t) \in Handles /\ StoreOK(StoreOf(t)) /\ StoreAfter(t, StoreOf(t))
  BY <1>1, WriteFacts, StoreUpdated
<1>3. CASE tasks[t].arg \in DOMAIN Handle(t).nodeIds
  <2>1. Return(t, "INVALID_ARGUMENT") /\ handles' = handles /\ "INVALID_ARGUMENT" \in Codes
    BY <1>3 DEF LockInsert, Codes
  <2>2. PICK task : WriteMove(t, task, StoreOf(t), Handle(t)) /\ task.pc = "done"
    BY <1>1, <1>2, <2>1, HandleKept, WriteEnds
  <2>4. Follows(t, task, StoreOf(t), Handle(t))
    BY <1>1, <2>2 DEF Follows, Before, Writing
  <2> QED
    BY <2>2, <2>4
<1>4. CASE tasks[t].arg \notin DOMAIN Handle(t).nodeIds
  <2> DEFINE next == Handle(t).nextId + 1
             handle == [Handle(t) EXCEPT !.writer = t, !.nextId = next]
             ctx == [node |-> Handle(t).nextId, seen |-> Snapshot(StoreOf(t))]
  <2>1. SetHandle(t, handle) /\ Goto(t, "stage", ctx)
    BY <1>4 DEF LockInsert
  <2> HIDE DEF next
  <2>2. handle = HandleRec(Handle(t), t, next, Handle(t).nodeIds)
    BY <1>2, TakenIs
  <2> HIDE DEF handle
  <2>4. handle.writer = t /\ handle.nextId = next /\ handle.nodeIds = Handle(t).nodeIds
    BY <2>2 DEF HandleRec
  <2>5. ctx \in Stages /\ ctx.seen = Snapshot(StoreOf(t)) /\ ctx.node = Handle(t).nextId
    BY <1>2, CurrentSeen DEF Stages, SeenOK, Handles
  <2> HIDE DEF ctx
  <2>6. ctx \in Contexts
    BY <2>5 DEF Contexts
  <2>7. PICK task \in Tasks :
             /\ Moved(t, task)
             /\ task.kind = Kind(t) /\ task.handle = tasks[t].handle /\ task.arg = tasks[t].arg
             /\ task.pc = "stage" /\ task.ctx = ctx
    <3>1. "stage" \in Pcs
      BY DEF Pcs
    <3> QED
      BY <2>1, <2>6, <3>1, WriteGoes
  <2>3. WriteMove(t, task, StoreOf(t), handle)
    <3>1. handle = HandleRec(Handle(t), handle.writer, handle.nextId, handle.nodeIds)
      BY <2>2, <2>4
    <3>2. HandleAfter(t, handle)
      BY <1>1, <2>1, <3>1, HandleSet
    <3>3. tasks[t].pc \notin {"done", "settled"}
      BY <1>1
    <3> QED
      BY <1>1, <1>2, <2>7, <3>2, <3>3, WriteMoves
  <2>8. ASSUME Before(t) PROVE StoreOf(t).maxId < handle.nextId /\ Halfway(StoreOf(t), handle, task)
    <3>1. StoreOf(t).maxId \in Nat /\ Handle(t).nextId \in Nat \ {0}
      BY <1>2 DEF StoreOK, Stores, Handles
    <3>2. /\ StoreOf(t).maxId < next
          /\ Handle(t).nextId \in StoreOf(t).maxId + 1 .. next - 1
      BY <2>8, <3>1 DEF Before, next
    <3>3. Agrees(StoreOf(t), handle)
      BY <1>1, <2>4, <2>8 DEF Before, Agrees
    <3>4. Checked(StoreOf(t), handle, task)
      BY <1>1, <1>4, <2>4, <2>5, <2>7, <3>2 DEF Checked
    <3>5. ctx.seen.version = StoreOf(t).version
      BY <2>5 DEF Snapshot
    <3>6. Halfway(StoreOf(t), handle, task)
      BY <2>7, <3>3, <3>4, <3>5 DEF Halfway
    <3> QED
      BY <2>4, <3>2, <3>6
  <2>9. Follows(t, task, StoreOf(t), handle)
    BY <1>1, <2>4, <2>7, <2>8 DEF Follows, Writing
  <2> QED
    BY <2>3, <2>9
<1> QED
  BY <1>3, <1>4

\* The checks of a delete hold until it stages.
LEMMA LockDeleteFollows ==
  ASSUME Typed, NEW t \in DOMAIN tasks, LockDelete(t)
  PROVE  \E task, store, handle : WriteMove(t, task, store, handle) /\ Follows(t, task, store, handle)
<1>1. /\ tasks[t].pc = "writer" /\ Kind(t) = "delete" /\ Kind(t) \in Writes /\ Handle(t).writer = 0
      /\ UNCHANGED <<provider, entry, dir, stores, orphaned>> /\ muddled \subseteq muddled'
  BY DEF LockDelete, At, Writes
<1>2. Handle(t) \in Handles /\ StoreOK(StoreOf(t)) /\ StoreAfter(t, StoreOf(t))
  BY <1>1, WriteFacts, StoreUpdated
<1>3. CASE tasks[t].arg \notin DOMAIN Handle(t).nodeIds
  <2>1. Return(t, "INVALID_ARGUMENT") /\ handles' = handles /\ "INVALID_ARGUMENT" \in Codes
    BY <1>3 DEF LockDelete, Codes
  <2>2. PICK task : WriteMove(t, task, StoreOf(t), Handle(t)) /\ task.pc = "done"
    BY <1>1, <1>2, <2>1, HandleKept, WriteEnds
  <2>4. Follows(t, task, StoreOf(t), Handle(t))
    BY <1>1, <2>2 DEF Follows, Before, Writing
  <2> QED
    BY <2>2, <2>4
<1>4. CASE tasks[t].arg \in DOMAIN Handle(t).nodeIds
  <2> DEFINE node == Handle(t).nodeIds[tasks[t].arg]
             handle == [Handle(t) EXCEPT !.writer = t]
             ctx == [node |-> node, seen |-> Snapshot(StoreOf(t))]
  <2>1. SetHandle(t, handle) /\ Goto(t, "stage", ctx)
    BY <1>4 DEF LockDelete
  <2>2. handle = HandleRec(Handle(t), t, Handle(t).nextId, Handle(t).nodeIds)
    BY <1>2, TakenIs
  <2> HIDE DEF handle
  <2>4. handle.writer = t /\ handle.nextId = Handle(t).nextId /\ handle.nodeIds = Handle(t).nodeIds
    BY <2>2 DEF HandleRec
  <2>5. node \in Nat
    BY <1>2, <1>4 DEF Handles, IdMaps
  <2>6. ctx \in Stages /\ ctx.seen = Snapshot(StoreOf(t)) /\ ctx.node = node
    BY <1>2, <2>5, CurrentSeen DEF Stages, SeenOK
  <2> HIDE DEF ctx
  <2>7. ctx \in Contexts
    BY <2>6 DEF Contexts
  <2>8. PICK task \in Tasks :
             /\ Moved(t, task)
             /\ task.kind = Kind(t) /\ task.handle = tasks[t].handle /\ task.arg = tasks[t].arg
             /\ task.pc = "stage" /\ task.ctx = ctx
    <3>1. "stage" \in Pcs
      BY DEF Pcs
    <3> QED
      BY <2>1, <2>7, <3>1, WriteGoes
  <2>3. WriteMove(t, task, StoreOf(t), handle)
    <3>1. handle = HandleRec(Handle(t), handle.writer, handle.nextId, handle.nodeIds)
      BY <2>2, <2>4
    <3>2. HandleAfter(t, handle)
      BY <1>1, <2>1, <3>1, HandleSet
    <3>3. tasks[t].pc \notin {"done", "settled"}
      BY <1>1
    <3> QED
      BY <1>1, <1>2, <2>8, <3>2, <3>3, WriteMoves
  <2>9. ASSUME Before(t) PROVE StoreOf(t).maxId < handle.nextId /\ Halfway(StoreOf(t), handle, task)
    <3>1. Agrees(StoreOf(t), handle) /\ StoreOf(t).maxId < handle.nextId
      BY <1>1, <2>4, <2>9 DEF Before, Agrees
    <3>2. Checked(StoreOf(t), handle, task)
      BY <1>1, <1>4, <2>4, <2>6, <2>8 DEF Checked
    <3>3. ctx.seen.version = StoreOf(t).version
      BY <2>6 DEF Snapshot
    <3>4. Halfway(StoreOf(t), handle, task)
      BY <2>8, <3>1, <3>2, <3>3 DEF Halfway
    <3> QED
      BY <3>1, <3>4
  <2>10. Follows(t, task, StoreOf(t), handle)
    BY <1>1, <2>4, <2>8, <2>9 DEF Follows, Writing
  <2> QED
    BY <2>3, <2>10
<1> QED
  BY <1>3, <1>4

LEMMA LockBuildFollows ==
  ASSUME Typed, NEW t \in DOMAIN tasks, LockBuild(t)
  PROVE  \E task, store, handle : WriteMove(t, task, store, handle) /\ Follows(t, task, store, handle)
<1> DEFINE ids == tasks[t].arg
           handle == [Handle(t) EXCEPT !.writer = t]
           longer == [StoreOf(t) EXCEPT !.segments = Append(@, ids)]
           base == IF ids = << >> THEN 0 ELSE Len(StoreOf(t).segments) + 1
           ctx == [base |-> base]
           store == IF ids = << >> THEN StoreOf(t) ELSE longer
<1>1. /\ tasks[t].pc = "writer" /\ Kind(t) = "build" /\ Kind(t) \in Writes /\ ~HasDuplicates(ids)
      /\ Handle(t).writer = 0 /\ SetHandle(t, handle)
      /\ UNCHANGED <<provider, entry, dir, orphaned>> /\ muddled \subseteq muddled'
      /\ Goto(t, "load", ctx) /\ (IF ids = << >> THEN UNCHANGED stores ELSE Update(t, longer))
  BY DEF LockBuild, At, Writes
<1>2. /\ Handle(t) \in Handles /\ StoreOK(StoreOf(t)) /\ KindOK(tasks[t])
      /\ Handle(t).store \in DOMAIN stores /\ Len(StoreOf(t).segments) \in Nat
  BY <1>1, WriteFacts DEF StoreOK, Stores
<1>3. ids \in Seq(Ids)
  BY <1>1, <1>2 DEF KindOK, Kind
<1>4. /\ StoreOK(longer) /\ BaseRows(longer) = BaseRows(StoreOf(t))
      /\ longer = StoreRec(StoreOf(t).version, StoreOf(t).base, StoreOf(t).delta, StoreOf(t).maxId,
                           StoreOf(t).draft, Append(StoreOf(t).segments, ids), StoreOf(t).frozen,
                           StoreOf(t).nextDelta)
  <2> HIDE DEF longer, ids
  <2> QED
    BY <1>1, <1>2, <1>3, SegmentOK DEF longer
<1> HIDE DEF longer, ids
<1>5. longer.delta = StoreOf(t).delta /\ longer.maxId = StoreOf(t).maxId
      /\ longer.draft = StoreOf(t).draft /\ longer.frozen = StoreOf(t).frozen
  BY <1>4 DEF StoreRec
<1>6. store.maxId = StoreOf(t).maxId /\ (Clean(StoreOf(t)) => Clean(store))
      /\ Current(store) = Current(StoreOf(t))
  <2>1. DeltaOf(longer) = DeltaOf(StoreOf(t))
    BY <1>5 DEF DeltaOf
  <2>2. Current(longer) = Current(StoreOf(t))
    BY <1>4, <2>1, CurrentIs
  <2> QED
    BY <1>5, <2>1, <2>2 DEF Clean
<1>8. StoreAfter(t, store)
  <2>1. ids = << >> => stores' = stores
    BY <1>1
  <2>2. ids # << >> => Update(t, longer) /\ longer \in Stores
    BY <1>1, <1>4 DEF StoreOK
  <2> QED
    BY <1>1, <2>1, <2>2, StoreUpdated
<1>9. handle = HandleRec(Handle(t), t, Handle(t).nextId, Handle(t).nodeIds)
  BY <1>2, TakenIs
<1> HIDE DEF handle, store
<1>10. handle.writer = t /\ handle.nextId = Handle(t).nextId /\ handle.nodeIds = Handle(t).nodeIds
  BY <1>9 DEF HandleRec
<1>11. ctx \in Contexts
  BY <1>2 DEF Contexts
<1> HIDE DEF ctx, base
<1>12. PICK task \in Tasks :
         /\ Moved(t, task)
         /\ task.kind = Kind(t) /\ task.handle = tasks[t].handle /\ task.arg = tasks[t].arg
         /\ task.pc = "load" /\ task.ctx = ctx
  <2>1. "load" \in Pcs
    BY DEF Pcs
  <2> QED
    BY <1>1, <1>11, <2>1, WriteGoes
<1>13. WriteMove(t, task, store, handle)
  <2>1. handle = HandleRec(Handle(t), handle.writer, handle.nextId, handle.nodeIds)
    BY <1>9, <1>10
  <2>2. HandleAfter(t, handle)
    BY <1>1, <2>1, HandleSet
  <2>3. tasks[t].pc \notin {"done", "settled"}
    BY <1>1
  <2> QED
    BY <1>1, <1>8, <1>12, <2>2, <2>3, WriteMoves
<1>14. ASSUME Before(t) PROVE store.maxId < handle.nextId /\ Halfway(store, handle, task)
  <2>1. Agrees(store, handle) /\ store.maxId < handle.nextId
    BY <1>1, <1>6, <1>10, <1>14 DEF Before, Agrees
  <2> QED
    BY <1>12, <2>1 DEF Halfway
<1>15. Follows(t, task, store, handle)
  BY <1>1, <1>10, <1>12, <1>14 DEF Follows, Writing
<1> QED
  BY <1>13, <1>15
LEMMA LoadFollows ==
  ASSUME Typed, NEW t \in DOMAIN tasks, LoadForBuild(t), Handle(t).writer = t
  PROVE  \E task, store, handle : WriteMove(t, task, store, handle) /\ Follows(t, task, store, handle)
<1> DEFINE ctx == [base |-> tasks[t].ctx.base, version |-> StoreOf(t).version]
<1>1. /\ tasks[t].pc = "load" /\ Kind(t) = "build" /\ Kind(t) \in Writes /\ Goto(t, "swap", ctx)
      /\ UNCHANGED <<provider, entry, dir, stores, handles, orphaned>> /\ muddled \subseteq muddled'
  BY DEF LoadForBuild, At, Writes
<1>2. StoreAfter(t, StoreOf(t)) /\ HandleAfter(t, Handle(t))
  BY <1>1, StoreUpdated, HandleKept
<1>3. StoreOf(t).version \in Nat /\ tasks[t].ctx \in [base : Nat]
  BY <1>1, WriteFacts DEF Stores, ContextOK, Kind
<1>4. ctx \in Contexts /\ "swap" \in Pcs
  BY <1>3 DEF Contexts, Pcs
<1> HIDE DEF ctx
<1>5. PICK task \in Tasks :
         /\ Moved(t, task)
         /\ task.kind = Kind(t) /\ task.handle = tasks[t].handle /\ task.arg = tasks[t].arg
         /\ task.pc = "swap" /\ task.ctx = ctx
  BY <1>1, <1>4, WriteGoes
<1>6. WriteMove(t, task, StoreOf(t), Handle(t))
  <2>1. tasks[t].pc \notin {"done", "settled"}
    BY <1>1
  <2> QED
    BY <1>1, <1>2, <1>5, <2>1, WriteMoves
<1>7. Writing(tasks[t]) /\ Writing(task)
  BY <1>1, <1>5 DEF Writing, Kind
<1>8. Before(t) => StoreOf(t).maxId < Handle(t).nextId /\ Halfway(StoreOf(t), Handle(t), task)
  BY <1>1, <1>5, <1>7 DEF Before, Halfway
<1>9. Follows(t, task, StoreOf(t), Handle(t))
  BY <1>7, <1>8 DEF Follows
<1> QED
  BY <1>6, <1>9

\* After the swap of a bulk build only its input is there, unless something
\* was staged.
LEMMA SwapFollows ==
  ASSUME Typed, NEW t \in DOMAIN tasks, SwapBuild(t)
  PROVE  \E task, store, handle : WriteMove(t, task, store, handle) /\ Follows(t, task, store, handle)
<1> DEFINE ids == tasks[t].arg
           base == tasks[t].ctx.base
           store == [StoreOf(t) EXCEPT !.version = @ + 1, !.base = base, !.delta = 0,
                                       !.maxId = Len(ids)]
           nodeIds == [x \in {ids[n] : n \in DOMAIN ids} |-> CHOOSE n \in DOMAIN ids : ids[n] = x]
           next == Len(ids) + 1
           handle == [Released(Handle(t)) EXCEPT !.nextId = next, !.nodeIds = nodeIds]
<1>1. /\ SetHandle(t, handle) /\ Return(t, "OK") /\ tasks[t].pc = "swap"
      /\ UNCHANGED <<provider, entry, dir, orphaned>>
      /\ muddled' = muddled \cup {s \in {Handle(t).store} : stores[s].draft # EmptyDraft}
  BY DEF SwapBuild, At
<1>2. /\ Kind(t) \in Writes /\ ids \in Seq(Ids) /\ ~HasDuplicates(ids) /\ Update(t, store)
      /\ (IF base = 0 THEN << >> ELSE StoreOf(t).segments[base]) = ids
      /\ StoreOK(store) /\ Update(t, store)
      /\ store = StoreRec(StoreOf(t).version + 1, base, 0, Len(ids), StoreOf(t).draft,
                          StoreOf(t).segments, StoreOf(t).frozen, StoreOf(t).nextDelta)
  BY SwapBuildIs
<1>3. Handle(t) \in Handles
  BY <1>2, WriteFacts
<1> HIDE DEF store, next, nodeIds
<1>4. handle = HandleRec(Handle(t), 0, next, nodeIds)
  BY <1>3, RebuiltIs
<1> HIDE DEF handle
<1>5. handle.writer = 0 /\ handle.nextId = next /\ handle.nodeIds = nodeIds
  BY <1>4 DEF HandleRec
<1>6. HandleAfter(t, handle)
  BY <1>1, <1>2, <1>4, <1>5, HandleSet
<1>7. StoreAfter(t, store)
  BY <1>2, StoreUpdated DEF StoreOK
<1>8. PICK task : WriteMove(t, task, store, handle) /\ task.pc = "done"
  BY <1>1, <1>2, <1>6, <1>7, WriteEnds DEF Codes
<1>9. Writing(tasks[t]) /\ ~Writing(task)
  BY <1>1, <1>8 DEF Writing
<1>10. /\ store.base = base /\ store.delta = 0 /\ store.maxId = Len(ids)
       /\ store.draft = StoreOf(t).draft /\ store.segments = StoreOf(t).segments
  BY <1>2 DEF StoreRec
<1>11. store.maxId < handle.nextId
  BY <1>2, <1>5, <1>10 DEF next
<1>12. ASSUME Handle(t).store \notin muddled' PROVE Agrees(store, handle)
  <2>1. store.draft = EmptyDraft
    BY <1>1, <1>10, <1>12 DEF StoreOf
  <2>2. BaseRows(store) = ids
    BY <1>2, <1>10 DEF BaseRows
  <2>3. Clean(store) /\ Current(store) = ids
    BY <1>2, <1>10, <2>1, <2>2, BaseClean
  <2>4. \A m, n \in DOMAIN ids : ids[m] = ids[n] => m = n
    BY <1>2 DEF HasDuplicates
  <2>5. Inverts(nodeIds, ids)
    <3> HIDE DEF ids
    <3> QED
      BY <2>4 DEF nodeIds, Inverts
  <2> QED
    BY <1>5, <2>3, <2>5 DEF Agrees
<1>13. Follows(t, task, store, handle)
  BY <1>5, <1>9, <1>11, <1>12 DEF Follows
<1> QED
  BY <1>8, <1>13

\* What is staged is what the id map will say once it is published.
LEMMA StageFollows ==
  ASSUME Typed, NEW t \in DOMAIN tasks, StageRow(t), Handle(t).writer = t
  PROVE  \E task, store, handle : WriteMove(t, task, store, handle) /\ Follows(t, task, store, handle)
<1> DEFINE old == StoreOf(t)
           store == Stage(old, tasks[t])
           draft == StagedDraft(old.draft, tasks[t])
           node == tasks[t].ctx.node
<1>1. /\ tasks[t].pc = "stage" /\ Update(t, store) /\ Goto(t, "freeze", tasks[t].ctx)
      /\ UNCHANGED <<provider, entry, dir, handles, orphaned>> /\ muddled \subseteq muddled'
  BY DEF StageRow, At
<1>2. Kind(t) \in {"insert", "delete"} /\ Kind(t) \in Writes
  BY <1>1, TaskFacts DEF KindOK, Kind, Writes
<1>3. /\ StoreOK(old) /\ old \in Stores /\ Handle(t) \in Handles
      /\ KindOK(tasks[t]) /\ ContextOK(tasks[t])
  BY <1>2, WriteFacts
<1>4. tasks[t].ctx \in Stages /\ node \in Nat /\ tasks[t].arg \in Ids
  BY <1>1, <1>2, <1>3 DEF ContextOK, KindOK, Stages, Kind
<1>5. /\ store = StoreRec(old.version, old.base, old.delta, old.maxId, draft,
                          old.segments, old.frozen, old.nextDelta)
      /\ StoreOK(store)
  BY <1>3, <1>4, StageIs, StageOK
<1> HIDE DEF store
<1>6. /\ store.version = old.version /\ store.maxId = old.maxId /\ store.draft = draft
      /\ store.base = old.base /\ store.segments = old.segments
  BY <1>5 DEF StoreRec
<1>7. StoreAfter(t, store) /\ HandleAfter(t, Handle(t))
  BY <1>1, <1>2, <1>5, StoreUpdated, HandleKept DEF StoreOK
<1>8. PICK task \in Tasks :
         /\ Moved(t, task)
         /\ task.kind = Kind(t) /\ task.handle = tasks[t].handle /\ task.arg = tasks[t].arg
         /\ task.pc = "freeze" /\ task.ctx = tasks[t].ctx
  BY <1>1, <1>4, WriteGoes DEF Contexts, Pcs
<1>9. WriteMove(t, task, store, Handle(t))
  <2>1. tasks[t].pc \notin {"done", "settled"}
    BY <1>1
  <2> QED
    BY <1>1, <1>2, <1>7, <1>8, <2>1, WriteMoves
<1>10. Writing(tasks[t]) /\ Writing(task)
  BY <1>1, <1>8 DEF Writing
<1>11. ASSUME Before(t) PROVE Halfway(store, Handle(t), task) /\ store.maxId < Handle(t).nextId
  <2> DEFINE rows == Overlay(BaseRows(old), old.draft)
             new == Overlay(BaseRows(store), draft)
             nodeIds == Handle(t).nodeIds
  <2>1. /\ Agrees(old, Handle(t)) /\ Checked(old, Handle(t), tasks[t])
        /\ tasks[t].ctx.seen.version = old.version /\ old.maxId < Handle(t).nextId
    BY <1>1, <1>10, <1>11 DEF Before, Halfway
  <2>2. rows = Current(old) /\ Inverts(nodeIds, rows) /\ Proper(rows, old.maxId)
    BY <2>1, CurrentIs DEF Agrees, Clean
  <2>3. new = Overlay(BaseRows(old), draft)
    BY <1>6 DEF BaseRows
  <2>4. old.draft \in Drafts /\ old.maxId \in Nat /\ Handle(t).nextId \in Nat \ {0}
    BY <1>3 DEF Stores, Handles
  <2>5. /\ tasks[t].kind = "insert" =>
             /\ DOMAIN new = DOMAIN rows \cup {node} /\ new[node] = tasks[t].arg
             /\ \A m \in DOMAIN rows \ {node} : new[m] = rows[m]
        /\ tasks[t].kind # "insert" =>
             /\ DOMAIN new = DOMAIN rows \ {node}
             /\ \A m \in DOMAIN new : new[m] = rows[m]
    <3> DEFINE base == BaseRows(old)
               before == old.draft
               task0 == tasks[t]
    <3>1. rows = Overlay(base, before) /\ new = Overlay(base, StagedDraft(before, task0))
          /\ node = task0.ctx.node
      BY <2>3
    <3> HIDE DEF rows, new, node, base, before, task0
    <3>2. RowsAfter(rows, new, task0)
      BY <3>1, RowsStaged
    <3> QED
      BY <3>1, <3>2 DEF task0, RowsAfter
  <2> HIDE DEF rows, new, node
  <2>6. DOMAIN rows \subseteq 1 .. old.maxId
    BY <2>2 DEF Proper
  <2>7. IF tasks[t].kind = "insert"
        THEN tasks[t].arg \notin DOMAIN nodeIds /\ node \in old.maxId + 1 .. Handle(t).nextId - 1
        ELSE tasks[t].arg \in DOMAIN nodeIds /\ nodeIds[tasks[t].arg] = node
    BY <2>1 DEF Checked, node
  <2>8. tasks[t].kind = "insert" => node \notin DOMAIN rows
    BY <2>4, <2>6, <2>7
  <2>9. Inverts(NextIds(nodeIds, tasks[t]), new)
    <3> DEFINE task0 == tasks[t]
    <3>1. \A m \in DOMAIN rows \ {node} : new[m] = rows[m]
      BY <2>5
    <3>2. \/ /\ task0.kind = "insert" /\ task0.arg \notin DOMAIN nodeIds /\ node \notin DOMAIN rows
             /\ DOMAIN new = DOMAIN rows \cup {node} /\ new[node] = task0.arg
          \/ /\ task0.kind # "insert" /\ task0.arg \in DOMAIN nodeIds /\ nodeIds[task0.arg] = node
             /\ DOMAIN new = DOMAIN rows \ {node}
      BY <2>5, <2>7, <2>8
    <3>3. node = task0.ctx.node
      BY DEF node
    <3> HIDE DEF task0, nodeIds
    <3>4. Inverts(nodeIds, rows)
      BY <2>2
    <3>5. Inverts(NextIds(nodeIds, task0), new)
      BY <3>1, <3>2, <3>3, <3>4, InvertsNext
    <3> QED
      BY <3>5 DEF task0
  <2>10. DOMAIN new \subseteq 1 .. Handle(t).nextId - 1
    BY <2>1, <2>4, <2>5, <2>6, <2>7
  <2>11. NextIds(nodeIds, task) = NextIds(nodeIds, tasks[t])
    BY <1>8 DEF NextIds, Kind
  <2>12. Staged(store, Handle(t), task, store.draft)
    BY <1>6, <2>9, <2>10, <2>11 DEF Staged, new
  <2> QED
    BY <1>6, <1>8, <2>1, <2>12 DEF Halfway
<1>12. Follows(t, task, store, Handle(t))
  BY <1>10, <1>11 DEF Follows
<1> QED
  BY <1>9, <1>12

\* The frozen delta is the staged draft.
LEMMA FreezeFollows ==
  ASSUME Typed, NEW t \in DOMAIN tasks, FreezeDraft(t), Handle(t).writer = t
  PROVE  \E task, store, handle : WriteMove(t, task, store, handle) /\ Follows(t, task, store, handle)
<1> DEFINE old == StoreOf(t)
           store == Freeze(old)
           ctx == [node |-> tasks[t].ctx.node, seen |-> tasks[t].ctx.seen, delta |-> old.nextDelta]
<1>1. /\ tasks[t].pc = "freeze" /\ Update(t, store) /\ Goto(t, "publish", ctx)
      /\ UNCHANGED <<provider, entry, dir, handles, orphaned>> /\ muddled \subseteq muddled'
  BY DEF FreezeDraft, At
<1>2. Kind(t) \in {"insert", "delete"} /\ Kind(t) \in Writes
  BY <1>1, TaskFacts DEF KindOK, Kind, Writes
<1>3. /\ StoreOK(old) /\ old \in Stores /\ KindOK(tasks[t]) /\ ContextOK(tasks[t])
  BY <1>2, WriteFacts
<1>4. tasks[t].ctx \in Stages /\ old.nextDelta \in Nat \ {0}
  BY <1>1, <1>3 DEF ContextOK, Stores
<1>5. /\ ctx.node = tasks[t].ctx.node /\ ctx.seen = tasks[t].ctx.seen /\ ctx.delta = old.nextDelta
      /\ ctx \in Publishes
  BY <1>4 DEF Stages, Publishes
<1>6. /\ store = StoreRec(old.version, old.base, old.delta, old.maxId, old.draft,
                          old.segments, store.frozen, old.nextDelta + 1)
      /\ \A d \in DOMAIN store.frozen :
           store.frozen[d] = IF d = old.nextDelta THEN old.draft ELSE old.frozen[d]
      /\ StoreOK(store)
  BY <1>3, FreezeIs, FreezeOK
<1> HIDE DEF store, ctx
<1>7. /\ store.version = old.version /\ store.maxId = old.maxId /\ store.draft = old.draft
      /\ store.base = old.base /\ store.segments = old.segments
  BY <1>6 DEF StoreRec
<1>8. StoreAfter(t, store) /\ HandleAfter(t, Handle(t))
  BY <1>1, <1>2, <1>6, StoreUpdated, HandleKept DEF StoreOK
<1>9. PICK task \in Tasks :
         /\ Moved(t, task)
         /\ task.kind = Kind(t) /\ task.handle = tasks[t].handle /\ task.arg = tasks[t].arg
         /\ task.pc = "publish" /\ task.ctx = ctx
  BY <1>1, <1>5, WriteGoes DEF Contexts, Pcs
<1>10. WriteMove(t, task, store, Handle(t))
  <2>1. tasks[t].pc \notin {"done", "settled"}
    BY <1>1
  <2> QED
    BY <1>1, <1>2, <1>8, <1>9, <2>1, WriteMoves
<1>11. Writing(tasks[t]) /\ Writing(task)
  BY <1>1, <1>9 DEF Writing
<1>12. ASSUME Before(t) PROVE Halfway(store, Handle(t), task) /\ store.maxId < Handle(t).nextId
  <2>1. /\ Staged(old, Handle(t), tasks[t], old.draft)
        /\ tasks[t].ctx.seen.version = old.version /\ old.maxId < Handle(t).nextId
    BY <1>1, <1>11, <1>12 DEF Before, Halfway
  <2>2. BaseRows(store) = BaseRows(old)
    BY <1>7 DEF BaseRows
  <2>3. NextIds(Handle(t).nodeIds, task) = NextIds(Handle(t).nodeIds, tasks[t])
    BY <1>5, <1>9 DEF NextIds, Kind
  <2>4. Staged(store, Handle(t), task, store.draft)
    BY <1>7, <2>1, <2>2, <2>3 DEF Staged
  <2>5. task.ctx.delta \in DOMAIN store.frozen => store.frozen[task.ctx.delta] = store.draft
    BY <1>5, <1>6, <1>7, <1>9
  <2> QED
    BY <1>5, <1>7, <1>9, <2>1, <2>4, <2>5 DEF Halfway
<1>13. Follows(t, task, store, Handle(t))
  BY <1>11, <1>12 DEF Follows
<1> QED
  BY <1>10, <1>13

\* The rows that become visible are those the map is updated to.
LEMMA PublishFollows ==
  ASSUME Typed, NEW t \in DOMAIN tasks, Publish(t)
  PROVE  \E task, store, handle : WriteMove(t, task, store, handle) /\ Follows(t, task, store, handle)
<1> DEFINE old == StoreOf(t)
           store == Published(t)
           maxId == Larger(old.maxId, Handle(t).nextId - 1)
           delta == tasks[t].ctx.delta
           nodeIds == NextIds(Handle(t).nodeIds, tasks[t])
           handle == [Released(Handle(t)) EXCEPT !.nodeIds = nodeIds]
<1>1. /\ Kind(t) \in Writes /\ tasks[t].ctx.seen = Snapshot(old) /\ delta \in DOMAIN old.frozen
      /\ delta # 0 /\ StoreOK(old) /\ StoreOK(store)
      /\ store = StoreRec(old.version + 1, old.base, delta, maxId,
                          old.draft, old.segments, old.frozen, old.nextDelta)
  BY PublishIs
<1>2. Handle(t) \in Handles
  BY <1>1, WriteFacts
<1>3. /\ tasks[t].pc = "publish" /\ Update(t, store) /\ Return(t, "OK")
      /\ UNCHANGED <<provider, entry, dir, orphaned>> /\ muddled' = muddled
  BY DEF Publish, At
<1>4. Released(Handle(t)).nodeIds = Handle(t).nodeIds
  BY <1>2 DEF Released, Handles
<1>5. SetHandle(t, handle)
  BY <1>4 DEF Publish, NextIds, Kind
<1> HIDE DEF store, nodeIds, maxId
<1>6. handle = HandleRec(Handle(t), 0, Handle(t).nextId, nodeIds)
  BY <1>2, ReleasedIs
<1> HIDE DEF handle
<1>7. handle.writer = 0 /\ handle.nextId = Handle(t).nextId /\ handle.nodeIds = nodeIds
  BY <1>6 DEF HandleRec
<1>8. HandleAfter(t, handle)
  BY <1>1, <1>5, <1>6, <1>7, HandleSet
<1>9. StoreAfter(t, store)
  BY <1>1, <1>3, StoreUpdated DEF StoreOK
<1>10. PICK task : WriteMove(t, task, store, handle) /\ task.pc = "done"
  BY <1>1, <1>3, <1>8, <1>9, WriteEnds DEF Codes
<1>11. Writing(tasks[t]) /\ ~Writing(task)
  BY <1>3, <1>10 DEF Writing
<1>12. /\ store.base = old.base /\ store.delta = delta /\ store.maxId = maxId
       /\ store.draft = old.draft /\ store.segments = old.segments /\ store.frozen = old.frozen
  BY <1>1 DEF StoreRec
<1>13. ASSUME Before(t) PROVE store.maxId < handle.nextId /\ Agrees(store, handle)
  <2>1. /\ old.frozen[delta] = old.draft /\ Staged(old, Handle(t), tasks[t], old.draft)
        /\ old.maxId < Handle(t).nextId
    BY <1>1, <1>3, <1>11, <1>13 DEF Before, Halfway
  <2>2. maxId = Handle(t).nextId - 1 /\ maxId < Handle(t).nextId
    <3>1. old.maxId \in Nat /\ Handle(t).nextId \in Nat \ {0}
      BY <1>1, <1>2 DEF StoreOK, Stores, Handles
    <3> QED
      BY <2>1, <3>1 DEF maxId, Larger
  <2>3. DeltaOf(store) = store.draft /\ BaseRows(store) = BaseRows(old)
    BY <1>1, <1>12, <2>1 DEF DeltaOf, BaseRows
  <2>4. Current(store) = Overlay(BaseRows(old), old.draft)
    BY <1>12, <2>3, CurrentIs
  <2>5. DOMAIN Current(store) \subseteq 1 .. maxId /\ Inverts(nodeIds, Current(store))
    BY <2>1, <2>2, <2>4 DEF Staged, nodeIds
  <2>6. Proper(Current(store), store.maxId)
    BY <1>12, <2>5, InvertsProper
  <2> QED
    BY <1>7, <1>12, <2>2, <2>3, <2>5, <2>6 DEF Agrees, Clean
<1>14. Follows(t, task, store, handle)
  BY <1>7, <1>11, <1>13 DEF Follows
<1> QED
  BY <1>10, <1>14

\* A write that fails before it staged anything leaves all as it was; after
\* that its store is muddled.
LEMMA FailFollows ==
  ASSUME Typed, NEW t \in DOMAIN tasks, FailWrite(t)
  PROVE  \E task, store, handle : WriteMove(t, task, store, handle) /\ Follows(t, task, store, handle)
<1> DEFINE handle == Released(Handle(t))
<1>1. PICK code \in CoreErrors(t) \cup IoErrors(t) : Return(t, code)
  BY DEF FailWrite
<1>2. /\ tasks[t].pc \in {"stage", "freeze", "publish", "swap"} /\ Kind(t) \in Writes
      /\ code \in Codes
  BY <1>1, FailIs
<1>3. /\ SetHandle(t, handle) /\ UNCHANGED <<provider, entry, dir, stores, orphaned>>
      /\ muddled' = muddled \cup {s \in {Handle(t).store} : tasks[t].pc \in {"freeze", "publish"}}
  BY DEF FailWrite
<1>4. Handle(t) \in Handles
  BY <1>2, WriteFacts
<1>5. handle = HandleRec(Handle(t), 0, Handle(t).nextId, Handle(t).nodeIds)
  BY <1>4, ReleasedIs
<1> HIDE DEF handle
<1>6. handle.writer = 0 /\ handle.nextId = Handle(t).nextId /\ handle.nodeIds = Handle(t).nodeIds
  BY <1>5 DEF HandleRec
<1>7. HandleAfter(t, handle)
  BY <1>2, <1>3, <1>5, <1>6, HandleSet
<1>8. StoreAfter(t, StoreOf(t))
  BY <1>2, <1>3, StoreUpdated
<1>9. PICK task : WriteMove(t, task, StoreOf(t), handle) /\ task.pc = "done"
  BY <1>1, <1>2, <1>3, <1>7, <1>8, WriteEnds
<1>10. Writing(tasks[t]) /\ ~Writing(task)
  BY <1>2, <1>9 DEF Writing
<1>11. ASSUME Handle(t).store \notin muddled', Before(t)
       PROVE  StoreOf(t).maxId < handle.nextId /\ Agrees(StoreOf(t), handle)
  <2>1. tasks[t].pc \in {"stage", "swap"}
    BY <1>2, <1>3, <1>11
  <2> QED
    BY <1>6, <1>10, <1>11, <2>1 DEF Before, Halfway, Agrees
<1>12. Follows(t, task, StoreOf(t), handle)
  BY <1>6, <1>10, <1>11 DEF Follows
<1> QED
  BY <1>9, <1>12
------------------------------------------------------------------------------
(* The id maps of all handles *)

\* Handles that keep their maps, whether or not they were closed.
MapsKept ==
  \A h \in DOMAIN handles :
    /\ h \in DOMAIN handles'
    /\ handles'[h].store = handles[h].store /\ handles'[h].writer = handles[h].writer
    /\ handles'[h].nextId = handles[h].nextId /\ handles'[h].nodeIds = handles[h].nodeIds

LEMMA HalfwaySame ==
  ASSUME NEW store, NEW old, NEW new, NEW task,
         new.nextId = old.nextId, new.nodeIds = old.nodeIds
  PROVE  /\ Agrees(store, old) => Agrees(store, new)
         /\ Halfway(store, old, task) => Halfway(store, new, task)
BY DEF Agrees, Halfway, Checked, Staged

LEMMA WritingFacts ==
  ASSUME Typed, NEW t \in DOMAIN tasks, Writing(tasks[t])
  PROVE  /\ Kind(t) \in Writes /\ InFlight(tasks[t]) /\ tasks[t].handle \in DOMAIN handles
         /\ t # 0
<1>1. Kind(t) \in Writes /\ InFlight(tasks[t])
  BY TaskFacts DEF Writing, KindOK, InFlight, Kind, Writes
<1> QED
  BY <1>1, StoreFacts DEF Typed

LEMMA InFlightFacts ==
  ASSUME Typed, NEW t \in DOMAIN tasks, InFlight(tasks[t])
  PROVE  Kind(t) \in Writes /\ tasks[t].handle \in DOMAIN handles /\ Handle(t).store \in DOMAIN stores
BY StoreFacts DEF InFlight, Kind

\* A task of another kind has nothing to do with the id map.
LEMMA Idle ==
  ASSUME NEW task, KindOK(task), task.kind \notin Writes
  PROVE  ~Writing(task) /\ ~InFlight(task)
BY DEF Writing, KindOK, InFlight, Writes

\* A live handle whose store and writer a step leaves alone.
LEMMA HandleOKKept ==
  ASSUME Typed, Mapped, MapsKept, NEW h \in DOMAIN handles, HandleOK(h),
         stores'[handles[h].store] = stores[handles[h].store],
         \A u \in DOMAIN tasks : tasks[u].handle = h /\ Writing(tasks[u]) => tasks'[u] = tasks[u]
  PROVE  HandleOK(h)'
<1> DEFINE old == handles[h]
           new == handles'[h]
           store == stores[old.store]
<1>1. /\ new.store = old.store /\ new.writer = old.writer
      /\ new.nextId = old.nextId /\ new.nodeIds = old.nodeIds
  BY DEF MapsKept
<1>2. /\ store.maxId < old.nextId
      /\ old.writer = 0 => Agrees(store, old)
      /\ old.writer # 0 => Halfway(store, old, tasks[old.writer])
  BY DEF HandleOK
<1>3. old.writer # 0 => tasks'[old.writer] = tasks[old.writer]
  BY DEF Mapped
<1>4. stores'[new.store] = store
  BY <1>1
<1> HIDE DEF old, new, store
<1>5. new.writer = 0 => Agrees(store, new)
  BY <1>1, <1>2, HalfwaySame
<1>6. new.writer # 0 => Halfway(store, new, tasks'[new.writer])
  BY <1>1, <1>2, <1>3, HalfwaySame
<1>7. /\ stores'[handles'[h].store].maxId < handles'[h].nextId
      /\ handles'[h].writer = 0 => Agrees(stores'[handles'[h].store], handles'[h])
      /\ handles'[h].writer # 0 =>
           Halfway(stores'[handles'[h].store], handles'[h], tasks'[handles'[h].writer])
  BY <1>1, <1>2, <1>4, <1>5, <1>6 DEF new
<1> QED
  BY <1>7 DEF HandleOK

\* A step that neither writes nor opens nor closes anything.
LEMMA QuietMapped ==
  ASSUME Typed, Mapped, UNCHANGED <<stores, muddled>>, entry' = entry \/ entry'.store = 0,
         DOMAIN handles' = DOMAIN handles, MapsKept,
         \A h \in DOMAIN handles : IsLive(h)' <=> IsLive(h),
         \A u \in DOMAIN tasks : Writing(tasks[u]) => u \in DOMAIN tasks' /\ tasks'[u] = tasks[u],
         \A u \in DOMAIN tasks' : Writing(tasks'[u]) => u \in DOMAIN tasks /\ tasks'[u] = tasks[u],
         \A u \in DOMAIN tasks' : InFlight(tasks'[u]) =>
           \/ u \in DOMAIN tasks /\ InFlight(tasks[u]) /\ tasks'[u].handle = tasks[u].handle
           \/ tasks'[u].handle \in DOMAIN handles /\ IsLive(tasks'[u].handle)
  PROVE  Mapped'
<1>1. ASSUME NEW u \in DOMAIN tasks', Writing(tasks'[u]) PROVE Handle(u)'.writer = u
  <2>1. u \in DOMAIN tasks /\ tasks'[u] = tasks[u] /\ Writing(tasks[u])
    BY <1>1
  <2>2. Handle(u).writer = u /\ tasks[u].handle \in DOMAIN handles
    BY <2>1, WritingFacts DEF Mapped
  <2> QED
    BY <2>1, <2>2 DEF MapsKept, Handle
<1>2. ASSUME NEW h \in DOMAIN handles', handles'[h].writer # 0
      PROVE  /\ handles'[h].writer \in DOMAIN tasks'
             /\ Writing(tasks'[handles'[h].writer]) /\ tasks'[handles'[h].writer].handle = h
  BY <1>2 DEF Mapped, MapsKept
<1>3. ASSUME NEW u \in DOMAIN tasks', InFlight(tasks'[u])
      PROVE  IsLive(tasks[u].handle)' \/ Handle(u)'.store \in muddled'
  <2>1. CASE u \in DOMAIN tasks /\ InFlight(tasks[u]) /\ tasks'[u].handle = tasks[u].handle
    <3>1. /\ tasks[u].handle \in DOMAIN handles
          /\ IsLive(tasks[u].handle) \/ handles[tasks[u].handle].store \in muddled
      BY <2>1, InFlightFacts DEF Mapped, Handle
    <3> DEFINE h == tasks[u].handle
    <3>2. h \in DOMAIN handles /\ tasks'[u].handle = h /\ handles'[h].store = handles[h].store
      BY <2>1, <3>1 DEF MapsKept
    <3>3. \A g \in DOMAIN handles : IsLive(g) => handles'[g].status \in {"computed", "open"}
      BY DEF IsLive
    <3>4. handles'[h].status \in {"computed", "open"} \/ handles'[h].store \in muddled'
      BY <3>1, <3>2, <3>3
    <3> QED
      BY <3>2, <3>4 DEF IsLive, Handle
  <2>2. CASE tasks'[u].handle \in DOMAIN handles /\ IsLive(tasks'[u].handle)
    BY <2>2 DEF IsLive
  <2> QED
    BY <1>3, <2>1, <2>2
<1>4. ASSUME NEW h \in DOMAIN handles', IsLive(h)', handles'[h].store \notin muddled' PROVE HandleOK(h)'
  <2>1. h \in DOMAIN handles /\ IsLive(h) /\ handles[h].store \notin muddled
    BY <1>4 DEF MapsKept
  <2>2. HandleOK(h)
    BY <2>1 DEF Mapped
  <2> QED
    BY <2>1, <2>2, HandleOKKept
<1>5. entry'.store # 0 /\ ~entry'.attached /\ entry'.store \notin muddled' =>
        Clean(stores'[entry'.store])
  BY DEF Mapped
<1> QED
  BY <1>1, <1>2, <1>3, <1>4, <1>5 DEF Mapped

\* The same for one task that moves.
LEMMA QuietMove ==
  ASSUME Typed, Mapped, UNCHANGED <<stores, handles, muddled>>, entry' = entry \/ entry'.store = 0,
         NEW t \in DOMAIN tasks, NEW task, Moved(t, task),
         ~Writing(tasks[t]), ~Writing(task),
         InFlight(task) => InFlight(tasks[t]) /\ task.handle = tasks[t].handle
  PROVE  Mapped'
<1>1. /\ DOMAIN tasks' = DOMAIN tasks /\ tasks'[t] = task
      /\ \A u \in DOMAIN tasks : u # t => tasks'[u] = tasks[u]
  BY DEF Typed, Moved
<1>2. MapsKept /\ \A h \in DOMAIN handles : IsLive(h)' <=> IsLive(h)
  BY DEF MapsKept, IsLive
<1>3. /\ \A u \in DOMAIN tasks : Writing(tasks[u]) => u \in DOMAIN tasks' /\ tasks'[u] = tasks[u]
      /\ \A u \in DOMAIN tasks' : Writing(tasks'[u]) => u \in DOMAIN tasks /\ tasks'[u] = tasks[u]
      /\ \A u \in DOMAIN tasks' : InFlight(tasks'[u]) =>
           u \in DOMAIN tasks /\ InFlight(tasks[u]) /\ tasks'[u].handle = tasks[u].handle
  BY <1>1
<1> QED
  BY <1>2, <1>3, QuietMapped

\* Two live handles are never on one store that no hazard has touched, while
\* a write is under way on it; nor is the store one that is waiting to be
\* opened.
LEMMA Alone ==
  ASSUME Typed, Owned, Mapped, NEW t \in DOMAIN tasks, InFlight(tasks[t]),
         Handle(t).store \notin muddled
  PROVE  /\ \A g \in DOMAIN handles :
              IsLive(g) /\ handles[g].store = Handle(t).store => g = tasks[t].handle
         /\ entry.store = Handle(t).store => entry.attached
<1> DEFINE h == tasks[t].handle
<1>1. h \in DOMAIN handles /\ IsLive(h) /\ Handle(t) = handles[h] /\ Handle(t).store \in DOMAIN stores
  BY InFlightFacts DEF Mapped, Handle
<1>2. Handle(t).store # 0
  BY <1>1 DEF Typed
<1> HIDE DEF h
<1>3. CASE provider = "memory"
  BY <1>1, <1>3 DEF Owned, h
<1>4. CASE provider # "memory"
  BY <1>1, <1>2, <1>4 DEF Owned, NoEntry, h
<1> QED
  BY <1>3, <1>4

\* What the map has to do with the store before a write takes a step.
LEMMA BeforeHolds ==
  ASSUME Typed, Mapped, NEW t \in DOMAIN tasks, InFlight(tasks[t]), Handle(t).store \notin muddled
  PROVE  Before(t)
<1>1. tasks[t].handle \in DOMAIN handles /\ IsLive(tasks[t].handle)
  BY InFlightFacts DEF Mapped
<1>2. HandleOK(tasks[t].handle)
  BY <1>1 DEF Mapped, Handle
<1>3. /\ StoreOf(t).maxId < Handle(t).nextId
      /\ Handle(t).writer = 0 => Agrees(StoreOf(t), Handle(t))
      /\ Handle(t).writer # 0 => Halfway(StoreOf(t), Handle(t), tasks[Handle(t).writer])
  BY <1>2 DEF HandleOK, Handle, StoreOf
<1>4. Writing(tasks[t]) => Handle(t).writer = t /\ t # 0
  BY WritingFacts DEF Mapped
<1> QED
  BY <1>3, <1>4 DEF Before

\* A step of a write keeps the map of its handle, and no other is concerned.
LEMMA WriteMapped ==
  ASSUME Typed, Owned, Mapped, NEW t \in DOMAIN tasks, NEW task, NEW store, NEW handle,
         WriteMove(t, task, store, handle), Follows(t, task, store, handle)
  PROVE  Mapped'
<1> DEFINE h == tasks[t].handle
           s == Handle(t).store
<1>1. /\ InFlight(tasks[t]) /\ Moved(t, task) /\ task \in Tasks /\ task.handle = h
      /\ StoreAfter(t, store) /\ HandleAfter(t, handle) /\ entry' = entry /\ muddled \subseteq muddled'
  BY DEF WriteMove
<1>2. /\ DOMAIN tasks' = DOMAIN tasks /\ tasks'[t] = task
      /\ \A u \in DOMAIN tasks : u # t => tasks'[u] = tasks[u]
  BY <1>1, MovedFacts DEF Typed
<1>3. h \in DOMAIN handles /\ s \in DOMAIN stores /\ Handle(t) = handles[h] /\ t # 0
  BY <1>1, InFlightFacts DEF Typed, Handle
<1>4. /\ DOMAIN handles' = DOMAIN handles /\ handles'[h] = handle
      /\ \A g \in DOMAIN handles : g # h => handles'[g] = handles[g]
  BY <1>1 DEF HandleAfter
<1>5. handle.store = s /\ handle.status = handles[h].status
  BY <1>1, <1>3 DEF HandleAfter, HandleRec
<1>6. /\ stores'[s] = store /\ \A r \in DOMAIN stores : r # s => stores'[r] = stores[r]
  BY <1>1 DEF StoreAfter
<1>7. /\ handle.writer = IF Writing(task) THEN t ELSE 0
      /\ handles[h].writer = t \/ handles[h].writer = 0
  BY <1>3 DEF Follows, Mapped
<1>8. \A u \in DOMAIN tasks : Writing(tasks[u]) => handles[tasks[u].handle].writer = u
  BY DEF Mapped, Handle
<1>9. \A u \in DOMAIN tasks : InFlight(tasks[u]) =>
        /\ tasks[u].handle \in DOMAIN handles
        /\ IsLive(tasks[u].handle) \/ handles[tasks[u].handle].store \in muddled
  BY InFlightFacts DEF Mapped, Handle
<1>10. s \notin muddled' =>
         /\ store.maxId < handle.nextId
         /\ IF Writing(task) THEN Halfway(store, handle, task) ELSE Agrees(store, handle)
  BY <1>1, BeforeHolds DEF Follows
<1>11. s \notin muddled =>
         /\ \A g \in DOMAIN handles : IsLive(g) /\ handles[g].store = s => g = h
         /\ entry.store = s => entry.attached
  BY <1>1, Alone
<1> HIDE DEF h, s
<1>12. ASSUME NEW u \in DOMAIN tasks', Writing(tasks'[u]) PROVE Handle(u)'.writer = u
  <2>1. CASE u = t
    BY <1>1, <1>2, <1>4, <1>7, <1>12, <2>1 DEF Handle
  <2>2. CASE u # t
    <3>1. tasks'[u] = tasks[u] /\ u \in DOMAIN tasks /\ Writing(tasks[u])
      BY <1>2, <1>12, <2>2
    <3>2. handles[tasks[u].handle].writer = u /\ u # 0 /\ tasks[u].handle \in DOMAIN handles
      BY <1>8, <3>1, WritingFacts
    <3>3. tasks[u].handle # h
      BY <1>7, <2>2, <3>2
    <3> QED
      BY <1>4, <3>1, <3>2, <3>3 DEF Handle
  <2> QED
    BY <2>1, <2>2
<1>13. ASSUME NEW g \in DOMAIN handles', handles'[g].writer # 0
       PROVE  /\ handles'[g].writer \in DOMAIN tasks'
              /\ Writing(tasks'[handles'[g].writer]) /\ tasks'[handles'[g].writer].handle = g
  <2>1. CASE g = h
    BY <1>1, <1>2, <1>4, <1>7, <1>13, <2>1
  <2>2. CASE g # h
    <3>1. handles'[g] = handles[g] /\ g \in DOMAIN handles
      BY <1>4, <2>2
    <3>2. /\ handles[g].writer \in DOMAIN tasks /\ Writing(tasks[handles[g].writer])
          /\ tasks[handles[g].writer].handle = g
      BY <1>13, <3>1 DEF Mapped
    <3>3. handles[g].writer # t
      BY <2>2, <3>2 DEF h
    <3> QED
      BY <1>2, <3>1, <3>2, <3>3
  <2> QED
    BY <2>1, <2>2
<1>14. ASSUME NEW u \in DOMAIN tasks', InFlight(tasks'[u])
       PROVE  IsLive(tasks[u].handle)' \/ Handle(u)'.store \in muddled'
  <2>1. /\ u \in DOMAIN tasks /\ InFlight(tasks[u]) /\ tasks'[u].handle = tasks[u].handle
    BY <1>1, <1>2, <1>14 DEF h
  <2> DEFINE g == tasks[u].handle
  <2>2. g \in DOMAIN handles /\ (IsLive(g) \/ handles[g].store \in muddled)
    BY <1>9, <2>1
  <2>3. handles'[g].store = handles[g].store /\ handles'[g].status = handles[g].status
    BY <1>3, <1>4, <1>5, <2>2 DEF s
  <2>4. handles'[g].status \in {"computed", "open"} \/ handles'[g].store \in muddled'
    BY <1>1, <2>2, <2>3 DEF IsLive
  <2> QED
    BY <2>1, <2>4 DEF IsLive, Handle
<1>15. ASSUME NEW g \in DOMAIN handles', IsLive(g)', handles'[g].store \notin muddled' PROVE HandleOK(g)'
  <2>1. CASE g = h
    <3>1. /\ store.maxId < handle.nextId
          /\ IF Writing(task) THEN Halfway(store, handle, task) ELSE Agrees(store, handle)
      BY <1>4, <1>5, <1>10, <1>15, <2>1
    <3>2. handles'[g] = handle /\ stores'[handles'[g].store] = store
      BY <1>4, <1>5, <1>6, <2>1
    <3>3. /\ handle.writer = 0 => Agrees(store, handle)
          /\ handle.writer # 0 => Halfway(store, handle, tasks'[handle.writer])
      BY <1>2, <1>3, <1>7, <3>1
    <3> QED
      BY <3>1, <3>2, <3>3 DEF HandleOK
  <2>2. CASE g # h
    <3>1. handles'[g] = handles[g] /\ g \in DOMAIN handles
      BY <1>4, <2>2
    <3>2. IsLive(g) /\ handles[g].store \notin muddled
      BY <1>1, <1>15, <3>1 DEF IsLive
    <3>3. handles[g].store # s /\ handles[g].store \in DOMAIN stores
      BY <1>11, <2>2, <3>1, <3>2 DEF Typed
    <3>4. HandleOK(g)
      BY <3>1, <3>2 DEF Mapped
    <3> DEFINE old == handles[g]
    <3>5. /\ stores[old.store].maxId < old.nextId
          /\ old.writer = 0 => Agrees(stores[old.store], old)
          /\ old.writer # 0 => Halfway(stores[old.store], old, tasks[old.writer])
      BY <3>4 DEF HandleOK
    <3>6. stores'[old.store] = stores[old.store]
      BY <1>6, <3>3
    <3>7. old.writer # 0 => tasks'[old.writer] = tasks[old.writer]
      <4>1. old.writer # 0 => old.writer \in DOMAIN tasks /\ tasks[old.writer].handle = g
        BY <3>1 DEF Mapped
      <4>2. old.writer # 0 => old.writer # t
        BY <2>2, <4>1 DEF h
      <4> QED
        BY <1>2, <4>1, <4>2
    <3> HIDE DEF old
    <3>8. handles'[g] = old
      BY <3>1 DEF old
    <3> QED
      BY <3>5, <3>6, <3>7, <3>8 DEF HandleOK
  <2> QED
    BY <2>1, <2>2
<1>16. ASSUME entry'.store # 0, ~entry'.attached, entry'.store \notin muddled'
       PROVE  Clean(stores'[entry'.store])
  <2>1. Clean(stores[entry.store]) /\ entry.store \notin muddled
    BY <1>1, <1>16 DEF Mapped
  <2>2. entry.store # s
    BY <1>1, <1>11, <1>16, <2>1
  <2>3. entry.store \in DOMAIN stores
    BY <1>1, <1>16 DEF Typed
  <2> QED
    BY <1>1, <1>6, <2>1, <2>2, <2>3
<1> QED
  BY <1>12, <1>13, <1>14, <1>15, <1>16 DEF Mapped

LEMMA QueuesMapped ==
  ASSUME Typed, Mapped, NEW task, Queues(task) PROVE Mapped'
<1>1. UNCHANGED <<entry, stores, handles, muddled>> /\ task.pc = "queued"
  BY DEF Queues
<1>2. MapsKept /\ \A h \in DOMAIN handles : IsLive(h)' <=> IsLive(h)
  BY <1>1 DEF MapsKept, IsLive
<1>3. ~Writing(task)
  BY <1>1 DEF Writing
<1>4. \A u \in DOMAIN tasks : Writing(tasks[u]) => u \in DOMAIN tasks' /\ tasks'[u] = tasks[u]
  BY QueuesFacts
<1>5. \A u \in DOMAIN tasks' : Writing(tasks'[u]) => u \in DOMAIN tasks /\ tasks'[u] = tasks[u]
  BY <1>3, QueuesFacts
<1>6. InFlight(task) => task.handle \in DOMAIN handles /\ IsLive(task.handle)
  BY DEF InFlight, Queues, IsOpen, IsLive
<1>7. ASSUME NEW u \in DOMAIN tasks', InFlight(tasks'[u])
      PROVE  \/ u \in DOMAIN tasks /\ InFlight(tasks[u]) /\ tasks'[u].handle = tasks[u].handle
             \/ tasks'[u].handle \in DOMAIN handles /\ IsLive(tasks'[u].handle)
  <2>1. CASE u \in DOMAIN tasks
    BY <1>7, <2>1, QueuesFacts
  <2>2. CASE tasks'[u] = task
    BY <1>6, <1>7, <2>2
  <2> QED
    BY <2>1, <2>2, QueuesFacts
<1> QED
  BY <1>1, <1>2, <1>4, <1>5, <1>7, QuietMapped

\* A handle that is closed under its writes leaves a muddled store, and one
\* that is closed without any leaves a clean one.
LEMMA CloseMapped ==
  ASSUME Typed, Owned, Mapped, NEW h \in DOMAIN handles, Close(h) PROVE Mapped'
<1> DEFINE handle == [handles[h] EXCEPT !.status = "closed", !.named = FALSE]
           s == handles[h].store
<1>1. /\ UNCHANGED <<provider, stores, tasks>> /\ handles' = [handles EXCEPT ![h] = handle]
      /\ entry' = IF handles[h].named THEN [entry EXCEPT !.attached = FALSE] ELSE entry
      /\ muddled' = muddled \cup {s : t \in WritesInFlight(h)}
  BY DEF Close
<1>2. /\ handle.status = "closed" /\ handle.store = s /\ handle.writer = handles[h].writer
      /\ handle.nextId = handles[h].nextId /\ handle.nodeIds = handles[h].nodeIds
  <2>1. handles[h] \in Handles
    BY DEF Typed
  <2> QED
    BY <2>1 DEF Handles
<1> HIDE DEF handle
<1>3. /\ DOMAIN handles' = DOMAIN handles /\ handles'[h] = handle
      /\ \A g \in DOMAIN handles : g # h => handles'[g] = handles[g]
  BY <1>1
<1>4. MapsKept
  BY <1>2, <1>3 DEF MapsKept
<1>5. \A t \in DOMAIN tasks : t \in WritesInFlight(h) <=> InFlight(tasks[t]) /\ tasks[t].handle = h
  BY DEF WritesInFlight, InFlight, Kind
<1>6. muddled \subseteq muddled' /\ \A t \in DOMAIN tasks :
        InFlight(tasks[t]) /\ tasks[t].handle = h => s \in muddled'
  BY <1>1, <1>5
<1> HIDE DEF s
<1>7. ASSUME NEW u \in DOMAIN tasks, Writing(tasks[u]) PROVE handles'[tasks[u].handle].writer = u
  BY <1>4, <1>7, WritingFacts DEF Mapped, MapsKept, Handle
<1>8. ASSUME NEW g \in DOMAIN handles', handles'[g].writer # 0
      PROVE  /\ handles'[g].writer \in DOMAIN tasks
             /\ Writing(tasks[handles'[g].writer]) /\ tasks[handles'[g].writer].handle = g
  BY <1>3, <1>4, <1>8 DEF Mapped, MapsKept
<1>9. ASSUME NEW u \in DOMAIN tasks, InFlight(tasks[u])
      PROVE  \/ handles'[tasks[u].handle].status \in {"computed", "open"}
             \/ handles'[tasks[u].handle].store \in muddled'
  <2> DEFINE g == tasks[u].handle
  <2>1. g \in DOMAIN handles /\ (IsLive(g) \/ handles[g].store \in muddled)
    BY <1>9, InFlightFacts DEF Mapped, Handle
  <2>2. CASE g = h
    BY <1>2, <1>3, <1>6, <1>9, <2>2
  <2>3. CASE g # h
    BY <1>3, <1>6, <2>1, <2>3 DEF IsLive
  <2> QED
    BY <2>2, <2>3
<1>10. ASSUME NEW g \in DOMAIN handles', IsLive(g)', handles'[g].store \notin muddled'
       PROVE  HandleOK(g)'
  <2>1. g # h
    BY <1>2, <1>3, <1>10 DEF IsLive
  <2>2. g \in DOMAIN handles /\ IsLive(g) /\ handles[g].store \notin muddled
    BY <1>3, <1>6, <1>10, <2>1 DEF IsLive
  <2>3. HandleOK(g)
    BY <2>2 DEF Mapped
  <2> QED
    BY <1>1, <1>4, <2>2, <2>3, HandleOKKept
<1>11. ASSUME entry'.store # 0, ~entry'.attached, entry'.store \notin muddled'
       PROVE  Clean(stores'[entry'.store])
  <2>1. CASE handles[h].named
    <3>1. entry' = [entry EXCEPT !.attached = FALSE]
      BY <1>1, <2>1
    <3>2. entry'.store = entry.store
      BY <3>1 DEF Typed
    <3>3. IsLive(h) /\ s = entry.store
      BY <2>1 DEF Owned, s
    <3>4. s \notin muddled'
      BY <1>11, <3>2, <3>3
    <3>5. HandleOK(h)
      BY <1>6, <3>3, <3>4 DEF Mapped, s
    <3>6. handles[h].writer = 0
      <4> SUFFICES ASSUME handles[h].writer # 0 PROVE FALSE
        OBVIOUS
      <4> DEFINE w == handles[h].writer
      <4>1. w \in DOMAIN tasks /\ Writing(tasks[w]) /\ tasks[w].handle = h
        BY DEF Mapped
      <4>2. InFlight(tasks[w])
        BY <4>1, WritingFacts
      <4> QED
        BY <1>6, <3>4, <4>1, <4>2
    <3>7. Clean(stores[s])
      BY <3>5, <3>6 DEF HandleOK, Agrees, s
    <3> QED
      BY <1>1, <3>2, <3>3, <3>7
  <2>2. CASE ~handles[h].named
    BY <1>1, <1>6, <1>11, <2>2 DEF Mapped
  <2> QED
    BY <2>1, <2>2
<1>12. \A u \in DOMAIN tasks' : Writing(tasks'[u]) => Handle(u)'.writer = u
  BY <1>1, <1>7 DEF Handle
<1>13. \A u \in DOMAIN tasks' : InFlight(tasks'[u]) =>
         IsLive(tasks[u].handle)' \/ Handle(u)'.store \in muddled'
  BY <1>1, <1>9 DEF Handle, IsLive
<1> QED
  BY <1>1, <1>8, <1>10, <1>11, <1>12, <1>13 DEF Mapped

LEMMA SettleMapped ==
  ASSUME Typed, Owned, Mapped, NEW t \in DOMAIN tasks, Settle(t) PROVE Mapped'
<1>1. /\ Moved(t, Settled) /\ UNCHANGED <<entry, stores, muddled>> /\ tasks[t].pc = "done"
      /\ handles' = IF Producing(tasks[t])
                    THEN [handles EXCEPT ![tasks[t].handle].status = "open"] ELSE handles
  BY DEF Settle, Moved, At, Producing, Kind
<1>2. Settled.pc = "settled" /\ Settled.kind = "none"
  BY DEF Settled
<1>3. /\ DOMAIN handles' = DOMAIN handles /\ MapsKept
      /\ \A h \in DOMAIN handles : IsLive(h)' <=> IsLive(h)
  <2>1. CASE ~Producing(tasks[t])
    BY <1>1, <2>1 DEF IsLive, MapsKept
  <2>2. CASE Producing(tasks[t])
    <3> DEFINE h == tasks[t].handle
               handle == [handles[h] EXCEPT !.status = "open"]
    <3>1. h \in DOMAIN handles /\ handles[h].status = "computed"
      BY <2>2, TaskFacts DEF TaskOK, Typed, Owned, Handle
    <3>2. handles' = [handles EXCEPT ![h] = handle]
      BY <1>1, <2>2
    <3>3. /\ handle.status = "open" /\ handle.store = handles[h].store
          /\ handle.writer = handles[h].writer
          /\ handle.nextId = handles[h].nextId /\ handle.nodeIds = handles[h].nodeIds
      <4>1. handles[h] \in Handles
        BY <3>1 DEF Typed
      <4> QED
        BY <4>1 DEF Handles
    <3> HIDE DEF handle, h
    <3>4. /\ DOMAIN handles' = DOMAIN handles /\ handles'[h] = handle
          /\ \A g \in DOMAIN handles : g # h => handles'[g] = handles[g]
      BY <3>1, <3>2
    <3>5. MapsKept
      BY <3>3, <3>4 DEF MapsKept
    <3> QED
      BY <3>1, <3>3, <3>4, <3>5 DEF IsLive
  <2> QED
    BY <2>1, <2>2
<1>4. /\ DOMAIN tasks' = DOMAIN tasks /\ tasks'[t] = Settled
      /\ \A u \in DOMAIN tasks : u # t => tasks'[u] = tasks[u]
  BY <1>1 DEF Typed, Moved
<1>5. ~Writing(tasks[t]) /\ ~Writing(Settled) /\ ~InFlight(Settled)
  BY <1>1, <1>2 DEF Writing, InFlight
<1>6. /\ \A u \in DOMAIN tasks : Writing(tasks[u]) => u \in DOMAIN tasks' /\ tasks'[u] = tasks[u]
      /\ \A u \in DOMAIN tasks' : Writing(tasks'[u]) => u \in DOMAIN tasks /\ tasks'[u] = tasks[u]
      /\ \A u \in DOMAIN tasks' : InFlight(tasks'[u]) =>
           u \in DOMAIN tasks /\ InFlight(tasks[u]) /\ tasks'[u].handle = tasks[u].handle
  BY <1>4, <1>5
<1> QED
  BY <1>1, <1>3, <1>6, QuietMapped

\* A new handle is over a clean store, or over one a hazard has touched.
LEMMA MakesMapped ==
  ASSUME Typed, Owned, Mapped, NEW t \in DOMAIN tasks, NEW s, NEW store, NEW inode,
         Makes(t, s, store, inode), s \notin muddled' => Clean(store)
  PROVE  Mapped'
<1> DEFINE new == Len(handles) + 1
           handle == NewHandle(s, store, inode)
<1>1. /\ DOMAIN stores \subseteq DOMAIN stores' /\ \A i \in DOMAIN stores : stores'[i] = stores[i]
      /\ stores'[s] = store /\ muddled \subseteq muddled' /\ StoreOK(store)
      /\ Kind(t) \in Factories /\ tasks[t].pc \in {"compute", "flock"}
  BY DEF Makes
<1>2. handle.store = s /\ handle.writer = 0
  BY DEF NewHandle
<1>3. s \notin muddled' => Agrees(store, handle) /\ store.maxId < handle.nextId
  BY <1>1, NewHandleAgrees
<1> HIDE DEF handle
<1>4. /\ DOMAIN tasks' = DOMAIN tasks /\ tasks'[t] = MadeTask(t)
      /\ \A u \in DOMAIN tasks : u # t => tasks'[u] = tasks[u]
  BY MakesFacts
<1>5. /\ new \notin DOMAIN handles /\ handles'[new] = handle
      /\ \A h \in DOMAIN handles : h \in DOMAIN handles' /\ handles'[h] = handles[h]
      /\ \A h \in DOMAIN handles' : h \in DOMAIN handles \/ h = new
  <2>1. Len(handles) \in Nat
    BY MakesFacts
  <2> QED
    BY <2>1, MakesFacts DEF handle
<1> HIDE DEF new
<1>6. MapsKept
  BY <1>5 DEF MapsKept
<1>7. ~Writing(MadeTask(t)) /\ ~InFlight(MadeTask(t)) /\ ~Writing(tasks[t])
  BY <1>1 DEF MadeTask, Writing, InFlight
<1>8. ASSUME NEW u \in DOMAIN tasks', Writing(tasks'[u]) PROVE Handle(u)'.writer = u
  <2>1. u # t /\ u \in DOMAIN tasks /\ tasks'[u] = tasks[u]
    BY <1>4, <1>7, <1>8
  <2>2. Handle(u).writer = u /\ tasks[u].handle \in DOMAIN handles
    BY <1>8, <2>1, WritingFacts DEF Mapped
  <2> QED
    BY <1>5, <2>1, <2>2 DEF Handle
<1>9. ASSUME NEW h \in DOMAIN handles', handles'[h].writer # 0
      PROVE  /\ handles'[h].writer \in DOMAIN tasks'
             /\ Writing(tasks'[handles'[h].writer]) /\ tasks'[handles'[h].writer].handle = h
  <2>1. h \in DOMAIN handles /\ handles'[h] = handles[h]
    BY <1>2, <1>5, <1>9
  <2>2. /\ handles[h].writer \in DOMAIN tasks /\ Writing(tasks[handles[h].writer])
        /\ tasks[handles[h].writer].handle = h
    BY <1>9, <2>1 DEF Mapped
  <2> QED
    BY <1>4, <1>7, <2>1, <2>2
<1>10. ASSUME NEW u \in DOMAIN tasks', InFlight(tasks'[u])
       PROVE  IsLive(tasks[u].handle)' \/ Handle(u)'.store \in muddled'
  <2>1. u # t /\ u \in DOMAIN tasks /\ tasks'[u] = tasks[u]
    BY <1>4, <1>7, <1>10
  <2> DEFINE h == tasks[u].handle
  <2>2. h \in DOMAIN handles /\ (IsLive(h) \/ handles[h].store \in muddled)
    BY <1>10, <2>1, InFlightFacts DEF Mapped, Handle
  <2>3. handles'[h].status \in {"computed", "open"} \/ handles'[h].store \in muddled'
    BY <1>1, <1>5, <2>2 DEF IsLive
  <2> QED
    BY <2>1, <2>3 DEF IsLive, Handle
<1>11. ASSUME NEW h \in DOMAIN handles', IsLive(h)', handles'[h].store \notin muddled'
       PROVE  HandleOK(h)'
  <2>1. CASE h = new
    <3>1. handles'[h] = handle /\ stores'[handles'[h].store] = store
      BY <1>1, <1>2, <1>5, <2>1
    <3> QED
      BY <1>2, <1>3, <1>11, <3>1 DEF HandleOK
  <2>2. CASE h \in DOMAIN handles
    <3>1. handles'[h] = handles[h] /\ handles[h].store \in DOMAIN stores
      BY <1>5, <2>2 DEF Typed
    <3>2. HandleOK(h)
      BY <1>1, <1>11, <2>2, <3>1 DEF Mapped, IsLive
    <3>3. stores'[handles[h].store] = stores[handles[h].store]
      BY <1>1, <3>1
    <3>4. \A u \in DOMAIN tasks : tasks[u].handle = h /\ Writing(tasks[u]) => tasks'[u] = tasks[u]
      BY <1>4, <1>7
    <3> QED
      BY <1>6, <2>2, <3>2, <3>3, <3>4, HandleOKKept
  <2> QED
    BY <1>5, <2>1, <2>2
<1>12. ASSUME entry'.store # 0, ~entry'.attached, entry'.store \notin muddled'
       PROVE  Clean(stores'[entry'.store])
  BY <1>12 DEF Makes, Owned, NoEntry
<1> QED
  BY <1>8, <1>9, <1>10, <1>11, <1>12 DEF Mapped

LEMMA NewStoreClean == Clean(NewStore)
<1>1. NewStore.delta = 0 /\ NewStore.draft = EmptyDraft
  BY DEF NewStore
<1> QED
  BY <1>1, NewStoreOK, BaseClean

LEMMA FactoryMapped ==
  ASSUME Typed, Owned, Mapped, NEW t \in DOMAIN tasks,
         CreateAnonymous(t) \/ CreateNamed(t) \/ CreateFile(t) \/ OpenFile(t) \/ OpenNamed(t)
  PROVE  Mapped'
<1>1. CASE CreateAnonymous(t) \/ CreateNamed(t) \/ CreateFile(t)
  BY <1>1, CreateMakes, NewStoreClean, MakesMapped
<1>2. CASE OpenFile(t)
  <2> DEFINE store == Reloaded(stores[dir.index])
  <2>1. /\ Makes(t, Len(stores) + 1, store, tasks[t].ctx.inode) /\ dir.index \in DOMAIN stores
        /\ Len(stores) + 1 \notin muddled' => stores[dir.index].delta = 0
    BY <1>2, OpenFileMakes
  <2>2. store.delta = stores[dir.index].delta /\ store.draft = EmptyDraft
    <3>1. stores[dir.index] \in Stores
      BY <2>1 DEF Typed, StoreOK
    <3> QED
      BY <3>1 DEF Stores, Reloaded
  <2>3. StoreOK(store)
    BY <2>1 DEF Makes
  <2> HIDE DEF store
  <2>4. Len(stores) + 1 \notin muddled' => Clean(store)
    BY <2>1, <2>2, <2>3, BaseClean
  <2> QED
    BY <2>1, <2>4, MakesMapped
<1>3. CASE OpenNamed(t)
  <2>1. Makes(t, entry.store, stores[entry.store], 0) /\ ~entry.attached /\ entry.store # 0
    BY <1>3, OpenNamedMakes
  <2>2. entry.store \notin muddled' => Clean(stores[entry.store])
    BY <2>1 DEF Makes, Mapped
  <2> QED
    BY <2>1, <2>2, MakesMapped
<1> QED
  BY <1>1, <1>2, <1>3

\* A task that goes on without the writer lock.
LEMMA GoesMapped ==
  ASSUME Typed, Mapped, UNCHANGED <<stores, handles, muddled>>, entry' = entry \/ entry'.store = 0,
         NEW t \in DOMAIN tasks, tasks[t].pc \notin {"done", "settled"}, ~Writing(tasks[t]),
         NEW pc, NEW code, NEW ctx, Moved(t, MovedTask(t, pc, code, ctx)),
         \/ pc \in {"writer", "read", "classify", "compute", "lockfile", "flock", "remove", "rmdir",
                    "done"}
         \/ pc = "load" /\ Kind(t) = "search"
  PROVE  Mapped'
<1> DEFINE task == MovedTask(t, pc, code, ctx)
<1>1. task.pc = pc /\ task.kind = Kind(t) /\ task.handle = tasks[t].handle
  BY DEF MovedTask
<1>2. Moved(t, task)
  OBVIOUS
<1> HIDE DEF task
<1>3. ~Writing(task)
  BY <1>1 DEF Writing
<1>4. InFlight(task) => InFlight(tasks[t])
  BY <1>1 DEF InFlight, Kind
<1> QED
  BY <1>1, <1>2, <1>3, <1>4, QuietMove

LEMMA ReturnMapped ==
  ASSUME Typed, Mapped, UNCHANGED <<stores, handles, muddled>>, entry' = entry \/ entry'.store = 0,
         NEW t \in DOMAIN tasks, NEW code, Return(t, code),
         tasks[t].pc \in {"writer", "read", "classify", "compute", "lockfile", "flock", "rmdir"}
  PROVE  Mapped'
<1>1. ~Writing(tasks[t]) /\ tasks[t].pc \notin {"done", "settled"}
  BY DEF Writing
<1> QED
  BY <1>1, ReturnMoves, GoesMapped

LEMMA GotoMapped ==
  ASSUME Typed, Mapped, UNCHANGED <<stores, handles, muddled, entry>>,
         NEW t \in DOMAIN tasks, NEW pc, NEW ctx, Goto(t, pc, ctx),
         \/ tasks[t].pc \in {"read", "compute", "lockfile", "flock", "remove"}
         \/ tasks[t].pc = "load" /\ Kind(t) = "search",
         pc \in {"read", "classify", "lockfile", "flock", "remove", "rmdir"}
  PROVE  Mapped'
<1>1. ~Writing(tasks[t]) /\ tasks[t].pc \notin {"done", "settled"}
  BY DEF Writing, Kind
<1> QED
  BY <1>1, GotoMoves, GoesMapped

LEMMA IdleMapped ==
  ASSUME Typed, Mapped, NEW t \in DOMAIN tasks,
         \/ Start(t) \/ RefuseAnonymous(t) \/ DestroyNamed(t) \/ RefuseNamed(t)
         \/ Probe(t) \/ OpenLockFile(t) \/ RefuseFile(t)
         \/ DestroyLock(t) \/ DestroyFiles(t) \/ DestroyDir(t) \/ RefuseDuplicates(t)
         \/ LoadSnapshot(t) \/ Read(t) \/ ReadPinnedFails(t) \/ ReadFails(t) \/ Classify(t)
  PROVE  Mapped'
<1>1. UNCHANGED <<stores, handles, muddled>> /\ (entry' = entry \/ entry'.store = 0)
  BY DEF Start, RefuseAnonymous, DestroyNamed, RefuseNamed, Probe, OpenLockFile, RefuseFile,
         DestroyLock, DestroyFiles, DestroyDir, RefuseDuplicates, LoadSnapshot, Read,
         ReadPinnedFails, ReadFails, Classify, NoEntry
<1>2. CASE Start(t)
  <2>1. /\ Moved(t, MovedTask(t, FirstPc(Kind(t)), tasks[t].code, tasks[t].ctx))
        /\ tasks[t].pc = "queued" /\ ~Writing(tasks[t])
    BY <1>2, StartMoves DEF Start, At, Writing
  <2>2. \/ FirstPc(Kind(t)) \in {"writer", "read", "compute"}
        \/ FirstPc(Kind(t)) = "load" /\ Kind(t) = "search"
    BY DEF FirstPc
  <2> QED
    BY <1>1, <2>1, <2>2, GoesMapped
<1>3. CASE Read(t)
  <2>1. /\ Moved(t, MovedTask(t, "done", "OK", ReadResult(t)))
        /\ tasks[t].pc = "read" /\ ~Writing(tasks[t])
    BY <1>3, ReadMoves DEF Read, At, Writing
  <2> QED
    BY <1>1, <2>1, GoesMapped
<1>4. CASE \/ RefuseAnonymous(t) \/ DestroyNamed(t) \/ RefuseNamed(t) \/ RefuseFile(t)
           \/ DestroyDir(t) \/ RefuseDuplicates(t) \/ ReadPinnedFails(t) \/ Classify(t)
  <2>1. /\ \E code : Return(t, code)
        /\ tasks[t].pc \in {"writer", "read", "classify", "compute", "flock", "rmdir"}
    BY <1>4 DEF RefuseAnonymous, DestroyNamed, RefuseNamed, RefuseFile, DestroyDir,
                RefuseDuplicates, ReadPinnedFails, Classify, At
  <2> QED
    BY <1>1, <2>1, ReturnMapped
<1>5. CASE Probe(t) \/ OpenLockFile(t)
  <2>1. /\ (\E code : Return(t, code)) \/ (\E ctx : Goto(t, "lockfile", ctx) \/ Goto(t, "flock", ctx))
        /\ tasks[t].pc \in {"compute", "lockfile"} /\ entry' = entry
    BY <1>5 DEF Probe, OpenLockFile, At
  <2>2. CASE \E code : Return(t, code)
    BY <1>1, <2>1, <2>2, ReturnMapped
  <2>3. CASE \E ctx : Goto(t, "lockfile", ctx)
    BY <1>1, <2>1, <2>3, GotoMapped
  <2>4. CASE \E ctx : Goto(t, "flock", ctx)
    BY <1>1, <2>1, <2>4, GotoMapped
  <2> QED
    BY <2>1, <2>2, <2>3, <2>4
<1>6. CASE DestroyLock(t)
  <2>1. Goto(t, "remove", tasks[t].ctx) /\ tasks[t].pc = "flock" /\ entry' = entry
    BY <1>6 DEF DestroyLock, AtFlock, At
  <2> QED
    BY <1>1, <2>1, GotoMapped
<1>7. CASE DestroyFiles(t)
  <2>1. Goto(t, "rmdir", tasks[t].ctx) /\ tasks[t].pc = "remove" /\ entry' = entry
    BY <1>7 DEF DestroyFiles, At
  <2> QED
    BY <1>1, <2>1, GotoMapped
<1>8. CASE LoadSnapshot(t)
  <2>1. /\ Goto(t, "read", [snapshot |-> Snapshot(StoreOf(t))]) /\ tasks[t].pc = "load"
        /\ Kind(t) = "search" /\ entry' = entry
    BY <1>8 DEF LoadSnapshot, At
  <2> QED
    BY <1>1, <2>1, GotoMapped
<1>9. CASE ReadFails(t)
  <2>1. Goto(t, "classify", tasks[t].ctx) /\ tasks[t].pc = "read" /\ entry' = entry
    BY <1>9 DEF ReadFails, At
  <2> QED
    BY <1>1, <2>1, GotoMapped
<1> QED
  BY <1>2, <1>3, <1>4, <1>5, <1>6, <1>7, <1>8, <1>9

------------------------------------------------------------------------------
(* The invariant *)

\* A step of a write, as the other parts of the invariant see it.
LEMMA WriteStep ==
  ASSUME Typed, Mapped, NEW t \in DOMAIN tasks,
         \/ LockInsert(t) \/ LockDelete(t) \/ LockBuild(t) \/ LoadForBuild(t) \/ SwapBuild(t)
         \/ StageRow(t) \/ FreezeDraft(t) \/ Publish(t) \/ FailWrite(t)
  PROVE  \E task, store, handle : WriteMove(t, task, store, handle) /\ Follows(t, task, store, handle)
<1>1. CASE LoadForBuild(t) \/ StageRow(t) \/ FreezeDraft(t)
  <2>1. Writing(tasks[t])
    BY <1>1 DEF LoadForBuild, StageRow, FreezeDraft, At, Kind, Writing
  <2>2. Handle(t).writer = t
    BY <2>1 DEF Mapped
  <2> QED
    BY <1>1, <2>2, LoadFollows, StageFollows, FreezeFollows
<1> QED
  BY <1>1, LockInsertFollows, LockDeleteFollows, LockBuildFollows, SwapFollows, PublishFollows,
     FailFollows

\* The steps of tasks that neither lock nor open nor make anything are plain.
LEMMA PlainStep ==
  ASSUME Typed, Mapped, NEW t \in DOMAIN tasks,
         \/ Start(t) \/ RefuseAnonymous(t) \/ RefuseNamed(t) \/ Probe(t) \/ RefuseFile(t)
         \/ DestroyDir(t) \/ RefuseDuplicates(t)
         \/ LockInsert(t) \/ LockDelete(t) \/ LockBuild(t) \/ LoadForBuild(t) \/ SwapBuild(t)
         \/ StageRow(t) \/ FreezeDraft(t) \/ Publish(t) \/ FailWrite(t)
         \/ LoadSnapshot(t) \/ Read(t) \/ ReadPinnedFails(t) \/ ReadFails(t) \/ Classify(t)
  PROVE  \E task : Plain(t, task)
BY StartPlain, RefusePlain, ProbePlain, SearchPlain, WriteStep, WritePlain

LEMMA FactoryMakes ==
  ASSUME Typed, Owned, NEW t \in DOMAIN tasks,
         CreateAnonymous(t) \/ CreateNamed(t) \/ CreateFile(t) \/ OpenFile(t) \/ OpenNamed(t)
  PROVE  \E s, store, inode : Makes(t, s, store, inode)
BY CreateMakes, OpenFileMakes, OpenNamedMakes

\* Every action keeps the registry and the handles in step.
LEMMA OwnedStep ==
  ASSUME Typed, Owned, Mapped, Next PROVE Owned'
<1>1. CASE CallOnUri \/ \E h \in DOMAIN handles : CallOnHandle(h) \/ CallSearchPinned(h)
  BY <1>1, CallsQueue, QueuesOwned
<1>2. ASSUME NEW h \in DOMAIN handles, TakeSnapshot(h) PROVE Owned'
  <2>1. UNCHANGED <<provider, entry, handles, tasks>>
    BY <1>2 DEF TakeSnapshot
  <2>2. HandlesKept
    BY <2>1 DEF HandlesKept
  <2>3. \A u \in DOMAIN tasks' :
          /\ tasks'[u].pc \in FilePcs => provider = "file"
          /\ Producing(tasks'[u]) => u \in DOMAIN tasks /\ tasks'[u] = tasks[u]
    BY <2>1 DEF Owned
  <2> QED
    BY <2>1, <2>2, <2>3, OwnedKept
<1>3. ASSUME NEW t \in DOMAIN tasks, Work(t) PROVE Owned'
  <2>1. CASE Settle(t) \/ DestroyNamed(t)
    BY <2>1, SettleOwned, DestroyNamedOwned
  <2>2. CASE OpenLockFile(t) \/ DestroyLock(t) \/ DestroyFiles(t)
    BY <2>2, FileOwned
  <2>3. CASE CreateAnonymous(t) \/ CreateNamed(t) \/ CreateFile(t) \/ OpenFile(t) \/ OpenNamed(t)
    BY <2>3, FactoryMakes, MakesOwned
  <2>4. CASE \E task : Plain(t, task)
    BY <2>4, PlainOwned
  <2> QED
    BY <1>3, <2>1, <2>2, <2>3, <2>4, PlainStep DEF Work
<1> QED
  BY <1>1, <1>2, <1>3, CloseOwned DEF Next, JavaScript

\* Every action keeps the lock files exclusive.
LEMMA LockedStep ==
  ASSUME Typed, Owned, Locked, Mapped, Next PROVE Locked'
<1>1. CASE CallOnUri \/ \E h \in DOMAIN handles : CallOnHandle(h) \/ CallSearchPinned(h)
  BY <1>1, CallsQueue, QueuesLocked
<1>2. ASSUME NEW h \in DOMAIN handles, TakeSnapshot(h) PROVE Locked'
  BY <1>2 DEF TakeSnapshot, Locked, InUse, IsLive
<1>3. ASSUME NEW t \in DOMAIN tasks, Work(t) PROVE Locked'
  <2>1. CASE DestroyNamed(t)
    BY <2>1 DEF DestroyNamed, Locked
  <2>2. CASE OpenLockFile(t) \/ DestroyLock(t) \/ DestroyFiles(t) \/ Settle(t)
    BY <2>2, OpenLockFileLocked, DestroyLockLocked, DestroyFilesLocked, SettleLocked
  <2>3. CASE CreateAnonymous(t) \/ CreateNamed(t) \/ CreateFile(t) \/ OpenFile(t) \/ OpenNamed(t)
    BY <2>3, FactoryMakes, MakesLocked
  <2>4. CASE \E task : Plain(t, task)
    BY <2>4, PlainLocked
  <2> QED
    BY <1>3, <2>1, <2>2, <2>3, <2>4, PlainStep DEF Work
<1> QED
  BY <1>1, <1>2, <1>3, CloseLocked DEF Next, JavaScript

\* Every action keeps the id maps in step with the stores.
LEMMA MappedStep ==
  ASSUME Typed, Owned, Mapped, Next PROVE Mapped'
<1>1. CASE CallOnUri \/ \E h \in DOMAIN handles : CallOnHandle(h) \/ CallSearchPinned(h)
  BY <1>1, CallsQueue, QueuesMapped
<1>2. ASSUME NEW h \in DOMAIN handles, TakeSnapshot(h) PROVE Mapped'
  <2>1. UNCHANGED <<entry, stores, handles, tasks, muddled>>
    BY <1>2 DEF TakeSnapshot
  <2>2. MapsKept /\ \A g \in DOMAIN handles : IsLive(g)' <=> IsLive(g)
    BY <2>1 DEF MapsKept, IsLive
  <2> QED
    BY <2>1, <2>2, QuietMapped
<1>3. ASSUME NEW t \in DOMAIN tasks, Work(t) PROVE Mapped'
  BY <1>3, SettleMapped, FactoryMapped, IdleMapped, WriteStep, WriteMapped DEF Work
<1> QED
  BY <1>1, <1>2, <1>3, CloseMapped DEF Next, JavaScript

------------------------------------------------------------------------------
(* The initial states *)

\* A store as a literal record.
LEMMA BuiltIs ==
  ASSUME NEW ids
  PROVE  Built(ids) = [version |-> 1, base |-> 1, delta |-> 0, maxId |-> Len(ids),
                       draft |-> EmptyDraft, segments |-> <<ids>>, frozen |-> << >>,
                       nextDelta |-> 1]
<1> DEFINE first == [NewStore EXCEPT !.version = 1]
           second == [first EXCEPT !.base = 1]
           third == [second EXCEPT !.maxId = Len(ids)]
           fourth == [third EXCEPT !.segments = <<ids>>]
<1>1. Built(ids) = fourth
  BY DEF Built
<1>2. first = [version |-> 1, base |-> 0, delta |-> 0, maxId |-> 0, draft |-> EmptyDraft,
               segments |-> << >>, frozen |-> << >>, nextDelta |-> 1]
  BY DEF NewStore
<1> HIDE DEF first
<1>3. second = [version |-> 1, base |-> 1, delta |-> 0, maxId |-> 0, draft |-> EmptyDraft,
                segments |-> << >>, frozen |-> << >>, nextDelta |-> 1]
  BY <1>2
<1> HIDE DEF second
<1>4. third = [version |-> 1, base |-> 1, delta |-> 0, maxId |-> Len(ids), draft |-> EmptyDraft,
               segments |-> << >>, frozen |-> << >>, nextDelta |-> 1]
  BY <1>3
<1> HIDE DEF third
<1>5. fourth = [version |-> 1, base |-> 1, delta |-> 0, maxId |-> Len(ids), draft |-> EmptyDraft,
                segments |-> <<ids>>, frozen |-> << >>, nextDelta |-> 1]
  BY <1>4
<1> HIDE DEF fourth
<1> QED
  BY <1>1, <1>5

LEMMA InsertedFrom ==
  ASSUME NEW made, NEW log
  PROVE  [NewStore EXCEPT !.version = 1, !.delta = 1, !.maxId = 1, !.draft = made,
                          !.frozen = log, !.nextDelta = 2]
           = [version |-> 1, base |-> 0, delta |-> 1, maxId |-> 1, draft |-> made,
              segments |-> << >>, frozen |-> log, nextDelta |-> 2]
<1> DEFINE first == [NewStore EXCEPT !.version = 1]
           second == [first EXCEPT !.delta = 1]
           third == [second EXCEPT !.maxId = 1]
           fourth == [third EXCEPT !.draft = made]
           fifth == [fourth EXCEPT !.frozen = log]
           sixth == [fifth EXCEPT !.nextDelta = 2]
<1>1. [NewStore EXCEPT !.version = 1, !.delta = 1, !.maxId = 1, !.draft = made,
                       !.frozen = log, !.nextDelta = 2] = sixth
  OBVIOUS
<1>2. first = [version |-> 1, base |-> 0, delta |-> 0, maxId |-> 0, draft |-> EmptyDraft,
               segments |-> << >>, frozen |-> << >>, nextDelta |-> 1]
  BY DEF NewStore
<1> HIDE DEF first
<1>3. second = [version |-> 1, base |-> 0, delta |-> 1, maxId |-> 0, draft |-> EmptyDraft,
                segments |-> << >>, frozen |-> << >>, nextDelta |-> 1]
  BY <1>2
<1> HIDE DEF second
<1>4. third = [version |-> 1, base |-> 0, delta |-> 1, maxId |-> 1, draft |-> EmptyDraft,
               segments |-> << >>, frozen |-> << >>, nextDelta |-> 1]
  BY <1>3
<1> HIDE DEF third
<1>5. fourth = [version |-> 1, base |-> 0, delta |-> 1, maxId |-> 1, draft |-> made,
                segments |-> << >>, frozen |-> << >>, nextDelta |-> 1]
  BY <1>4
<1> HIDE DEF fourth
<1>6. fifth = [version |-> 1, base |-> 0, delta |-> 1, maxId |-> 1, draft |-> made,
               segments |-> << >>, frozen |-> log, nextDelta |-> 1]
  BY <1>5
<1> HIDE DEF fifth
<1>7. sixth = [version |-> 1, base |-> 0, delta |-> 1, maxId |-> 1, draft |-> made,
               segments |-> << >>, frozen |-> log, nextDelta |-> 2]
  BY <1>6
<1> HIDE DEF sixth
<1> QED
  BY <1>1, <1>7

\* The store of one insert, as a literal record.
LEMMA InsertedIs ==
  ASSUME NEW x, NEW draft, draft = [rows |-> <<x>>, dead |-> {}]
  PROVE  Inserted(x) = [version |-> 1, base |-> 0, delta |-> 1, maxId |-> 1, draft |-> draft,
                        segments |-> << >>, frozen |-> <<draft>>, nextDelta |-> 2]
<1> DEFINE log == <<draft>>
<1>1. Inserted(x) = [NewStore EXCEPT !.version = 1, !.delta = 1, !.maxId = 1, !.draft = draft,
                                     !.frozen = log, !.nextDelta = 2]
  BY DEF Inserted
<1>2. [NewStore EXCEPT !.version = 1, !.delta = 1, !.maxId = 1, !.draft = draft,
                       !.frozen = log, !.nextDelta = 2]
        = [version |-> 1, base |-> 0, delta |-> 1, maxId |-> 1, draft |-> draft,
           segments |-> << >>, frozen |-> log, nextDelta |-> 2]
  BY InsertedFrom
<1> QED
  BY <1>1, <1>2

\* The two stores an index may start with: what a bulk build or an insert leaves.
LEMMA BuiltGood ==
  ASSUME NEW ids \in Seq(Ids), ~HasDuplicates(ids)
  PROVE  StoreOK(Built(ids)) /\ Clean(Built(ids))
<1> DEFINE store == Built(ids)
<1>1. /\ store.version = 1 /\ store.base = 1 /\ store.delta = 0 /\ store.maxId = Len(ids)
      /\ store.draft = EmptyDraft /\ store.segments = <<ids>> /\ store.frozen = << >>
      /\ store.nextDelta = 1
  BY BuiltIs
<1>2. store \in Stores
  <2>1. EmptyDraft \in Drafts /\ << >> \in Frozen
    BY NewStoreOK DEF StoreOK, Stores, NewStore
  <2>2. <<ids>> \in Seq(Seq(Ids)) /\ Len(ids) \in Nat
    OBVIOUS
  <2>3. [version |-> 1, base |-> 1, delta |-> 0, maxId |-> Len(ids),
         draft |-> EmptyDraft, segments |-> <<ids>>, frozen |-> << >>, nextDelta |-> 1] \in Stores
    BY <2>1, <2>2 DEF Stores
  <2> QED
    BY <2>3, BuiltIs
<1> HIDE DEF store
<1>3. DOMAIN store.frozen = {}
  <2>1. DOMAIN << >> = {}
    OBVIOUS
  <2> QED
    BY <1>1, <2>1
<1>4. Len(store.segments) = 1 /\ DOMAIN store.segments = {1} /\ store.segments[1] = ids
  BY <1>1
<1>5. BaseRows(store) = ids
  BY <1>1, <1>4 DEF BaseRows
<1>6. StoreOK(store)
  BY <1>1, <1>2, <1>3, <1>4, <1>5 DEF StoreOK
<1>7. Clean(store)
  BY <1>1, <1>6, BaseClean
<1> QED
  BY <1>6, <1>7 DEF store

LEMMA InsertedGood ==
  ASSUME NEW x \in Ids
  PROVE  StoreOK(Inserted(x)) /\ Clean(Inserted(x))
<1> DEFINE store == Inserted(x)
           draft == [rows |-> <<x>>, dead |-> {}]
<1>1. store = [version |-> 1, base |-> 0, delta |-> 1, maxId |-> 1, draft |-> draft,
               segments |-> << >>, frozen |-> <<draft>>, nextDelta |-> 2]
  BY InsertedIs
<1>2. draft.rows = <<x>> /\ draft.dead = {} /\ draft \in Drafts
  <2>1. <<x>> \in [1 .. 1 -> Ids] /\ 1 .. 1 \in UNION {SUBSET (0 .. b) : b \in Nat}
    <3>1. 1 .. 1 \subseteq 0 .. 1 /\ 1 \in Nat
      OBVIOUS
    <3> QED
      BY <3>1
  <2>2. <<x>> \in NodeRows
    BY <2>1 DEF NodeRows
  <2> QED
    BY <2>2 DEF Drafts
<1> HIDE DEF store, draft
<1>3. /\ store.version = 1 /\ store.base = 0 /\ store.delta = 1 /\ store.maxId = 1
      /\ store.draft = draft /\ store.segments = << >> /\ store.frozen = <<draft>>
      /\ store.nextDelta = 2
  BY <1>1
<1>4. <<draft>> \in [1 .. 1 -> Drafts] /\ DOMAIN <<draft>> = {1} /\ <<draft>>[1] = draft
  BY <1>2
<1>5. store \in Stores
  <2>1. <<draft>> \in Frozen
    <3>1. 1 .. 1 \in SUBSET Nat
      OBVIOUS
    <3> QED
      BY <1>4, <3>1 DEF Frozen
  <2>2. << >> \in Seq(Seq(Ids))
    OBVIOUS
  <2> QED
    BY <1>1, <1>2, <2>1, <2>2 DEF Stores
<1>6. Len(store.segments) = 0 /\ DOMAIN store.segments = {}
  BY <1>3
<1>7. StoreOK(store)
  BY <1>3, <1>4, <1>5, <1>6 DEF StoreOK
<1>8. BaseRows(store) = << >> /\ DeltaOf(store) = draft
  BY <1>3, <1>4 DEF BaseRows, DeltaOf
<1>9. DOMAIN Current(store) = {1}
  <2>1. DOMAIN << >> = {} /\ DOMAIN <<x>> = {1}
    OBVIOUS
  <2> QED
    BY <1>2, <1>8, <2>1, CurrentIs DEF Overlay
<1>10. Proper(Current(store), store.maxId)
  BY <1>3, <1>9 DEF Proper
<1>11. Clean(store)
  BY <1>3, <1>8, <1>10 DEF Clean
<1> QED
  BY <1>7, <1>11 DEF store

LEMMA StartsTyped ==
  ASSUME tasks = << >>, pinned = NoSnapshot, orphaned = FALSE, provider \in Providers,
         entry \in [store : 0 .. Len(stores), attached : BOOLEAN],
         dir \in [present : BOOLEAN, inode : Nat, index : 0 .. Len(stores), inodes : Nat],
         stores \in Seq(Stores), \A s \in DOMAIN stores : StoreOK(stores[s]),
         handles \in Seq(Handles), \A h \in DOMAIN handles : handles[h].store \in DOMAIN stores
  PROVE  Typed
<1>1. tasks \in Seq(Tasks) /\ DOMAIN tasks = {}
  OBVIOUS
<1>2. Snapshot(NewStore) \in Snapshots
  BY NewStoreOK, CurrentSeen DEF SeenOK
<1>3. << >> \in NodeRows
  <2>1. NewStore.draft.rows = << >>
    BY DEF NewStore, EmptyDraft
  <2> QED
    BY <2>1, NewStoreOK DEF StoreOK, Stores, Drafts
<1>4. PinnedOK
  <2>1. 0 \in 0 .. Len(handles)
    OBVIOUS
  <2> QED
    BY <1>2, <1>3, <2>1 DEF PinnedOK, NoSnapshot
<1> QED
  BY <1>1, <1>4 DEF Typed

LEMMA FreshInv ==
  ASSUME Init, Fresh PROVE BindingInv
<1>1. /\ tasks = << >> /\ pinned = NoSnapshot /\ orphaned = FALSE /\ provider \in Providers
      /\ entry = NoEntry /\ dir = NoDir /\ stores = << >> /\ handles = << >>
  BY DEF Init, Fresh
<1>2. DOMAIN tasks = {} /\ DOMAIN stores = {} /\ DOMAIN handles = {} /\ Len(stores) = 0
  BY <1>1
<1>3. Typed
  <2>1. stores \in Seq(Stores) /\ handles \in Seq(Handles)
    BY <1>1
  <2>2. /\ entry \in [store : 0 .. Len(stores), attached : BOOLEAN]
        /\ dir \in [present : BOOLEAN, inode : Nat, index : 0 .. Len(stores), inodes : Nat]
    BY <1>1, <1>2 DEF NoEntry, NoDir
  <2> QED
    BY <1>1, <1>2, <2>1, <2>2, StartsTyped
<1>4. Owned
  BY <1>1, <1>2 DEF Owned, NoEntry
<1>5. Locked
  BY <1>2 DEF Locked
<1>6. Mapped
  BY <1>1, <1>2 DEF Mapped, NoEntry
<1> QED
  BY <1>3, <1>4, <1>5, <1>6 DEF BindingInv

LEMMA ExistingInv ==
  ASSUME Init, NEW store, StoreOK(store), Clean(store), Existing(store) PROVE BindingInv
<1> DEFINE inode == IF provider = "file" THEN 1 ELSE 0
           made == NewHandle(1, store, inode)
           handle == [made EXCEPT !.status = "open"]
<1>1. /\ tasks = << >> /\ pinned = NoSnapshot /\ orphaned = FALSE /\ provider \in Providers
      /\ stores = <<store>> /\ handles = <<handle>>
      /\ entry = IF provider = "memory" THEN [store |-> 1, attached |-> TRUE] ELSE NoEntry
      /\ dir = IF provider = "file"
               THEN [present |-> TRUE, inode |-> 1, index |-> 1, inodes |-> 1] ELSE NoDir
  BY DEF Init, Existing
<1>2. /\ made.store = 1 /\ made.inode = inode /\ made.writer = 0
      /\ made.named <=> provider = "memory"
      /\ Agrees(store, made) /\ store.maxId < made.nextId
  BY NewHandleAgrees DEF NewHandle
<1>3. made \in Handles
  <2>1. store.maxId \in Nat /\ store.maxId + 1 \in Nat \ {0}
    BY DEF StoreOK, Stores
  <2>2. RebuildNodeIds(store) \in IdMaps /\ inode \in Nat
    BY RebuildTyped
  <2> QED
    BY <2>1, <2>2 DEF NewHandle, Handles
<1> HIDE DEF made
<1>4. /\ handle \in Handles /\ handle.status = "open" /\ handle.store = 1 /\ handle.inode = inode
      /\ handle.writer = 0 /\ handle.nextId = made.nextId /\ handle.nodeIds = made.nodeIds
      /\ handle.named <=> provider = "memory"
  BY <1>2, <1>3 DEF Handles
<1> HIDE DEF handle
<1>5. /\ DOMAIN tasks = {} /\ DOMAIN stores = {1} /\ DOMAIN handles = {1} /\ Len(stores) = 1
      /\ stores[1] = store /\ handles[1] = handle
  BY <1>1
<1>6. Typed
  <2>1. stores \in Seq(Stores) /\ handles \in Seq(Handles)
    BY <1>1, <1>4 DEF StoreOK
  <2>2. /\ entry \in [store : 0 .. Len(stores), attached : BOOLEAN]
        /\ dir \in [present : BOOLEAN, inode : Nat, index : 0 .. Len(stores), inodes : Nat]
    BY <1>1, <1>5 DEF NoEntry, NoDir
  <2> QED
    BY <1>1, <1>4, <1>5, <2>1, <2>2, StartsTyped
<1>7. Owned
  <2>1. handles[1].named <=> provider = "memory" /\ IsLive(1)
    BY <1>4, <1>5 DEF IsLive
  <2>2. handles[1].named => entry.attached /\ handles[1].store = entry.store
    BY <1>1, <1>4, <1>5
  <2>3. entry.attached => handles[1].named
    BY <1>1, <1>4, <1>5 DEF NoEntry
  <2>4. (entry.store = 0 => entry = NoEntry) /\ (provider # "memory" => entry = NoEntry)
    BY <1>1
  <2> QED
    BY <1>5, <2>1, <2>2, <2>3, <2>4 DEF Owned
<1>8. Locked
  <2>1. provider = "file" => handles[1].inode = dir.inode /\ dir.inode # 0
    BY <1>1, <1>4, <1>5
  <2> QED
    BY <1>5, <2>1 DEF Locked
<1>9. Mapped
  <2>1. handles[1].store = 1 /\ handles[1].writer = 0
    BY <1>4, <1>5
  <2>2. Agrees(store, handle) /\ store.maxId < handle.nextId
    BY <1>2, <1>4 DEF Agrees
  <2>3. HandleOK(1)
    BY <1>5, <2>1, <2>2 DEF HandleOK
  <2>4. entry.store # 0 => entry.attached
    BY <1>1 DEF NoEntry
  <2> QED
    BY <1>5, <2>1, <2>3, <2>4 DEF Mapped
<1> QED
  BY <1>6, <1>7, <1>8, <1>9 DEF BindingInv

\* The invariant holds of a fresh process and of one with an index to open.
LEMMA InitInv ==
  Init => BindingInv
<1> SUFFICES ASSUME Init PROVE BindingInv
  OBVIOUS
<1>1. BuiltOver \in Seq(Ids) /\ BuiltOver # << >> /\ ~HasDuplicates(BuiltOver)
  BY BindingAssumption DEF HasDuplicates
<1>2. BuiltOver[1] \in Ids
  BY <1>1
<1>3. CASE Fresh
  BY <1>3, FreshInv
<1>4. CASE Existing(Built(BuiltOver))
  BY <1>1, <1>4, BuiltGood, ExistingInv
<1>5. CASE Existing(Inserted(BuiltOver[1]))
  BY <1>2, <1>5, InsertedGood, ExistingInv
<1> QED
  BY <1>3, <1>4, <1>5 DEF Init

------------------------------------------------------------------------------
(* The theorems *)

\* Every step keeps the four parts.
LEMMA NextInv ==
  BindingInv /\ [Next]_vars => BindingInv'
<1> SUFFICES ASSUME BindingInv, [Next]_vars PROVE BindingInv'
  OBVIOUS
<1>1. Typed /\ Owned /\ Locked /\ Mapped
  BY DEF BindingInv
<1>2. CASE Next
  BY <1>1, <1>2, TypedStep, OwnedStep, LockedStep, MappedStep DEF BindingInv
<1>3. CASE UNCHANGED vars
  <2>1. UNCHANGED <<provider, entry, dir, stores, handles, tasks, pinned, muddled, orphaned>>
    BY <1>3 DEF vars
  <2>2. Typed'
    BY <1>1, <2>1 DEF Typed, TaskOK, PinnedOK, Kind, StoreOf, Handle
  <2>3. Owned'
    BY <1>1, <2>1 DEF Owned, Handle, IsLive
  <2>4. Locked'
    BY <1>1, <2>1 DEF Locked, InUse, IsLive
  <2>5. Mapped'
    BY <1>1, <2>1 DEF Mapped, HandleOK, Handle, IsLive
  <2> QED
    BY <2>2, <2>3, <2>4, <2>5 DEF BindingInv
<1> QED
  BY <1>2, <1>3

\* Registry, lock files, id maps and pinned snapshots stay consistent with one
\* another whatever calls JavaScript makes and however their tasks interleave
\* (streaming-diskann-node/src/lib.rs).
THEOREM BindingAlwaysConsistent ==
  Spec => []BindingInv
BY InitInv, NextInv, PTL DEF Spec

\* The registry entry of a name is attached exactly while one live handle owns
\* its storage (open_memory, NativeIndex::close).
THEOREM NamesAlwaysAttachedToOneHandle ==
  Spec => []AttachedToOneHandle
<1>1. BindingInv => AttachedToOneHandle
  <2> SUFFICES ASSUME Typed, Owned PROVE AttachedToOneHandle
    BY DEF BindingInv
  <2> DEFINE owners == {h \in DOMAIN handles : IsLive(h) /\ handles[h].named}
  <2>1. owners = {h \in DOMAIN handles : handles[h].named}
    BY DEF Owned
  <2>2. \A h \in owners : handles[h].store = entry.store
    BY <2>1 DEF Owned
  <2>3. Cardinality(owners) = IF entry.attached THEN 1 ELSE 0
    <3>1. CASE entry.attached
      <4>1. PICK h \in DOMAIN handles : handles[h].named
        BY <3>1 DEF Owned
      <4>2. owners = {h}
        BY <2>1, <4>1 DEF Owned
      <4> QED
        BY <3>1, <4>2, FS_Singleton
    <3>2. CASE ~entry.attached
      <4>1. owners = {}
        BY <2>1, <3>2 DEF Owned
      <4> QED
        BY <3>2, <4>1, FS_EmptySet
    <3> QED
      BY <3>1, <3>2
  <2> QED
    BY <2>2, <2>3 DEF AttachedToOneHandle
<1> QED
  BY <1>1, BindingAlwaysConsistent, PTL

\* A directory is in use through one index state at most, unless a destroy
\* unlinked LOCK under a task that had opened it (lock_file, destroy_file).
THEOREM DirectoryAlwaysExclusive ==
  Spec => []OneStatePerDirectory
<1>1. BindingInv => OneStatePerDirectory
  BY DEF BindingInv, Locked, OneStatePerDirectory
<1> QED
  BY <1>1, BindingAlwaysConsistent, PTL

\* Between writes the id map of a live handle is the inverse of the rows its
\* index shows, unless a known hazard has touched the store (insert, delete,
\* build, rebuild_node_ids).
THEOREM MapAlwaysMatchesIndex ==
  Spec => []MapMatchesIndex
<1>1. BindingInv => MapMatchesIndex
  <2> SUFFICES ASSUME Mapped, NEW h \in DOMAIN handles, IsLive(h), handles[h].writer = 0,
                      handles[h].store \notin muddled
               PROVE  Inverts(handles[h].nodeIds, Current(stores[handles[h].store]))
    BY DEF BindingInv, MapMatchesIndex, Inverts
  <2>1. HandleOK(h)
    BY DEF Mapped
  <2> QED
    BY <2>1 DEF HandleOK, Agrees
<1> QED
  BY <1>1, BindingAlwaysConsistent, PTL

\* A pinned search that succeeds shows what its snapshot showed when it was
\* taken (search with a snapshot, pinned_search_error).
THEOREM PinnedSearchesAlwaysRepeat ==
  Spec => []PinnedSearchesRepeat
<1>1. BindingInv => PinnedSearchesRepeat
  <2> SUFFICES ASSUME Typed, NEW t \in DOMAIN tasks, At(t, "done"), Kind(t) = "searchPinned",
                      tasks[t].code = "OK"
               PROVE  tasks[t].ctx.rows = tasks[t].ctx.taken
    BY DEF BindingInv, PinnedSearchesRepeat
  <2> QED
    BY TaskFacts DEF ResultOK, Kind, At
<1> QED
  BY <1>1, BindingAlwaysConsistent, PTL

\* A search without a snapshot that loses its delta to a writer expires; it
\* never reports a broken store (implicit_search_error).
THEOREM SearchesAlwaysOnlyExpire ==
  Spec => []SearchesOnlyExpire
<1>1. BindingInv => SearchesOnlyExpire
  <2> SUFFICES ASSUME Typed, NEW t \in DOMAIN tasks, Kind(t) = "search"
               PROVE  tasks[t].code # "STORAGE"
    BY DEF BindingInv, SearchesOnlyExpire
  <2> QED
    BY TaskFacts DEF ResultOK, Kind
<1> QED
  BY <1>1, BindingAlwaysConsistent, PTL

==============================================================================
