----------------------------- MODULE NodeBinding -----------------------------
(***************************************************************************)
(* The Node.js binding: indexes named by a URI, handles to them, and the   *)
(* asynchronous tasks JavaScript starts through a handle.  Calls are made  *)
(* on the JavaScript thread and queue a task; PoolSize threads of libuv    *)
(* run the tasks in the order of the calls; the promise of a finished task *)
(* is settled on the JavaScript thread again.  Write tasks of one handle   *)
(* hold its writer lock from their first check to the update of the id     *)
(* map, and block a pool thread while they wait for it.                    *)
(*                                                                         *)
(* One URI is modelled, of one of three providers: anonymous memory, a     *)
(* name in the process-wide registry, or a directory guarded by a lock     *)
(* file.  The core index under a handle is reduced to what the binding     *)
(* can see of it: manifest, cumulative draft, frozen deltas and node ids   *)
(* (OnlineIndex and FileStorage model it in full).                         *)
(***************************************************************************)
EXTENDS Integers, Sequences, FiniteSets

CONSTANTS
  Ids,         \* external ids
  Providers,   \* the providers the URI may name
  Calls,       \* bound: the calls JavaScript makes, by provider
  BuiltOver,   \* the input an index that exists at the start was built over
  PoolSize,    \* threads of the libuv pool
  MaxTasks,    \* bound on the tasks JavaScript starts
  MaxInodes    \* bound on the lock files ever created

(* The kinds of tasks *)
Factories == {"create", "open", "openOrCreate"}
Writes == {"build", "insert", "delete"}
Searches == {"search", "searchPinned"}

ASSUME BindingAssumption ==
  /\ Providers \subseteq {"anonymous", "memory", "file"}
  /\ \A p \in Providers : Calls[p] \subseteq
       [kind : Factories, arg : BOOLEAN] \cup [kind : Searches \cup {"destroy"}, arg : {TRUE}]
         \cup [kind : {"insert", "delete"}, arg : Ids] \cup [kind : {"build"}, arg : Seq(Ids)]
  /\ BuiltOver \in Seq(Ids) /\ BuiltOver # << >>
  /\ \A i, j \in DOMAIN BuiltOver : BuiltOver[i] = BuiltOver[j] => i = j
  /\ PoolSize \in Nat \ {0}
  /\ MaxTasks \in Nat /\ MaxInodes \in Nat

VARIABLES
  provider,  \* the provider of the URI; it never changes
  entry,     \* the registry entry of the name, or NoEntry
  dir,       \* the directory: whether it exists, its LOCK inode, the index in
             \* it (a store, or 0 without MANIFEST), the inodes used so far
  stores,    \* storage objects created or loaded so far
  handles,   \* NativeIndex handles, by IndexState::id
  tasks,     \* the tasks, in the order of the calls
  pinned,    \* a NativeSnapshot JavaScript holds, or NoSnapshot
  muddled,   \* history: stores some known hazard has touched
  orphaned   \* history: LOCK was unlinked between a task's open and its flock

vars == <<provider, entry, dir, stores, handles, tasks, pinned, muddled, orphaned>>

NoEntry == [store |-> 0, attached |-> FALSE]
NoDir == [present |-> FALSE, inode |-> 0, index |-> 0, inodes |-> 0]
NoContext == [none |-> TRUE]

------------------------------------------------------------------------------
(* The core index, as the binding sees it *)

EmptyDraft == [rows |-> << >>, dead |-> {}]

NewStore ==
  [version |-> 0, base |-> 0, delta |-> 0, maxId |-> 0, draft |-> EmptyDraft,
   segments |-> << >>, frozen |-> << >>, nextDelta |-> 1]

\* FileStorage::open: all that was frozen is loaded, the draft is not.
Reloaded(store) == [store EXCEPT !.draft = EmptyDraft]

Snapshot(store) ==
  [version |-> store.version, base |-> store.base, delta |-> store.delta,
   maxId |-> store.maxId]
NoSnapshot == [handle |-> 0, snapshot |-> Snapshot(NewStore), rows |-> << >>]

Resolves(store, snapshot) ==
  /\ snapshot.base \in 0 .. Len(store.segments)
  /\ snapshot.delta \in DOMAIN store.frozen \cup {0}

\* The rows a snapshot shows: external ids by node id.
Rows(store, snapshot) ==
  LET base == IF snapshot.base = 0 THEN << >> ELSE store.segments[snapshot.base]
      delta == IF snapshot.delta = 0 THEN EmptyDraft ELSE store.frozen[snapshot.delta]
  IN  [n \in (DOMAIN base \cup DOMAIN delta.rows) \ delta.dead |->
         IF n \in DOMAIN delta.rows THEN delta.rows[n] ELSE base[n]]

Current(store) == Rows(store, Snapshot(store))

\* A superseded delta is collected by the memory backend, never by files.
Kept(store, deltas) ==
  {d \in deltas : \/ provider = "file" \/ d = store.delta
                  \/ ~ \E e, f \in deltas : d < e /\ e < f}

With(f, x, y) == [z \in DOMAIN f \cup {x} |-> IF z = x THEN y ELSE f[z]]

Stage(store, task) ==
  IF task.kind = "insert"
  THEN [store EXCEPT !.draft.rows = With(@, task.ctx.node, task.arg),
                     !.draft.dead = @ \ {task.ctx.node}]
  ELSE [store EXCEPT !.draft.rows = [n \in DOMAIN @ \ {task.ctx.node} |-> @[n]],
                     !.draft.dead = @ \cup {task.ctx.node}]

Freeze(store) ==
  LET deltas == DOMAIN store.frozen \cup {store.nextDelta}
  IN  [store EXCEPT !.nextDelta = @ + 1,
         !.frozen = [d \in Kept(store, deltas) |->
                       IF d = store.nextDelta THEN store.draft ELSE @[d]]]

Larger(a, b) == IF a < b THEN b ELSE a

------------------------------------------------------------------------------
(* Tasks and handles *)

At(t, pc) == t \in DOMAIN tasks /\ tasks[t].pc = pc
Kind(t) == tasks[t].kind
Goto(t, pc, ctx) == tasks' = [tasks EXCEPT ![t].pc = pc, ![t].ctx = ctx]

\* compute() returns: the pool thread is free, the promise still pending.
Return(t, code) ==
  tasks' = [tasks EXCEPT ![t].pc = "done", ![t].code = code, ![t].ctx = NoContext]

Queued == {t \in DOMAIN tasks : At(t, "queued")}
Running == {t \in DOMAIN tasks : tasks[t].pc \notin {"queued", "done", "settled"}}

Handle(t) == handles[tasks[t].handle]
StoreOf(t) == stores[Handle(t).store]

IsLive(h) == handles[h].status \in {"computed", "open"}

\* The IndexState is shared by the handle and its unsettled tasks.
InUse(h) ==
  \/ IsLive(h)
  \/ \E t \in DOMAIN tasks : tasks[t].handle = h /\ tasks[t].pc # "settled"

\* flock: an inode is held by an IndexState or by a destroy under way.
IsLocked(inode) ==
  \/ \E h \in DOMAIN handles : handles[h].inode = inode /\ InUse(h)
  \/ \E t \in DOMAIN tasks : tasks[t].pc \in {"remove", "rmdir"} /\ tasks[t].ctx.inode = inode

\* rebuild_node_ids: the present rows up to the high-water mark; the last of
\* several rows with one external id wins.
RebuildNodeIds(store) ==
  LET rows == Current(store)
      ids == {rows[n] : n \in DOMAIN rows \cap 1 .. store.maxId}
  IN  [x \in ids |-> CHOOSE n \in DOMAIN rows :
         rows[n] = x /\ \A m \in DOMAIN rows : rows[m] = x => m <= n]

\* A handle over stores[s]; from_storage derives the allocator.
NewHandle(s, store, inode) ==
  [status |-> "computed", store |-> s, inode |-> inode, named |-> provider = "memory",
   writer |-> 0, nextId |-> store.maxId + 1, nodeIds |-> RebuildNodeIds(store)]

Produce(t, s, store, inode) ==
  /\ handles' = Append(handles, NewHandle(s, store, inode))
  /\ tasks' = [tasks EXCEPT ![t].pc = "done", ![t].code = "OK", ![t].handle = Len(handles) + 1,
                            ![t].ctx = NoContext]

------------------------------------------------------------------------------
(* Calls on the JavaScript thread *)

\* The task a call queues.  A factory or a destroy names no handle.
Call(call, h, ctx) ==
  /\ Len(tasks) < MaxTasks
  /\ tasks' = Append(tasks, [kind |-> call.kind, handle |-> h, arg |-> call.arg, ctx |-> ctx,
                             pc |-> "queued", code |-> ""])
  /\ UNCHANGED <<provider, entry, dir, stores, handles, pinned, muddled, orphaned>>

IsOpen(h) == handles[h].status = "open"

\* The argument of an open: whether the config it gives equals the stored one.
CallOnUri ==
  \E call \in Calls[provider] :
    call.kind \in Factories \cup {"destroy"} /\ Call(call, 0, NoContext)

\* live_state: a call on a closed handle throws here and changes nothing.
CallOnHandle(h) ==
  /\ IsOpen(h)
  /\ \E call \in Calls[provider] :
       call.kind \in Writes \cup {"search"} /\ Call(call, h, NoContext)

\* Mutant of CallSearchPinned: the snapshot's index id is not checked.
CallSearchPinnedAnyHandle(h) ==
  /\ IsOpen(h) /\ pinned.handle # 0
  /\ Call([kind |-> "searchPinned", arg |-> TRUE], h,
          [snapshot |-> pinned.snapshot, taken |-> pinned.rows])

\* A snapshot of another handle is refused here.
CallSearchPinned(h) ==
  /\ IsOpen(h) /\ pinned.handle = h
  /\ Call([kind |-> "searchPinned", arg |-> TRUE], h,
          [snapshot |-> pinned.snapshot, taken |-> pinned.rows])

\* snapshot() is synchronous; one is taken.  What it shows is kept with it
\* (history).
TakeSnapshot(h) ==
  /\ IsOpen(h) /\ pinned = NoSnapshot
  /\ pinned' = LET store == stores[handles[h].store]
               IN  [handle |-> h, snapshot |-> Snapshot(store), rows |-> Current(store)]
  /\ UNCHANGED <<provider, entry, dir, stores, handles, tasks, muddled, orphaned>>

WritesInFlight(h) ==
  {t \in DOMAIN tasks : /\ tasks[t].handle = h /\ Kind(t) \in Writes
                        /\ tasks[t].pc \notin {"done", "settled"}}

\* Mutant of Close: every call detaches the name, not only the first.
CloseDetachesAgain(h) ==
  /\ handles[h].status \in {"open", "closed"}
  /\ handles' = [handles EXCEPT ![h].status = "closed", ![h].named = FALSE]
  /\ entry' = IF provider = "memory" THEN [entry EXCEPT !.attached = FALSE] ELSE entry
  /\ muddled' = muddled \cup {handles[h].store : t \in WritesInFlight(h)}
  /\ UNCHANGED <<provider, dir, stores, tasks, pinned, orphaned>>

\* close(), or the collection of an unreachable handle.  The name is taken
\* out of the handle, so that only its first close detaches the entry.
Close(h) ==
  /\ handles[h].status \in {"open", "closed"}
  /\ handles' = [handles EXCEPT ![h].status = "closed", ![h].named = FALSE]
  /\ entry' = IF handles[h].named THEN [entry EXCEPT !.attached = FALSE] ELSE entry
  /\ muddled' = muddled \cup {handles[h].store : t \in WritesInFlight(h)}
  /\ UNCHANGED <<provider, dir, stores, tasks, pinned, orphaned>>

------------------------------------------------------------------------------
(* The pool, and the end of a task *)

FirstPc(kind) ==
  CASE kind \in Writes -> "writer"
    [] kind = "search" -> "load"
    [] kind = "searchPinned" -> "read"
    [] OTHER -> "compute"

Start(t) ==
  /\ At(t, "queued")
  /\ \A u \in Queued : t <= u
  /\ Cardinality(Running) < PoolSize
  /\ tasks' = [tasks EXCEPT ![t].pc = FirstPc(Kind(t))]
  /\ UNCHANGED <<provider, entry, dir, stores, handles, pinned, muddled, orphaned>>

Settled == [kind |-> "none", handle |-> 0, arg |-> TRUE, ctx |-> NoContext,
            pc |-> "settled", code |-> ""]

\* The promise settles and the task lets go of the index state; a factory's
\* output becomes a handle.
Settle(t) ==
  /\ At(t, "done")
  /\ tasks' = [tasks EXCEPT ![t] = Settled]
  /\ handles' = IF Kind(t) \in Factories /\ tasks[t].code = "OK"
                THEN [handles EXCEPT ![tasks[t].handle].status = "open"]
                ELSE handles
  /\ UNCHANGED <<provider, entry, dir, stores, pinned, muddled, orphaned>>

------------------------------------------------------------------------------
(* Factories and destroy: anonymous and named memory *)

CreateAnonymous(t) ==
  /\ provider = "anonymous" /\ At(t, "compute") /\ Kind(t) \in {"create", "openOrCreate"}
  /\ stores' = Append(stores, NewStore)
  /\ Produce(t, Len(stores) + 1, NewStore, 0)
  /\ UNCHANGED <<provider, entry, dir, pinned, muddled, orphaned>>

RefuseAnonymous(t) ==
  /\ provider = "anonymous" /\ At(t, "compute") /\ Kind(t) \in {"open", "destroy"}
  /\ Return(t, IF Kind(t) = "open" THEN "INDEX_NOT_FOUND" ELSE "INVALID_ARGUMENT")
  /\ UNCHANGED <<provider, entry, dir, stores, handles, pinned, muddled, orphaned>>

\* The registry is locked for the whole of compute().
CreateNamed(t) ==
  /\ provider = "memory" /\ At(t, "compute") /\ Kind(t) \in {"create", "openOrCreate"}
  /\ entry = NoEntry
  /\ stores' = Append(stores, NewStore)
  /\ entry' = [store |-> Len(stores) + 1, attached |-> TRUE]
  /\ Produce(t, Len(stores) + 1, NewStore, 0)
  /\ UNCHANGED <<provider, dir, pinned, muddled, orphaned>>

\* The entry is attached last, when nothing can fail any more.
OpenNamed(t) ==
  /\ provider = "memory" /\ At(t, "compute") /\ Kind(t) \in {"open", "openOrCreate"}
  /\ entry # NoEntry /\ ~entry.attached
  /\ tasks[t].arg
  /\ entry' = [entry EXCEPT !.attached = TRUE]
  /\ Produce(t, entry.store, stores[entry.store], 0)
  /\ UNCHANGED <<provider, dir, stores, pinned, muddled, orphaned>>

DestroyNamed(t) ==
  /\ provider = "memory" /\ At(t, "compute") /\ Kind(t) = "destroy"
  /\ entry # NoEntry /\ ~entry.attached
  /\ entry' = NoEntry
  /\ Return(t, "OK")
  /\ UNCHANGED <<provider, dir, stores, handles, pinned, muddled, orphaned>>

NamedRefusal(t) ==
  CASE Kind(t) = "create" /\ entry # NoEntry -> "INDEX_EXISTS"
    [] Kind(t) \in {"open", "destroy"} /\ entry = NoEntry -> "INDEX_NOT_FOUND"
    [] Kind(t) # "create" /\ entry.attached -> "STORAGE"
    [] Kind(t) \in {"open", "openOrCreate"} /\ entry # NoEntry /\ ~tasks[t].arg -> "CONFIG_MISMATCH"
    [] OTHER -> "none"

RefuseNamed(t) ==
  /\ provider = "memory" /\ At(t, "compute") /\ NamedRefusal(t) # "none"
  /\ Return(t, NamedRefusal(t))
  /\ UNCHANGED <<provider, entry, dir, stores, handles, pinned, muddled, orphaned>>

------------------------------------------------------------------------------
(* Factories and destroy: a directory *)

Exists == dir.index # 0

\* What a task that is to act on the directory finds before it locks it:
\* FileStorage::exists, or the checks at the head of open and destroy.
FileIntent(t) ==
  CASE Kind(t) = "create" -> IF Exists THEN "INDEX_EXISTS" ELSE "create"
    [] Kind(t) = "openOrCreate" -> IF Exists THEN "open" ELSE "create"
    [] Kind(t) = "open" -> IF dir.present THEN "open" ELSE "INDEX_NOT_FOUND"
    [] Kind(t) = "destroy" -> IF Exists THEN "destroy" ELSE "INDEX_NOT_FOUND"

Probe(t) ==
  /\ provider = "file" /\ At(t, "compute")
  /\ IF FileIntent(t) \in {"create", "open", "destroy"}
     THEN Goto(t, "lockfile", [intent |-> FileIntent(t)])
     ELSE Return(t, FileIntent(t))
  /\ UNCHANGED <<provider, entry, dir, stores, handles, pinned, muddled, orphaned>>

\* Create makes the directory first; all three open LOCK, creating it if it
\* is not there.  If the directory has gone since it was looked for, LOCK
\* cannot be opened in it: an I/O error, also for an open.
OpenLockFile(t) ==
  /\ At(t, "lockfile")
  /\ LET intent == tasks[t].ctx.intent
         inode == IF dir.inode = 0 THEN dir.inodes + 1 ELSE dir.inode
     IN  IF intent # "create" /\ ~dir.present
         THEN Return(t, "STORAGE") /\ UNCHANGED dir
         ELSE /\ inode <= MaxInodes
              /\ dir' = [dir EXCEPT !.present = TRUE, !.inode = inode,
                                    !.inodes = Larger(@, inode)]
              /\ Goto(t, "flock", [intent |-> intent, inode |-> inode])
  /\ UNCHANGED <<provider, entry, stores, handles, pinned, muddled, orphaned>>

AtFlock(t, intent) == At(t, "flock") /\ tasks[t].ctx.intent = intent

\* The lock is taken on the inode that was opened, whether or not it is
\* still the directory's LOCK.
Lockable(t) == ~IsLocked(tasks[t].ctx.inode)

CreateFile(t) ==
  /\ AtFlock(t, "create") /\ Lockable(t)
  /\ dir.present /\ ~Exists
  /\ stores' = Append(stores, NewStore)
  /\ dir' = [dir EXCEPT !.index = Len(stores) + 1]
  /\ Produce(t, Len(stores) + 1, NewStore, tasks[t].ctx.inode)
  /\ UNCHANGED <<provider, entry, pinned, muddled, orphaned>>

\* Mutant of OpenFile: the lock is not taken.
OpenFileUnlocked(t) ==
  /\ AtFlock(t, "open")
  /\ Exists /\ tasks[t].arg
  /\ stores' = Append(stores, Reloaded(stores[dir.index]))
  /\ dir' = [dir EXCEPT !.index = Len(stores) + 1]
  /\ Produce(t, Len(stores) + 1, stores'[Len(stores')], tasks[t].ctx.inode)
  /\ muddled' = muddled \cup {s \in {Len(stores) + 1} : stores[dir.index].delta # 0}
  /\ UNCHANGED <<provider, entry, pinned, orphaned>>

\* A load of the directory; from now on stores[dir.index] is also what the
\* directory holds.
OpenFile(t) ==
  /\ AtFlock(t, "open") /\ Lockable(t)
  /\ Exists /\ tasks[t].arg
  /\ stores' = Append(stores, Reloaded(stores[dir.index]))
  /\ dir' = [dir EXCEPT !.index = Len(stores) + 1]
  /\ Produce(t, Len(stores) + 1, stores'[Len(stores')], tasks[t].ctx.inode)
  /\ muddled' = muddled \cup {s \in {Len(stores) + 1} : stores[dir.index].delta # 0}
  /\ UNCHANGED <<provider, entry, pinned, orphaned>>

FileRefusal(t) ==
  LET intent == tasks[t].ctx.intent
  IN  CASE ~Lockable(t) -> "STORAGE"
        [] Lockable(t) /\ intent = "create" /\ (Exists \/ ~dir.present) -> "STORAGE"
        [] Lockable(t) /\ intent = "destroy" /\ ~dir.present -> "STORAGE"
        [] Lockable(t) /\ intent = "open" /\ ~Exists -> "INDEX_NOT_FOUND"
        [] Lockable(t) /\ intent = "open" /\ Exists /\ ~tasks[t].arg -> "CONFIG_MISMATCH"
        [] OTHER -> "none"

RefuseFile(t) ==
  /\ At(t, "flock") /\ FileRefusal(t) # "none"
  /\ Return(t, FileRefusal(t))
  /\ UNCHANGED <<provider, entry, dir, stores, handles, pinned, muddled, orphaned>>

DestroyLock(t) ==
  /\ AtFlock(t, "destroy") /\ Lockable(t) /\ dir.present
  /\ Goto(t, "remove", tasks[t].ctx)
  /\ UNCHANGED <<provider, entry, dir, stores, handles, pinned, muddled, orphaned>>

\* The files, the manifest and at last LOCK are unlinked.
DestroyFiles(t) ==
  /\ At(t, "remove")
  /\ dir' = [dir EXCEPT !.index = 0, !.inode = 0]
  /\ orphaned' = (orphaned \/ \E u \in DOMAIN tasks :
                    At(u, "flock") /\ tasks[u].ctx.inode = dir.inode)
  /\ Goto(t, "rmdir", tasks[t].ctx)
  /\ UNCHANGED <<provider, entry, stores, handles, pinned, muddled>>

\* rmdir fails if a create has put a new LOCK into the directory.
DestroyDir(t) ==
  /\ At(t, "rmdir")
  /\ dir' = IF dir.inode = 0 THEN [dir EXCEPT !.present = FALSE] ELSE dir
  /\ Return(t, IF dir.inode = 0 THEN "OK" ELSE "STORAGE")
  /\ UNCHANGED <<provider, entry, stores, handles, pinned, muddled, orphaned>>

------------------------------------------------------------------------------
(* Writes *)

Update(t, store) == stores' = [stores EXCEPT ![Handle(t).store] = store]
SetHandle(t, handle) == handles' = [handles EXCEPT ![tasks[t].handle] = handle]
Released(handle) == [handle EXCEPT !.writer = 0]

\* The check of the external id and the core call are one critical section.
LockInsert(t) ==
  /\ At(t, "writer") /\ Kind(t) = "insert" /\ Handle(t).writer = 0
  /\ IF tasks[t].arg \in DOMAIN Handle(t).nodeIds
     THEN Return(t, "INVALID_ARGUMENT") /\ UNCHANGED handles
     ELSE /\ SetHandle(t, [Handle(t) EXCEPT !.writer = t, !.nextId = @ + 1])
          /\ Goto(t, "stage", [node |-> Handle(t).nextId, seen |-> Snapshot(StoreOf(t))])
  /\ UNCHANGED <<provider, entry, dir, stores, pinned, muddled, orphaned>>

LockDelete(t) ==
  /\ At(t, "writer") /\ Kind(t) = "delete" /\ Handle(t).writer = 0
  /\ IF tasks[t].arg \notin DOMAIN Handle(t).nodeIds
     THEN Return(t, "INVALID_ARGUMENT") /\ UNCHANGED handles
     ELSE /\ SetHandle(t, [Handle(t) EXCEPT !.writer = t])
          /\ Goto(t, "stage", [node |-> Handle(t).nodeIds[tasks[t].arg],
                               seen |-> Snapshot(StoreOf(t))])
  /\ UNCHANGED <<provider, entry, dir, stores, pinned, muddled, orphaned>>

HasDuplicates(ids) == \E i, j \in DOMAIN ids : i # j /\ ids[i] = ids[j]

\* Duplicates are refused before the lock is taken.
RefuseDuplicates(t) ==
  /\ At(t, "writer") /\ Kind(t) = "build" /\ HasDuplicates(tasks[t].arg)
  /\ Return(t, "INVALID_ARGUMENT")
  /\ UNCHANGED <<provider, entry, dir, stores, handles, pinned, muddled, orphaned>>

\* bulk_build stores its segment (none for an empty input), then loads the
\* manifest it is to replace.
LockBuild(t) ==
  /\ At(t, "writer") /\ Kind(t) = "build" /\ Handle(t).writer = 0
  /\ ~HasDuplicates(tasks[t].arg)
  /\ SetHandle(t, [Handle(t) EXCEPT !.writer = t])
  /\ IF tasks[t].arg = << >>
     THEN UNCHANGED stores /\ Goto(t, "load", [base |-> 0])
     ELSE /\ Update(t, [StoreOf(t) EXCEPT !.segments = Append(@, tasks[t].arg)])
          /\ Goto(t, "load", [base |-> Len(StoreOf(t).segments) + 1])
  /\ UNCHANGED <<provider, entry, dir, pinned, muddled, orphaned>>

LoadForBuild(t) ==
  /\ At(t, "load") /\ Kind(t) = "build"
  /\ Goto(t, "swap", [base |-> tasks[t].ctx.base, version |-> StoreOf(t).version])
  /\ UNCHANGED <<provider, entry, dir, stores, handles, pinned, muddled, orphaned>>

\* The new segment is all that is visible; ids are assigned in input order.
SwapBuild(t) ==
  /\ At(t, "swap") /\ StoreOf(t).version = tasks[t].ctx.version
  /\ LET ids == tasks[t].arg
     IN  /\ Update(t, [StoreOf(t) EXCEPT !.version = @ + 1, !.base = tasks[t].ctx.base,
                                         !.delta = 0, !.maxId = Len(ids)])
         /\ SetHandle(t, [Released(Handle(t)) EXCEPT
                            !.nextId = Len(ids) + 1,
                            !.nodeIds = [x \in {ids[n] : n \in DOMAIN ids} |->
                                           CHOOSE n \in DOMAIN ids : ids[n] = x]])
  /\ muddled' = muddled \cup {s \in {Handle(t).store} : stores[s].draft # EmptyDraft}
  /\ Return(t, "OK")
  /\ UNCHANGED <<provider, entry, dir, pinned, orphaned>>

\* append_node or tombstone_node, after the snapshot has been read.
StageRow(t) ==
  /\ At(t, "stage") /\ Resolves(StoreOf(t), tasks[t].ctx.seen)
  /\ Update(t, Stage(StoreOf(t), tasks[t]))
  /\ Goto(t, "freeze", tasks[t].ctx)
  /\ UNCHANGED <<provider, entry, dir, handles, pinned, muddled, orphaned>>

FreezeDraft(t) ==
  /\ At(t, "freeze")
  /\ Update(t, Freeze(StoreOf(t)))
  /\ Goto(t, "publish", [node |-> tasks[t].ctx.node, seen |-> tasks[t].ctx.seen,
                         delta |-> StoreOf(t).nextDelta])
  /\ UNCHANGED <<provider, entry, dir, handles, pinned, muddled, orphaned>>

Publishable(t) ==
  /\ StoreOf(t).version = tasks[t].ctx.seen.version
  /\ tasks[t].ctx.delta \in DOMAIN StoreOf(t).frozen

Published(t) ==
  [StoreOf(t) EXCEPT !.version = @ + 1, !.delta = tasks[t].ctx.delta,
                     !.base = tasks[t].ctx.seen.base,
                     !.maxId = Larger(tasks[t].ctx.seen.maxId, Handle(t).nextId - 1)]

\* Mutant of Publish: a delete leaves the id in the map.
PublishKeepsId(t) ==
  /\ At(t, "publish") /\ Publishable(t)
  /\ Update(t, Published(t))
  /\ SetHandle(t, [Released(Handle(t)) EXCEPT !.nodeIds =
                     IF Kind(t) = "insert" THEN With(@, tasks[t].arg, tasks[t].ctx.node) ELSE @])
  /\ Return(t, "OK")
  /\ UNCHANGED <<provider, entry, dir, pinned, muddled, orphaned>>

\* The manifest is swapped, and the id map follows before the lock is left.
Publish(t) ==
  /\ At(t, "publish") /\ Publishable(t)
  /\ Update(t, Published(t))
  /\ SetHandle(t, [Released(Handle(t)) EXCEPT !.nodeIds =
                     IF Kind(t) = "insert" THEN With(@, tasks[t].arg, tasks[t].ctx.node)
                     ELSE [x \in DOMAIN @ \ {tasks[t].arg} |-> @[x]]])
  /\ Return(t, "OK")
  /\ UNCHANGED <<provider, entry, dir, pinned, muddled, orphaned>>

\* What the core refuses: a snapshot that was collected, a record that would
\* link to itself because its id is taken, a lost race for the manifest.
CoreErrors(t) ==
  CASE At(t, "stage") ->
         {"STORAGE" : x \in {n \in {tasks[t].ctx.node} :
            \/ ~Resolves(StoreOf(t), tasks[t].ctx.seen)
            \/ Kind(t) = "insert" /\ n \in DOMAIN Rows(StoreOf(t), tasks[t].ctx.seen)}}
    [] At(t, "publish") ->
         IF StoreOf(t).version # tasks[t].ctx.seen.version THEN {"MANIFEST_CONFLICT"}
         ELSE IF Publishable(t) THEN {} ELSE {"STORAGE"}
    [] At(t, "swap") /\ StoreOf(t).version # tasks[t].ctx.version -> {"MANIFEST_CONFLICT"}
    [] OTHER -> {}

\* On files every step of a write can also fail on its own.
IoErrors(t) ==
  IF provider = "file" /\ tasks[t].pc \in {"stage", "freeze", "publish", "swap"}
  THEN {"STORAGE"} ELSE {}

\* Mutant of FailWrite: an error leaves the writer lock locked.
FailWriteLocked(t) ==
  /\ \E code \in CoreErrors(t) \cup IoErrors(t) : Return(t, code)
  /\ muddled' = muddled \cup {s \in {Handle(t).store} : tasks[t].pc \in {"freeze", "publish"}}
  /\ UNCHANGED <<provider, entry, dir, stores, handles, pinned, orphaned>>

\* The guard of the writer lock is dropped on the error path as well; what
\* was staged stays in the draft.
FailWrite(t) ==
  /\ \E code \in CoreErrors(t) \cup IoErrors(t) : Return(t, code)
  /\ SetHandle(t, Released(Handle(t)))
  /\ muddled' = muddled \cup {s \in {Handle(t).store} : tasks[t].pc \in {"freeze", "publish"}}
  /\ UNCHANGED <<provider, entry, dir, stores, pinned, orphaned>>

------------------------------------------------------------------------------
(* Searches *)

LoadSnapshot(t) ==
  /\ At(t, "load") /\ Kind(t) = "search"
  /\ Goto(t, "read", [snapshot |-> Snapshot(StoreOf(t))])
  /\ UNCHANGED <<provider, entry, dir, stores, handles, pinned, muddled, orphaned>>

\* A search reads through one snapshot only; its result is kept until the
\* promise settles (history).
Read(t) ==
  /\ At(t, "read") /\ Resolves(StoreOf(t), tasks[t].ctx.snapshot)
  /\ tasks' = [tasks EXCEPT ![t].pc = "done", ![t].code = "OK",
                 ![t].ctx = [rows |-> Rows(StoreOf(t), @.snapshot),
                             taken |-> IF Kind(t) = "searchPinned" THEN @.taken
                                       ELSE Rows(StoreOf(t), @.snapshot)]]
  /\ UNCHANGED <<provider, entry, dir, stores, handles, pinned, muddled, orphaned>>

\* pinned_search_error: a pinned snapshot that does not resolve has expired.
ReadPinnedFails(t) ==
  /\ At(t, "read") /\ Kind(t) = "searchPinned"
  /\ ~Resolves(StoreOf(t), tasks[t].ctx.snapshot)
  /\ Return(t, "SNAPSHOT_EXPIRED")
  /\ UNCHANGED <<provider, entry, dir, stores, handles, pinned, muddled, orphaned>>

ReadFails(t) ==
  /\ At(t, "read") /\ Kind(t) = "search"
  /\ ~Resolves(StoreOf(t), tasks[t].ctx.snapshot)
  /\ Goto(t, "classify", tasks[t].ctx)
  /\ UNCHANGED <<provider, entry, dir, stores, handles, pinned, muddled, orphaned>>

\* Mutant of Classify: the version is compared the wrong way round.
ClassifyReversed(t) ==
  /\ At(t, "classify")
  /\ Return(t, IF StoreOf(t).version < tasks[t].ctx.snapshot.version
               THEN "SNAPSHOT_EXPIRED" ELSE "STORAGE")
  /\ UNCHANGED <<provider, entry, dir, stores, handles, pinned, muddled, orphaned>>

\* implicit_search_error: expired only if something was published since.
Classify(t) ==
  /\ At(t, "classify")
  /\ Return(t, IF StoreOf(t).version > tasks[t].ctx.snapshot.version
               THEN "SNAPSHOT_EXPIRED" ELSE "STORAGE")
  /\ UNCHANGED <<provider, entry, dir, stores, handles, pinned, muddled, orphaned>>

------------------------------------------------------------------------------
(* The specification *)

Work(t) ==
  \/ Start(t) \/ Settle(t)
  \/ CreateAnonymous(t) \/ RefuseAnonymous(t)
  \/ CreateNamed(t) \/ OpenNamed(t) \/ DestroyNamed(t) \/ RefuseNamed(t)
  \/ Probe(t) \/ OpenLockFile(t) \/ CreateFile(t) \/ OpenFile(t) \/ RefuseFile(t)
  \/ DestroyLock(t) \/ DestroyFiles(t) \/ DestroyDir(t)
  \/ LockInsert(t) \/ LockDelete(t)
  \/ RefuseDuplicates(t) \/ LockBuild(t) \/ LoadForBuild(t) \/ SwapBuild(t)
  \/ StageRow(t) \/ FreezeDraft(t) \/ Publish(t) \/ FailWrite(t)
  \/ LoadSnapshot(t) \/ Read(t) \/ ReadPinnedFails(t) \/ ReadFails(t) \/ Classify(t)

JavaScript ==
  \/ CallOnUri
  \/ \E h \in DOMAIN handles :
       CallOnHandle(h) \/ CallSearchPinned(h) \/ TakeSnapshot(h) \/ Close(h)

Next == JavaScript \/ \E t \in DOMAIN tasks : Work(t)

Fresh ==
  /\ entry = NoEntry /\ dir = NoDir
  /\ stores = << >> /\ handles = << >>

\* One index exists, and its handle is still open: it was built over rows, or
\* a row was inserted into it.
Existing(store) ==
  LET inode == IF provider = "file" THEN 1 ELSE 0
  IN  /\ stores = <<store>>
      /\ handles = <<[NewHandle(1, store, inode) EXCEPT !.status = "open"]>>
      /\ entry = IF provider = "memory" THEN [store |-> 1, attached |-> TRUE] ELSE NoEntry
      /\ dir = IF provider = "file"
               THEN [present |-> TRUE, inode |-> 1, index |-> 1, inodes |-> 1] ELSE NoDir

Built(ids) ==
  [NewStore EXCEPT !.version = 1, !.base = 1, !.maxId = Len(ids), !.segments = <<ids>>]

Inserted(x) ==
  LET draft == [rows |-> <<x>>, dead |-> {}]
  IN  [NewStore EXCEPT !.version = 1, !.delta = 1, !.maxId = 1, !.draft = draft,
                       !.frozen = <<draft>>, !.nextDelta = 2]

Init ==
  /\ provider \in Providers
  /\ tasks = << >> /\ pinned = NoSnapshot /\ muddled = {} /\ orphaned = FALSE
  /\ \/ Fresh
     \/ provider # "memory" /\ Existing(Built(BuiltOver))
     \/ provider = "memory" /\ Existing(Inserted(BuiltOver[1]))

\* The pool and the event loop keep going while there is a task they can
\* move; JavaScript need not call anything.
Fairness == WF_vars(\E t \in DOMAIN tasks : Work(t))

Spec == Init /\ [][Next]_vars /\ Fairness

------------------------------------------------------------------------------
(* Properties *)

\* The registry entry of a name is attached exactly while one live handle
\* owns its storage: no failed open and no repeated close leaves the name
\* locked for good or hands it to two handles.
AttachedToOneHandle ==
  LET owners == {h \in DOMAIN handles : IsLive(h) /\ handles[h].named}
  IN  /\ Cardinality(owners) = IF entry.attached THEN 1 ELSE 0
      /\ \A h \in owners : handles[h].store = entry.store

\* A directory is never in use through two index states, tasks that outlive
\* their handle included, as long as no destroy unlinked LOCK between
\* another task's opening of it and its flock.
OneStatePerDirectory ==
  provider = "file" /\ ~orphaned =>
    \A g, h \in DOMAIN handles : InUse(g) /\ InUse(h) => g = h

\* While no write is under way, the id map of a live handle is the inverse
\* of the rows its index shows, and no two rows share an external id.  The
\* stores excepted: a mutation failed after it had staged a row, a bulk build
\* ran over staged mutations, a memory index was closed under its writes, a
\* file index with a hot delta was reopened.
MapMatchesIndex ==
  \A h \in DOMAIN handles :
    IsLive(h) /\ handles[h].writer = 0 /\ handles[h].store \notin muddled =>
      LET rows == Current(stores[handles[h].store])
          nodeIds == handles[h].nodeIds
      IN  /\ DOMAIN nodeIds = {rows[n] : n \in DOMAIN rows}
          /\ \A n \in DOMAIN rows : nodeIds[rows[n]] = n

\* A pinned search that succeeds shows what the snapshot showed when it was
\* taken, whatever was published, destroyed or created since.
PinnedSearchesRepeat ==
  \A t \in DOMAIN tasks :
    At(t, "done") /\ Kind(t) = "searchPinned" /\ tasks[t].code = "OK" =>
      tasks[t].ctx.rows = tasks[t].ctx.taken

\* A search without a snapshot that loses its delta to a concurrent writer is
\* told to retry; it never reports a broken store.
SearchesOnlyExpire ==
  \A t \in DOMAIN tasks : Kind(t) = "search" => tasks[t].code # "STORAGE"

\* Every promise settles, however many tasks wait for one writer lock and
\* whatever fails while it is held: the calls made so far never get stuck.
PromisesSettle == []<>(\A t \in DOMAIN tasks : At(t, "settled"))

==============================================================================
