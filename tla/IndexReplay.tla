---------------------------- MODULE IndexReplay ----------------------------
(***************************************************************************)
(* Recovery from the mutation log: a primary index that logs every online  *)
(* mutation before it stages and publishes it, and a standby that starts   *)
(* from the same bulk build, or from a copy of the primary's storage, and  *)
(* replays the rest of the log without logging it again.  The primary      *)
(* fails mutations half way and is restarted, losing its draft; the log is *)
(* truncated below a checkpoint at any time; a replay that fails may be    *)
(* started over, on the same standby or on a new one.                      *)
(*                                                                         *)
(* Both indexes live in directories of the file backend: to restart one is *)
(* to open its directory again, which starts an empty draft, and what is   *)
(* published is a freeze of the draft alone over the bulk build.  The      *)
(* memory backend has neither restarts nor copies.                         *)
(*                                                                         *)
(* An index is reduced to its rows, its draft and its id allocator;        *)
(* OnlineIndex has its graph, its storage calls and its other writers.     *)
(***************************************************************************)
EXTENDS MutationLog, FiniteSets

CONSTANTS
  Rows,      \* what an insert carries: external id, full vector, labels
  Base,      \* how many rows the bulk build wrote
  MaxId,     \* bound on the node ids
  MaxCopies, \* bound on the standbys started
  MaxFaults  \* bound on failed mutations, failed replays and restarts

NodeIds == 1 .. MaxId

\* TypedMutation, which encode writes and decode reads back.
Inserts == [kind : {"insert"}, node : NodeIds, row : Rows]
Deletes == [kind : {"delete"}, node : NodeIds]

\* What the draft holds for a deleted row; no row is mistaken for it.
Gone == "gone"

ASSUME ReplayAssumption ==
  /\ Mutations = Inserts \cup Deletes /\ Gone \notin Rows
  /\ Base \in 0 .. MaxId /\ MaxId \in Nat /\ MaxCopies \in Nat /\ MaxFaults \in Nat

VARIABLES
  primary,   \* the index clients write to
  op,        \* the mutation it is executing, and how far it got
  standby,   \* the index that is being restored
  from,      \* the log offset the state it started from stands for
  phase,     \* "idle", "replaying" or "done"
  pending,   \* the entries the replay has still to apply
  through,   \* the end of the log when the replay began
  fresh,     \* whether this is the first replay into the standby
  owed,      \* history: rows of acknowledged inserts nobody asked to delete
  gone,      \* history: ids whose delete was acknowledged
  restarted, \* history: whether the primary was ever restarted
  copies, faults

standbyVars == <<standby, from, phase, pending, through, fresh, copies>>
primaryVars == <<primary, op, owed, gone, restarted>>
replayVars == <<logVars, standbyVars, primaryVars, faults>>

NoOp == [pc |-> "idle"]
EmptyFn == [x \in {} |-> x]
With(f, x, y) == [z \in DOMAIN f \cup {x} |-> IF z = x THEN y ELSE f[z]]
Keep(f, S) == [z \in DOMAIN f \cap S |-> f[z]]

------------------------------------------------------------------------------
(* One index *)

\* What bulk_build leaves: no log entry has a row of it.
BuiltRows == [n \in 1 .. Base |-> "built"]
Built == [rows |-> BuiltRows, draft |-> EmptyFn, nextId |-> Base + 1, highWater |-> Base]

\* The rows of the segments, seen through a delta.
Overlaid(rows, draft) ==
  [n \in {m \in DOMAIN rows \cup DOMAIN draft : m \notin DOMAIN draft \/ draft[m] # Gone} |->
     IF n \in DOMAIN draft THEN draft[n] ELSE rows[n]]

\* Mutant of Staged: the allocator is not moved past a replayed id.
StagedSameAllocator(index, m) ==
  IF m.kind = "insert"
  THEN [index EXCEPT !.draft = With(@, m.node, m.row)]
  ELSE [index EXCEPT !.draft = With(@, m.node, Gone)]

\* The body of apply_insert and apply_delete between log and publication.
Staged(index, m) ==
  IF m.kind = "insert"
  THEN [index EXCEPT !.draft = With(@, m.node, m.row),
                     !.nextId = Later(@, m.node + 1)]
  ELSE [index EXCEPT !.draft = With(@, m.node, Gone)]

\* publish_hot_delta_over: the manifest's delta is replaced by the draft's
\* freeze.  What only an earlier delta had is no longer shown.
Published(index) ==
  [index EXCEPT !.rows = Overlaid(BuiltRows, index.draft),
                !.highWater = Later(@, index.nextId - 1)]

\* An insert whose node is visible already may find itself among its
\* neighbors; record.validate refuses that.
LinksToItself(index, m) == m.kind = "insert" /\ m.node \in DOMAIN index.rows

\* The storage is opened again, and the index over it: the manifest and its
\* delta are what they were, the draft is empty, and the ids resume at the
\* high-water mark.
Reopened(index) == [index EXCEPT !.draft = EmptyFn, !.nextId = index.highWater + 1]

------------------------------------------------------------------------------
(* The primary *)

Fault == faults < MaxFaults /\ faults' = faults + 1

\* Mutant of LogInsert: the id is taken only when the insert is published.
LogInsertIdLater(row) ==
  /\ op = NoOp /\ primary.nextId <= MaxId
  /\ LET m == [kind |-> "insert", node |-> primary.nextId, row |-> row]
     IN  AppendMutation(m) /\ op' = [pc |-> "stage", m |-> m]
  /\ UNCHANGED <<standbyVars, primary, owed, gone, restarted, faults>>

\* allocate_node_id, then the log.
LogInsert(row) ==
  /\ op = NoOp /\ primary.nextId <= MaxId
  /\ LET m == [kind |-> "insert", node |-> primary.nextId, row |-> row]
     IN  AppendMutation(m) /\ op' = [pc |-> "stage", m |-> m]
  /\ primary' = [primary EXCEPT !.nextId = @ + 1]
  /\ UNCHANGED <<standbyVars, owed, gone, restarted, faults>>

\* An insert that is invalid, or that the log does not take: its id is used up.
LoseInsert ==
  /\ op = NoOp /\ primary.nextId <= MaxId
  /\ Fault
  /\ primary' = [primary EXCEPT !.nextId = @ + 1]
  /\ UNCHANGED <<logVars, standbyVars, op, owed, gone, restarted>>

\* Mutant of LogDelete: a delete is published without a log entry.
LogDeleteSilently(n) ==
  /\ op = NoOp
  /\ op' = [pc |-> "stage", m |-> [kind |-> "delete", node |-> n]]
  /\ owed' = Keep(owed, DOMAIN owed \ {n})
  /\ UNCHANGED <<logVars, standbyVars, primary, gone, restarted, faults>>

\* Ids a client can name: those acknowledged to it and those it can see.
LogDelete(n) ==
  /\ op = NoOp
  /\ AppendMutation([kind |-> "delete", node |-> n])
  /\ op' = [pc |-> "stage", m |-> [kind |-> "delete", node |-> n]]
  /\ owed' = Keep(owed, DOMAIN owed \ {n})
  /\ UNCHANGED <<standbyVars, primary, gone, restarted, faults>>

\* With an id that was handed out before the restart, even a live insert may
\* find itself; it then fails.
Stage ==
  /\ op.pc = "stage"
  /\ primary' = Staged(primary, op.m)
  /\ op' = [op EXCEPT !.pc = "publish"]
  /\ UNCHANGED <<logVars, standbyVars, owed, gone, restarted, faults>>

Publish ==
  /\ op.pc = "publish"
  /\ primary' = Published(primary)
  /\ IF op.m.kind = "insert"
     THEN owed' = With(owed, op.m.node, op.m.row) /\ UNCHANGED gone
     ELSE gone' = gone \cup {op.m.node} /\ UNCHANGED owed
  /\ op' = NoOp
  /\ UNCHANGED <<logVars, standbyVars, restarted, faults>>

FailMutation ==
  /\ op # NoOp
  /\ \/ Fault
     \/ op.pc = "stage" /\ LinksToItself(primary, op.m) /\ UNCHANGED faults
  /\ op' = NoOp
  /\ UNCHANGED <<logVars, standbyVars, primary, owed, gone, restarted>>

\* The process ends and the storage is opened again; nothing replays its log.
Restart ==
  /\ Fault
  /\ primary' = Reopened(primary)
  /\ op' = NoOp
  /\ restarted' = TRUE
  /\ UNCHANGED <<logVars, standbyVars, owed, gone>>

------------------------------------------------------------------------------
(* The standby *)

StartWith(index, offset) ==
  /\ phase # "replaying" /\ copies < MaxCopies
  /\ copies' = copies + 1
  /\ standby' = index /\ from' = offset
  /\ phase' = "idle" /\ fresh' = TRUE
  /\ UNCHANGED <<pending, through, logVars, primaryVars, faults>>

\* The same bulk build, before any log entry.
Rebuild == StartWith(Built, 0)

\* A copy of the storage, taken between two mutations and with nothing left
\* in the draft by one that failed, and opened.
Copy ==
  /\ op = NoOp /\ Overlaid(primary.rows, primary.draft) = primary.rows
  /\ StartWith(Reopened(primary), nextOffset)

\* replay_from hands out what the log holds now, unless it refuses.
BeginReplay ==
  /\ phase = "idle"
  /\ Available(from)
  /\ pending' = Replay(from) /\ through' = nextOffset
  /\ phase' = "replaying"
  /\ UNCHANGED <<logVars, standby, from, fresh, copies, primaryVars, faults>>

\* replay_mutation, without the log: stage and publish.
ApplyEntry ==
  /\ phase = "replaying" /\ pending # << >>
  /\ standby' = Published(Staged(standby, Head(pending).mutation))
  /\ pending' = Tail(pending)
  /\ UNCHANGED <<logVars, from, phase, through, fresh, copies, primaryVars, faults>>

\* The replay ends with an error: the caller does not learn how far it got.
FailReplay ==
  /\ phase = "replaying" /\ pending # << >>
  /\ LET m == Head(pending).mutation
     IN  \/ /\ Fault
            /\ standby' \in {standby, Staged(standby, m)}
         \/ LinksToItself(standby, m) /\ UNCHANGED <<standby, faults>>
  /\ phase' = "idle" /\ fresh' = FALSE
  /\ UNCHANGED <<logVars, from, pending, through, copies, primaryVars>>

\* The standby's process ends, also in the middle of a replay, and its storage
\* is opened again; replay is then started over.
ReopenStandby ==
  /\ Fault
  /\ standby' = Reopened(standby)
  /\ phase' = "idle" /\ fresh' = FALSE
  /\ UNCHANGED <<logVars, from, pending, through, copies, primaryVars>>

EndReplay ==
  /\ phase = "replaying" /\ pending = << >>
  /\ phase' = "done"
  /\ UNCHANGED <<logVars, standby, from, pending, through, fresh, copies, primaryVars, faults>>

------------------------------------------------------------------------------
(* Specification *)

Init ==
  /\ LogInit
  /\ primary = Built /\ op = NoOp
  /\ standby = Built /\ from = 0
  /\ phase = "idle" /\ pending = << >> /\ through = 0 /\ fresh = TRUE
  /\ owed = primary.rows /\ gone = {}
  /\ restarted = FALSE
  /\ copies = 0 /\ faults = 0

LogUpkeep ==
  /\ \/ \E offset \in 0 .. MaxAppends : Checkpoint(offset)
     \/ TruncateBeforeCheckpoint
  /\ UNCHANGED <<standbyVars, primaryVars, faults>>

Next ==
  \/ \E row \in Rows : LogInsert(row)
  \/ \E n \in DOMAIN owed \cup DOMAIN primary.rows \cup gone : LogDelete(n)
  \/ LoseInsert \/ Stage \/ Publish \/ FailMutation \/ Restart
  \/ LogUpkeep
  \/ Rebuild \/ Copy
  \/ BeginReplay \/ ApplyEntry \/ FailReplay \/ ReopenStandby \/ EndReplay

Spec == Init /\ [][Next]_replayVars

------------------------------------------------------------------------------
(* Properties *)

CaughtUp == phase = "done" /\ through = nextOffset

\* The log speaks of n, but not since the state the standby started from:
\* only a copied delta could tell it what became of n.
CarriedOver(n) ==
  /\ \E o \in 0 .. from - 1 : appended[o].node = n
  /\ \A o \in from .. nextOffset - 1 : appended[o].node # n

\* The standby has what clients were told of n.
HasWhatWasTold(n) ==
  IF n \in gone THEN n \notin DOMAIN standby.rows
  ELSE n \in DOMAIN standby.rows /\ standby.rows[n] = owed[n]

\* A standby whose replay went through to the end of the log lacks no row
\* whose insert the primary acknowledged, and shows none whose delete it
\* acknowledged: whatever the primary left half done or lost itself, wherever
\* the log was truncated, however often the replay was started over or the
\* standby reopened.  One rebuilt from the bulk build owes this of all nodes,
\* a copy of those the log speaks of since it was taken and of those it never
\* spoke of.
StandbyComplete ==
  CaughtUp =>
    \A n \in DOMAIN owed \cup gone : CarriedOver(n) \/ HasWhatWasTold(n)

\* If it takes over then, now or after it is reopened itself, it hands out no
\* id that names a row, or a deleted row, of the primary.
StandbyIdsFresh ==
  CaughtUp =>
    \A n \in DOMAIN owed \cup gone \cup DOMAIN standby.rows :
      n < standby.nextId /\ n <= standby.highWater

\* The first replay into a standby is never refused because an insert finds
\* its own row there, unless the primary was restarted without replaying its
\* own log: no two logged inserts, and no logged insert and copied row, have
\* the same id.
FirstReplayAccepted ==
  ~restarted /\ fresh /\ phase = "replaying" /\ pending # << >> =>
    ~LinksToItself(standby, Head(pending).mutation)

==============================================================================
