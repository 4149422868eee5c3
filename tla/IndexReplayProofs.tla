-------------------------- MODULE IndexReplayProofs --------------------------
(***************************************************************************)
(* A standby that replays the mutation log to its end has every row whose  *)
(* insert the primary acknowledged and none whose delete it acknowledged,  *)
(* of the nodes it did not carry over from a copy, and can take over       *)
(* without handing out an id twice: for any rows, any number of mutations, *)
(* failures, restarts, truncations and replays.                            *)
(*                                                                         *)
(* What a row is after a replay depends on the last entry about its node   *)
(* alone.  So the standby is described by the offsets it has applied, and  *)
(* what clients were told by the last entry about each node; no statement  *)
(* follows the replay entry by entry.  Nothing relates what clients were   *)
(* told to the rows the primary shows: it may have lost them itself.       *)
(***************************************************************************)
EXTENDS IndexReplay, TLAPS

------------------------------------------------------------------------------
(***************************************************************************)
(* The log alone.  Its replay is complete, for any mutations and any       *)
(* number of appends.  What makes it inductive is that the log is exactly  *)
(* the history from its floor on: popping entries off its front and        *)
(* raising the floor take the same ones away.                              *)
(***************************************************************************)

\* The entries of the offsets from first up to the one before next.
EntriesOf(history, first, next) ==
  [i \in 1 .. next - first |->
     [offset |-> first + i - 1, mutation |-> history[first + i - 1]]]

\* The log holds exactly the history from the floor on.
LogIsHistory == entries = History(firstOffset)

LogInv == LogTypeOK /\ CheckpointAvailable /\ LogIsHistory

------------------------------------------------------------------------------
(* Popping entries off a history *)

\* The entries of a range of offsets are a sequence of that length.
LEMMA EntriesOfIsSeq ==
  ASSUME NEW history, NEW first \in Nat, NEW next \in Nat, first <= next,
         \A o \in first .. next - 1 : history[o] \in Mutations
  PROVE  /\ EntriesOf(history, first, next) \in Seq(Entry)
         /\ Len(EntriesOf(history, first, next)) = next - first
<1> DEFINE log == EntriesOf(history, first, next)
<1>1. next - first \in Nat
  OBVIOUS
<1>2. \A i \in 1 .. next - first : log[i] \in Entry
  <2> TAKE i \in 1 .. next - first
  <2>1. first + i - 1 \in first .. next - 1
    OBVIOUS
  <2>2. log[i] = [offset |-> first + i - 1, mutation |-> history[first + i - 1]]
    BY DEF EntriesOf
  <2> QED
    BY <2>1, <2>2 DEF Entry
<1>3. log \in [1 .. next - first -> Entry]
  BY <1>2 DEF EntriesOf
<1> QED
  BY <1>1, <1>3

\* What is left of a history before offset is the history from offset on
\* (truncate_before_checkpoint, replay_from).
LEMMA FromOfHistory ==
  ASSUME NEW history, NEW first \in Nat, NEW next \in Nat, NEW offset \in Nat,
         first <= offset, offset <= next,
         \A o \in first .. next - 1 : history[o] \in Mutations
  PROVE  From(EntriesOf(history, first, next), offset) = EntriesOf(history, offset, next)
<1> DEFINE log == EntriesOf(history, first, next)
           lost == offset - first
           Popped(k) == /\ \A i \in 1 .. k : log[i].offset < offset
                        /\ k < Len(log) => log[k + 1].offset >= offset
<1>1. log \in Seq(Entry) /\ Len(log) = next - first
  BY EntriesOfIsSeq
<1>2. \A i \in 1 .. next - first : log[i].offset = first + i - 1
  BY DEF EntriesOf
<1>3. lost \in 0 .. Len(log) /\ Popped(lost)
  <2>1. lost \in 0 .. Len(log)
    BY <1>1
  <2>2. \A i \in 1 .. lost : log[i].offset < offset
    BY <1>2
  <2>3. lost < Len(log) => log[lost + 1].offset >= offset
    BY <1>1, <1>2
  <2> QED
    BY <2>1, <2>2, <2>3
<1>4. ASSUME NEW k \in 0 .. Len(log), Popped(k)
      PROVE  k = lost
  <2>1. CASE k < lost
    BY <1>1, <1>2, <1>4, <2>1
  <2>2. CASE k > lost
    <3>1. lost + 1 \in 1 .. k /\ lost + 1 \in 1 .. next - first
      BY <1>1, <2>2
    <3>2. log[lost + 1].offset < offset
      BY <1>4, <3>1
    <3>3. log[lost + 1].offset = offset
      BY <1>2, <3>1
    <3> QED
      BY <3>2, <3>3
  <2> QED
    BY <1>1, <2>1, <2>2
<1>5. From(log, offset) = SubSeq(log, lost + 1, Len(log))
  <2> HIDE DEF log, lost
  <2>1. (CHOOSE k \in 0 .. Len(log) : Popped(k)) = lost
    BY <1>3, <1>4
  <2> QED
    BY <2>1 DEF From
<1>6. SubSeq(log, lost + 1, Len(log)) = [i \in 1 .. next - offset |-> log[i + lost]]
  <2> HIDE DEF log
  <2>1. 1 <= lost + 1 /\ Len(log) - (lost + 1) + 1 = next - offset
    BY <1>1
  <2>2. \A i \in 1 .. next - offset : i + (lost + 1) - 1 = i + lost
    OBVIOUS
  <2> QED
    BY <1>1, <2>1, <2>2
<1>7. ASSUME NEW i \in 1 .. next - offset
      PROVE  log[i + lost] = [offset |-> offset + i - 1, mutation |-> history[offset + i - 1]]
  <2>1. i + lost \in 1 .. next - first /\ first + (i + lost) - 1 = offset + i - 1
    OBVIOUS
  <2> QED
    BY <2>1 DEF EntriesOf
<1> HIDE DEF log, lost
<1> QED
  BY <1>5, <1>6, <1>7 DEF EntriesOf, log

------------------------------------------------------------------------------
(* The invariant *)

\* The history covers every offset, so any part of it can be read.
LEMMA HistoryTyped ==
  LogTypeOK => \A o \in 0 .. nextOffset - 1 : appended[o] \in Mutations
BY DEF LogTypeOK

LEMMA LogInvInit == LogInit => LogInv
<1> SUFFICES ASSUME LogInit PROVE LogInv
  OBVIOUS
<1>1. 0 .. nextOffset - 1 = {}
  BY DEF LogInit
<1>2. LogTypeOK
  BY <1>1 DEF LogInit, LogTypeOK
<1>3. entries = History(firstOffset)
  BY DEF LogInit, History
<1> QED
  BY <1>2, <1>3 DEF LogInit, LogInv, CheckpointAvailable, LogIsHistory

\* Every call of the log preserves the invariant.
LEMMA LogInvNext == LogInv /\ [LogNext]_logVars => LogInv'
<1> SUFFICES ASSUME LogInv, [LogNext]_logVars PROVE LogInv'
  OBVIOUS
<1> USE DEF LogInv
<1>t. /\ nextOffset \in Nat /\ firstOffset \in Nat /\ checkpoint \in Nat
      /\ entries \in Seq(Entry)
      /\ appended \in [0 .. nextOffset - 1 -> Mutations]
      /\ firstOffset <= checkpoint /\ checkpoint <= nextOffset
      /\ entries = EntriesOf(appended, firstOffset, nextOffset)
  BY DEF LogTypeOK, CheckpointAvailable, LogIsHistory, History, EntriesOf
<1>a. ASSUME NEW m \in Mutations, AppendMutation(m)
      PROVE  LogInv'
  <2>1. nextOffset' = nextOffset + 1 /\ firstOffset' = firstOffset /\ checkpoint' = checkpoint
    BY <1>a DEF AppendMutation
  <2>2. (0 .. nextOffset - 1) \cup {nextOffset} = 0 .. nextOffset' - 1
    BY <1>t, <2>1
  <2>3. appended' = [o \in 0 .. nextOffset' - 1 |->
                       IF o = nextOffset THEN m ELSE appended[o]]
    BY <1>a, <1>t, <2>2 DEF AppendMutation
  <2>4. appended' \in [0 .. nextOffset' - 1 -> Mutations]
    BY <1>t, <2>1, <2>3
  <2>5. entries' \in Seq(Entry)
    BY <1>a, <1>t DEF AppendMutation, Entry
  <2>6. entries' = EntriesOf(appended', firstOffset', nextOffset')
    <3> DEFINE length == nextOffset - firstOffset
               new == EntriesOf(appended', firstOffset', nextOffset')
    <3>1. Len(entries) = length /\ length \in Nat
      <4>1. \A o \in firstOffset .. nextOffset - 1 : appended[o] \in Mutations
        BY <1>t
      <4>2. firstOffset <= nextOffset
        BY <1>t
      <4>3. Len(EntriesOf(appended, firstOffset, nextOffset)) = nextOffset - firstOffset
        BY <1>t, <4>1, <4>2, EntriesOfIsSeq
      <4> QED
        BY <1>t, <4>2, <4>3
    <3>2. entries' = [i \in 1 .. length + 1 |->
                        IF i = length + 1 THEN [offset |-> nextOffset, mutation |-> m]
                        ELSE entries[i]]
      BY <1>a, <1>t, <3>1 DEF AppendMutation
    <3>3. new = [i \in 1 .. length + 1 |->
                   [offset |-> firstOffset + i - 1, mutation |-> appended'[firstOffset + i - 1]]]
      <4>1. nextOffset' - firstOffset' = length + 1
        BY <1>t, <2>1
      <4> QED
        BY <2>1, <4>1 DEF EntriesOf
    <3>4. ASSUME NEW i \in 1 .. length + 1
          PROVE  entries'[i] = new[i]
      <4>1. CASE i = length + 1
        <5>1. firstOffset + i - 1 = nextOffset /\ nextOffset \in 0 .. nextOffset' - 1
          BY <1>t, <2>1, <4>1
        <5>2. appended'[firstOffset + i - 1] = m
          BY <2>3, <5>1
        <5> QED
          BY <3>2, <3>3, <4>1, <5>1, <5>2
      <4>2. CASE i # length + 1
        <5>1. /\ i \in 1 .. length
              /\ firstOffset + i - 1 \in 0 .. nextOffset' - 1
              /\ firstOffset + i - 1 # nextOffset
          BY <1>t, <2>1, <4>2, <3>1
        <5>2. appended'[firstOffset + i - 1] = appended[firstOffset + i - 1]
          BY <2>3, <5>1
        <5>3. entries[i] = [offset |-> firstOffset + i - 1,
                            mutation |-> appended[firstOffset + i - 1]]
          BY <1>t, <5>1 DEF EntriesOf
        <5> QED
          BY <3>2, <3>3, <4>2, <5>2, <5>3
      <4> QED
        BY <4>1, <4>2
    <3> HIDE DEF new, length
    <3> QED
      BY <3>2, <3>3, <3>4 DEF new
  <2>7. LogTypeOK'
    BY <1>t, <2>1, <2>4, <2>5 DEF LogTypeOK
  <2>8. CheckpointAvailable'
    BY <1>t, <2>1 DEF CheckpointAvailable
  <2> QED
    BY <2>6, <2>7, <2>8 DEF LogIsHistory, History, EntriesOf
<1>b. ASSUME NEW offset \in 0 .. MaxAppends, Checkpoint(offset)
      PROVE  LogInv'
  <2>1. LogTypeOK' /\ CheckpointAvailable'
    BY <1>b, <1>t DEF Checkpoint, LogTypeOK, CheckpointAvailable
  <2>2. LogIsHistory'
    BY <1>b DEF Checkpoint, LogIsHistory, History
  <2> QED
    BY <2>1, <2>2
<1>c. CASE TruncateBeforeCheckpoint
  <2>1. /\ firstOffset' = checkpoint
        /\ nextOffset' = nextOffset /\ checkpoint' = checkpoint /\ appended' = appended
    BY <1>c, <1>t DEF TruncateBeforeCheckpoint, Later
  <2>2. \A o \in firstOffset .. nextOffset - 1 : appended[o] \in Mutations
    BY <1>t
  <2>3. entries' = EntriesOf(appended, checkpoint, nextOffset)
    BY <1>c, <1>t, <2>2, FromOfHistory DEF TruncateBeforeCheckpoint
  <2>4. \A o \in checkpoint .. nextOffset - 1 : appended[o] \in Mutations
    BY <1>t
  <2>5. entries' \in Seq(Entry)
    BY <1>t, <2>3, <2>4, EntriesOfIsSeq
  <2>6. LogIsHistory'
    BY <2>1, <2>3 DEF LogIsHistory, History, EntriesOf
  <2> QED
    BY <1>t, <2>1, <2>5, <2>6 DEF LogTypeOK, CheckpointAvailable
<1>d. CASE UNCHANGED logVars
  BY <1>d DEF logVars, LogTypeOK, CheckpointAvailable, LogIsHistory, History
<1> QED
  BY <1>a, <1>b, <1>c, <1>d DEF LogNext

\* The invariant makes replay complete, wherever it starts.
LEMMA LogInvComplete == LogInv => ReplayComplete
<1> SUFFICES ASSUME LogInv,
                    NEW offset \in 0 .. nextOffset, Available(offset)
             PROVE  Replay(offset) = History(offset)
  BY DEF ReplayComplete
<1>1. /\ nextOffset \in Nat /\ firstOffset \in Nat
      /\ appended \in [0 .. nextOffset - 1 -> Mutations]
      /\ entries = EntriesOf(appended, firstOffset, nextOffset)
  BY DEF LogInv, LogTypeOK, LogIsHistory, History, EntriesOf
<1>2. offset \in Nat /\ firstOffset <= offset /\ offset <= nextOffset
  BY <1>1 DEF Available
<1>3. \A o \in firstOffset .. nextOffset - 1 : appended[o] \in Mutations
  BY <1>1
<1>4. From(entries, offset) = EntriesOf(appended, offset, nextOffset)
  BY <1>1, <1>2, <1>3, FromOfHistory
<1> QED
  BY <1>4 DEF Replay, History, EntriesOf

------------------------------------------------------------------------------
(* The log alone: theorems *)

\* The log holds exactly the appends from its floor on, in every reachable
\* state (append_mutation, checkpoint, truncate_before_checkpoint).
THEOREM LogInvariance == LogSpec => []LogInv
BY LogInvInit, LogInvNext, PTL DEF LogSpec

\* Replay hands out every append at or after any offset it does not refuse,
\* once and in order (replay_from).
THEOREM ReplayAlwaysComplete == LogSpec => []ReplayComplete
BY LogInvariance, LogInvComplete, PTL

\* Truncation never passes the checkpoint, and the checkpoint never leaves
\* the log.
THEOREM CheckpointAlwaysAvailable == LogSpec => []CheckpointAvailable
<1>1. LogInv => CheckpointAvailable
  BY DEF LogInv
<1> QED
  BY LogInvariance, <1>1, PTL

------------------------------------------------------------------------------
(* What the log says of a node *)

About(o, n) == appended[o].node = n
IsInsert(o) == appended[o].kind = "insert"

\* o is the last offset below p with an entry about n.
Last(o, n, p) ==
  /\ o \in 0 .. p - 1 /\ About(o, n)
  /\ \A q \in o + 1 .. p - 1 : ~About(q, n)

\* No entry from offset lo on is about n, or inserts it.
Untouched(n, lo) == \A o \in lo .. nextOffset - 1 : ~About(o, n)
NotInserted(n, lo) == \A o \in lo .. nextOffset - 1 : ~(About(o, n) /\ IsInsert(o))

------------------------------------------------------------------------------
(* The invariant *)

Rowed(index) == DOMAIN index.rows
Live(index) == Rowed(index) \cup {n \in DOMAIN index.draft : index.draft[n] # Gone}

\* The ids of an index are below its allocator, those it shows are covered by
\* its high-water mark.
IndexOK(index) ==
  /\ index = [rows |-> index.rows, draft |-> index.draft,
              nextId |-> index.nextId, highWater |-> index.highWater]
  /\ index.nextId \in Nat /\ index.highWater \in Nat /\ index.highWater < index.nextId
  /\ Base <= index.highWater
  /\ Live(index) \subseteq NodeIds
  /\ \A n \in Rowed(index) : n <= index.highWater
  /\ \A n \in Live(index) : n < index.nextId

Effect(m) == IF m.kind = "insert" THEN m.row ELSE Gone

\* The index is as mutation m left it.
Shows(index, m) ==
  /\ m.node \in DOMAIN index.draft /\ index.draft[m.node] = Effect(m)
  /\ m.node \in Rowed(index) <=> m.kind = "insert"
  /\ m.kind = "insert" => index.rows[m.node] = m.row

ReplayTyped ==
  /\ op \in {NoOp} \cup [pc : {"stage", "publish"}, m : Mutations]
  /\ phase \in {"idle", "replaying", "done"}
  /\ from \in 0 .. nextOffset
  /\ IndexOK(primary) /\ IndexOK(standby)

\* The mutation the primary is executing is the last one in the log, and newer
\* than the standby.  A delete names a node that once existed.
OpOK ==
  op # NoOp =>
    /\ from < nextOffset /\ appended[nextOffset - 1] = op.m
    /\ op.m.kind = "delete" => op.m.node <= primary.highWater
    /\ op.pc = "publish" =>
         op.m.node \in DOMAIN primary.draft /\ primary.draft[op.m.node] = Effect(op.m)

\* Of the nodes no entry is about, an index shows what the bulk build wrote,
\* and it has nothing about them in its draft.
BuiltKept(index) ==
  \A n : Untouched(n, 0) =>
    /\ n \notin DOMAIN index.draft
    /\ n \in Rowed(index) <=> n \in 1 .. Base
    /\ n \in 1 .. Base => index.rows[n] = "built"

\* What clients were told is about nodes the primary's high-water mark covers.
TruthOK ==
  /\ \A n \in DOMAIN owed \cup gone : n \in NodeIds /\ n <= primary.highWater
  /\ BuiltKept(primary)

\* Nodes that exist for the primary, or once did.
Named == IF op # NoOp /\ op.m.kind = "delete" THEN {op.m.node} ELSE {}
Known == DOMAIN owed \cup gone \cup Live(primary) \cup Named

\* The last entry about a node says what clients were told of it.
HistoryOK ==
  /\ \A n \in DOMAIN owed :
       \/ Untouched(n, 0) /\ n \in 1 .. Base /\ owed[n] = "built"
       \/ \E o \in 0 .. nextOffset - 1 :
            Last(o, n, nextOffset) /\ IsInsert(o) /\ appended[o].row = owed[n]
  /\ \A n \in gone :
       \E o \in 0 .. nextOffset - 1 : Last(o, n, nextOffset) /\ ~IsInsert(o)
  /\ \A n \in Known : NotInserted(n, 0) => n \in 1 .. Base
  /\ \A o \in 0 .. nextOffset - 1 : IsInsert(o) => appended[o].node > Base

\* What the standby started from: the bulk build, and ids up to those of the
\* nodes no entry since `from` inserts.
BaseOK ==
  /\ BuiltKept(standby)
  /\ \A n \in Known : NotInserted(n, from) => n <= standby.highWater

\* The offset of the next entry to apply.
Position == IF phase = "idle" THEN from ELSE through - Len(pending)

\* What is left to apply is the log from there to where it ended when the
\* replay began.
PendingOK ==
  phase # "idle" =>
    /\ through \in Nat /\ through <= nextOffset
    /\ Position \in from .. through
    /\ pending = EntriesOf(appended, Position, through)
    /\ phase = "done" => pending = << >>

\* Of the others, it shows what the last entry applied says.
AppliedOK ==
  /\ \A o \in from .. Position - 1 :
       Last(o, appended[o].node, Position) => Shows(standby, appended[o])
  /\ \A o \in from .. Position - 1 : IsInsert(o) => appended[o].node <= standby.highWater

\* While the primary was never restarted, no id is logged twice, and the first
\* replay meets no insert of a row the standby has.
UniqueOK ==
  ~restarted =>
    /\ \A o \in 0 .. nextOffset - 1 : IsInsert(o) => appended[o].node < primary.nextId
    /\ \A o, q \in 0 .. nextOffset - 1 :
         o < q /\ IsInsert(o) /\ IsInsert(q) => appended[o].node # appended[q].node
    /\ fresh =>
         /\ \A n \in Live(standby) : n < primary.nextId
         /\ \A o \in Position .. nextOffset - 1 :
              IsInsert(o) => appended[o].node \notin Live(standby)

ReplayInv ==
  /\ LogInv /\ ReplayTyped /\ OpOK /\ TruthOK /\ HistoryOK
  /\ BaseOK /\ PendingOK /\ AppliedOK /\ UniqueOK

------------------------------------------------------------------------------
(* One index *)

\* What staging a mutation does to an index.
LEMMA StagedIndex ==
  ASSUME NEW index, IndexOK(index), NEW m \in Mutations
  PROVE  LET new == Staged(index, m)
         IN  /\ IndexOK(new)
             /\ new.rows = index.rows /\ new.highWater = index.highWater
             /\ new.nextId >= index.nextId
             /\ m.kind = "insert" => m.node < new.nextId
             /\ DOMAIN new.draft = DOMAIN index.draft \cup {m.node}
             /\ new.draft[m.node] = Effect(m)
             /\ \A n \in DOMAIN index.draft \ {m.node} : new.draft[n] = index.draft[n]
<1>m. /\ m.node \in NodeIds /\ m.node \in Nat
      /\ m.kind = "insert" \/ m.kind = "delete"
      /\ m.kind = "insert" => m.row \in Rows /\ m.row # Gone
  BY ReplayAssumption DEF Inserts, Deletes, NodeIds, Gone
<1> DEFINE draft == With(index.draft, m.node, Effect(m))
           nextId == IF m.kind = "insert" THEN Later(index.nextId, m.node + 1) ELSE index.nextId
           new == [rows |-> index.rows, draft |-> draft,
                   nextId |-> nextId, highWater |-> index.highWater]
<1>1. Staged(index, m) = new
  <2>1. index = [rows |-> index.rows, draft |-> index.draft,
                 nextId |-> index.nextId, highWater |-> index.highWater]
    BY DEF IndexOK
  <2>2. CASE m.kind = "insert"
    BY <2>1, <2>2 DEF Staged, Effect
  <2>3. CASE m.kind = "delete"
    BY <2>1, <2>3 DEF Staged, Effect
  <2> QED
    BY <1>m, <2>2, <2>3
<1>2. /\ DOMAIN draft = DOMAIN index.draft \cup {m.node}
      /\ draft[m.node] = Effect(m)
      /\ \A n \in DOMAIN index.draft \ {m.node} : draft[n] = index.draft[n]
  BY DEF With
<1>3. /\ nextId \in Nat /\ nextId >= index.nextId
      /\ m.kind = "insert" => m.node < nextId
  BY <1>m DEF IndexOK, Later
<1> HIDE DEF draft, nextId
<1>4. new.rows = index.rows /\ new.draft = draft /\ new.nextId = nextId
      /\ new.highWater = index.highWater
  OBVIOUS
<1>5. \A n \in Live(new) : n \in Live(index) \/ (n = m.node /\ m.kind = "insert")
  BY <1>2, <1>4, <1>m DEF Live, Rowed, Effect
<1>6. Live(index) \subseteq Nat
  BY DEF IndexOK, NodeIds
<1>7. IndexOK(new)
  <2>1. new = [rows |-> new.rows, draft |-> new.draft,
               nextId |-> new.nextId, highWater |-> new.highWater]
    BY <1>4
  <2>2. Live(new) \subseteq NodeIds
    BY <1>m, <1>5 DEF IndexOK
  <2>3. \A n \in Live(new) : n < new.nextId
    BY <1>m, <1>3, <1>4, <1>5, <1>6 DEF IndexOK
  <2>4. \A n \in Rowed(new) : n <= new.highWater
    BY <1>4 DEF IndexOK, Rowed
  <2>5. new.highWater \in Nat /\ new.highWater < new.nextId /\ Base <= new.highWater
    BY <1>3, <1>4 DEF IndexOK
  <2> HIDE DEF new
  <2> QED
    BY <1>3, <1>4, <2>1, <2>2, <2>3, <2>4, <2>5 DEF IndexOK
<1> QED
  BY <1>1, <1>2, <1>3, <1>4, <1>7

\* What publishing does: the draft goes over what the bulk build wrote.
LEMMA PublishedIndex ==
  ASSUME NEW index, IndexOK(index)
  PROVE  LET new == Published(index)
         IN  /\ IndexOK(new)
             /\ new.draft = index.draft /\ new.nextId = index.nextId
             /\ new.highWater >= index.highWater /\ new.highWater >= index.nextId - 1
             /\ \A n : n \in Rowed(new) <=>
                  \/ n \in DOMAIN index.draft /\ index.draft[n] # Gone
                  \/ n \in 1 .. Base /\ n \notin DOMAIN index.draft
             /\ \A n \in Rowed(new) :
                  new.rows[n] = IF n \in DOMAIN index.draft THEN index.draft[n] ELSE "built"
             /\ Live(new) \subseteq Live(index) \cup 1 .. Base
<1> DEFINE rows == Overlaid(BuiltRows, index.draft)
           highWater == Later(index.highWater, index.nextId - 1)
           new == [rows |-> rows, draft |-> index.draft,
                   nextId |-> index.nextId, highWater |-> highWater]
<1>1. Published(index) = new
  <2>1. index = [rows |-> index.rows, draft |-> index.draft,
                 nextId |-> index.nextId, highWater |-> index.highWater]
    BY DEF IndexOK
  <2>2. Published(index) = [index EXCEPT !.rows = rows, !.highWater = highWater]
    BY DEF Published
  <2> HIDE DEF rows, highWater
  <2> QED
    BY <2>1, <2>2
<1>2. /\ \A n : n \in DOMAIN rows <=>
           \/ n \in DOMAIN index.draft /\ index.draft[n] # Gone
           \/ n \in 1 .. Base /\ n \notin DOMAIN index.draft
      /\ \A n \in DOMAIN rows :
           rows[n] = IF n \in DOMAIN index.draft THEN index.draft[n] ELSE "built"
  BY DEF Overlaid, BuiltRows
<1>3. /\ highWater \in Nat /\ highWater < index.nextId
      /\ highWater >= index.highWater /\ highWater >= index.nextId - 1
  BY DEF IndexOK, Later
<1>b. /\ Base \in Nat /\ Base <= highWater /\ Base < index.nextId
      /\ 1 .. Base \subseteq NodeIds
  BY <1>3, ReplayAssumption DEF IndexOK, NodeIds
<1> HIDE DEF rows, highWater
<1>4. new.rows = rows /\ new.draft = index.draft /\ new.nextId = index.nextId
      /\ new.highWater = highWater
  OBVIOUS
<1>5. Live(new) \subseteq Live(index) \cup 1 .. Base
  BY <1>2, <1>4 DEF Live, Rowed
<1>6. Rowed(new) \subseteq Live(new) /\ Live(index) \subseteq Nat
  BY DEF IndexOK, NodeIds, Live
<1>7. IndexOK(new)
  <2>1. new = [rows |-> new.rows, draft |-> new.draft,
               nextId |-> new.nextId, highWater |-> new.highWater]
    BY <1>4
  <2> HIDE DEF new
  <2>2. index.nextId \in Nat /\ index.highWater \in Nat
    BY DEF IndexOK
  <2>3. Live(new) \subseteq NodeIds
    BY <1>5, <1>b DEF IndexOK
  <2>4. \A n \in Live(new) : n \in Nat /\ n < new.nextId
    <3> TAKE n \in Live(new)
    <3>1. CASE n \in Live(index)
      BY <1>4, <1>6, <3>1 DEF IndexOK
    <3>2. CASE n \in 1 .. Base
      BY <1>4, <1>b, <2>2, <3>2
    <3> QED
      BY <1>5, <3>1, <3>2
  <2>5. \A n \in Rowed(new) : n <= new.highWater
    BY <1>3, <1>4, <1>6, <2>2, <2>4
  <2> QED
    BY <1>3, <1>4, <1>b, <2>1, <2>2, <2>3, <2>4, <2>5 DEF IndexOK
<1> QED
  BY <1>1, <1>2, <1>3, <1>4, <1>5, <1>7 DEF Rowed

\* What a bulk build leaves.
LEMMA BuiltIndex ==
  /\ IndexOK(Built)
  /\ Built.draft = EmptyFn /\ Built.highWater = Base
  /\ Rowed(Built) = 1 .. Base /\ Live(Built) = 1 .. Base
  /\ \A n \in 1 .. Base : Built.rows[n] = "built"
<1>1. Base \in Nat /\ MaxId \in Nat /\ Base <= MaxId
  BY ReplayAssumption
<1>2. DOMAIN EmptyFn = {}
  BY DEF EmptyFn
<1>3. Rowed(Built) = 1 .. Base /\ Live(Built) = 1 .. Base
  BY <1>2 DEF Built, BuiltRows, Rowed, Live
<1>4. IndexOK(Built)
  BY <1>1, <1>3 DEF IndexOK, Built, NodeIds
<1> QED
  BY <1>3, <1>4 DEF Built, BuiltRows

\* It has what it wrote.
LEMMA BuiltHasBuilt == BuiltKept(Built)
<1>1. DOMAIN Built.draft = {}
  BY BuiltIndex DEF EmptyFn
<1> QED
  BY <1>1, BuiltIndex DEF BuiltKept

\* What reopening the storage leaves.
LEMMA ReopenedIndex ==
  ASSUME NEW index, IndexOK(index)
  PROVE  LET new == Reopened(index)
         IN  /\ IndexOK(new)
             /\ new.draft = EmptyFn /\ new.highWater = index.highWater
             /\ new.rows = index.rows /\ Live(new) = Rowed(index)
<1>1. DOMAIN EmptyFn = {}
  BY DEF EmptyFn
<1> DEFINE nextId == index.highWater + 1
           new == [rows |-> index.rows, draft |-> EmptyFn,
                   nextId |-> nextId, highWater |-> index.highWater]
<1>2. Reopened(index) = new
  <2>1. index = [rows |-> index.rows, draft |-> index.draft,
                 nextId |-> index.nextId, highWater |-> index.highWater]
    BY DEF IndexOK
  <2>2. Reopened(index) = [index EXCEPT !.draft = EmptyFn, !.nextId = nextId]
    BY DEF Reopened
  <2> HIDE DEF nextId
  <2> QED
    BY <2>1, <2>2
<1>3. new.rows = index.rows /\ new.draft = EmptyFn
      /\ new.nextId = index.highWater + 1 /\ new.highWater = index.highWater
  OBVIOUS
<1> HIDE DEF new
<1>4. Live(new) = Rowed(index) /\ Rowed(new) = Rowed(index)
  BY <1>1, <1>3 DEF Live, Rowed
<1>5. Rowed(index) \subseteq NodeIds /\ Rowed(index) \subseteq Nat
  BY DEF IndexOK, Live, NodeIds
<1>6. IndexOK(new)
  <2>1. new = [rows |-> new.rows, draft |-> new.draft,
               nextId |-> new.nextId, highWater |-> new.highWater]
    BY DEF new
  <2> QED
    BY <2>1, <1>3, <1>4, <1>5 DEF IndexOK
<1> QED
  BY <1>2, <1>3, <1>4, <1>6

------------------------------------------------------------------------------
(* The log grows *)

\* The mutation just appended is the last one; the others stay.
LEMMA AppendedLast ==
  ASSUME LogInv, NEW m \in Mutations, AppendMutation(m)
  PROVE  /\ LogInv'
         /\ nextOffset \in Nat /\ nextOffset' = nextOffset + 1
         /\ appended'[nextOffset] = m
         /\ \A o \in 0 .. nextOffset - 1 : appended'[o] = appended[o]
<1>1. nextOffset \in Nat /\ appended \in [0 .. nextOffset - 1 -> Mutations]
  BY DEF LogInv, LogTypeOK
<1>2. [LogNext]_logVars
  BY DEF LogNext
<1>3. LogInv'
  BY <1>2, LogInvNext
<1> QED
  BY <1>1, <1>3 DEF AppendMutation

\* What that means for the entries about a node.
LEMMA AppendHistory ==
  ASSUME LogInv, NEW m \in Mutations, AppendMutation(m), NEW n
  PROVE  /\ \A lo \in 0 .. nextOffset :
              /\ Untouched(n, lo)' => Untouched(n, lo)
              /\ NotInserted(n, lo)' => NotInserted(n, lo)
              /\ Untouched(n, lo) /\ m.node # n => Untouched(n, lo)'
         /\ \A o \in 0 .. nextOffset - 1 : IsInsert(o)' <=> IsInsert(o)
         /\ \A p \in 0 .. nextOffset, o \in 0 .. nextOffset : Last(o, n, p)' <=> Last(o, n, p)
         /\ \A o \in 0 .. nextOffset - 1 :
              Last(o, n, nextOffset) /\ m.node # n => Last(o, n, nextOffset)'
         /\ \A k : k = nextOffset => Last(k, m.node, nextOffset)'
<1>1. /\ nextOffset \in Nat /\ nextOffset' = nextOffset + 1
      /\ appended'[nextOffset] = m
      /\ \A o \in 0 .. nextOffset - 1 : appended'[o] = appended[o]
  BY AppendedLast
<1> DEFINE next == nextOffset
           next1 == nextOffset'
<1>2. \A o \in 0 .. next - 1 : IsInsert(o)' <=> IsInsert(o)
  BY <1>1 DEF IsInsert
<1>3. \A o \in 0 .. next - 1 : About(o, n)' <=> About(o, n)
  BY <1>1 DEF About
<1>4. \A k : k = nextOffset => (About(k, n)' <=> m.node = n)
  BY <1>1 DEF About
<1>5. \A o \in 0 .. next1 - 1 : o \in 0 .. next - 1 \/ o = next
  BY <1>1
<1>6. \A o \in 0 .. next - 1 : o \in 0 .. next1 - 1
  BY <1>1
<1>7. ASSUME NEW lo \in 0 .. nextOffset
      PROVE  /\ Untouched(n, lo)' => Untouched(n, lo)
             /\ NotInserted(n, lo)' => NotInserted(n, lo)
             /\ Untouched(n, lo) /\ m.node # n => Untouched(n, lo)'
  <2>1. \A o \in lo .. next - 1 : o \in 0 .. next - 1 /\ o \in lo .. next1 - 1
    BY <1>1
  <2>2. \A o \in lo .. next1 - 1 : o \in lo .. next - 1 \/ o = next
    BY <1>1
  <2> QED
    BY <1>2, <1>3, <1>4, <2>1, <2>2 DEF Untouched, NotInserted
<1>8. ASSUME NEW p \in 0 .. nextOffset, NEW o \in 0 .. nextOffset
      PROVE  Last(o, n, p)' <=> Last(o, n, p)
  <2>1. \A q \in o + 1 .. p - 1 : q \in 0 .. next - 1
    BY <1>1
  <2>2. o \in 0 .. p - 1 => o \in 0 .. next - 1
    BY <1>1
  <2> QED
    BY <1>3, <2>1, <2>2 DEF Last
<1>9. ASSUME NEW o \in 0 .. nextOffset - 1, Last(o, n, nextOffset), m.node # n
      PROVE  Last(o, n, nextOffset)'
  <2>1. \A q \in o + 1 .. next1 - 1 : q \in o + 1 .. next - 1 \/ q = next
    BY <1>1
  <2>2. \A q \in o + 1 .. next - 1 : q \in 0 .. next - 1
    BY <1>1
  <2> QED
    BY <1>3, <1>4, <1>6, <1>9, <2>1, <2>2 DEF Last
<1>10. ASSUME NEW k, k = nextOffset
       PROVE  Last(k, m.node, nextOffset)'
  <2>1. k \in 0 .. next1 - 1 /\ k + 1 .. next1 - 1 = {}
    BY <1>1, <1>10
  <2>2. About(k, m.node)'
    BY <1>1, <1>10 DEF About
  <2> QED
    BY <2>1, <2>2 DEF Last
<1> QED
  BY <1>2, <1>7, <1>8, <1>9, <1>10

\* A node some entry from lo on is about has its last entry there.
LEMMA LastSince ==
  ASSUME NEW n, NEW lo \in Nat, NEW o, nextOffset \in Nat,
         Last(o, n, nextOffset), ~Untouched(n, lo)
  PROVE  o >= lo
<1>1. PICK q \in lo .. nextOffset - 1 : About(q, n)
  BY DEF Untouched
<1>2. o \in 0 .. nextOffset - 1 /\ q \notin o + 1 .. nextOffset - 1
  BY <1>1 DEF Last
<1> QED
  BY <1>1, <1>2

------------------------------------------------------------------------------
(* The replay *)

LEMMA PositionTyped ==
  ASSUME LogInv, ReplayTyped, PendingOK
  PROVE  /\ nextOffset \in Nat /\ from \in 0 .. nextOffset
         /\ Position \in from .. nextOffset
         /\ \A o \in 0 .. nextOffset - 1 : appended[o] \in Mutations
<1>1. nextOffset \in Nat /\ \A o \in 0 .. nextOffset - 1 : appended[o] \in Mutations
  BY DEF LogInv, LogTypeOK
<1>2. CASE phase = "idle"
  BY <1>1, <1>2 DEF ReplayTyped, Position
<1>3. CASE phase # "idle"
  BY <1>1, <1>3 DEF ReplayTyped, PendingOK
<1> QED
  BY <1>1, <1>2, <1>3 DEF ReplayTyped

\* The entry applied next, and what is left after it.
LEMMA NextPending ==
  ASSUME LogInv, ReplayTyped, PendingOK, phase = "replaying", pending # << >>
  PROVE  /\ Position \in from .. through - 1 /\ through \in 0 .. nextOffset
         /\ Head(pending).mutation = appended[Position]
         /\ appended[Position] \in Mutations
         /\ Tail(pending) = EntriesOf(appended, Position + 1, through)
         /\ Len(Tail(pending)) = through - (Position + 1)
<1> DEFINE p == Position
<1>1. /\ nextOffset \in Nat /\ from \in Nat
      /\ through \in Nat /\ through <= nextOffset /\ p \in from .. through
      /\ pending = EntriesOf(appended, p, through)
      /\ \A o \in 0 .. nextOffset - 1 : appended[o] \in Mutations
  BY PositionTyped DEF PendingOK
<1> HIDE DEF p
<1>2. pending \in Seq(Entry) /\ Len(pending) = through - p
  <2>1. p \in Nat /\ p <= through /\ \A o \in p .. through - 1 : appended[o] \in Mutations
    BY <1>1
  <2> QED
    BY <1>1, <2>1, EntriesOfIsSeq
<1>3. p \in from .. through - 1
  BY <1>1, <1>2
<1>4. Head(pending).mutation = appended[p]
  <2>1. Head(pending) = pending[1] /\ 1 \in 1 .. through - p
    BY <1>1, <1>2, <1>3
  <2>2. pending[1] = [offset |-> p + 1 - 1, mutation |-> appended[p + 1 - 1]]
    BY <1>1, <2>1 DEF EntriesOf
  <2>3. p + 1 - 1 = p
    BY <1>1
  <2> QED
    BY <2>1, <2>2, <2>3
<1>5. Tail(pending) = EntriesOf(appended, p + 1, through)
  <2> DEFINE rest == EntriesOf(appended, p + 1, through)
             length == through - (p + 1)
  <2>1. length \in Nat /\ Len(pending) = length + 1
    BY <1>1, <1>2, <1>3
  <2>2. Tail(pending) = [i \in 1 .. length |-> pending[i + 1]]
    <3> DEFINE tail == Tail(pending)
    <3> HIDE DEF length
    <3>1. /\ tail \in Seq(Entry) /\ Len(tail) = length
          /\ \A i \in 1 .. length : tail[i] = pending[i + 1]
      BY <1>2, <2>1
    <3> HIDE DEF tail
    <3>2. tail \in [1 .. length -> Entry]
      BY <2>1, <3>1
    <3>3. tail = [i \in 1 .. length |-> tail[i]]
      BY <3>2
    <3> QED
      BY <3>1, <3>3 DEF tail
  <2>3. rest = [i \in 1 .. length |->
                  [offset |-> p + 1 + i - 1, mutation |-> appended[p + 1 + i - 1]]]
    BY DEF EntriesOf
  <2>4. \A i \in 1 .. length :
          pending[i + 1] = [offset |-> p + 1 + i - 1, mutation |-> appended[p + 1 + i - 1]]
    <3> TAKE i \in 1 .. length
    <3>1. i + 1 \in 1 .. through - p /\ p + (i + 1) - 1 = p + 1 + i - 1
      BY <1>1
    <3> QED
      BY <1>1, <3>1 DEF EntriesOf
  <2> HIDE DEF rest, length
  <2> QED
    BY <2>2, <2>3, <2>4 DEF rest
<1>6. Len(Tail(pending)) = through - (p + 1)
  BY <1>1, <1>2, <1>3
<1>7. appended[p] \in Mutations
  BY <1>1, <1>3
<1> QED
  BY <1>1, <1>3, <1>4, <1>5, <1>6, <1>7 DEF p

\* Appending leaves the standby, what it has applied and what it has still to
\* apply alone, and tells nothing new of the nodes clients know.
LEMMA AppendStep ==
  ASSUME ReplayInv, NEW m \in Mutations, AppendMutation(m), UNCHANGED standbyVars,
         \A n \in DOMAIN owed' : n \in DOMAIN owed /\ owed'[n] = owed[n] /\ n # m.node,
         gone' = gone, \A n \in gone : n = m.node => m.kind = "delete",
         m.kind = "insert" => m.node > Base,
         Known' \subseteq Known
  PROVE  /\ HistoryOK' /\ BaseOK' /\ PendingOK' /\ AppliedOK'
         /\ \A n : Untouched(n, 0)' => Untouched(n, 0)
<1>1. /\ LogInv /\ ReplayTyped /\ HistoryOK /\ BaseOK /\ PendingOK /\ AppliedOK
      /\ nextOffset \in Nat /\ nextOffset' = nextOffset + 1
      /\ appended'[nextOffset] = m
      /\ \A o \in 0 .. nextOffset - 1 : appended'[o] = appended[o]
  BY AppendedLast DEF ReplayInv
<1>2. /\ from \in 0 .. nextOffset /\ Position \in from .. nextOffset
      /\ \A o \in 0 .. nextOffset - 1 : appended[o] \in Mutations
  BY <1>1, PositionTyped
<1>3. standby' = standby /\ from' = from /\ Position' = Position
      /\ phase' = phase /\ pending' = pending /\ through' = through
  BY DEF standbyVars, Position
<1>4. 0 \in 0 .. nextOffset /\ m.kind \in {"insert", "delete"}
  BY <1>1, ReplayAssumption DEF Inserts, Deletes
<1>5. PICK f : f = from
  OBVIOUS
<1>6. \A n : /\ Untouched(n, 0)' => Untouched(n, 0)
             /\ NotInserted(n, 0)' => NotInserted(n, 0)
             /\ Untouched(n, f)' => Untouched(n, f)
             /\ NotInserted(n, f)' => NotInserted(n, f)
             /\ Untouched(n, 0) /\ m.node # n => Untouched(n, 0)'
  <2> TAKE n
  <2> QED
    BY <1>1, <1>2, <1>4, <1>5, AppendHistory
<1>7. \A o \in 0 .. nextOffset - 1 : IsInsert(o)' <=> IsInsert(o)
  BY <1>1, AppendHistory
<1>8. \A n : \A o \in 0 .. nextOffset - 1 :
        Last(o, n, nextOffset) /\ m.node # n => Last(o, n, nextOffset)'
  BY <1>1, AppendHistory
<1>9. \A k : k = nextOffset => Last(k, m.node, nextOffset)' /\ (IsInsert(k)' <=> m.kind = "insert")
  BY <1>1, AppendHistory DEF IsInsert
<1>10. HistoryOK'
  <2>1. ASSUME NEW n \in DOMAIN owed'
        PROVE  \/ Untouched(n, 0)' /\ n \in 1 .. Base /\ owed'[n] = "built"
               \/ \E o \in 0 .. nextOffset' - 1 :
                    Last(o, n, nextOffset)' /\ IsInsert(o)' /\ appended'[o].row = owed'[n]
    <3>1. n \in DOMAIN owed /\ owed'[n] = owed[n] /\ n # m.node
      OBVIOUS
    <3>2. CASE Untouched(n, 0) /\ n \in 1 .. Base /\ owed[n] = "built"
      BY <1>6, <3>1, <3>2
    <3>3. ASSUME NEW o \in 0 .. nextOffset - 1,
                 Last(o, n, nextOffset), IsInsert(o), appended[o].row = owed[n]
          PROVE  \E q \in 0 .. nextOffset' - 1 :
                   Last(q, n, nextOffset)' /\ IsInsert(q)' /\ appended'[q].row = owed'[n]
      <4>1. o \in 0 .. nextOffset' - 1
        BY <1>1
      <4> QED
        BY <1>1, <1>7, <1>8, <3>1, <3>3, <4>1
    <3> QED
      BY <1>1, <3>1, <3>2, <3>3 DEF HistoryOK
  <2>2. ASSUME NEW n \in gone'
        PROVE  \E o \in 0 .. nextOffset' - 1 : Last(o, n, nextOffset)' /\ ~IsInsert(o)'
    <3>1. CASE n = m.node
      <4>1. PICK k : k = nextOffset
        OBVIOUS
      <4>2. k \in 0 .. nextOffset' - 1 /\ m.kind # "insert"
        BY <1>1, <3>1, <4>1
      <4> QED
        BY <1>9, <3>1, <4>1, <4>2
    <3>2. CASE n # m.node
      <4>1. PICK o \in 0 .. nextOffset - 1 : Last(o, n, nextOffset) /\ ~IsInsert(o)
        BY <1>1 DEF HistoryOK
      <4>2. o \in 0 .. nextOffset' - 1
        BY <1>1
      <4> QED
        BY <1>7, <1>8, <3>2, <4>1, <4>2
    <3> QED
      BY <3>1, <3>2
  <2>3. \A n \in Known' : NotInserted(n, 0)' => n \in 1 .. Base
    BY <1>1, <1>6 DEF HistoryOK
  <2>4. ASSUME NEW o \in 0 .. nextOffset' - 1, IsInsert(o)'
        PROVE  appended'[o].node > Base
    <3>1. CASE o \in 0 .. nextOffset - 1
      BY <1>1, <1>7, <2>4, <3>1 DEF HistoryOK
    <3>2. CASE o = nextOffset
      BY <1>1, <1>9, <2>4, <3>2
    <3> QED
      BY <1>1, <3>1, <3>2
  <2> QED
    BY <2>1, <2>2, <2>3, <2>4 DEF HistoryOK
<1>11. BaseOK'
  <2>1. \A n : /\ Untouched(n, from)' => Untouched(n, from)
               /\ NotInserted(n, from)' => NotInserted(n, from)
    BY <1>3, <1>5, <1>6 DEF Untouched, NotInserted
  <2> QED
    BY <1>1, <1>3, <1>6, <2>1 DEF BaseOK, BuiltKept, Rowed
<1>12. PendingOK'
  <2> SUFFICES ASSUME phase # "idle"
               PROVE  /\ through \in Nat /\ through <= nextOffset'
                      /\ Position \in from .. through
                      /\ pending = EntriesOf(appended', Position, through)
                      /\ phase = "done" => pending = << >>
    BY <1>3 DEF PendingOK
  <2>1. /\ through \in Nat /\ through <= nextOffset /\ Position \in from .. through
        /\ pending = EntriesOf(appended, Position, through)
        /\ phase = "done" => pending = << >>
    BY <1>1 DEF PendingOK
  <2>2. \A i \in 1 .. through - Position : appended'[Position + i - 1] = appended[Position + i - 1]
    BY <1>1, <1>2, <2>1
  <2>3. EntriesOf(appended', Position, through) = EntriesOf(appended, Position, through)
    BY <2>2 DEF EntriesOf
  <2> QED
    BY <1>1, <2>1, <2>3
<1>13. AppliedOK'
  <2>1. PICK p : p = Position
    OBVIOUS
  <2>2. p \in 0 .. nextOffset
    BY <1>1, <1>2, <2>1
  <2>3. ASSUME NEW o \in from .. p - 1
        PROVE  /\ Last(o, appended[o].node, p)' => Shows(standby, appended'[o])
               /\ IsInsert(o)' => appended'[o].node <= standby.highWater
    <3>1. o \in 0 .. nextOffset - 1 /\ o \in 0 .. nextOffset
      BY <1>1, <1>2, <2>2
    <3>2. appended'[o] = appended[o]
      BY <1>1, <3>1
    <3>3. PICK n : n = appended[o].node
      OBVIOUS
    <3>4. Last(o, n, p)' <=> Last(o, n, p)
      BY <1>1, <2>2, <3>1, AppendHistory
    <3>5. Last(o, appended[o].node, p)' => Last(o, n, p)'
      BY <3>2, <3>3 DEF Last, About
    <3> QED
      BY <1>1, <1>7, <2>1, <3>1, <3>2, <3>3, <3>4, <3>5 DEF AppliedOK
  <2>4. \A o : Last(o, appended[o].node, Position)' => Last(o, appended[o].node, p)'
    BY <1>3, <2>1 DEF Last, About
  <2>5. /\ \A o \in from .. Position' - 1 :
             Last(o, appended[o].node, Position)' => Shows(standby, appended'[o])
        /\ \A o \in from .. Position' - 1 : IsInsert(o)' => appended'[o].node <= standby.highWater
    BY <1>3, <2>1, <2>3, <2>4
  <2> QED
    BY <1>3, <2>5 DEF AppliedOK, Shows, Rowed
<1> QED
  BY <1>6, <1>10, <1>11, <1>12, <1>13

\* A step of the primary alone: what it acknowledges is what the last entry
\* says, and ids are never given back before a restart.
LEMMA PrimaryStep ==
  ASSUME ReplayInv, UNCHANGED <<logVars, standbyVars>>,
         \A n \in DOMAIN owed' :
           \/ n \in DOMAIN owed /\ owed'[n] = owed[n]
           \/ op # NoOp /\ op.m.kind = "insert" /\ n = op.m.node /\ owed'[n] = op.m.row,
         \A n \in gone' :
           n \in gone \/ (op # NoOp /\ op.m.kind # "insert" /\ n = op.m.node),
         \A n \in Known' :
           \/ n \in Known \/ n \in 1 .. Base
           \/ op # NoOp /\ op.m.kind = "insert" /\ n = op.m.node,
         restarted' \/ (restarted' = restarted /\ primary'.nextId >= primary.nextId),
         primary'.nextId \in Nat
  PROVE  LogInv' /\ HistoryOK' /\ BaseOK' /\ PendingOK' /\ AppliedOK' /\ UniqueOK'
<1>1. /\ LogInv /\ ReplayTyped /\ HistoryOK /\ BaseOK /\ PendingOK /\ AppliedOK /\ UniqueOK /\ OpOK
  BY DEF ReplayInv
<1>2. /\ nextOffset \in Nat /\ from \in 0 .. nextOffset /\ Position \in from .. nextOffset
      /\ \A o \in 0 .. nextOffset - 1 : appended[o] \in Mutations
  BY <1>1, PositionTyped
<1>3. /\ appended' = appended /\ nextOffset' = nextOffset
      /\ standby' = standby /\ from' = from /\ Position' = Position /\ fresh' = fresh
      /\ phase' = phase /\ pending' = pending /\ through' = through
  BY DEF standbyVars, logVars, Position
<1>4. \A n, lo : /\ Untouched(n, lo)' <=> Untouched(n, lo)
                 /\ NotInserted(n, lo)' <=> NotInserted(n, lo)
  BY <1>3 DEF Untouched, NotInserted, About, IsInsert
<1>5. \A n : /\ Untouched(n, from)' <=> Untouched(n, from)
             /\ NotInserted(n, from)' <=> NotInserted(n, from)
  BY <1>3 DEF Untouched, NotInserted, About, IsInsert
<1>6. \A o, n : /\ IsInsert(o)' <=> IsInsert(o)
                /\ Last(o, n, nextOffset)' <=> Last(o, n, nextOffset)
                /\ Last(o, appended[o].node, Position)' <=> Last(o, appended[o].node, Position)
  BY <1>3 DEF Last, About, IsInsert
<1> DEFINE top == nextOffset - 1
<1>7. ASSUME op # NoOp
      PROVE  /\ top \in from .. nextOffset - 1 /\ top \in 0 .. nextOffset - 1
             /\ appended[top] = op.m
             /\ Last(top, op.m.node, nextOffset)
             /\ IsInsert(top) <=> op.m.kind = "insert"
             /\ ~Untouched(op.m.node, from) /\ ~Untouched(op.m.node, 0)
             /\ op.m.kind = "insert" =>
                  ~NotInserted(op.m.node, from) /\ ~NotInserted(op.m.node, 0)
  <2>1. /\ top \in from .. nextOffset - 1 /\ top \in 0 .. nextOffset - 1
        /\ appended[top] = op.m
    BY <1>1, <1>2, <1>7 DEF OpOK
  <2>2. About(top, op.m.node) /\ (IsInsert(top) <=> op.m.kind = "insert")
    BY <2>1 DEF About, IsInsert
  <2>3. top + 1 .. nextOffset - 1 = {}
    BY <1>2
  <2> HIDE DEF top
  <2> QED
    BY <2>1, <2>2, <2>3 DEF Last, Untouched, NotInserted
<1> HIDE DEF top
<1>8. LogInv'
  BY <1>1, LogInvNext
<1>9. HistoryOK'
  <2>1. ASSUME NEW n \in DOMAIN owed'
        PROVE  \/ Untouched(n, 0)' /\ n \in 1 .. Base /\ owed'[n] = "built"
               \/ \E o \in 0 .. nextOffset' - 1 :
                    Last(o, n, nextOffset)' /\ IsInsert(o)' /\ appended'[o].row = owed'[n]
    <3>1. CASE n \in DOMAIN owed /\ owed'[n] = owed[n]
      BY <1>1, <1>3, <1>4, <1>6, <3>1 DEF HistoryOK
    <3>2. CASE op # NoOp /\ op.m.kind = "insert" /\ n = op.m.node /\ owed'[n] = op.m.row
      BY <1>3, <1>6, <1>7, <3>2
    <3> QED
      BY <3>1, <3>2
  <2>2. ASSUME NEW n \in gone'
        PROVE  \E o \in 0 .. nextOffset' - 1 : Last(o, n, nextOffset)' /\ ~IsInsert(o)'
    BY <1>1, <1>3, <1>6, <1>7 DEF HistoryOK
  <2>3. \A n \in Known' : NotInserted(n, 0)' => n \in 1 .. Base
    BY <1>1, <1>4, <1>7 DEF HistoryOK
  <2>4. \A o \in 0 .. nextOffset' - 1 : IsInsert(o)' => appended'[o].node > Base
    BY <1>1, <1>3, <1>6 DEF HistoryOK
  <2> QED
    BY <2>1, <2>2, <2>3, <2>4 DEF HistoryOK
<1>10. BaseOK'
  <2>1. BuiltKept(standby)'
    BY <1>1, <1>3, <1>4 DEF BaseOK, BuiltKept, Rowed
  <2>2. \A n \in 1 .. Base : n <= standby.highWater
    BY <1>1, ReplayAssumption DEF ReplayTyped, IndexOK
  <2>3. \A n \in Known' : NotInserted(n, from)' => n <= standby'.highWater
    BY <1>1, <1>3, <1>5, <1>7, <2>2 DEF BaseOK
  <2> QED
    BY <2>1, <2>3 DEF BaseOK
<1>11. PendingOK'
  BY <1>1, <1>3 DEF PendingOK
<1>12. AppliedOK'
  BY <1>1, <1>3, <1>6 DEF AppliedOK, Shows, Rowed
<1>13. UniqueOK'
  <2> SUFFICES ASSUME ~restarted'
               PROVE  UniqueOK'
    BY DEF UniqueOK
  <2>1. ~restarted /\ primary'.nextId >= primary.nextId /\ primary.nextId \in Nat
    BY <1>1 DEF ReplayTyped, IndexOK
  <2>2. \A o \in 0 .. nextOffset - 1 : appended[o].node \in Nat
    BY <1>2, ReplayAssumption DEF Inserts, Deletes, NodeIds
  <2>3. \A o \in 0 .. nextOffset - 1 : IsInsert(o) => appended[o].node < primary'.nextId
    BY <1>1, <2>1, <2>2 DEF UniqueOK
  <2>4. fresh => \A n \in Live(standby) : n < primary'.nextId
    <3>1. Live(standby) \subseteq Nat
      BY <1>1 DEF ReplayTyped, IndexOK, NodeIds
    <3> QED
      BY <1>1, <2>1, <3>1 DEF UniqueOK
  <2> QED
    BY <1>1, <1>3, <1>6, <2>1, <2>3, <2>4 DEF UniqueOK, Live, Rowed
<1> QED
  BY <1>8, <1>9, <1>10, <1>11, <1>12, <1>13

\* While nothing is appended, an index with the same rows keeps the built ones
\* if its draft has no more than it had.
LEMMA BuiltStays ==
  ASSUME appended' = appended, nextOffset' = nextOffset, BuiltKept(primary),
         primary'.rows = primary.rows,
         DOMAIN primary'.draft \subseteq DOMAIN primary.draft
  PROVE  BuiltKept(primary)'
BY DEF BuiltKept, Rowed, Untouched, About

------------------------------------------------------------------------------
(* The steps of the primary *)

\* What clients were told of are nodes of the index, covered by its high-water
\* mark.
LEMMA KnownNodes ==
  ASSUME ReplayInv
  PROVE  \A n \in DOMAIN owed \cup DOMAIN primary.rows \cup gone :
           n \in NodeIds /\ n \in Nat /\ n <= primary.highWater
<1>1. ReplayTyped /\ TruthOK
  BY DEF ReplayInv
<1> QED
  BY <1>1 DEF ReplayTyped, TruthOK, IndexOK, Live, Rowed, NodeIds

LEMMA LogInsertStep ==
  ASSUME ReplayInv, NEW row \in Rows, LogInsert(row)
  PROVE  ReplayInv'
<1> DEFINE node == primary.nextId
           m == [kind |-> "insert", node |-> node, row |-> row]
<1>1. /\ LogInv /\ ReplayTyped /\ OpOK /\ TruthOK /\ UniqueOK
      /\ IndexOK(primary) /\ Base <= primary.highWater /\ IndexOK(standby)
  BY DEF ReplayInv, ReplayTyped, IndexOK
<1>2. /\ primary.nextId \in Nat /\ primary.highWater \in Nat
      /\ primary.highWater < primary.nextId /\ primary.nextId <= MaxId
      /\ Base \in Nat /\ MaxId \in Nat
  BY <1>1, ReplayAssumption DEF LogInsert, IndexOK
<1>3. node \in NodeIds /\ node \in Nat
  BY <1>2 DEF NodeIds
<1>4. m \in Mutations
  BY <1>3, ReplayAssumption DEF Inserts
<1>5. /\ AppendMutation(m) /\ op' = [pc |-> "stage", m |-> m]
      /\ primary' = [primary EXCEPT !.nextId = @ + 1]
      /\ UNCHANGED standbyVars /\ owed' = owed /\ gone' = gone /\ restarted' = restarted
  BY DEF LogInsert
<1>6. /\ primary'.rows = primary.rows /\ primary'.draft = primary.draft
      /\ primary'.highWater = primary.highWater /\ primary'.nextId = primary.nextId + 1
      /\ primary' = [rows |-> primary'.rows, draft |-> primary'.draft,
                     nextId |-> primary'.nextId, highWater |-> primary'.highWater]
  <2>1. primary = [rows |-> primary.rows, draft |-> primary.draft,
                   nextId |-> primary.nextId, highWater |-> primary.highWater]
    BY <1>1 DEF IndexOK
  <2> QED
    BY <1>5, <2>1
<1>7. Rowed(primary') = Rowed(primary) /\ Live(primary') = Live(primary)
  BY <1>6 DEF Rowed, Live
<1>8. IndexOK(primary')
  <2>1. /\ Live(primary) \subseteq NodeIds /\ Live(primary) \subseteq Nat
        /\ \A n \in Live(primary) : n < primary.nextId
        /\ \A n \in Rowed(primary) : n <= primary.highWater
        /\ Base <= primary.highWater
    BY <1>1 DEF IndexOK, NodeIds
  <2> QED
    BY <1>2, <1>6, <1>7, <2>1 DEF IndexOK
<1>9. \A n \in DOMAIN owed \cup gone : n # node
  BY <1>2, KnownNodes
<1>10. Known' \subseteq Known
  <2>1. Named' = {}
    BY <1>5 DEF Named
  <2>2. Live(primary)' = Live(primary)
    BY <1>6 DEF Live, Rowed
  <2> QED
    BY <1>5, <2>1, <2>2 DEF Known
<1>l. /\ LogInv'
      /\ nextOffset \in Nat /\ nextOffset' = nextOffset + 1
      /\ appended'[nextOffset] = m
      /\ \A o \in 0 .. nextOffset - 1 : appended'[o] = appended[o]
  BY <1>1, <1>4, <1>5, AppendedLast
<1>p. /\ from \in 0 .. nextOffset /\ Position \in from .. nextOffset
      /\ \A o \in 0 .. nextOffset - 1 : appended[o] \in Mutations
  <2>1. PendingOK
    BY DEF ReplayInv
  <2> QED
    BY <1>1, <2>1, PositionTyped
<1> HIDE DEF m
<1>m. m.kind = "insert" /\ m.node = node /\ m.row = row
  BY DEF m
<1>11. /\ HistoryOK' /\ BaseOK' /\ PendingOK' /\ AppliedOK'
       /\ \A n : Untouched(n, 0)' => Untouched(n, 0)
  BY <1>2, <1>4, <1>5, <1>9, <1>10, <1>m, <1>1, AppendStep
<1>12. ReplayTyped'
  <2>1. op' \in {NoOp} \cup [pc : {"stage", "publish"}, m : Mutations]
    BY <1>4, <1>5
  <2>2. phase' = phase /\ from' = from /\ standby' = standby
    BY <1>5 DEF standbyVars
  <2>3. from' \in 0 .. nextOffset'
    BY <1>l, <1>p, <2>2
  <2> QED
    BY <1>1, <1>6, <1>8, <2>1, <2>2, <2>3 DEF ReplayTyped
<1>13. OpOK'
  <2>1. from' < nextOffset' /\ appended'[nextOffset' - 1] = m
    <3>1. from' = from /\ nextOffset' - 1 = nextOffset
      BY <1>5, <1>l DEF standbyVars
    <3> QED
      BY <1>l, <1>p, <3>1
  <2>2. op'.m = m /\ op'.pc = "stage"
    BY <1>5
  <2> QED
    BY <1>m, <2>1, <2>2 DEF OpOK
<1>14. TruthOK'
  BY <1>1, <1>5, <1>6, <1>11 DEF TruthOK, BuiltKept, Rowed
<1>15. UniqueOK'
  <2> SUFFICES ASSUME ~restarted
               PROVE  UniqueOK'
    BY <1>5 DEF UniqueOK
  <2>1. \A o \in 0 .. nextOffset' - 1 : o \in 0 .. nextOffset - 1 \/ o = nextOffset
    BY <1>l
  <2>2. \A o \in 0 .. nextOffset - 1 : IsInsert(o)' <=> IsInsert(o)
    BY <1>l DEF IsInsert
  <2>3. \A o \in 0 .. nextOffset - 1 : appended[o].node \in Nat
    BY <1>p, ReplayAssumption DEF Inserts, Deletes, NodeIds
  <2>4. \A o \in 0 .. nextOffset - 1 : IsInsert(o) => appended[o].node < node
    BY <1>1 DEF UniqueOK
  <2>5. \A o \in 0 .. nextOffset' - 1 : IsInsert(o)' => appended'[o].node < primary'.nextId
    BY <1>2, <1>6, <1>l, <1>m, <2>1, <2>2, <2>3, <2>4
  <2>6. \A o, q \in 0 .. nextOffset' - 1 :
          o < q /\ IsInsert(o)' /\ IsInsert(q)' => appended'[o].node # appended'[q].node
    <3> SUFFICES ASSUME NEW o \in 0 .. nextOffset' - 1, NEW q \in 0 .. nextOffset' - 1,
                        o < q, IsInsert(o)', IsInsert(q)'
                 PROVE  appended'[o].node # appended'[q].node
      OBVIOUS
    <3>1. o \in 0 .. nextOffset - 1
      BY <1>l
    <3>2. CASE q \in 0 .. nextOffset - 1
      BY <1>1, <1>l, <2>2, <3>1, <3>2 DEF UniqueOK
    <3>3. CASE q = nextOffset
      BY <1>l, <1>m, <1>2, <2>2, <2>3, <2>4, <3>1, <3>3
    <3> QED
      BY <2>1, <3>2, <3>3
  <2>7. ASSUME fresh
        PROVE  /\ \A n \in Live(standby) : n < primary'.nextId
               /\ \A o \in Position .. nextOffset' - 1 :
                    IsInsert(o)' => appended'[o].node \notin Live(standby)
    <3>1. Live(standby) \subseteq Nat
      BY <1>1 DEF IndexOK, NodeIds
    <3>2. \A n \in Live(standby) : n < node
      BY <1>1, <2>7 DEF UniqueOK
    <3>3. \A o \in Position .. nextOffset - 1 : IsInsert(o) => appended[o].node \notin Live(standby)
      BY <1>1, <2>7 DEF UniqueOK
    <3>4. ASSUME NEW o \in Position .. nextOffset' - 1, IsInsert(o)'
          PROVE  appended'[o].node \notin Live(standby)
      <4>1. o \in Position .. nextOffset - 1 \/ o = nextOffset
        BY <1>l, <1>p
      <4>2. Position .. nextOffset - 1 \subseteq 0 .. nextOffset - 1
        BY <1>l, <1>p
      <4> QED
        BY <1>2, <1>l, <1>m, <2>2, <3>1, <3>2, <3>3, <3>4, <4>1, <4>2
    <3> QED
      BY <1>2, <1>6, <3>1, <3>2, <3>4
  <2>8. fresh' = fresh /\ standby' = standby /\ Position' = Position
    BY <1>5 DEF standbyVars, Position
  <2>9. fresh' => /\ \A n \in Live(standby)' : n < primary'.nextId
                  /\ \A o \in Position' .. nextOffset' - 1 :
                       IsInsert(o)' => appended'[o].node \notin Live(standby)'
    BY <2>7, <2>8 DEF Live, Rowed
  <2> QED
    BY <2>5, <2>6, <2>9 DEF UniqueOK
<1> QED
  BY <1>l, <1>11, <1>12, <1>13, <1>14, <1>15 DEF ReplayInv

LEMMA LogDeleteStep ==
  ASSUME ReplayInv, NEW n \in DOMAIN owed \cup DOMAIN primary.rows \cup gone, LogDelete(n)
  PROVE  ReplayInv'
<1> DEFINE m == [kind |-> "delete", node |-> n]
<1>1. /\ LogInv /\ ReplayTyped /\ OpOK /\ TruthOK /\ UniqueOK /\ PendingOK
      /\ IndexOK(primary) /\ IndexOK(standby)
  BY DEF ReplayInv, ReplayTyped
<1>2. n \in NodeIds /\ n \in Nat /\ n <= primary.highWater
  BY KnownNodes
<1>3. m \in Mutations
  BY <1>2, ReplayAssumption DEF Deletes
<1>4. /\ AppendMutation(m) /\ op' = [pc |-> "stage", m |-> m]
      /\ owed' = Keep(owed, DOMAIN owed \ {n})
      /\ UNCHANGED standbyVars /\ primary' = primary /\ gone' = gone /\ restarted' = restarted
  BY DEF LogDelete
<1>5. /\ DOMAIN owed' = DOMAIN owed \ {n}
      /\ \A k \in DOMAIN owed' : owed'[k] = owed[k]
  BY <1>4 DEF Keep
<1> HIDE DEF m
<1>m. m.kind = "delete" /\ m.node = n /\ m.kind # "insert"
  BY DEF m
<1>6. Known' \subseteq Known
  <2>1. Named' = {n}
    BY <1>4, <1>m DEF Named, NoOp
  <2>2. n \in Known
    BY DEF Known, Live, Rowed
  <2>3. Live(primary)' = Live(primary)
    BY <1>4 DEF Live, Rowed
  <2> QED
    BY <1>4, <1>5, <2>1, <2>2, <2>3 DEF Known
<1>l. /\ LogInv'
      /\ nextOffset \in Nat /\ nextOffset' = nextOffset + 1
      /\ appended'[nextOffset] = m
      /\ \A o \in 0 .. nextOffset - 1 : appended'[o] = appended[o]
  BY <1>1, <1>3, <1>4, AppendedLast
<1>p. from \in 0 .. nextOffset /\ Position \in from .. nextOffset
  BY <1>1, PositionTyped
<1>7. /\ HistoryOK' /\ BaseOK' /\ PendingOK' /\ AppliedOK'
      /\ \A k : Untouched(k, 0)' => Untouched(k, 0)
  BY <1>3, <1>4, <1>5, <1>6, <1>m, AppendStep
<1>s. /\ phase' = phase /\ from' = from /\ standby' = standby /\ fresh' = fresh
      /\ Position' = Position
  BY <1>4 DEF standbyVars, Position
<1>8. ReplayTyped'
  <2>1. op' \in {NoOp} \cup [pc : {"stage", "publish"}, m : Mutations]
    BY <1>3, <1>4
  <2>2. from' \in 0 .. nextOffset'
    BY <1>l, <1>p, <1>s
  <2> QED
    BY <1>1, <1>4, <1>s, <2>1, <2>2 DEF ReplayTyped
<1>9. OpOK'
  <2>1. from' < nextOffset' /\ appended'[nextOffset' - 1] = m
    <3>1. nextOffset' - 1 = nextOffset
      BY <1>l
    <3> QED
      BY <1>l, <1>p, <1>s, <3>1
  <2>2. op'.m = m /\ op'.pc = "stage"
    BY <1>4
  <2> QED
    BY <1>2, <1>4, <1>m, <2>1, <2>2 DEF OpOK
<1>10. TruthOK'
  BY <1>1, <1>4, <1>5, <1>7 DEF TruthOK, BuiltKept, Rowed
<1>11. UniqueOK'
  <2> SUFFICES ASSUME ~restarted
               PROVE  UniqueOK'
    BY <1>4 DEF UniqueOK
  <2>1. \A o \in 0 .. nextOffset' - 1 :
          IsInsert(o)' => o \in 0 .. nextOffset - 1 /\ IsInsert(o) /\ appended'[o] = appended[o]
    <3>1. \A o \in 0 .. nextOffset' - 1 : o \in 0 .. nextOffset - 1 \/ o = nextOffset
      BY <1>l
    <3> QED
      BY <1>l, <1>m, <3>1 DEF IsInsert
  <2>2. \A o \in Position .. nextOffset' - 1 :
          o \in 0 .. nextOffset' - 1 /\ (o \in 0 .. nextOffset - 1 => o \in Position .. nextOffset - 1)
    BY <1>l, <1>p
  <2>3. Live(standby)' = Live(standby)
    BY <1>s DEF Live, Rowed
  <2> QED
    BY <1>1, <1>4, <1>s, <2>1, <2>2, <2>3 DEF UniqueOK
<1> QED
  BY <1>l, <1>7, <1>8, <1>9, <1>10, <1>11 DEF ReplayInv

\* Only the allocator moves.
LEMMA LoseInsertStep ==
  ASSUME ReplayInv, LoseInsert
  PROVE  ReplayInv'
<1>1. /\ LogInv /\ ReplayTyped /\ OpOK /\ TruthOK
      /\ IndexOK(primary) /\ IndexOK(standby)
  BY DEF ReplayInv, ReplayTyped
<1>2. /\ primary' = [primary EXCEPT !.nextId = @ + 1]
      /\ UNCHANGED <<logVars, standbyVars>>
      /\ op' = op /\ owed' = owed /\ gone' = gone /\ restarted' = restarted
  BY DEF LoseInsert
<1>3. primary.nextId \in Nat /\ primary.highWater \in Nat /\ primary.highWater < primary.nextId
  BY <1>1 DEF IndexOK
<1>4. /\ primary'.rows = primary.rows /\ primary'.draft = primary.draft
      /\ primary'.highWater = primary.highWater /\ primary'.nextId = primary.nextId + 1
      /\ primary' = [rows |-> primary'.rows, draft |-> primary'.draft,
                     nextId |-> primary'.nextId, highWater |-> primary'.highWater]
  <2>1. primary = [rows |-> primary.rows, draft |-> primary.draft,
                   nextId |-> primary.nextId, highWater |-> primary.highWater]
    BY <1>1 DEF IndexOK
  <2> QED
    BY <1>2, <2>1
<1>5. Rowed(primary') = Rowed(primary) /\ Live(primary') = Live(primary)
  BY <1>4 DEF Rowed, Live
<1>6. IndexOK(primary')
  <2>1. /\ Live(primary) \subseteq NodeIds /\ Live(primary) \subseteq Nat
        /\ \A n \in Live(primary) : n < primary.nextId
        /\ \A n \in Rowed(primary) : n <= primary.highWater
        /\ Base <= primary.highWater
    BY <1>1 DEF IndexOK, NodeIds
  <2> QED
    BY <1>3, <1>4, <1>5, <2>1 DEF IndexOK
<1>7. Known' = Known
  BY <1>2, <1>4 DEF Known, Named, Live, Rowed
<1>8. LogInv' /\ HistoryOK' /\ BaseOK' /\ PendingOK' /\ AppliedOK' /\ UniqueOK'
  BY <1>2, <1>3, <1>4, <1>7, PrimaryStep
<1>9. ReplayTyped' /\ OpOK' /\ TruthOK'
  <2>1. ReplayTyped'
    BY <1>1, <1>2, <1>4, <1>6 DEF ReplayTyped, standbyVars, logVars
  <2>2. OpOK'
    BY <1>1, <1>2, <1>4 DEF OpOK, standbyVars, logVars
  <2>3. TruthOK'
    BY <1>1, <1>2, <1>4, BuiltStays DEF TruthOK, logVars
  <2> QED
    BY <2>1, <2>2, <2>3
<1> QED
  BY <1>8, <1>9 DEF ReplayInv

LEMMA StageStep ==
  ASSUME ReplayInv, Stage
  PROVE  ReplayInv'
<1>1. /\ LogInv /\ ReplayTyped /\ OpOK /\ TruthOK
      /\ IndexOK(primary) /\ IndexOK(standby)
  BY DEF ReplayInv, ReplayTyped
<1>2. /\ op.pc = "stage" /\ primary' = Staged(primary, op.m)
      /\ op' = [op EXCEPT !.pc = "publish"]
      /\ UNCHANGED <<logVars, standbyVars>>
      /\ owed' = owed /\ gone' = gone /\ restarted' = restarted
  BY DEF Stage
<1>3. op # NoOp
  BY <1>2 DEF NoOp
<1>4. op \in [pc : {"stage", "publish"}, m : Mutations] /\ op.m \in Mutations
  BY <1>1, <1>3 DEF ReplayTyped
<1>5. op' \in [pc : {"stage", "publish"}, m : Mutations] /\ op'.m = op.m /\ op'.pc = "publish"
      /\ op' # NoOp
  BY <1>2, <1>4 DEF NoOp
<1> DEFINE m == op.m
<1>6. /\ IndexOK(primary')
      /\ primary'.rows = primary.rows /\ primary'.highWater = primary.highWater
      /\ primary'.nextId >= primary.nextId
      /\ DOMAIN primary'.draft = DOMAIN primary.draft \cup {m.node}
      /\ primary'.draft[m.node] = Effect(m)
      /\ \A n \in DOMAIN primary.draft \ {m.node} : primary'.draft[n] = primary.draft[n]
  BY <1>1, <1>2, <1>4, StagedIndex
<1>7. m.kind # "insert" => Effect(m) = Gone
  BY DEF Effect
<1> HIDE DEF m
<1>8. \A n \in Known' : n \in Known \/ (m.kind = "insert" /\ n = m.node)
  <2>1. Named' = Named
    BY <1>3, <1>5 DEF Named, m
  <2>2. \A n \in Live(primary)' : n \in Live(primary) \/ (m.kind = "insert" /\ n = m.node)
    BY <1>6, <1>7 DEF Live, Rowed
  <2> QED
    BY <1>2, <2>1, <2>2 DEF Known
<1>9. LogInv' /\ HistoryOK' /\ BaseOK' /\ PendingOK' /\ AppliedOK' /\ UniqueOK'
  <2>1. primary'.nextId \in Nat
    BY <1>6 DEF IndexOK
  <2> QED
    BY <1>2, <1>3, <1>6, <1>8, <2>1, PrimaryStep DEF m
<1>10. ReplayTyped'
  BY <1>1, <1>2, <1>5, <1>6 DEF ReplayTyped, standbyVars, logVars
<1>11. OpOK'
  BY <1>1, <1>2, <1>3, <1>5, <1>6 DEF OpOK, standbyVars, logVars, m
<1>12. TruthOK'
  <2>1. /\ appended' = appended /\ nextOffset' = nextOffset
        /\ appended[nextOffset - 1] = m
        /\ nextOffset - 1 \in 0 .. nextOffset - 1
    <3>1. nextOffset \in Nat /\ from \in 0 .. nextOffset
      BY <1>1 DEF ReplayTyped, LogInv, LogTypeOK
    <3>2. from < nextOffset /\ appended[nextOffset - 1] = m
      BY <1>1, <1>3 DEF OpOK, m
    <3> QED
      BY <1>2, <3>1, <3>2 DEF logVars
  <2>2. ~Untouched(m.node, 0)
    BY <2>1 DEF Untouched, About
  <2>3. \A n : Untouched(n, 0)' <=> Untouched(n, 0)
    BY <2>1 DEF Untouched, About
  <2>4. BuiltKept(primary)'
    BY <1>1, <1>6, <2>2, <2>3 DEF TruthOK, BuiltKept, Rowed
  <2> QED
    BY <1>1, <1>2, <1>6, <2>4 DEF TruthOK
<1> QED
  BY <1>9, <1>10, <1>11, <1>12 DEF ReplayInv

LEMMA PublishStep ==
  ASSUME ReplayInv, Publish
  PROVE  ReplayInv'
<1>1. /\ LogInv /\ ReplayTyped /\ OpOK /\ TruthOK
      /\ IndexOK(primary) /\ IndexOK(standby)
  BY DEF ReplayInv, ReplayTyped
<1> DEFINE m == op.m
<1>2. /\ op.pc = "publish" /\ primary' = Published(primary) /\ op' = NoOp
      /\ UNCHANGED <<logVars, standbyVars>> /\ restarted' = restarted
      /\ m.kind = "insert" => owed' = With(owed, m.node, m.row) /\ gone' = gone
      /\ m.kind # "insert" => gone' = gone \cup {m.node} /\ owed' = owed
  BY DEF Publish
<1>3. op # NoOp
  BY <1>2 DEF NoOp
<1>4. op \in [pc : {"stage", "publish"}, m : Mutations] /\ m \in Mutations
  BY <1>1, <1>3 DEF ReplayTyped
<1>5. /\ m.kind = "insert" \/ m.kind = "delete"
      /\ m.node \in NodeIds /\ m.node \in Nat
      /\ m.kind = "insert" => m.row # Gone /\ Effect(m) = m.row
      /\ m.kind # "insert" => Effect(m) = Gone /\ m.node <= primary.highWater
      /\ m.node \in DOMAIN primary.draft /\ primary.draft[m.node] = Effect(m)
  BY <1>1, <1>2, <1>3, <1>4, ReplayAssumption DEF Inserts, Deletes, NodeIds, OpOK, Effect
<1>6. /\ IndexOK(primary')
      /\ primary'.draft = primary.draft /\ primary'.nextId = primary.nextId
      /\ primary'.highWater >= primary.highWater /\ primary'.highWater >= primary.nextId - 1
      /\ \A n : n \in Rowed(primary') <=>
           \/ n \in DOMAIN primary.draft /\ primary.draft[n] # Gone
           \/ n \in 1 .. Base /\ n \notin DOMAIN primary.draft
      /\ \A n \in Rowed(primary') :
           primary'.rows[n] = IF n \in DOMAIN primary.draft THEN primary.draft[n] ELSE "built"
      /\ Live(primary') \subseteq Live(primary) \cup 1 .. Base
  BY <1>1, <1>2, PublishedIndex
<1>7. /\ primary.highWater \in Nat /\ primary'.highWater \in Nat /\ primary.nextId \in Nat
  BY <1>1, <1>6 DEF IndexOK
<1> HIDE DEF m
<1>8. \A n \in DOMAIN owed' :
        \/ n \in DOMAIN owed /\ owed'[n] = owed[n]
        \/ m.kind = "insert" /\ n = m.node /\ owed'[n] = m.row
  BY <1>2 DEF With
<1>9. \A n \in gone' : n \in gone \/ (m.kind # "insert" /\ n = m.node)
  BY <1>2
<1>10. \A n \in Known' : n \in Known \/ n \in 1 .. Base
  <2>1. Named' = {}
    BY <1>2 DEF Named
  <2>2. Live(primary)' \subseteq Live(primary) \cup 1 .. Base
    BY <1>6 DEF Live, Rowed
  <2>3. DOMAIN owed' \subseteq Known
    BY <1>5, <1>8 DEF Known, Live
  <2>4. gone' \subseteq Known
    <3>1. m.kind # "insert" => m.node \in Named
      BY <1>3, <1>5 DEF Named, m
    <3> QED
      BY <1>9, <3>1 DEF Known
  <2> QED
    BY <2>1, <2>2, <2>3, <2>4 DEF Known
<1>11. LogInv' /\ HistoryOK' /\ BaseOK' /\ PendingOK' /\ AppliedOK' /\ UniqueOK'
  <2>1. primary'.nextId >= primary.nextId /\ primary'.nextId \in Nat
    BY <1>6, <1>7
  <2> QED
    BY <1>2, <1>3, <1>8, <1>9, <1>10, <2>1, PrimaryStep DEF m
<1>12. ReplayTyped'
  BY <1>1, <1>2, <1>6 DEF ReplayTyped, standbyVars, logVars
<1>13. OpOK'
  BY <1>2 DEF OpOK
<1>14. TruthOK'
  <2>1. m.node <= primary'.highWater
    <3>1. CASE m.kind = "insert"
      <4>1. m.node < primary.nextId
        BY <1>1, <1>5, <3>1 DEF IndexOK, Live
      <4> QED
        BY <1>5, <1>6, <1>7, <4>1
    <3>2. CASE m.kind # "insert"
      BY <1>5, <1>6, <1>7, <3>2
    <3> QED
      BY <3>1, <3>2
  <2>2. \A n \in DOMAIN owed' \cup gone' : n \in NodeIds /\ n <= primary'.highWater
    <3>1. \A n \in DOMAIN owed' \cup gone' : n \in DOMAIN owed \cup gone \/ n = m.node
      BY <1>8, <1>9
    <3>2. \A n \in DOMAIN owed \cup gone : n \in NodeIds /\ n \in Nat /\ n <= primary.highWater
      BY KnownNodes
    <3> QED
      BY <1>5, <1>6, <1>7, <2>1, <3>1, <3>2
  <2>3. \A n : Untouched(n, 0)' <=> Untouched(n, 0)
    BY <1>2 DEF logVars, Untouched, About
  <2>4. BuiltKept(primary)'
    BY <1>1, <1>6, <2>3 DEF TruthOK, BuiltKept, Rowed
  <2> QED
    BY <2>2, <2>4 DEF TruthOK
<1> QED
  BY <1>11, <1>12, <1>13, <1>14 DEF ReplayInv

LEMMA FailMutationStep ==
  ASSUME ReplayInv, FailMutation
  PROVE  ReplayInv'
<1>1. ReplayTyped /\ OpOK /\ TruthOK
  BY DEF ReplayInv
<1>2. /\ op' = NoOp /\ UNCHANGED <<logVars, standbyVars>>
      /\ primary' = primary /\ owed' = owed /\ gone' = gone /\ restarted' = restarted
  BY DEF FailMutation
<1>3. Known' \subseteq Known
  <2>1. Named' = {}
    BY <1>2 DEF Named
  <2> QED
    BY <1>2, <2>1 DEF Known, Live, Rowed
<1>4. LogInv' /\ HistoryOK' /\ BaseOK' /\ PendingOK' /\ AppliedOK' /\ UniqueOK'
  <2>1. primary.nextId \in Nat /\ primary'.nextId >= primary.nextId /\ primary'.nextId \in Nat
    BY <1>1, <1>2 DEF ReplayTyped, IndexOK
  <2> QED
    BY <1>2, <1>3, <2>1, PrimaryStep
<1>5. ReplayTyped' /\ OpOK' /\ TruthOK'
  <2>1. ReplayTyped'
    BY <1>1, <1>2 DEF ReplayTyped, standbyVars, logVars
  <2>2. OpOK'
    BY <1>2 DEF OpOK
  <2>3. TruthOK'
    BY <1>1, <1>2, BuiltStays DEF TruthOK, logVars
  <2> QED
    BY <2>1, <2>2, <2>3
<1> QED
  BY <1>4, <1>5 DEF ReplayInv

LEMMA RestartStep ==
  ASSUME ReplayInv, Restart
  PROVE  ReplayInv'
<1>1. ReplayTyped /\ TruthOK /\ IndexOK(primary)
  BY DEF ReplayInv, ReplayTyped
<1>2. /\ primary' = Reopened(primary) /\ op' = NoOp /\ restarted' = TRUE
      /\ UNCHANGED <<logVars, standbyVars>> /\ owed' = owed /\ gone' = gone
  BY DEF Restart
<1>3. /\ IndexOK(primary') /\ primary'.draft = EmptyFn
      /\ primary'.highWater = primary.highWater
      /\ primary'.rows = primary.rows /\ Live(primary') = Rowed(primary)
  BY <1>1, <1>2, ReopenedIndex
<1>4. Known' \subseteq Known
  <2>1. Named' = {}
    BY <1>2 DEF Named
  <2>2. Live(primary)' = Rowed(primary)
    BY <1>3 DEF Live, Rowed
  <2> QED
    BY <1>2, <2>1, <2>2 DEF Known, Live
<1>5. LogInv' /\ HistoryOK' /\ BaseOK' /\ PendingOK' /\ AppliedOK' /\ UniqueOK'
  <2>1. primary'.nextId \in Nat
    BY <1>3 DEF IndexOK
  <2> QED
    BY <1>2, <1>4, <2>1, PrimaryStep
<1>6. ReplayTyped' /\ OpOK' /\ TruthOK'
  <2>1. ReplayTyped'
    BY <1>1, <1>2, <1>3 DEF ReplayTyped, standbyVars, logVars
  <2>2. OpOK'
    BY <1>2 DEF OpOK
  <2>3. DOMAIN primary'.draft = {}
    BY <1>3 DEF EmptyFn
  <2>4. TruthOK'
    BY <1>1, <1>2, <1>3, <2>3, BuiltStays DEF TruthOK, logVars
  <2> QED
    BY <2>1, <2>2, <2>4
<1> QED
  BY <1>5, <1>6 DEF ReplayInv

------------------------------------------------------------------------------
(* The steps of the standby, and of the log's upkeep *)

\* While nothing is appended the log says the same.
LEMMA SameHistory ==
  ASSUME appended' = appended, nextOffset' = nextOffset
  PROVE  /\ \A n, lo : /\ Untouched(n, lo)' <=> Untouched(n, lo)
                       /\ NotInserted(n, lo)' <=> NotInserted(n, lo)
         /\ \A o : IsInsert(o)' <=> IsInsert(o)
         /\ \A o, n, p : Last(o, n, p)' <=> Last(o, n, p)
         /\ \A o, n : Last(o, n, nextOffset)' <=> Last(o, n, nextOffset)
BY DEF Untouched, NotInserted, Last, About, IsInsert

\* While the primary rests too, what it showed and told stays.
LEMMA PrimaryRests ==
  ASSUME ReplayInv, appended' = appended, nextOffset' = nextOffset, UNCHANGED primaryVars
  PROVE  /\ TruthOK' /\ HistoryOK'
         /\ Known' = Known /\ Rowed(primary') = Rowed(primary) /\ Live(primary)' = Live(primary)
         /\ primary' = primary /\ op' = op /\ owed' = owed /\ gone' = gone /\ restarted' = restarted
<1>1. TruthOK /\ HistoryOK
  BY DEF ReplayInv
<1>2. primary' = primary /\ op' = op /\ owed' = owed /\ gone' = gone /\ restarted' = restarted
  BY DEF primaryVars
<1>3. Known' = Known
  BY <1>2 DEF Known, Named, Live, Rowed
<1>4. TruthOK'
  BY <1>1, <1>2, BuiltStays DEF TruthOK
<1>5. HistoryOK'
  BY <1>1, <1>2, <1>3, SameHistory DEF HistoryOK
<1> QED
  BY <1>2, <1>3, <1>4, <1>5 DEF Live, Rowed

LEMMA LogUpkeepStep ==
  ASSUME ReplayInv, LogUpkeep
  PROVE  ReplayInv'
<1>1. /\ LogInv /\ ReplayTyped /\ OpOK /\ BaseOK /\ PendingOK /\ AppliedOK /\ UniqueOK
  BY DEF ReplayInv
<1>2. /\ appended' = appended /\ nextOffset' = nextOffset
      /\ UNCHANGED standbyVars /\ UNCHANGED primaryVars
  BY DEF LogUpkeep, Checkpoint, TruncateBeforeCheckpoint
<1>3. LogInv'
  <2>1. [LogNext]_logVars
    BY DEF LogUpkeep, LogNext
  <2> QED
    BY <1>1, <2>1, LogInvNext
<1>4. /\ standby' = standby /\ from' = from /\ Position' = Position /\ fresh' = fresh
      /\ phase' = phase /\ pending' = pending /\ through' = through
      /\ Live(standby)' = Live(standby)
  BY <1>2 DEF standbyVars, Position, Live, Rowed
<1>5. TruthOK' /\ HistoryOK' /\ Known' = Known
      /\ primary' = primary /\ op' = op /\ owed' = owed /\ gone' = gone /\ restarted' = restarted
  BY <1>2, PrimaryRests
<1>6. ReplayTyped' /\ OpOK'
  BY <1>1, <1>2, <1>4, <1>5 DEF ReplayTyped, OpOK
<1>7. BaseOK'
  <2>1. \A n : /\ Untouched(n, from)' <=> Untouched(n, from)
               /\ NotInserted(n, from)' <=> NotInserted(n, from)
    BY <1>2, <1>4 DEF Untouched, NotInserted, About, IsInsert
  <2> QED
    BY <1>1, <1>2, <1>4, <1>5, <2>1, SameHistory DEF BaseOK, BuiltKept, Rowed
<1>8. PendingOK'
  BY <1>1, <1>2, <1>4 DEF PendingOK
<1>9. AppliedOK'
  <2>1. \A o : Last(o, appended[o].node, Position)' <=> Last(o, appended[o].node, Position)
    BY <1>2, <1>4 DEF Last, About
  <2> QED
    BY <1>1, <1>2, <1>4, <2>1, SameHistory DEF AppliedOK, Shows, Rowed
<1>10. UniqueOK'
  BY <1>1, <1>2, <1>4, <1>5, SameHistory DEF UniqueOK
<1> QED
  BY <1>3, <1>5, <1>6, <1>7, <1>8, <1>9, <1>10 DEF ReplayInv

\* A standby may start from any index that has what the bulk build wrote of the
\* nodes the log is not about, and an id for none that the rest of it inserts.
LEMMA StartWithStep ==
  ASSUME ReplayInv, NEW index, NEW offset \in 0 .. nextOffset, StartWith(index, offset),
         IndexOK(index), index.draft = EmptyFn, op # NoOp => offset < nextOffset,
         BuiltKept(index),
         \A n \in Known : NotInserted(n, offset) => n <= index.highWater,
         ~restarted => \A n \in Live(index) : n < primary.nextId,
         ~restarted => \A o \in offset .. nextOffset - 1 :
                         IsInsert(o) => appended[o].node \notin Live(index)
  PROVE  ReplayInv'
<1>1. LogInv /\ ReplayTyped /\ OpOK /\ UniqueOK
  BY DEF ReplayInv
<1>2. /\ appended' = appended /\ nextOffset' = nextOffset /\ UNCHANGED logVars
      /\ UNCHANGED primaryVars
      /\ standby' = index /\ from' = offset /\ phase' = "idle" /\ Position' = offset
  BY DEF StartWith, logVars, Position
<1>3. TruthOK' /\ HistoryOK' /\ Known' = Known
      /\ primary' = primary /\ op' = op /\ owed' = owed /\ gone' = gone /\ restarted' = restarted
  BY <1>2, PrimaryRests
<1>4. LogInv'
  BY <1>1, <1>2, LogInvNext
<1>5. ReplayTyped' /\ OpOK'
  BY <1>1, <1>2, <1>3 DEF ReplayTyped, OpOK
<1>6. BaseOK'
  <2>1. \A n : NotInserted(n, from)' <=> NotInserted(n, offset)
    BY <1>2 DEF NotInserted, About, IsInsert
  <2>2. BuiltKept(standby)'
    BY <1>2, SameHistory DEF BuiltKept, Rowed
  <2> QED
    BY <1>2, <1>3, <2>1, <2>2 DEF BaseOK
<1>7. PendingOK'
  BY <1>2 DEF PendingOK
<1>8. AppliedOK'
  <2>1. offset .. offset - 1 = {}
    OBVIOUS
  <2> QED
    BY <1>2, <2>1 DEF AppliedOK
<1>9. UniqueOK'
  <2>1. Live(standby)' = Live(index)
    BY <1>2 DEF Live, Rowed
  <2> QED
    BY <1>1, <1>2, <1>3, <2>1, SameHistory DEF UniqueOK
<1> QED
  BY <1>3, <1>4, <1>5, <1>6, <1>7, <1>8, <1>9 DEF ReplayInv

LEMMA RebuildStep ==
  ASSUME ReplayInv, Rebuild
  PROVE  ReplayInv'
<1> DEFINE index == Built
<1>1. LogInv /\ ReplayTyped /\ OpOK /\ HistoryOK
  BY DEF ReplayInv
<1>2. nextOffset \in Nat /\ Base \in Nat /\ from \in Nat
  BY <1>1, ReplayAssumption DEF LogInv, LogTypeOK, ReplayTyped
<1>3. /\ StartWith(index, 0) /\ 0 \in 0 .. nextOffset
  BY <1>2 DEF Rebuild
<1>4. /\ IndexOK(index) /\ index.draft = EmptyFn /\ index.highWater = Base
      /\ Rowed(index) = 1 .. Base /\ Live(index) = 1 .. Base
  BY BuiltIndex
<1> HIDE DEF index
<1>5. op # NoOp => 0 < nextOffset
  BY <1>1, <1>2 DEF OpOK
<1>6. BuiltKept(index)
  BY BuiltHasBuilt DEF index
<1>9. \A n \in Known : NotInserted(n, 0) => n <= index.highWater
  BY <1>1, <1>2, <1>4 DEF HistoryOK
<1>10. \A n \in Live(index) : n < primary.nextId
  BY <1>1, <1>2, <1>4 DEF ReplayTyped, IndexOK
<1>11. \A o \in 0 .. nextOffset - 1 : IsInsert(o) => appended[o].node \notin Live(index)
  BY <1>1, <1>2, <1>4 DEF HistoryOK
<1> QED
  BY <1>3, <1>4, <1>5, <1>6, <1>9, <1>10, <1>11, StartWithStep

LEMMA CopyStep ==
  ASSUME ReplayInv, Copy
  PROVE  ReplayInv'
<1> DEFINE index == Reopened(primary)
<1>1. LogInv /\ ReplayTyped /\ TruthOK /\ IndexOK(primary)
  BY DEF ReplayInv, ReplayTyped
<1>2. nextOffset \in Nat
  BY <1>1 DEF LogInv, LogTypeOK
<1>3. /\ StartWith(index, nextOffset) /\ nextOffset \in 0 .. nextOffset
      /\ op = NoOp /\ Overlaid(primary.rows, primary.draft) = primary.rows
  BY <1>2 DEF Copy
<1>4. /\ IndexOK(index) /\ index.draft = EmptyFn /\ index.highWater = primary.highWater
      /\ index.rows = primary.rows /\ Live(index) = Rowed(primary)
  BY <1>1, ReopenedIndex
<1>5. Live(primary) = Rowed(primary)
  <2>1. \A n \in DOMAIN primary.draft :
          primary.draft[n] # Gone => n \in DOMAIN Overlaid(primary.rows, primary.draft)
    BY DEF Overlaid
  <2> QED
    BY <1>3, <2>1 DEF Live, Rowed
<1> HIDE DEF index
<1>6. BuiltKept(index)
  <2>1. DOMAIN index.draft = {}
    BY <1>4 DEF EmptyFn
  <2> QED
    BY <1>1, <1>4, <2>1 DEF TruthOK, BuiltKept, Rowed
<1>8. \A n \in Known : n <= index.highWater
  <2>1. Named = {}
    BY <1>3 DEF Named
  <2>2. Known \subseteq DOMAIN owed \cup DOMAIN primary.rows \cup gone
    BY <1>5, <2>1 DEF Known, Rowed
  <2> QED
    BY <1>4, <2>2, KnownNodes
<1>9. \A n \in Live(index) : n < primary.nextId
  BY <1>1, <1>4, <1>5 DEF IndexOK
<1>10. nextOffset .. nextOffset - 1 = {}
  BY <1>2
<1> QED
  BY <1>3, <1>4, <1>6, <1>8, <1>9, <1>10, StartWithStep

LEMMA BeginReplayStep ==
  ASSUME ReplayInv, BeginReplay
  PROVE  ReplayInv'
<1>1. /\ LogInv /\ ReplayTyped /\ OpOK /\ BaseOK /\ PendingOK /\ AppliedOK /\ UniqueOK
  BY DEF ReplayInv
<1>2. /\ phase = "idle" /\ Available(from)
      /\ pending' = Replay(from) /\ through' = nextOffset /\ phase' = "replaying"
      /\ UNCHANGED logVars /\ appended' = appended /\ nextOffset' = nextOffset
      /\ standby' = standby /\ from' = from /\ fresh' = fresh /\ UNCHANGED primaryVars
  BY DEF BeginReplay, logVars
<1>3. /\ nextOffset \in Nat /\ from \in 0 .. nextOffset /\ Position = from
      /\ \A o \in 0 .. nextOffset - 1 : appended[o] \in Mutations
  BY <1>1, <1>2, PositionTyped DEF Position
<1>4. pending' = EntriesOf(appended, from, nextOffset)
  <2>1. Replay(from) = History(from)
    BY <1>1, <1>2, <1>3, LogInvComplete DEF ReplayComplete
  <2> QED
    BY <1>2, <2>1 DEF History, EntriesOf
<1>5. Position' = from
  <2>1. Len(EntriesOf(appended, from, nextOffset)) = nextOffset - from
    <3>1. \A o \in from .. nextOffset - 1 : appended[o] \in Mutations
      BY <1>3
    <3>2. from \in Nat /\ from <= nextOffset
      BY <1>3
    <3> QED
      BY <1>3, <3>1, <3>2, EntriesOfIsSeq
  <2>2. Position' = nextOffset - (nextOffset - from)
    BY <1>2, <1>4, <2>1 DEF Position
  <2> QED
    BY <1>3, <2>2
<1>6. TruthOK' /\ HistoryOK' /\ Known' = Known
      /\ primary' = primary /\ op' = op /\ owed' = owed /\ gone' = gone /\ restarted' = restarted
  BY <1>2, PrimaryRests
<1>7. LogInv'
  BY <1>1, <1>2, LogInvNext
<1>8. ReplayTyped' /\ OpOK'
  BY <1>1, <1>2, <1>6 DEF ReplayTyped, OpOK
<1>9. BaseOK'
  <2>1. \A n : /\ Untouched(n, from)' <=> Untouched(n, from)
               /\ NotInserted(n, from)' <=> NotInserted(n, from)
    BY <1>2 DEF Untouched, NotInserted, About, IsInsert
  <2> QED
    BY <1>1, <1>2, <1>6, <2>1, SameHistory DEF BaseOK, BuiltKept, Rowed
<1>10. PendingOK'
  BY <1>2, <1>3, <1>4, <1>5 DEF PendingOK
<1>11. AppliedOK'
  <2>1. from .. from - 1 = {}
    BY <1>3
  <2> QED
    BY <1>2, <1>5, <2>1 DEF AppliedOK
<1>12. UniqueOK'
  <2>1. Live(standby)' = Live(standby)
    BY <1>2 DEF Live, Rowed
  <2> QED
    BY <1>1, <1>2, <1>3, <1>5, <1>6, <2>1, SameHistory DEF UniqueOK
<1> QED
  BY <1>6, <1>7, <1>8, <1>9, <1>10, <1>11, <1>12 DEF ReplayInv

\* Staging the entry at offset p, and publishing it or not, disturbs no node
\* that no entry is about.
LEMMA BaseStep ==
  ASSUME ReplayInv, appended' = appended, nextOffset' = nextOffset, from' = from,
         UNCHANGED primaryVars,
         NEW p \in 0 .. nextOffset - 1,
         standby'.highWater >= standby.highWater, IndexOK(standby'),
         DOMAIN standby'.draft \subseteq DOMAIN standby.draft \cup {appended[p].node},
         \/ standby'.rows = standby.rows
         \/ \A n : n \notin DOMAIN standby'.draft =>
              /\ n \in Rowed(standby') <=> n \in 1 .. Base
              /\ n \in 1 .. Base => standby'.rows[n] = "built"
  PROVE  BaseOK'
<1>1. BaseOK /\ ReplayTyped /\ LogInv
  BY DEF ReplayInv
<1>2. Known' = Known
  BY PrimaryRests
<1>3. \A n : /\ Untouched(n, 0)' <=> Untouched(n, 0)
             /\ NotInserted(n, from)' <=> NotInserted(n, from)
  BY DEF Untouched, NotInserted, About, IsInsert
<1>4. ~Untouched(appended[p].node, 0)
  BY DEF Untouched, About
<1>5. BuiltKept(standby)'
  <2>1. \A n : Untouched(n, 0) => n \notin DOMAIN standby'.draft
    BY <1>1, <1>4 DEF BaseOK, BuiltKept
  <2>2. \A n : Untouched(n, 0) =>
          /\ n \in Rowed(standby') <=> n \in 1 .. Base
          /\ n \in 1 .. Base => standby'.rows[n] = "built"
    BY <1>1, <2>1 DEF BaseOK, BuiltKept, Rowed
  <2> QED
    BY <1>3, <2>1, <2>2 DEF BuiltKept, Rowed
<1>7. \A n \in Known : NotInserted(n, from) => n <= standby'.highWater
  <2>1. \A n \in Known : n \in Nat
    <3>1. Live(primary) \subseteq NodeIds
      BY <1>1 DEF ReplayTyped, IndexOK
    <3>2. Named \subseteq NodeIds
      BY <1>1, ReplayAssumption DEF ReplayTyped, Named, Inserts, Deletes
    <3>3. DOMAIN owed \cup gone \subseteq NodeIds
      BY KnownNodes
    <3>4. Known \subseteq NodeIds
      BY <3>1, <3>2, <3>3 DEF Known
    <3> QED
      BY <3>4 DEF NodeIds
  <2>2. standby'.highWater \in Nat /\ standby.highWater \in Nat
    BY <1>1 DEF ReplayTyped, IndexOK
  <2> QED
    BY <1>1, <2>1, <2>2 DEF BaseOK
<1> QED
  BY <1>2, <1>3, <1>5, <1>7 DEF BaseOK

\* The last entry about a node stays the last when later ones are disregarded.
LEMMA LastEarlier ==
  ASSUME NEW p \in Nat, NEW n, NEW o \in 0 .. p - 1, Last(o, n, p + 1)
  PROVE  Last(o, n, p)
<1>1. About(o, n) /\ \A q \in o + 1 .. (p + 1) - 1 : ~About(q, n)
  BY DEF Last
<1>2. \A q \in o + 1 .. p - 1 : q \in o + 1 .. (p + 1) - 1
  OBVIOUS
<1> QED
  BY <1>1, <1>2 DEF Last

LEMMA ApplyEntryStep ==
  ASSUME ReplayInv, ApplyEntry
  PROVE  ReplayInv'
<1> DEFINE p == Position
           m == appended[p]
           staged == Staged(standby, m)
<1>1. /\ LogInv /\ ReplayTyped /\ OpOK /\ BaseOK /\ PendingOK /\ AppliedOK /\ UniqueOK
      /\ IndexOK(standby)
  BY DEF ReplayInv, ReplayTyped
<1>2. /\ phase = "replaying" /\ pending # << >>
      /\ standby' = Published(Staged(standby, Head(pending).mutation))
      /\ pending' = Tail(pending)
      /\ UNCHANGED logVars /\ appended' = appended /\ nextOffset' = nextOffset
      /\ from' = from /\ phase' = phase /\ through' = through /\ fresh' = fresh
      /\ UNCHANGED primaryVars
  BY DEF ApplyEntry, logVars
<1>3. /\ p \in from .. through - 1 /\ through \in 0 .. nextOffset
      /\ Head(pending).mutation = m /\ m \in Mutations
      /\ Tail(pending) = EntriesOf(appended, p + 1, through)
      /\ Len(Tail(pending)) = through - (p + 1)
      /\ nextOffset \in Nat /\ from \in 0 .. nextOffset
      /\ \A o \in 0 .. nextOffset - 1 : appended[o] \in Mutations
  BY <1>1, <1>2, NextPending, PositionTyped
<1>4. standby' = Published(staged)
  BY <1>2, <1>3
<1>5. Position' = p + 1
  <2>1. Position' = through - (through - (p + 1))
    BY <1>2, <1>3 DEF Position
  <2> HIDE DEF p
  <2> QED
    BY <1>3, <2>1
<1>p. /\ p \in Nat /\ p \in from .. nextOffset - 1 /\ p \in 0 .. nextOffset - 1
      /\ from .. p \subseteq 0 .. nextOffset - 1
  <2> HIDE DEF p
  <2> QED
    BY <1>3
<1> HIDE DEF p, m, staged
<1>m. /\ m.kind = "insert" \/ m.kind = "delete"
      /\ m.node \in NodeIds /\ m.node \in Nat
      /\ m.kind = "insert" => Effect(m) = m.row /\ m.row # Gone
      /\ m.kind # "insert" => Effect(m) = Gone
      /\ m = appended[p]
  BY <1>3, ReplayAssumption DEF Inserts, Deletes, NodeIds, Effect, m
<1>6. /\ IndexOK(staged)
      /\ staged.rows = standby.rows /\ staged.highWater = standby.highWater
      /\ staged.nextId >= standby.nextId
      /\ m.kind = "insert" => m.node < staged.nextId
      /\ DOMAIN staged.draft = DOMAIN standby.draft \cup {m.node}
      /\ staged.draft[m.node] = Effect(m)
      /\ \A n \in DOMAIN standby.draft \ {m.node} : staged.draft[n] = standby.draft[n]
  BY <1>1, <1>3, StagedIndex DEF staged
<1>7. /\ IndexOK(standby')
      /\ standby'.draft = staged.draft /\ standby'.nextId = staged.nextId
      /\ standby'.highWater >= staged.highWater /\ standby'.highWater >= staged.nextId - 1
      /\ \A n : n \in Rowed(standby') <=>
           \/ n \in DOMAIN staged.draft /\ staged.draft[n] # Gone
           \/ n \in 1 .. Base /\ n \notin DOMAIN staged.draft
      /\ \A n \in Rowed(standby') :
           standby'.rows[n] = IF n \in DOMAIN staged.draft THEN staged.draft[n] ELSE "built"
      /\ Live(standby') \subseteq Live(staged) \cup 1 .. Base
  BY <1>4, <1>6, PublishedIndex
<1>8. /\ \A n : n \in Rowed(standby') <=>
           IF n \in DOMAIN standby'.draft THEN standby'.draft[n] # Gone ELSE n \in 1 .. Base
      /\ \A n \in Rowed(standby') :
           standby'.rows[n] = IF n \in DOMAIN standby'.draft THEN standby'.draft[n] ELSE "built"
      /\ DOMAIN standby'.draft = DOMAIN standby.draft \cup {m.node}
      /\ standby'.draft[m.node] = Effect(m)
      /\ \A n \in DOMAIN standby.draft \ {m.node} : standby'.draft[n] = standby.draft[n]
  BY <1>6, <1>7 DEF Rowed
<1>9. /\ standby.highWater \in Nat /\ standby'.highWater \in Nat /\ staged.nextId \in Nat
      /\ standby'.highWater >= standby.highWater
      /\ m.kind = "insert" => m.node <= standby'.highWater
  BY <1>1, <1>6, <1>7, <1>m DEF IndexOK
<1>10. TruthOK' /\ HistoryOK'
       /\ primary' = primary /\ op' = op /\ owed' = owed /\ gone' = gone /\ restarted' = restarted
  BY <1>2, PrimaryRests
<1>11. LogInv'
  BY <1>1, <1>2, LogInvNext
<1>12. ReplayTyped' /\ OpOK'
  BY <1>1, <1>2, <1>7, <1>10 DEF ReplayTyped, OpOK
<1>13. BaseOK'
  <2>1. \A n : n \notin DOMAIN standby'.draft =>
          /\ n \in Rowed(standby') <=> n \in 1 .. Base
          /\ n \in 1 .. Base => standby'.rows[n] = "built"
    BY <1>8
  <2> QED
    BY <1>2, <1>p, <1>7, <1>8, <1>9, <1>m, <2>1, BaseStep
<1>14. PendingOK'
  <2>1. p + 1 \in from .. through
    BY <1>3, <1>p
  <2> QED
    BY <1>2, <1>3, <1>5, <2>1 DEF PendingOK
<1>15. AppliedOK'
  <2>1. \A o : Last(o, appended[o].node, Position)' <=> Last(o, appended[o].node, p + 1)
    BY <1>2, <1>5 DEF Last, About
  <2>2. ASSUME NEW o \in from .. p, Last(o, appended[o].node, p + 1)
        PROVE  Shows(standby', appended[o])
    <3>1. CASE o = p
      <4>1. m.node \in Rowed(standby') <=> m.kind = "insert"
        BY <1>8, <1>m
      <4>2. m.kind = "insert" => standby'.rows[m.node] = m.row
        BY <1>8, <1>m, <4>1
      <4> QED
        BY <1>8, <1>m, <3>1, <4>1, <4>2 DEF Shows
    <3>2. CASE o # p
      <4> DEFINE k == appended[o]
      <4>1. o \in from .. p - 1 /\ p \in o + 1 .. p
        BY <1>3, <1>p, <3>2
      <4>2. p \in o + 1 .. p + 1 - 1
        BY <1>p, <4>1
      <4>3. k.node # m.node
        BY <1>m, <2>2, <4>2 DEF Last, About
      <4>4. Last(o, k.node, p)
        <5>1. o \in 0 .. p - 1
          BY <1>3, <1>p, <4>1
        <5> QED
          BY <1>p, <2>2, <5>1, LastEarlier
      <4>5. Shows(standby, k)
        BY <1>1, <4>1, <4>4 DEF AppliedOK, p
      <4>6. /\ k \in Mutations /\ o \in 0 .. nextOffset - 1
        BY <1>3, <1>p
      <4>7. /\ k.kind = "insert" => Effect(k) = k.row /\ k.row # Gone
            /\ k.kind # "insert" => Effect(k) = Gone
        BY <4>6, ReplayAssumption DEF Inserts, Deletes, Effect
      <4> HIDE DEF k
      <4>8. k.node \in DOMAIN standby'.draft /\ standby'.draft[k.node] = Effect(k)
        BY <1>8, <4>3, <4>5 DEF Shows
      <4>9. k.node \in Rowed(standby') <=> k.kind = "insert"
        BY <1>8, <4>7, <4>8
      <4>10. k.kind = "insert" => standby'.rows[k.node] = k.row
        BY <1>8, <4>7, <4>8, <4>9
      <4>11. Shows(standby', k)
        BY <4>8, <4>9, <4>10 DEF Shows
      <4> QED
        BY <4>11 DEF k
    <3> QED
      BY <3>1, <3>2
  <2>3. ASSUME NEW o \in from .. p, IsInsert(o)
        PROVE  appended[o].node <= standby'.highWater
    <3>1. CASE o = p
      BY <1>9, <1>m, <2>3, <3>1 DEF IsInsert
    <3>2. CASE o # p
      <4>1. o \in from .. p - 1 /\ o \in 0 .. nextOffset - 1
        BY <1>3, <1>p, <3>2
      <4>2. appended[o].node <= standby.highWater
        BY <1>1, <2>3, <4>1 DEF AppliedOK, p
      <4>3. appended[o].node \in Nat
        BY <1>3, <4>1, ReplayAssumption DEF Inserts, Deletes, NodeIds
      <4> QED
        BY <1>9, <4>2, <4>3
    <3> QED
      BY <3>1, <3>2
  <2>4. from' .. Position' - 1 = from .. p
    BY <1>2, <1>3, <1>5, <1>p
  <2> QED
    BY <1>2, <2>1, <2>2, <2>3, <2>4, SameHistory DEF AppliedOK, Shows, Rowed
<1>16. UniqueOK'
  <2> SUFFICES ASSUME ~restarted
               PROVE  UniqueOK'
    BY <1>10 DEF UniqueOK
  <2>1. \A n \in Live(standby') :
          n \in Live(standby) \/ n \in 1 .. Base \/ (m.kind = "insert" /\ n = m.node)
    BY <1>7, <1>8, <1>m, <1>6 DEF Live, Rowed
  <2>b. /\ \A n \in 1 .. Base : n < primary.nextId
        /\ \A o \in 0 .. nextOffset - 1 : IsInsert(o) => appended[o].node \notin 1 .. Base
    <3>1. Base \in Nat /\ Base <= primary.highWater /\ primary.highWater < primary.nextId
          /\ primary.highWater \in Nat /\ primary.nextId \in Nat
      BY <1>1, ReplayAssumption DEF ReplayTyped, IndexOK
    <3>2. \A o \in 0 .. nextOffset - 1 : IsInsert(o) => appended[o].node > Base
      BY DEF ReplayInv, HistoryOK
    <3> QED
      BY <3>1, <3>2
  <2>2. m.kind = "insert" => m.node < primary.nextId
    BY <1>1, <1>m, <1>p DEF UniqueOK, IsInsert
  <2>3. ASSUME fresh
        PROVE  /\ \A n \in Live(standby') : n < primary.nextId
               /\ \A o \in p + 1 .. nextOffset - 1 :
                    IsInsert(o) => appended[o].node \notin Live(standby')
    <3>1. \A n \in Live(standby') : n < primary.nextId
      BY <1>1, <2>1, <2>2, <2>3, <2>b DEF UniqueOK
    <3>2. ASSUME NEW o \in p + 1 .. nextOffset - 1, IsInsert(o)
          PROVE  appended[o].node \notin Live(standby')
      <4>1. o \in p .. nextOffset - 1 /\ o \in 0 .. nextOffset - 1 /\ p < o
        BY <1>3, <1>p
      <4>2. appended[o].node \notin Live(standby)
        BY <1>1, <2>3, <3>2, <4>1 DEF UniqueOK, p
      <4>3. m.kind = "insert" => appended[o].node # m.node
        BY <1>1, <1>m, <1>p, <3>2, <4>1 DEF UniqueOK, IsInsert
      <4> QED
        BY <2>1, <2>b, <3>2, <4>1, <4>2, <4>3
    <3> QED
      BY <3>1, <3>2
  <2>4. Live(standby)' = Live(standby')
    BY DEF Live, Rowed
  <2> QED
    BY <1>1, <1>2, <1>5, <1>10, <2>3, <2>4, SameHistory DEF UniqueOK
<1> QED
  BY <1>10, <1>11, <1>12, <1>13, <1>14, <1>15, <1>16 DEF ReplayInv

LEMMA FailReplayStep ==
  ASSUME ReplayInv, FailReplay
  PROVE  ReplayInv'
<1> DEFINE p == Position
           m == appended[p]
<1>1. /\ LogInv /\ ReplayTyped /\ OpOK /\ BaseOK /\ PendingOK /\ UniqueOK
      /\ IndexOK(standby)
  BY DEF ReplayInv, ReplayTyped
<1>2. /\ phase = "replaying" /\ pending # << >> /\ phase' = "idle" /\ fresh' = FALSE
      /\ standby' \in {standby, Staged(standby, Head(pending).mutation)}
      /\ UNCHANGED logVars /\ appended' = appended /\ nextOffset' = nextOffset
      /\ from' = from /\ UNCHANGED primaryVars
  BY DEF FailReplay, logVars
<1>3. /\ p \in from .. through - 1 /\ through \in 0 .. nextOffset
      /\ Head(pending).mutation = m /\ m \in Mutations
      /\ nextOffset \in Nat /\ from \in 0 .. nextOffset
  BY <1>1, <1>2, NextPending, PositionTyped
<1>p. p \in from .. nextOffset - 1
  <2> HIDE DEF p
  <2> QED
    BY <1>3
<1> HIDE DEF p
<1>4. /\ IndexOK(standby') /\ standby'.rows = standby.rows
      /\ standby'.highWater = standby.highWater
      /\ DOMAIN standby'.draft \subseteq DOMAIN standby.draft \cup {m.node}
  <2>1. CASE standby' = standby
    BY <1>1, <2>1
  <2>2. CASE standby' = Staged(standby, m)
    BY <1>1, <1>3, <2>2, StagedIndex
  <2> QED
    BY <1>2, <1>3, <2>1, <2>2
<1>5. standby.highWater \in Nat
  BY <1>1 DEF IndexOK
<1>6. TruthOK' /\ HistoryOK'
      /\ primary' = primary /\ op' = op /\ owed' = owed /\ gone' = gone /\ restarted' = restarted
  BY <1>2, PrimaryRests
<1>7. LogInv'
  BY <1>1, <1>2, LogInvNext
<1>8. ReplayTyped' /\ OpOK'
  BY <1>1, <1>2, <1>4, <1>6 DEF ReplayTyped, OpOK
<1>9. BaseOK'
  <2>1. standby'.highWater >= standby.highWater
    BY <1>4, <1>5
  <2>2. p \in 0 .. nextOffset - 1
    BY <1>3, <1>p
  <2>3. DOMAIN standby'.draft \subseteq DOMAIN standby.draft \cup {appended[p].node}
    BY <1>4
  <2> QED
    BY <1>2, <1>4, <2>1, <2>2, <2>3, BaseStep
<1>10. PendingOK'
  BY <1>2 DEF PendingOK
<1>11. AppliedOK'
  <2>1. Position' = from' /\ from' .. from' - 1 = {}
    BY <1>2, <1>3 DEF Position
  <2> QED
    BY <2>1 DEF AppliedOK
<1>12. UniqueOK'
  BY <1>1, <1>2, <1>6, SameHistory DEF UniqueOK
<1> QED
  BY <1>6, <1>7, <1>8, <1>9, <1>10, <1>11, <1>12 DEF ReplayInv

LEMMA ReopenStandbyStep ==
  ASSUME ReplayInv, ReopenStandby
  PROVE  ReplayInv'
<1>1. /\ LogInv /\ ReplayTyped /\ OpOK /\ BaseOK /\ PendingOK /\ UniqueOK
      /\ IndexOK(standby)
  BY DEF ReplayInv, ReplayTyped
<1>2. /\ standby' = Reopened(standby) /\ phase' = "idle" /\ fresh' = FALSE
      /\ UNCHANGED logVars /\ appended' = appended /\ nextOffset' = nextOffset
      /\ from' = from /\ UNCHANGED primaryVars
  BY DEF ReopenStandby, logVars
<1>3. /\ IndexOK(standby') /\ standby'.draft = EmptyFn /\ standby'.rows = standby.rows
      /\ standby'.highWater = standby.highWater
  BY <1>1, <1>2, ReopenedIndex
<1>4. /\ TruthOK' /\ HistoryOK' /\ Known' = Known
      /\ primary' = primary /\ op' = op /\ owed' = owed /\ gone' = gone /\ restarted' = restarted
  BY <1>2, PrimaryRests
<1>5. LogInv'
  BY <1>1, <1>2, LogInvNext
<1>6. ReplayTyped' /\ OpOK'
  BY <1>1, <1>2, <1>3, <1>4 DEF ReplayTyped, OpOK
<1>7. BaseOK'
  <2>1. \A n : /\ Untouched(n, 0)' <=> Untouched(n, 0)
               /\ NotInserted(n, from)' <=> NotInserted(n, from)
    BY <1>2 DEF Untouched, NotInserted, About, IsInsert
  <2>2. DOMAIN standby'.draft = {}
    BY <1>3 DEF EmptyFn
  <2> QED
    BY <1>1, <1>3, <1>4, <2>1, <2>2 DEF BaseOK, BuiltKept, Rowed
<1>8. PendingOK'
  BY <1>2 DEF PendingOK
<1>9. AppliedOK'
  <2>1. from \in Nat
    BY <1>1 DEF ReplayTyped, LogInv, LogTypeOK
  <2>2. Position' = from' /\ from' .. from' - 1 = {}
    BY <1>2, <2>1 DEF Position
  <2> QED
    BY <2>2 DEF AppliedOK
<1>10. UniqueOK'
  BY <1>1, <1>2, <1>4, SameHistory DEF UniqueOK
<1> QED
  BY <1>4, <1>5, <1>6, <1>7, <1>8, <1>9, <1>10 DEF ReplayInv

LEMMA EndReplayStep ==
  ASSUME ReplayInv, EndReplay
  PROVE  ReplayInv'
<1>1. /\ LogInv /\ ReplayTyped /\ OpOK /\ BaseOK /\ PendingOK /\ AppliedOK /\ UniqueOK
  BY DEF ReplayInv
<1>2. /\ phase = "replaying" /\ pending = << >> /\ phase' = "done"
      /\ UNCHANGED logVars /\ appended' = appended /\ nextOffset' = nextOffset
      /\ standby' = standby /\ from' = from /\ fresh' = fresh
      /\ pending' = pending /\ through' = through /\ UNCHANGED primaryVars
  BY DEF EndReplay, logVars
<1>3. Position' = Position
  BY <1>2 DEF Position
<1>4. TruthOK' /\ HistoryOK' /\ Known' = Known
      /\ primary' = primary /\ op' = op /\ owed' = owed /\ gone' = gone /\ restarted' = restarted
  BY <1>2, PrimaryRests
<1>5. LogInv'
  BY <1>1, <1>2, LogInvNext
<1>6. ReplayTyped' /\ OpOK'
  BY <1>1, <1>2, <1>4 DEF ReplayTyped, OpOK
<1>7. BaseOK'
  <2>1. \A n : /\ Untouched(n, from)' <=> Untouched(n, from)
               /\ NotInserted(n, from)' <=> NotInserted(n, from)
    BY <1>2 DEF Untouched, NotInserted, About, IsInsert
  <2> QED
    BY <1>1, <1>2, <1>4, <2>1, SameHistory DEF BaseOK, BuiltKept, Rowed
<1>8. PendingOK'
  BY <1>1, <1>2, <1>3 DEF PendingOK
<1>9. AppliedOK'
  <2>1. \A o : Last(o, appended[o].node, Position)' <=> Last(o, appended[o].node, Position)
    BY <1>2, <1>3 DEF Last, About
  <2> QED
    BY <1>1, <1>2, <1>3, <2>1, SameHistory DEF AppliedOK, Shows, Rowed
<1>10. UniqueOK'
  <2>1. Live(standby)' = Live(standby)
    BY <1>2 DEF Live, Rowed
  <2> QED
    BY <1>1, <1>2, <1>3, <1>4, <2>1, SameHistory DEF UniqueOK
<1> QED
  BY <1>4, <1>5, <1>6, <1>7, <1>8, <1>9, <1>10 DEF ReplayInv

------------------------------------------------------------------------------
(* The invariant holds *)

LEMMA ReplayInvInit == Init => ReplayInv
<1> SUFFICES ASSUME Init PROVE ReplayInv
  OBVIOUS
<1>1. /\ primary = Built /\ standby = Built
      /\ op = NoOp /\ from = 0 /\ phase = "idle"
      /\ owed = primary.rows /\ gone = {} /\ nextOffset = 0
  BY DEF Init, LogInit
<1>2. /\ IndexOK(Built)
      /\ Built.draft = EmptyFn /\ Built.highWater = Base
      /\ Rowed(Built) = 1 .. Base /\ Live(Built) = 1 .. Base
      /\ \A n \in 1 .. Base : Built.rows[n] = "built"
  BY BuiltIndex
<1>3. Base \in Nat /\ DOMAIN EmptyFn = {}
  BY ReplayAssumption DEF EmptyFn
<1>4. 0 .. nextOffset - 1 = {} /\ 0 .. 0 - 1 = {}
  BY <1>1
<1>5. LogInv
  BY LogInvInit DEF Init
<1>6. ReplayTyped
  BY <1>1, <1>2, <1>3 DEF ReplayTyped
<1>7. OpOK /\ PendingOK
  BY <1>1 DEF OpOK, PendingOK
<1>8. DOMAIN owed = 1 .. Base /\ Known = 1 .. Base
  <2>1. Named = {}
    BY <1>1 DEF Named
  <2> QED
    BY <1>1, <1>2, <2>1 DEF Known, Rowed
<1>9. TruthOK
  BY <1>1, <1>2, <1>3, <1>8, BuiltHasBuilt DEF TruthOK, IndexOK
<1>10. HistoryOK
  <2>1. \A n : Untouched(n, 0)
    BY <1>4 DEF Untouched
  <2> QED
    BY <1>1, <1>2, <1>4, <1>8, <2>1 DEF HistoryOK
<1>11. BaseOK
  BY <1>1, <1>2, <1>3, <1>8, BuiltHasBuilt DEF BaseOK
<1>12. AppliedOK
  BY <1>1, <1>4 DEF AppliedOK, Position
<1>13. UniqueOK
  <2>1. \A n \in Live(standby) : n < primary.nextId
    BY <1>1, <1>2 DEF IndexOK
  <2>2. Position .. nextOffset - 1 = {}
    BY <1>1, <1>4 DEF Position
  <2> QED
    BY <1>4, <2>1, <2>2 DEF UniqueOK
<1> QED
  BY <1>5, <1>6, <1>7, <1>9, <1>10, <1>11, <1>12, <1>13 DEF ReplayInv

LEMMA ReplayInvNext == ReplayInv /\ [Next]_replayVars => ReplayInv'
<1> SUFFICES ASSUME ReplayInv, [Next]_replayVars PROVE ReplayInv'
  OBVIOUS
<1>1. ASSUME NEW row \in Rows, LogInsert(row) PROVE ReplayInv'
  BY <1>1, LogInsertStep
<1>2. ASSUME NEW n \in DOMAIN owed \cup DOMAIN primary.rows \cup gone, LogDelete(n)
      PROVE  ReplayInv'
  BY <1>2, LogDeleteStep
<1>3. CASE LoseInsert
  BY <1>3, LoseInsertStep
<1>4. CASE Stage
  BY <1>4, StageStep
<1>5. CASE Publish
  BY <1>5, PublishStep
<1>6. CASE FailMutation
  BY <1>6, FailMutationStep
<1>7. CASE Restart
  BY <1>7, RestartStep
<1>8. CASE LogUpkeep
  BY <1>8, LogUpkeepStep
<1>9. CASE Rebuild
  BY <1>9, RebuildStep
<1>10. CASE Copy
  BY <1>10, CopyStep
<1>11. CASE BeginReplay
  BY <1>11, BeginReplayStep
<1>12. CASE ApplyEntry
  BY <1>12, ApplyEntryStep
<1>13. CASE FailReplay
  BY <1>13, FailReplayStep
<1>14. CASE EndReplay
  BY <1>14, EndReplayStep
<1>15. CASE ReopenStandby
  BY <1>15, ReopenStandbyStep
<1>16. CASE UNCHANGED replayVars
  <2>1. /\ UNCHANGED <<logVars, standbyVars>> /\ primary' = primary /\ op' = op
        /\ owed' = owed /\ gone' = gone /\ restarted' = restarted
    BY <1>16 DEF replayVars, primaryVars
  <2>2. ReplayTyped /\ OpOK /\ TruthOK
    BY DEF ReplayInv
  <2>3. primary.nextId \in Nat /\ primary'.nextId >= primary.nextId /\ primary'.nextId \in Nat
    BY <2>1, <2>2 DEF ReplayTyped, IndexOK
  <2>4. Known' = Known
    BY <2>1 DEF Known, Named, Live, Rowed
  <2>5. LogInv' /\ HistoryOK' /\ BaseOK' /\ PendingOK' /\ AppliedOK' /\ UniqueOK'
    BY <2>1, <2>3, <2>4, PrimaryStep
  <2>6. ReplayTyped' /\ OpOK' /\ TruthOK'
    BY <2>1, <2>2, BuiltStays DEF ReplayTyped, OpOK, TruthOK, standbyVars, logVars
  <2> QED
    BY <2>5, <2>6 DEF ReplayInv
<1> QED
  BY <1>1, <1>2, <1>3, <1>4, <1>5, <1>6, <1>7, <1>8, <1>9, <1>10, <1>11, <1>12,
     <1>13, <1>14, <1>15, <1>16 DEF Next

------------------------------------------------------------------------------
(* Theorems *)

\* Replay, whatever mutations failed half way, whatever was truncated and
\* however often it was started over, keeps the standby what the log says
\* (apply_insert, apply_delete, replay_mutation).
THEOREM ReplayInvariance == Spec => []ReplayInv
BY ReplayInvInit, ReplayInvNext, PTL DEF Spec

\* Every replay hands out every mutation logged since the state it starts
\* from, once and in order, however the log was truncated meanwhile
\* (replay_from).
THEOREM LogReplayComplete == Spec => []ReplayComplete
<1>1. ReplayInv => ReplayComplete
  BY LogInvComplete DEF ReplayInv
<1> QED
  BY ReplayInvariance, <1>1, PTL

\* What a replay to the end of the log has applied.
LEMMA CaughtUpPosition ==
  ASSUME ReplayInv, CaughtUp
  PROVE  /\ Position = nextOffset /\ nextOffset \in Nat /\ from \in 0 .. nextOffset
         /\ \A o \in from .. nextOffset - 1 :
              Last(o, appended[o].node, nextOffset) => Shows(standby, appended[o])
<1>1. PendingOK /\ AppliedOK /\ LogInv /\ ReplayTyped
  BY DEF ReplayInv
<1>2. phase # "idle" /\ phase = "done" /\ pending = << >> /\ through = nextOffset
  BY <1>1 DEF CaughtUp, PendingOK
<1>3. nextOffset \in Nat /\ from \in 0 .. nextOffset
  BY <1>1, PositionTyped
<1>4. Position = nextOffset
  <2>1. Position = through - Len(pending) /\ Len(pending) = 0
    BY <1>2 DEF Position
  <2> QED
    BY <1>2, <1>3, <2>1
<1> QED
  BY <1>1, <1>3, <1>4 DEF AppliedOK

\* A standby that replayed the log to its end has every row whose insert the
\* primary acknowledged, and none whose delete it acknowledged, except of nodes
\* only a copied delta knew of (replay_mutations_from, publish_hot_delta_over).
THEOREM StandbyHasAll == Spec => []StandbyComplete
<1>1. ReplayInv => StandbyComplete
  <2> SUFFICES ASSUME ReplayInv, CaughtUp,
                      NEW n \in DOMAIN owed \cup gone, ~CarriedOver(n)
               PROVE  HasWhatWasTold(n)
    BY DEF StandbyComplete
  <2>1. HistoryOK /\ BaseOK
    BY DEF ReplayInv
  <2>2. /\ nextOffset \in Nat /\ from \in 0 .. nextOffset
        /\ \A o \in from .. nextOffset - 1 :
             Last(o, appended[o].node, nextOffset) => Shows(standby, appended[o])
    BY CaughtUpPosition
  <2>3. ASSUME NEW o \in 0 .. nextOffset - 1, Last(o, n, nextOffset)
        PROVE  appended[o].node = n /\ Shows(standby, appended[o])
    <3>1. appended[o].node = n
      BY <2>3 DEF Last, About
    <3>2. ~Untouched(n, from)
      <4>1. CASE o \in from .. nextOffset - 1
        BY <3>1, <4>1 DEF Untouched, About
      <4>2. CASE o \in 0 .. from - 1
        BY <3>1, <4>2 DEF CarriedOver, Untouched, About
      <4> QED
        BY <2>2, <4>1, <4>2
    <3>3. o >= from
      BY <2>2, <2>3, <3>2, LastSince
    <3>4. o \in from .. nextOffset - 1
      BY <2>2, <3>3
    <3> QED
      BY <2>2, <2>3, <3>1, <3>4
  <2>4. CASE n \in gone
    <3>1. PICK o \in 0 .. nextOffset - 1 : Last(o, n, nextOffset) /\ ~IsInsert(o)
      BY <2>1, <2>4 DEF HistoryOK
    <3> QED
      BY <2>3, <2>4, <3>1 DEF HasWhatWasTold, Shows, Rowed, IsInsert
  <2>5. CASE n \notin gone
    <3>1. CASE Untouched(n, 0) /\ n \in 1 .. Base /\ owed[n] = "built"
      BY <2>1, <2>5, <3>1 DEF HasWhatWasTold, BaseOK, BuiltKept, Rowed
    <3>2. ASSUME NEW o \in 0 .. nextOffset - 1,
                 Last(o, n, nextOffset), IsInsert(o), appended[o].row = owed[n]
          PROVE  HasWhatWasTold(n)
      BY <2>3, <2>5, <3>2 DEF HasWhatWasTold, Shows, Rowed, IsInsert
    <3> QED
      BY <2>1, <2>5, <3>1, <3>2 DEF HistoryOK
  <2> QED
    BY <2>4, <2>5
<1> QED
  BY ReplayInvariance, <1>1, PTL

\* If it takes over then, it hands out no id that names a row, or a deleted
\* row, of the primary (allocate_node_id, from_storage).
THEOREM StandbyCanTakeOver == Spec => []StandbyIdsFresh
<1>1. ReplayInv => StandbyIdsFresh
  <2> SUFFICES ASSUME ReplayInv, CaughtUp, NEW n \in DOMAIN owed \cup gone \cup DOMAIN standby.rows
               PROVE  n < standby.nextId /\ n <= standby.highWater
    BY DEF StandbyIdsFresh
  <2>1. ReplayTyped /\ BaseOK /\ AppliedOK
    BY DEF ReplayInv
  <2>2. /\ Live(standby) \subseteq NodeIds
        /\ \A k \in Rowed(standby) : k <= standby.highWater
        /\ standby.nextId \in Nat /\ standby.highWater \in Nat
        /\ standby.highWater < standby.nextId
    BY <2>1 DEF ReplayTyped, IndexOK
  <2>3. n \in Nat
    BY <2>2, KnownNodes DEF Live, Rowed, NodeIds
  <2>4. n <= standby.highWater
    <3>1. CASE n \in Rowed(standby)
      BY <2>2, <3>1
    <3>2. CASE n \in Known /\ NotInserted(n, from)
      BY <2>1, <3>2 DEF BaseOK
    <3>3. CASE ~NotInserted(n, from)
      <4>1. PICK o \in from .. nextOffset - 1 : About(o, n) /\ IsInsert(o)
        BY <3>3 DEF NotInserted
      <4> QED
        BY <2>1, <4>1, CaughtUpPosition DEF AppliedOK, About
    <3> QED
      BY <3>1, <3>2, <3>3 DEF Known, Rowed
  <2> QED
    BY <2>2, <2>3, <2>4
<1> QED
  BY ReplayInvariance, <1>1, PTL

\* As long as the primary is not restarted, no insert of a first replay finds
\* its own row already there (record.validate).
THEOREM FirstReplayNotRefused == Spec => []FirstReplayAccepted
<1>1. ReplayInv => FirstReplayAccepted
  <2> SUFFICES ASSUME ReplayInv, ~restarted, fresh, phase = "replaying", pending # << >>,
                      LinksToItself(standby, Head(pending).mutation)
               PROVE  FALSE
    BY DEF FirstReplayAccepted
  <2>1. LogInv /\ ReplayTyped /\ PendingOK /\ UniqueOK
    BY DEF ReplayInv
  <2>2. /\ Position \in from .. through - 1 /\ through \in 0 .. nextOffset
        /\ Head(pending).mutation = appended[Position]
        /\ nextOffset \in Nat /\ from \in 0 .. nextOffset
    BY <2>1, NextPending, PositionTyped
  <2>3. Position \in Position .. nextOffset - 1
    BY <2>2
  <2>4. IsInsert(Position) /\ appended[Position].node \in Live(standby)
    BY <2>2 DEF LinksToItself, IsInsert, Live, Rowed
  <2> QED
    BY <2>1, <2>3, <2>4 DEF UniqueOK
<1> QED
  BY ReplayInvariance, <1>1, PTL

==============================================================================
