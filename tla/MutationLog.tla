----------------------------- MODULE MutationLog -----------------------------
(***************************************************************************)
(* The mutation log of the in-memory backend: appends in one total order,  *)
(* replay from any offset still retained, a checkpoint, and truncation     *)
(* before it.  Every call runs under the storage mutex.  It is also what   *)
(* the durable log promises, crashes included.                             *)
(***************************************************************************)
EXTENDS LogEntries

CONSTANTS
  Mutations,   \* serialized mutations
  MaxAppends   \* bound on the offsets handed out

ASSUME LogAssumption == MaxAppends \in Nat

VARIABLES
  entries,      \* log_entries
  nextOffset,   \* next_log_offset
  firstOffset,  \* first_log_offset: what lies below was truncated
  checkpoint,   \* the checkpoint offset
  appended      \* history: the mutation appended at each offset

logVars == <<entries, nextOffset, firstOffset, checkpoint, appended>>

Entry == [offset : Nat, mutation : Mutations]

------------------------------------------------------------------------------
(* The trait methods *)

AppendMutation(m) ==
  /\ nextOffset < MaxAppends
  /\ entries' = Append(entries, [offset |-> nextOffset, mutation |-> m])
  /\ nextOffset' = nextOffset + 1
  /\ appended' = [o \in DOMAIN appended \cup {nextOffset} |->
                    IF o = nextOffset THEN m ELSE appended[o]]
  /\ UNCHANGED <<firstOffset, checkpoint>>

\* What replay_from(offset) hands to its callback, where it does not refuse.
Available(offset) == offset >= firstOffset
Replay(offset) == From(entries, offset)

\* The checkpoint may move back, as long as it stays in the log.
Checkpoint(offset) ==
  /\ firstOffset <= offset /\ offset <= nextOffset
  /\ checkpoint' = offset
  /\ UNCHANGED <<entries, nextOffset, firstOffset, appended>>

\* Mutant of TruncateBeforeCheckpoint: the floor is not raised.
TruncateKeepsFloor ==
  /\ entries' = From(entries, checkpoint)
  /\ UNCHANGED <<firstOffset, nextOffset, checkpoint, appended>>

TruncateBeforeCheckpoint ==
  /\ entries' = From(entries, checkpoint)
  /\ firstOffset' = Later(firstOffset, checkpoint)
  /\ UNCHANGED <<nextOffset, checkpoint, appended>>

------------------------------------------------------------------------------
(* Specification *)

LogInit ==
  /\ entries = <<>>
  /\ nextOffset = 0 /\ firstOffset = 0 /\ checkpoint = 0
  /\ appended = [o \in {} |-> o]

LogNext ==
  \/ \E m \in Mutations : AppendMutation(m)
  \/ \E offset \in 0 .. MaxAppends : Checkpoint(offset)
  \/ TruncateBeforeCheckpoint

LogSpec == LogInit /\ [][LogNext]_logVars

------------------------------------------------------------------------------
(* Properties *)

\* Types; the history has one mutation for every offset handed out
\* (append_mutation).
LogTypeOK ==
  /\ entries \in Seq(Entry)
  /\ nextOffset \in Nat /\ firstOffset \in Nat /\ checkpoint \in Nat
  /\ appended \in [0 .. nextOffset - 1 -> Mutations]

\* The appends at or after offset, as entries.
History(offset) ==
  [i \in 1 .. nextOffset - offset |->
     [offset |-> offset + i - 1, mutation |-> appended[offset + i - 1]]]

\* Replay from any offset that is not refused hands out every mutation
\* appended at or after it, once, in order, and nothing else: truncation
\* never leaves a silent gap (replay_from, truncate_before_checkpoint).
ReplayComplete ==
  \A offset \in 0 .. nextOffset : Available(offset) => Replay(offset) = History(offset)

\* The checkpoint can always be replayed from: truncation never passes it,
\* and it never moves below the floor (checkpoint refuses it).
CheckpointAvailable == firstOffset <= checkpoint /\ checkpoint <= nextOffset

==============================================================================
