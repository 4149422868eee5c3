--------------------------- MODULE FileMutationLog ---------------------------
(***************************************************************************)
(* The durable mutation log of the file backend: wal/LOG, a sequence of    *)
(* checksummed frames, and wal/STATE.json with the checkpoint and the      *)
(* truncation floor.  Each call runs under the storage mutex and is a few  *)
(* file operations, any of which may fail or be the last before a crash.   *)
(*                                                                         *)
(* A crash of the machine keeps everything that was synced and, of the     *)
(* rest, any part: a rename that was not followed by an fsync of the       *)
(* directory may be undone, and of appended frames any prefix may survive, *)
(* the last one torn.  When the process exits the files stay as they are,  *)
(* and what was not synced stays so.  An fsync that succeeds is taken to   *)
(* make all that was written to its file before durable, also after an     *)
(* earlier fsync of the file failed.                                       *)
(***************************************************************************)
EXTENDS LogEntries, FiniteSets

CONSTANTS
  Mutations,   \* serialized mutations
  MaxAppends,  \* bound on the offsets handed out
  MaxFrames,   \* bound on the frames of a file
  Torn,        \* a frame cut short: its checksum does not match
  Faults,      \* the kinds of faults that may happen, see Fault
  MaxFaults    \* bound on the kinds of faults in one behavior

ASSUME FileLogAssumption ==
  /\ MaxAppends \in Nat /\ MaxFrames \in Nat /\ MaxFaults \in Nat
  /\ Torn \notin [offset : Nat, mutation : Mutations]
  /\ Faults \subseteq {"write", "sync", "directory", "rename", "reopen", "exit"}

VARIABLES
  files,         \* the contents of the files that are or were wal/LOG
  name,          \* the file wal/LOG names
  durableName,   \* the file it names if the machine crashes now
  state,         \* wal/STATE.json
  durableState,  \* its contents if the machine crashes now
  wal,           \* WalState: the log in memory, or Closed
  op,            \* the call in progress and how far it got
  appended,      \* history: the mutation at each offset the log ever showed
  returned,      \* history: the offsets returned to a caller
  faults         \* history: the kinds of faults that happened

logVars == <<files, name, durableName, state, durableState, wal, op, appended, returned, faults>>

\* A file is its frames and how many of them are on disk for certain.
Frame == [offset : Nat, mutation : Mutations] \cup {Torn}
File(frames) == [frames |-> frames, synced |-> Len(frames)]
NoFile == File(<<>>)

\* wal/LOG, the file a crash would bring back, the one the append handle
\* writes to, and a fresh one.  What nothing can reach any more is NoFile.
FileIds == 1 .. 4

Closed == [closed |-> TRUE]
IsOpen == "next" \in DOMAIN wal
NoOp == [pc |-> "idle"]
\* One of these goes wrong: a write stops half way ("write"), the fsync of an
\* append fails ("sync"), or that of the directory after the state was renamed
\* ("directory"), compaction fails before its rename ("rename") or after it
\* ("reopen"), the process ends with files that are not synced ("exit").
Fault(kind) ==
  /\ kind \in Faults
  /\ faults' = faults \cup {kind}
  /\ Cardinality(faults') <= MaxFaults

Idle == IsOpen /\ op = NoOp
At(pc) == op.pc = pc

------------------------------------------------------------------------------
(* Reading the files *)

\* The frames before the first one that is torn.
Intact(frames) ==
  LET good == CHOOSE k \in 0 .. Len(frames) :
                /\ \A i \in 1 .. k : frames[i] # Torn
                /\ k < Len(frames) => frames[k + 1] = Torn
  IN  SubSeq(frames, 1, good)

\* Mutants of Loaded: truncated entries are not filtered out; the next offset
\* is taken from the log alone.
LoadedUnfiltered(frames, st) ==
  LET kept == Intact(frames)
      last == IF kept = <<>> THEN 0 ELSE kept[Len(kept)].offset + 1
  IN  [entries |-> kept, next |-> Later(Later(st.first, st.checkpoint), last),
       first |-> st.first, checkpoint |-> st.checkpoint]
LoadedNextFromLog(frames, st) ==
  LET kept == From(Intact(frames), st.first)
  IN  [entries |-> kept,
       next |-> IF kept = <<>> THEN 0 ELSE kept[Len(kept)].offset + 1,
       first |-> st.first, checkpoint |-> st.checkpoint]

\* load_wal: entries below the floor are skipped, and the next offset is past
\* everything the state or the log remembers.
Loaded(frames, st) ==
  LET kept == From(Intact(frames), st.first)
      last == IF kept = <<>> THEN 0 ELSE kept[Len(kept)].offset + 1
  IN  [entries |-> kept, next |-> Later(Later(st.first, st.checkpoint), last),
       first |-> st.first, checkpoint |-> st.checkpoint]

------------------------------------------------------------------------------
(* append_mutation: write the frame, fsync, and only then the offset counts *)

Write(frame) ==
  /\ Len(files[wal.handle].frames) < MaxFrames
  /\ files' = [files EXCEPT ![wal.handle].frames = Append(@, frame)]

AppendWrite(m) ==
  /\ Idle
  /\ wal.next < MaxAppends
  /\ Write([offset |-> wal.next, mutation |-> m])
  /\ op' = [pc |-> "append", mutation |-> m]
  /\ UNCHANGED <<name, durableName, state, durableState, wal, appended, returned, faults>>

\* The write fails part of the way.  (If it fails at once nothing changes.)
AppendTorn ==
  /\ Idle
  /\ wal.next < MaxAppends
  /\ Fault("write")
  /\ Write(Torn)
  /\ UNCHANGED <<name, durableName, state, durableState, wal, op, appended, returned>>

\* Mutant of AppendSync: the offset is not used up.
AppendSyncSameOffset ==
  /\ At("append")
  /\ files' = [files EXCEPT ![wal.handle].synced = Len(files[wal.handle].frames)]
  /\ wal' = [wal EXCEPT !.entries =
                Append(@, [offset |-> wal.next, mutation |-> op.mutation])]
  /\ appended' = [o \in DOMAIN appended \cup {wal.next} |->
                    IF o = wal.next THEN op.mutation ELSE appended[o]]
  /\ returned' = returned \cup {wal.next}
  /\ op' = NoOp
  /\ UNCHANGED <<name, durableName, state, durableState, faults>>

AppendSync ==
  /\ At("append")
  /\ files' = [files EXCEPT ![wal.handle].synced = Len(files[wal.handle].frames)]
  /\ wal' = [wal EXCEPT !.next = @ + 1,
                        !.entries = Append(@, [offset |-> wal.next, mutation |-> op.mutation])]
  /\ appended' = [o \in DOMAIN appended \cup {wal.next} |->
                    IF o = wal.next THEN op.mutation ELSE appended[o]]
  /\ returned' = returned \cup {wal.next}
  /\ op' = NoOp
  /\ UNCHANGED <<name, durableName, state, durableState, faults>>

------------------------------------------------------------------------------
(* checkpoint and truncate_before_checkpoint *)

\* An fsync of wal/ makes the renames in it durable.
SyncDirectory == durableName' = name /\ durableState' = state

Checkpoint(offset) ==
  /\ Idle
  /\ wal.first <= offset /\ offset <= wal.next
  /\ state' = [checkpoint |-> offset, first |-> wal.first]
  /\ op' = [pc |-> "checkpoint", offset |-> offset]
  /\ UNCHANGED <<files, name, durableName, durableState, wal, appended, returned, faults>>

CheckpointSync ==
  /\ At("checkpoint")
  /\ SyncDirectory
  /\ wal' = [wal EXCEPT !.checkpoint = op.offset]
  /\ op' = NoOp
  /\ UNCHANGED <<files, name, state, appended, returned, faults>>

\* Mutant of Truncate: the log is compacted before the floor is published.
TruncateCompactsFirst ==
  /\ Idle
  /\ wal' = [wal EXCEPT !.first = Later(@, wal.checkpoint),
                        !.entries = From(@, wal.checkpoint)]
  /\ op' = [pc |-> "compact"]
  /\ UNCHANGED <<files, name, durableName, state, durableState, appended, returned, faults>>

\* The floor is published before the log is compacted.
Truncate ==
  /\ Idle
  /\ state' = [checkpoint |-> wal.checkpoint, first |-> Later(wal.first, wal.checkpoint)]
  /\ op' = [pc |-> "truncate"]
  /\ UNCHANGED <<files, name, durableName, durableState, wal, appended, returned, faults>>

TruncateSync ==
  /\ At("truncate")
  /\ SyncDirectory
  /\ wal' = [wal EXCEPT !.first = Later(@, wal.checkpoint),
                        !.entries = From(@, wal.checkpoint)]
  /\ op' = [pc |-> "compact"]
  /\ UNCHANGED <<files, name, state, appended, returned, faults>>

\* The new file is complete and synced before it is renamed over the old one.
Compact ==
  /\ At("compact")
  /\ \E fresh \in FileIds \ {name, durableName, wal.handle} :
       /\ \A i \in 1 .. fresh - 1 : i \in {name, durableName, wal.handle}
       /\ files' = [i \in FileIds |->
                      CASE i = fresh -> File(wal.entries)
                        [] i \in {name, durableName, wal.handle} -> files[i]
                        [] OTHER -> NoFile]
       /\ name' = fresh
  /\ op' = [pc |-> "reopen"]
  /\ UNCHANGED <<durableName, state, durableState, wal, appended, returned, faults>>

CompactReopen ==
  /\ At("reopen")
  /\ SyncDirectory
  /\ files' = [i \in FileIds |-> IF i = name THEN files[i] ELSE NoFile]
  /\ wal' = [wal EXCEPT !.handle = name]
  /\ op' = NoOp
  /\ UNCHANGED <<name, state, appended, returned, faults>>

\* A failing file operation ends the call.
Fail ==
  /\ \/ At("append") /\ Fault("sync")
     \/ (At("checkpoint") \/ At("truncate")) /\ Fault("directory")
     \/ At("compact") /\ Fault("rename")
     \/ At("reopen") /\ Fault("reopen")
  /\ op' = NoOp
  /\ UNCHANGED <<files, name, durableName, state, durableState, wal, appended, returned>>

------------------------------------------------------------------------------
(* Crash and open *)

\* What a crash can leave of a file.
Remains(file) ==
  LET prefix(k) == SubSeq(file.frames, 1, k)
      lengths == file.synced .. Len(file.frames)
  IN  {prefix(k) : k \in lengths}
        \cup {Append(prefix(k), Torn) : k \in lengths \ {Len(file.frames)}}

\* What a crash can leave of the log and of its state.
Outcomes ==
  {[frames |-> frames, state |-> st] :
     frames \in UNION {Remains(files[i]) : i \in {name, durableName}},
     st \in {state, durableState}}

\* An append that had not returned may turn out to have happened.
WithRecovered(log) ==
  [o \in DOMAIN appended \cup {log[i].offset : i \in DOMAIN log} |->
     IF o \in DOMAIN appended THEN appended[o]
     ELSE (CHOOSE e \in {log[i] : i \in DOMAIN log} : e.offset = o).mutation]

\* The system may write any rename back before it is told to.
WriteBack ==
  /\ durableName' \in {durableName, name}
  /\ durableState' \in {durableState, state}
  /\ UNCHANGED <<files, name, state, wal, op, appended, returned, faults>>

Crash ==
  /\ \E left \in Outcomes :
       /\ files' = [i \in FileIds |-> IF i = 1 THEN File(left.frames) ELSE NoFile]
       /\ state' = left.state
       /\ durableState' = left.state
       /\ appended' = WithRecovered(Loaded(left.frames, left.state).entries)
  /\ name' = 1 /\ durableName' = 1
  /\ wal' = Closed
  /\ op' = NoOp
  /\ UNCHANGED <<returned, faults>>

Synced ==
  /\ durableName = name /\ durableState = state
  /\ files[name].synced = Len(files[name].frames)

\* The process ends, by itself or killed; the lock on the directory goes with
\* it, so the directory can be opened again.
Exit ==
  /\ IsOpen
  /\ IF Synced THEN UNCHANGED faults ELSE Fault("exit")
  /\ wal' = Closed
  /\ op' = NoOp
  /\ appended' = WithRecovered(Loaded(files[name].frames, state).entries)
  /\ UNCHANGED <<files, name, durableName, state, durableState, returned>>

\* The torn tail is cut off the file, and only then is the file synced.
Open ==
  /\ ~IsOpen
  /\ LET loaded == Loaded(files[name].frames, state)
     IN  wal' = [entries |-> loaded.entries, next |-> loaded.next, first |-> loaded.first,
                 checkpoint |-> loaded.checkpoint, handle |-> name]
  /\ files' = [files EXCEPT ![name] =
                  IF Intact(@.frames) = @.frames THEN @ ELSE File(Intact(@.frames))]
  /\ UNCHANGED <<name, durableName, state, durableState, op, appended, returned, faults>>

------------------------------------------------------------------------------
(* Specification *)

Init ==
  /\ files = [i \in FileIds |-> NoFile]
  /\ name = 1 /\ durableName = 1
  /\ state = [checkpoint |-> 0, first |-> 0]
  /\ durableState = state
  /\ wal = Closed
  /\ op = NoOp
  /\ appended = [o \in {} |-> o]
  /\ returned = {}
  /\ faults = {}

Next ==
  \/ \E m \in Mutations : AppendWrite(m)
  \/ AppendTorn
  \/ AppendSync
  \/ \E offset \in 0 .. MaxAppends : Checkpoint(offset)
  \/ CheckpointSync
  \/ Truncate
  \/ TruncateSync
  \/ Compact
  \/ CompactReopen
  \/ Fail
  \/ WriteBack
  \/ Crash
  \/ Exit
  \/ Open

Spec == Init /\ [][Next]_logVars

------------------------------------------------------------------------------
(* Properties *)

\* What opening the log after a crash at this point would show.
Recoveries == {Loaded(left.frames, left.state) : left \in Outcomes}

\* Replay after a crash at this point hands out every append that was
\* acknowledged and is not below the floor it reports (append_mutation: the
\* offset is returned after the fsync).
AppendsAreDurable ==
  \A log \in Recoveries :
    \A o \in returned : o >= log.first =>
      \E i \in DOMAIN log.entries :
        log.entries[i] = [offset |-> o, mutation |-> appended[o]]

\* The faults after which an acknowledged append may be lost: it follows a
\* torn frame, or went to a file that was replaced, or whose name is not
\* durable.
LosingFaults == {"write", "reopen", "exit"}

\* No other fault, at any point of any call, ever loses one: neither a failed
\* fsync of an append or of the directory, nor a compaction that fails
\* (append_mutation, checkpoint, truncate_before_checkpoint, load_wal).
AcknowledgedAppendsSurvive == faults \cap LosingFaults = {} => AppendsAreDurable

\* Nor is an offset that was returned to a caller handed out again, even when
\* truncation has emptied the log before the crash (load_wal).
NoOffsetReused ==
  faults \cap LosingFaults = {} =>
    \A log \in Recoveries : \A o \in returned : o < log.next

\* Offsets strictly increase along a recovered log, so each names one
\* mutation, unless the fsync of an append failed: its frame stays in the
\* file and its offset is used again (append_mutation, load_wal).
RecoveredOffsetsIncrease ==
  "sync" \notin faults =>
    \A log \in Recoveries :
      \A i, j \in DOMAIN log.entries :
        i < j => log.entries[i].offset < log.entries[j].offset

\* The log as its callers know it: what is in memory or, while it is closed,
\* what opening it will show.
Visible == IF IsOpen THEN wal ELSE Loaded(files[name].frames, state)

Log == INSTANCE MutationLog WITH
         entries <- Visible.entries,
         nextOffset <- Visible.next,
         firstOffset <- Visible.first,
         checkpoint <- Visible.checkpoint,
         appended <- appended

\* The file log is a mutation log: a crash at any point looks as if the call
\* in progress had returned or had never been made.  Some prefix of the file
\* operations is on disk, and load_wal makes one of the two of it.
ImplementsMutationLog == Log!LogSpec

==============================================================================
