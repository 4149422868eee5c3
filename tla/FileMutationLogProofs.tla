------------------------ MODULE FileMutationLogProofs ------------------------
(***************************************************************************)
(* What the durable log never loses, for any mutations, any number of      *)
(* files, frames and faults, and a crash after any file operation.         *)
(*                                                                         *)
(* Two invariants.  The frames of a file are in the order of their         *)
(* offsets, whatever went wrong (OrderInv).  And while none of the faults  *)
(* that lose appends happened, every file a crash may bring back holds     *)
(* what was acknowledged, on disk for certain and before any torn frame,   *)
(* from a floor on that no state a crash may bring back is below           *)
(* (DurableInv).  When no file operation fails, each of those files is a   *)
(* stretch of the history without gaps (OpenLog, ClosedLog), from which    *)
(* the refinement of MutationLog follows.                                  *)
(***************************************************************************)
EXTENDS FileMutationLog, WellFoundedInduction, TLAPS

Entry == [offset : Nat, mutation : Mutations]
State == [checkpoint : Nat, first : Nat]
OpenWal == [entries : Seq(Entry), next : Nat, first : Nat, checkpoint : Nat, handle : FileIds]
Calls ==
  [pc : {"append"}, mutation : Mutations] \cup [pc : {"checkpoint"}, offset : Nat]
    \cup [pc : {"truncate", "compact", "reopen"}]

LogTyped ==
  /\ files \in [FileIds -> [frames : Seq(Frame), synced : Nat]]
  /\ \A i \in FileIds : files[i].synced <= Len(files[i].frames)
  /\ name \in FileIds /\ durableName \in FileIds
  /\ state \in State /\ durableState \in State
  /\ wal \in OpenWal \cup {Closed}
  /\ op \in Calls \cup {NoOp} /\ (~IsOpen => op = NoOp)
  /\ returned \subseteq Nat /\ returned \subseteq DOMAIN appended

------------------------------------------------------------------------------
(* The order of a file *)

Whole(frames, i) == i \in 1 .. Len(frames) /\ frames[i] # Torn

\* The offsets never decrease, always increase, or stay below a bound.
Ordered(frames) ==
  \A i, j \in 1 .. Len(frames) :
    i < j /\ frames[i] # Torn /\ frames[j] # Torn => frames[i].offset <= frames[j].offset
Increasing(frames) ==
  \A i, j \in 1 .. Len(frames) :
    i < j /\ frames[i] # Torn /\ frames[j] # Torn => frames[i].offset < frames[j].offset
Below(frames, bound) ==
  \A i \in 1 .. Len(frames) : frames[i] # Torn => frames[i].offset < bound

SyncFailed == "sync" \in faults

OrderInv ==
  /\ \A i \in FileIds : Ordered(files[i].frames) /\ (SyncFailed \/ Increasing(files[i].frames))
  /\ IsOpen =>
       /\ Ordered(wal.entries) /\ (SyncFailed \/ Increasing(wal.entries))
       /\ Below(wal.entries, wal.next)
       /\ Below(files[wal.handle].frames, wal.next + 1)
       /\ SyncFailed \/ At("append") \/ Below(files[wal.handle].frames, wal.next)
       /\ At("reopen") => files[name].frames = wal.entries

------------------------------------------------------------------------------
(* What is durable *)

NothingLost == faults \cap LosingFaults = {}

\* Among the first k frames, and before any that is torn, is every offset of
\* rets at or after lo, with its mutation.
Has(frames, k, lo, rets, app) ==
  \A o \in rets : o >= lo =>
    \E j \in 1 .. k :
      /\ frames[j] = [offset |-> o, mutation |-> app[o]]
      /\ \A h \in 1 .. j : frames[h] # Torn

\* So for every append that was acknowledged.
Holds(frames, k, lo) == Has(frames, k, lo, returned, appended)

Floor == IF IsOpen THEN wal.first ELSE state.first

DurableInv ==
  NothingLost =>
    /\ Floor <= state.first /\ Floor <= durableState.first
    /\ \A i \in {name, durableName} : Holds(files[i].frames, files[i].synced, Floor)
    /\ At("reopen") \/ durableName = name
    /\ IsOpen =>
         /\ Holds(wal.entries, Len(wal.entries), wal.first)
         /\ \A o \in returned : o < wal.next
         /\ At("reopen") \/ wal.handle = name
         /\ \A h \in 1 .. Len(files[wal.handle].frames) : files[wal.handle].frames[h] # Torn
         /\ At("truncate") => state.first = Later(wal.first, wal.checkpoint)
         /\ At("reopen") => files[name] = File(wal.entries)
         /\ At("append") =>
              LET frames == files[wal.handle].frames
              IN  /\ Len(frames) > 0
                  /\ frames[Len(frames)] = [offset |-> wal.next, mutation |-> op.mutation]

FileLogInv == LogTyped /\ OrderInv /\ DurableInv

------------------------------------------------------------------------------
(* Reading a file *)

LEMMA LeastExists ==
  ASSUME NEW S, S \subseteq Nat, S # {}
  PROVE  \E c \in S : \A d \in S : c <= d
<1> DEFINE less == {p \in Nat \X Nat : p[1] < p[2]}
<1>1. IsWellFoundedOn(less, Nat)
  BY NatLessThanWellFounded DEF OpToRel
<1>2. PICK c \in S : \A d \in S : <<d, c>> \notin less
  <2> HIDE DEF less
  <2> QED
    BY <1>1, WFMin
<1>3. \A d \in S : ~ d < c
  BY <1>2
<1> QED
  BY <1>2, <1>3

\* A subsequence from first to last.
LEMMA PartOf ==
  ASSUME NEW S, NEW s \in Seq(S), NEW first \in Nat, NEW last \in Nat,
         1 <= first, first <= last + 1, last <= Len(s)
  PROVE  /\ SubSeq(s, first, last) \in Seq(S)
         /\ Len(SubSeq(s, first, last)) = last - first + 1
         /\ \A i \in 1 .. last - first + 1 : SubSeq(s, first, last)[i] = s[i + first - 1]
<1> DEFINE length == last - first + 1
           part == SubSeq(s, first, last)
<1>1. length \in Nat
  OBVIOUS
<1>2. part = [i \in 1 .. length |-> s[i + first - 1]]
  BY <1>1
<1>3. \A i \in 1 .. length : i + first - 1 \in 1 .. Len(s)
  OBVIOUS
<1>4. \A i \in 1 .. length : s[i + first - 1] \in S
  BY <1>3
<1> HIDE DEF part, length
<1>5. part \in [1 .. length -> S]
  BY <1>2, <1>4
<1>6. part \in Seq(S) /\ Len(part) = length
  BY <1>1, <1>5
<1> QED
  BY <1>2, <1>6 DEF part, length

LEMMA NotTorn == Frame = Entry \cup {Torn} /\ Torn \notin Entry
BY FileLogAssumption DEF Frame, Entry

\* Where a file is cut: before its first torn frame.
LEMMA IntactIs ==
  ASSUME NEW frames \in Seq(Frame)
  PROVE  \E good \in 0 .. Len(frames) :
           /\ Intact(frames) = SubSeq(frames, 1, good)
           /\ \A i \in 1 .. good : frames[i] # Torn
           /\ good < Len(frames) => frames[good + 1] = Torn
<1> DEFINE Cut(k) == /\ \A i \in 1 .. k : frames[i] # Torn
                     /\ k < Len(frames) => frames[k + 1] = Torn
           ends == {k \in 0 .. Len(frames) : k < Len(frames) => frames[k + 1] = Torn}
<1>1. Len(frames) \in Nat /\ Len(frames) \in ends
  OBVIOUS
<1>2. PICK c \in ends : \A d \in ends : c <= d
  <2>1. ends \subseteq Nat /\ ends # {}
    BY <1>1
  <2> HIDE DEF ends
  <2> QED
    BY <2>1, LeastExists
<1>3. \A i \in 1 .. c : frames[i] # Torn
  <2> SUFFICES ASSUME NEW i \in 1 .. c, frames[i] = Torn PROVE FALSE
    OBVIOUS
  <2>1. i - 1 \in 0 .. Len(frames) /\ (i - 1) + 1 = i
    BY <1>2
  <2>2. i - 1 \in ends /\ c \in Nat
    BY <1>1, <1>2, <2>1
  <2> HIDE DEF ends
  <2>3. c <= i - 1
    BY <1>2, <2>2
  <2> QED
    BY <2>2, <2>3
<1>4. \E k \in 0 .. Len(frames) : Cut(k)
  BY <1>2, <1>3
<1> DEFINE good == CHOOSE k \in 0 .. Len(frames) : Cut(k)
<1>5. good \in 0 .. Len(frames) /\ Cut(good)
  <2> HIDE DEF Cut
  <2> QED
    BY <1>4
<1>6. Intact(frames) = SubSeq(frames, 1, good)
  BY DEF Intact
<1> HIDE DEF good
<1> QED
  BY <1>5, <1>6

\* What load_wal reads of a file: every frame that has no torn one before it.
LEMMA IntactFacts ==
  ASSUME NEW frames \in Seq(Frame)
  PROVE  LET intact == Intact(frames)
         IN  /\ intact \in Seq(Entry) /\ Len(intact) <= Len(frames)
             /\ \A i \in 1 .. Len(intact) : intact[i] = frames[i] /\ frames[i] # Torn
             /\ \A j \in 1 .. Len(frames) :
                  (\A h \in 1 .. j : frames[h] # Torn) => j \in 1 .. Len(intact)
<1>1. PICK good \in 0 .. Len(frames) :
        /\ Intact(frames) = SubSeq(frames, 1, good)
        /\ \A i \in 1 .. good : frames[i] # Torn
        /\ good < Len(frames) => frames[good + 1] = Torn
  BY IntactIs
<1> DEFINE intact == Intact(frames)
<1>2. good \in Nat /\ good <= Len(frames) /\ Len(frames) \in Nat
  BY <1>1
<1>3. /\ intact \in Seq(Frame) /\ Len(intact) = good
      /\ \A i \in 1 .. good : intact[i] = frames[i]
  <2>1. /\ SubSeq(frames, 1, good) \in Seq(Frame)
        /\ Len(SubSeq(frames, 1, good)) = good - 1 + 1
        /\ \A i \in 1 .. good - 1 + 1 : SubSeq(frames, 1, good)[i] = frames[i + 1 - 1]
    BY <1>2, PartOf
  <2>2. good - 1 + 1 = good /\ \A i \in 1 .. good : i + 1 - 1 = i
    BY <1>2
  <2> QED
    BY <1>1, <2>1, <2>2
<1> HIDE DEF intact
<1>4. \A i \in 1 .. good : intact[i] \in Entry
  BY <1>1, <1>2, <1>3, NotTorn
<1>5. intact \in Seq(Entry)
  BY <1>2, <1>3, <1>4
<1>6. ASSUME NEW j \in 1 .. Len(frames), \A h \in 1 .. j : frames[h] # Torn
      PROVE  j \in 1 .. good
  <2>1. CASE j > good
    <3>1. good < Len(frames) /\ good + 1 \in 1 .. j
      BY <1>2, <2>1
    <3>2. frames[good + 1] = Torn
      BY <1>1, <3>1, Zenon
    <3> QED
      BY <1>6, <3>1, <3>2
  <2> QED
    BY <1>2, <2>1
<1> QED
  BY <1>1, <1>2, <1>3, <1>5, <1>6 DEF intact

\* What is left of a log when the entries before offset are popped.
LEMMA FromIs ==
  ASSUME NEW log \in Seq(Entry), NEW offset \in Nat
  PROVE  \E k \in 0 .. Len(log) :
           /\ \A i \in 1 .. k : log[i].offset < offset
           /\ k < Len(log) => log[k + 1].offset >= offset
           /\ From(log, offset) \in Seq(Entry)
           /\ Len(From(log, offset)) = Len(log) - k
           /\ \A i \in 1 .. Len(log) - k : From(log, offset)[i] = log[i + k]
<1> DEFINE Popped(k) == /\ \A i \in 1 .. k : log[i].offset < offset
                        /\ k < Len(log) => log[k + 1].offset >= offset
           ends == {k \in 0 .. Len(log) : k < Len(log) => log[k + 1].offset >= offset}
<1>1. Len(log) \in Nat /\ Len(log) \in ends
  OBVIOUS
<1>2. PICK c \in ends : \A d \in ends : c <= d
  <2>1. ends \subseteq Nat /\ ends # {}
    BY <1>1
  <2> HIDE DEF ends
  <2> QED
    BY <2>1, LeastExists
<1>3. \A i \in 1 .. c : log[i].offset < offset
  <2> SUFFICES ASSUME NEW i \in 1 .. c, ~ (log[i].offset < offset) PROVE FALSE
    OBVIOUS
  <2>1. c \in Nat /\ c <= Len(log)
    BY <1>1, <1>2
  <2>2. i - 1 \in 0 .. Len(log) /\ (i - 1) + 1 = i /\ i \in 1 .. Len(log)
    BY <1>1, <2>1
  <2>3. log[i] \in Entry
    BY <2>2
  <2>4. log[i].offset >= offset
    BY <2>3 DEF Entry
  <2>5. i - 1 \in ends
    BY <2>2, <2>4
  <2> HIDE DEF ends
  <2>6. c <= i - 1
    BY <1>2, <2>5
  <2> QED
    BY <2>1, <2>6
<1>4. \E k \in 0 .. Len(log) : Popped(k)
  BY <1>2, <1>3
<1> DEFINE k == CHOOSE k \in 0 .. Len(log) : Popped(k)
<1>5. k \in 0 .. Len(log) /\ Popped(k)
  <2> HIDE DEF Popped
  <2> QED
    BY <1>4
<1>6. From(log, offset) = SubSeq(log, k + 1, Len(log))
  BY DEF From
<1> HIDE DEF k
<1>7. /\ SubSeq(log, k + 1, Len(log)) \in Seq(Entry)
      /\ Len(SubSeq(log, k + 1, Len(log))) = Len(log) - (k + 1) + 1
      /\ \A i \in 1 .. Len(log) - (k + 1) + 1 :
           SubSeq(log, k + 1, Len(log))[i] = log[i + (k + 1) - 1]
  BY <1>1, <1>5, PartOf
<1>8. Len(log) - (k + 1) + 1 = Len(log) - k /\ \A i \in 1 .. Len(log) - k : i + (k + 1) - 1 = i + k
  BY <1>1, <1>5
<1> QED
  BY <1>5, <1>6, <1>7, <1>8

\* Popping keeps the order, and every entry at or after the offset.
LEMMA FromFacts ==
  ASSUME NEW log \in Seq(Entry), NEW offset \in Nat
  PROVE  LET rest == From(log, offset)
         IN  /\ rest \in Seq(Entry)
             /\ Ordered(log) => Ordered(rest)
             /\ Increasing(log) => Increasing(rest)
             /\ \A bound : Below(log, bound) => Below(rest, bound)
             /\ \A i \in 1 .. Len(log) : log[i].offset >= offset =>
                  \E j \in 1 .. Len(rest) : rest[j] = log[i]
<1> DEFINE rest == From(log, offset)
<1>1. PICK k \in 0 .. Len(log) :
        /\ \A i \in 1 .. k : log[i].offset < offset
        /\ rest \in Seq(Entry) /\ Len(rest) = Len(log) - k
        /\ \A i \in 1 .. Len(log) - k : rest[i] = log[i + k]
  BY FromIs
<1> HIDE DEF rest
<1>2. k \in Nat /\ k <= Len(log) /\ Len(log) \in Nat
  BY <1>1
<1>3. \A i \in 1 .. Len(rest) : i + k \in 1 .. Len(log) /\ rest[i] = log[i + k]
  BY <1>1, <1>2
<1>4. \A i, j \in 1 .. Len(rest) : i < j => i + k < j + k
  BY <1>1, <1>2
<1>5. Ordered(log) => Ordered(rest)
  BY <1>3, <1>4 DEF Ordered
<1>6. Increasing(log) => Increasing(rest)
  BY <1>3, <1>4 DEF Increasing
<1>7. \A bound : Below(log, bound) => Below(rest, bound)
  BY <1>3 DEF Below
<1>8. ASSUME NEW i \in 1 .. Len(log), log[i].offset >= offset
      PROVE  \E j \in 1 .. Len(rest) : rest[j] = log[i]
  <2>1. log[i] \in Entry
    OBVIOUS
  <2>2. log[i].offset \in Nat
    BY <2>1 DEF Entry
  <2>3. ~ (i <= k)
    <3> SUFFICES ASSUME i <= k PROVE FALSE
      OBVIOUS
    <3>1. i \in 1 .. k
      BY <1>2
    <3>2. log[i].offset < offset
      BY <1>1, <3>1
    <3> QED
      BY <1>8, <2>2, <3>2
  <2>4. i - k \in 1 .. Len(rest) /\ (i - k) + k = i
    BY <1>1, <1>2, <2>3
  <2> QED
    BY <1>3, <2>4
<1> QED
  BY <1>1, <1>5, <1>6, <1>7, <1>8 DEF rest

\* What load_wal makes of a file and a state.
LEMMA LoadedFacts ==
  ASSUME NEW frames \in Seq(Frame), NEW st \in State, Ordered(frames)
  PROVE  LET log == Loaded(frames, st)
         IN  /\ log.entries \in Seq(Entry) /\ log.next \in Nat
             /\ log.first = st.first /\ log.checkpoint = st.checkpoint
             /\ st.first <= log.next /\ st.checkpoint <= log.next
             /\ Ordered(log.entries) /\ (Increasing(frames) => Increasing(log.entries))
             /\ Below(log.entries, log.next) /\ Below(Intact(frames), log.next)
             /\ \A j \in 1 .. Len(frames) :
                  /\ \A h \in 1 .. j : frames[h] # Torn
                  /\ frames[j].offset >= st.first
                  => \E i \in 1 .. Len(log.entries) : log.entries[i] = frames[j]
<1> DEFINE intact == Intact(frames)
           kept == From(intact, st.first)
           last == IF kept = <<>> THEN 0 ELSE kept[Len(kept)].offset + 1
           next == Later(Later(st.first, st.checkpoint), last)
           log == Loaded(frames, st)
<1>1. log.entries = kept /\ log.next = next /\ log.first = st.first
      /\ log.checkpoint = st.checkpoint
  BY DEF Loaded
<1>2. st.first \in Nat /\ st.checkpoint \in Nat
  BY DEF State
<1>3. /\ intact \in Seq(Entry) /\ Len(intact) <= Len(frames) /\ Len(intact) \in Nat
      /\ \A i \in 1 .. Len(intact) : intact[i] = frames[i] /\ frames[i] # Torn
      /\ \A j \in 1 .. Len(frames) :
           (\A h \in 1 .. j : frames[h] # Torn) => j \in 1 .. Len(intact)
  BY IntactFacts
<1> HIDE DEF intact, log
<1>4. \A i \in 1 .. Len(intact) : i \in 1 .. Len(frames)
  BY <1>3
<1>5. Ordered(intact) /\ (Increasing(frames) => Increasing(intact))
  BY <1>3, <1>4 DEF Ordered, Increasing
<1>6. /\ kept \in Seq(Entry) /\ Ordered(kept)
      /\ Increasing(frames) => Increasing(kept)
      /\ \A i \in 1 .. Len(intact) : intact[i].offset >= st.first =>
           \E j \in 1 .. Len(kept) : kept[j] = intact[i]
  BY <1>2, <1>3, <1>5, FromFacts
<1> HIDE DEF kept
<1>7. \A i \in 1 .. Len(kept) : kept[i] \in Entry /\ kept[i] # Torn /\ kept[i].offset \in Nat
  <2>1. \A i \in 1 .. Len(kept) : kept[i] \in Entry
    BY <1>6
  <2> QED
    BY <2>1, NotTorn DEF Entry
<1>8. last \in Nat /\ \A i \in 1 .. Len(kept) : kept[i].offset < last
  <2>1. CASE kept = << >>
    BY <2>1
  <2>2. CASE kept # << >>
    <3>1. Len(kept) \in 1 .. Len(kept) /\ Len(kept) \in Nat
      BY <1>6, <2>2
    <3>2. last = kept[Len(kept)].offset + 1
      BY <2>2
    <3>3. ASSUME NEW i \in 1 .. Len(kept)
          PROVE  kept[i].offset <= kept[Len(kept)].offset
      <4>1. CASE i = Len(kept)
        BY <1>7, <3>1, <4>1
      <4>2. CASE i < Len(kept)
        BY <1>6, <1>7, <3>1, <4>2 DEF Ordered
      <4> QED
        BY <3>1, <4>1, <4>2
    <3> HIDE DEF last
    <3>4. kept[Len(kept)].offset \in Nat
      BY <1>7, <3>1
    <3> QED
      BY <1>7, <3>2, <3>3, <3>4
  <2> QED
    BY <2>1, <2>2
<1> HIDE DEF last
<1>9. next \in Nat /\ st.first <= next /\ st.checkpoint <= next /\ last <= next
  BY <1>2, <1>8 DEF Later
<1> HIDE DEF next
<1>10. Below(kept, next)
  BY <1>7, <1>8, <1>9 DEF Below
<1>11. Below(intact, next)
  <2> SUFFICES ASSUME NEW i \in 1 .. Len(intact)
               PROVE  intact[i].offset < next
    BY DEF Below
  <2>t. intact[i] \in Entry
    BY <1>3
  <2>1. intact[i].offset \in Nat
    BY <2>t DEF Entry
  <2>2. CASE intact[i].offset >= st.first
    BY <1>6, <1>7, <1>10, <2>2 DEF Below
  <2>3. CASE intact[i].offset < st.first
    BY <1>2, <1>9, <2>1, <2>3
  <2> QED
    BY <1>2, <2>1, <2>2, <2>3
<1>12. ASSUME NEW j \in 1 .. Len(frames), \A h \in 1 .. j : frames[h] # Torn,
              frames[j].offset >= st.first
       PROVE  \E i \in 1 .. Len(kept) : kept[i] = frames[j]
  <2>1. j \in 1 .. Len(intact) /\ intact[j] = frames[j]
    BY <1>3, <1>12
  <2> QED
    BY <1>6, <1>12, <2>1
<1> QED
  BY <1>1, <1>6, <1>9, <1>10, <1>11, <1>12 DEF log, intact

\* What a crash leaves of a file has all that was synced, in the same order.
LEMMA RemainsFacts ==
  ASSUME NEW file \in [frames : Seq(Frame), synced : Nat], file.synced <= Len(file.frames),
         NEW frames \in Remains(file)
  PROVE  /\ frames \in Seq(Frame) /\ file.synced <= Len(frames)
         /\ \A i \in 1 .. file.synced : frames[i] = file.frames[i]
         /\ Ordered(file.frames) => Ordered(frames)
         /\ Increasing(file.frames) => Increasing(frames)
<1> DEFINE prefix(k) == SubSeq(file.frames, 1, k)
           lengths == file.synced .. Len(file.frames)
<1>1. PICK k \in lengths : frames = prefix(k) \/ frames = Append(prefix(k), Torn)
  BY DEF Remains
<1>2. k \in Nat /\ file.synced \in Nat /\ file.synced <= k /\ k <= Len(file.frames)
      /\ file.frames \in Seq(Frame) /\ Len(file.frames) \in Nat
  BY <1>1
<1>3. /\ prefix(k) \in Seq(Frame) /\ Len(prefix(k)) = k
      /\ \A i \in 1 .. k : prefix(k)[i] = file.frames[i]
  <2>1. /\ SubSeq(file.frames, 1, k) \in Seq(Frame)
        /\ Len(SubSeq(file.frames, 1, k)) = k - 1 + 1
        /\ \A i \in 1 .. k - 1 + 1 : SubSeq(file.frames, 1, k)[i] = file.frames[i + 1 - 1]
    BY <1>2, PartOf
  <2>2. k - 1 + 1 = k /\ \A i \in 1 .. k : i + 1 - 1 = i
    BY <1>2
  <2> QED
    BY <2>1, <2>2
<1> DEFINE part == prefix(k)
<1> HIDE DEF part
<1>4. part \in Seq(Frame) /\ Len(part) = k /\ \A i \in 1 .. k : part[i] = file.frames[i]
  BY <1>3 DEF part
<1>5. Torn \in Frame
  BY DEF Frame
<1>6. /\ frames \in Seq(Frame) /\ k <= Len(frames) /\ Len(frames) \in Nat
      /\ \A i \in 1 .. Len(frames) :
           (i \in 1 .. k /\ frames[i] = file.frames[i]) \/ frames[i] = Torn
      /\ \A i \in 1 .. k : frames[i] = file.frames[i]
  <2>1. CASE frames = part
    BY <1>2, <1>4, <2>1
  <2>2. CASE frames = Append(part, Torn)
    <3>1. /\ frames \in Seq(Frame) /\ Len(frames) = k + 1
          /\ \A i \in 1 .. k : frames[i] = part[i]
          /\ frames[k + 1] = Torn
      BY <1>2, <1>4, <1>5, <2>2
    <3>2. \A i \in 1 .. k + 1 : i \in 1 .. k \/ i = k + 1
      BY <1>2
    <3> QED
      BY <1>2, <1>4, <3>1, <3>2
  <2> QED
    BY <1>1, <2>1, <2>2 DEF part
<1>7. \A i \in 1 .. k : i \in 1 .. Len(file.frames)
  BY <1>2
<1>8. Ordered(file.frames) => Ordered(frames)
  BY <1>6, <1>7 DEF Ordered
<1>9. Increasing(file.frames) => Increasing(frames)
  BY <1>6, <1>7 DEF Increasing
<1>10. file.synced <= Len(frames) /\ \A i \in 1 .. file.synced : frames[i] = file.frames[i]
  BY <1>2, <1>6
<1> QED
  BY <1>6, <1>8, <1>9, <1>10

------------------------------------------------------------------------------
(* The state *)

LEMMA OpenOrClosed ==
  /\ \A w \in OpenWal : "next" \in DOMAIN w
  /\ "next" \notin DOMAIN Closed
BY DEF OpenWal, Closed

LEMMA Typed ==
  ASSUME LogTyped
  PROVE  /\ \A i \in FileIds :
              /\ files[i] \in [frames : Seq(Frame), synced : Nat]
              /\ files[i].frames \in Seq(Frame) /\ Len(files[i].frames) \in Nat
              /\ files[i].synced \in Nat /\ files[i].synced <= Len(files[i].frames)
         /\ IsOpen => /\ wal \in OpenWal /\ wal.entries \in Seq(Entry) /\ Len(wal.entries) \in Nat
                      /\ wal.next \in Nat /\ wal.first \in Nat /\ wal.checkpoint \in Nat
                      /\ wal.handle \in FileIds
         /\ ~IsOpen => wal = Closed
         /\ state.first \in Nat /\ state.checkpoint \in Nat
         /\ durableState.first \in Nat /\ durableState.checkpoint \in Nat
<1>1. wal \in OpenWal \/ wal = Closed
  BY DEF LogTyped
<1>2. IsOpen => wal \in OpenWal
  BY <1>1, OpenOrClosed DEF IsOpen
<1>3. ~IsOpen => wal = Closed
  BY <1>1, OpenOrClosed DEF IsOpen
<1>4. IsOpen => /\ wal.entries \in Seq(Entry) /\ Len(wal.entries) \in Nat
                /\ wal.next \in Nat /\ wal.first \in Nat /\ wal.checkpoint \in Nat
                /\ wal.handle \in FileIds
  BY <1>2 DEF OpenWal
<1>5. \A i \in FileIds :
        /\ files[i] \in [frames : Seq(Frame), synced : Nat]
        /\ files[i].synced <= Len(files[i].frames)
  BY DEF LogTyped
<1>6. \A i \in FileIds : files[i].frames \in Seq(Frame) /\ files[i].synced \in Nat
  BY <1>5
<1>7. \A i \in FileIds : Len(files[i].frames) \in Nat
  BY <1>6
<1> QED
  BY <1>2, <1>3, <1>4, <1>5, <1>6, <1>7 DEF LogTyped, State

\* Appending a frame that is torn, or no older than those there.
LEMMA AppendOrder ==
  ASSUME NEW frames \in Seq(Frame), NEW frame \in Frame,
         Ordered(frames), frame # Torn => Below(frames, frame.offset + 1)
  PROVE  LET new == Append(frames, frame)
         IN  /\ new \in Seq(Frame) /\ Len(new) = Len(frames) + 1 /\ Len(frames) \in Nat
             /\ new[Len(frames) + 1] = frame
             /\ \A i \in 1 .. Len(frames) : new[i] = frames[i]
             /\ Ordered(new)
             /\ Increasing(frames) /\ (frame # Torn => Below(frames, frame.offset)) =>
                  Increasing(new)
             /\ \A bound : Below(frames, bound) /\ (frame # Torn => frame.offset < bound) =>
                  Below(new, bound)
<1> DEFINE n == Len(frames)
           new == Append(frames, frame)
<1>1. /\ new \in Seq(Frame) /\ Len(new) = n + 1 /\ n \in Nat
      /\ new[n + 1] = frame /\ \A i \in 1 .. n : new[i] = frames[i]
  OBVIOUS
<1> HIDE DEF new, n
<1>2. \A i \in 1 .. n + 1 : i \in 1 .. n \/ i = n + 1
  BY <1>1
<1>3. \A i \in 1 .. n : frames[i] \in Frame
  BY DEF n
<1>4. \A i \in 1 .. n : frames[i] # Torn => frames[i].offset \in Nat
  BY <1>3 DEF Frame
<1>5. frame # Torn => frame.offset \in Nat
  BY DEF Frame
<1>6. Ordered(new)
  <2> SUFFICES ASSUME NEW i \in 1 .. n + 1, NEW j \in 1 .. n + 1, i < j, new[i] # Torn, new[j] # Torn
               PROVE  new[i].offset <= new[j].offset
    BY <1>1 DEF Ordered
  <2>1. i \in 1 .. n
    BY <1>1
  <2>2. CASE j \in 1 .. n
    BY <1>1, <2>1, <2>2 DEF Ordered, n
  <2>3. CASE j = n + 1
    <3>1. frames[i].offset < frame.offset + 1
      BY <1>1, <2>1, <2>3 DEF Below, n
    <3> QED
      BY <1>1, <1>4, <1>5, <2>1, <2>3, <3>1
  <2> QED
    BY <1>2, <2>2, <2>3
<1>7. ASSUME Increasing(frames), frame # Torn => Below(frames, frame.offset)
      PROVE  Increasing(new)
  <2> SUFFICES ASSUME NEW i \in 1 .. n + 1, NEW j \in 1 .. n + 1, i < j, new[i] # Torn, new[j] # Torn
               PROVE  new[i].offset < new[j].offset
    BY <1>1 DEF Increasing
  <2>1. i \in 1 .. n
    BY <1>1
  <2>2. CASE j \in 1 .. n
    BY <1>1, <1>7, <2>1, <2>2 DEF Increasing, n
  <2>3. CASE j = n + 1
    BY <1>1, <1>7, <2>1, <2>3 DEF Below, n
  <2> QED
    BY <1>2, <2>2, <2>3
<1>8. ASSUME NEW bound, Below(frames, bound), frame # Torn => frame.offset < bound
      PROVE  Below(new, bound)
  BY <1>1, <1>2, <1>8 DEF Below, n
<1> QED
  BY <1>1, <1>6, <1>7, <1>8 DEF new, n

\* A write changes the file the handle is on, and only what is not synced.
LEMMA WriteFacts ==
  ASSUME LogTyped, IsOpen, NEW frame \in Frame, Write(frame)
  PROVE  LET old == files[wal.handle].frames
             new == files'[wal.handle].frames
         IN  /\ files' \in [FileIds -> [frames : Seq(Frame), synced : Nat]]
             /\ \A i \in FileIds \ {wal.handle} : files'[i] = files[i]
             /\ new = Append(old, frame)
             /\ \A i \in FileIds : files'[i].synced = files[i].synced
<1>1. /\ wal.handle \in FileIds /\ files \in [FileIds -> [frames : Seq(Frame), synced : Nat]]
      /\ files[wal.handle].frames \in Seq(Frame)
  BY Typed DEF LogTyped
<1>2. Append(files[wal.handle].frames, frame) \in Seq(Frame)
  BY <1>1
<1>3. files' = [files EXCEPT ![wal.handle].frames = Append(files[wal.handle].frames, frame)]
  BY DEF Write
<1> DEFINE new == Append(files[wal.handle].frames, frame)
<1> HIDE DEF new
<1> QED
  BY <1>1, <1>2, <1>3 DEF new

\* The floor may rise, and a file may grow past what is synced.
LEMMA HasLater ==
  ASSUME NEW frames, NEW k, NEW lo \in Nat, NEW floor \in Nat, NEW rets \in SUBSET Nat, NEW app,
         Has(frames, k, lo, rets, app), lo <= floor
  PROVE  Has(frames, k, floor, rets, app)
<1> DEFINE Kept(o) == \E j \in 1 .. k :
                       /\ frames[j] = [offset |-> o, mutation |-> app[o]]
                       /\ \A h \in 1 .. j : frames[h] # Torn
<1>1. \A o \in rets : o >= lo => Kept(o)
  BY DEF Has
<1> HIDE DEF Kept
<1>2. \A o \in rets : o >= floor => Kept(o)
  BY <1>1
<1> QED
  BY <1>2 DEF Has, Kept

LEMMA HasStill ==
  ASSUME NEW file, NEW new, NEW lo \in Nat, NEW rets \in SUBSET Nat, NEW app,
         file.synced \in Nat, new.synced = file.synced,
         \A i \in 1 .. file.synced : new.frames[i] = file.frames[i],
         Has(file.frames, file.synced, lo, rets, app)
  PROVE  Has(new.frames, new.synced, lo, rets, app)
BY DEF Has

LEMMA OpIs ==
  ASSUME LogTyped
  PROVE  /\ op.pc \in {"append", "checkpoint", "truncate", "compact", "reopen"} => IsOpen
         /\ op.pc = "append" => op.mutation \in Mutations
         /\ op.pc = "checkpoint" => op.offset \in Nat
         /\ op = NoOp => op.pc = "idle"
<1>1. op \in Calls \/ op = NoOp
  BY DEF LogTyped
<1>2. NoOp.pc = "idle"
  BY DEF NoOp
<1>3. ~IsOpen => op = NoOp
  BY DEF LogTyped
<1>4. op \in Calls => /\ op.pc = "append" => op.mutation \in Mutations
                      /\ op.pc = "checkpoint" => op.offset \in Nat
  BY DEF Calls
<1> QED
  BY <1>1, <1>2, <1>3, <1>4

------------------------------------------------------------------------------
(* Each action *)

\* A write keeps the files in order, and all that is synced.
LEMMA WriteKeeps ==
  ASSUME FileLogInv, Idle, NEW frame \in Frame, frame # Torn => frame.offset = wal.next,
         Write(frame)
  PROVE  LET old == files[wal.handle].frames
             new == files'[wal.handle].frames
         IN  /\ files' \in [FileIds -> [frames : Seq(Frame), synced : Nat]]
             /\ \A i \in FileIds :
                  /\ files[i].synced \in Nat /\ files'[i].synced = files[i].synced
                  /\ files'[i].synced <= Len(files'[i].frames)
                  /\ \A k \in 1 .. files[i].synced : files'[i].frames[k] = files[i].frames[k]
                  /\ Ordered(files'[i].frames) /\ (SyncFailed \/ Increasing(files'[i].frames))
             /\ Below(new, wal.next + 1)
             /\ frame = Torn => SyncFailed \/ Below(new, wal.next)
             /\ Len(old) \in Nat /\ Len(new) = Len(old) + 1 /\ new[Len(old) + 1] = frame
             /\ \A k \in 1 .. Len(old) : new[k] = old[k]
<1> DEFINE h == wal.handle
           old == files[h].frames
           new == Append(old, frame)
<1>1. IsOpen /\ op.pc = "idle" /\ LogTyped /\ OrderInv
  BY DEF Idle, FileLogInv, NoOp
<1>2. wal.next \in Nat /\ h \in FileIds /\ old \in Seq(Frame)
  BY <1>1, Typed
<1>3. /\ files' \in [FileIds -> [frames : Seq(Frame), synced : Nat]]
      /\ \A i \in FileIds \ {h} : files'[i] = files[i]
      /\ files'[h].frames = new
      /\ \A i \in FileIds : files'[i].synced = files[i].synced
  BY <1>1, WriteFacts
<1>4. Ordered(old) /\ Below(old, wal.next + 1)
      /\ (SyncFailed \/ (Increasing(old) /\ Below(old, wal.next)))
  BY <1>1, <1>2 DEF OrderInv, At
<1>5. /\ new \in Seq(Frame) /\ Len(new) = Len(old) + 1 /\ Len(old) \in Nat
      /\ new[Len(old) + 1] = frame
      /\ \A i \in 1 .. Len(old) : new[i] = old[i]
      /\ Ordered(new)
      /\ Increasing(old) /\ (frame # Torn => Below(old, frame.offset)) => Increasing(new)
      /\ \A bound : Below(old, bound) /\ (frame # Torn => frame.offset < bound) =>
           Below(new, bound)
  BY <1>2, <1>4, AppendOrder
<1> HIDE DEF new
<1>6. \A i \in FileIds :
        /\ files[i].synced \in Nat /\ files'[i].synced <= Len(files'[i].frames)
        /\ \A k \in 1 .. files[i].synced : files'[i].frames[k] = files[i].frames[k]
        /\ Ordered(files'[i].frames) /\ (SyncFailed \/ Increasing(files'[i].frames))
  <2> TAKE i \in FileIds
  <2>1. /\ Len(files[i].frames) \in Nat /\ files[i].synced \in Nat
        /\ files[i].synced <= Len(files[i].frames)
    BY <1>1, Typed
  <2>2. CASE i # h
    BY <1>1, <1>3, <2>1, <2>2 DEF OrderInv
  <2>3. CASE i = h
    BY <1>3, <1>4, <1>5, <2>1, <2>3
  <2> QED
    BY <2>2, <2>3
<1>7. Below(new, wal.next + 1) /\ (frame = Torn => SyncFailed \/ Below(new, wal.next))
  BY <1>2, <1>4, <1>5
<1> QED
  BY <1>3, <1>5, <1>6, <1>7

LEMMA AppendWriteInv ==
  ASSUME FileLogInv, NEW m \in Mutations, AppendWrite(m)
  PROVE  FileLogInv'
<1> DEFINE h == wal.handle
           frame == [offset |-> wal.next, mutation |-> m]
           old == files[h].frames
           new == files'[h].frames
<1>1. /\ IsOpen /\ op.pc = "idle" /\ Idle /\ LogTyped /\ OrderInv /\ DurableInv
      /\ wal' = wal /\ name' = name /\ durableName' = durableName
      /\ state' = state /\ durableState' = durableState
      /\ appended' = appended /\ returned' = returned /\ faults' = faults
      /\ op' = [pc |-> "append", mutation |-> m] /\ Write(frame)
  BY DEF AppendWrite, Idle, FileLogInv, NoOp
<1>2. /\ IsOpen' /\ op'.pc = "append" /\ op'.mutation = m /\ op' \in Calls
  BY <1>1 DEF IsOpen, Calls
<1>3. /\ wal.next \in Nat /\ h \in FileIds /\ frame \in Frame /\ frame # Torn
      /\ frame.offset = wal.next
  <2>1. wal.next \in Nat /\ h \in FileIds
    BY <1>1, Typed
  <2>2. frame \in Entry
    BY <2>1 DEF Entry
  <2> QED
    BY <2>1, <2>2, NotTorn
<1> HIDE DEF frame
<1>4. /\ files' \in [FileIds -> [frames : Seq(Frame), synced : Nat]]
      /\ \A i \in FileIds :
           /\ files[i].synced \in Nat /\ files'[i].synced = files[i].synced
           /\ files'[i].synced <= Len(files'[i].frames)
           /\ \A k \in 1 .. files[i].synced : files'[i].frames[k] = files[i].frames[k]
           /\ Ordered(files'[i].frames) /\ (SyncFailed \/ Increasing(files'[i].frames))
      /\ Below(new, wal.next + 1)
      /\ Len(old) \in Nat /\ Len(new) = Len(old) + 1 /\ new[Len(old) + 1] = frame
      /\ \A k \in 1 .. Len(old) : new[k] = old[k]
  BY <1>1, <1>3, WriteKeeps
<1>5. LogTyped'
  BY <1>1, <1>2, <1>4 DEF LogTyped
<1>6. OrderInv'
  BY <1>1, <1>2, <1>4 DEF OrderInv, At, SyncFailed
<1>7. DurableInv'
  <2> SUFFICES ASSUME NothingLost PROVE DurableInv'
    BY <1>1 DEF DurableInv, NothingLost
  <2>1. /\ Floor <= state.first /\ Floor <= durableState.first
        /\ \A i \in {name, durableName} : Holds(files[i].frames, files[i].synced, Floor)
        /\ durableName = name
        /\ Holds(wal.entries, Len(wal.entries), wal.first)
        /\ \A o \in returned : o < wal.next
        /\ h = name
        /\ \A k \in 1 .. Len(old) : old[k] # Torn
    BY <1>1 DEF DurableInv, At
  <2>2. Floor' = Floor /\ Floor \in Nat /\ returned \in SUBSET Nat /\ name \in FileIds
    BY <1>1, <1>2, Typed DEF Floor, LogTyped
  <2>3. Has(files'[name].frames, files'[name].synced, Floor, returned, appended)
    BY <1>4, <2>1, <2>2, HasStill DEF Holds
  <2>4. \A k \in 1 .. Len(new) : new[k] # Torn
    <3> SUFFICES ASSUME NEW k \in 1 .. Len(new) PROVE new[k] # Torn
      OBVIOUS
    <3>1. k \in 1 .. Len(old) \/ k = Len(old) + 1
      BY <1>4
    <3> QED
      BY <1>3, <1>4, <2>1, <3>1
  <2>5. Len(new) > 0 /\ new[Len(new)] = frame
    BY <1>4
  <2>6. \A i \in {name, durableName}' : Holds(files[i].frames, files[i].synced, Floor)'
    BY <1>1, <2>1, <2>2, <2>3 DEF Holds
  <2>7. Holds(wal.entries, Len(wal.entries), wal.first)'
    BY <1>1, <2>1 DEF Holds
  <2> QED
    BY <1>1, <1>2, <2>1, <2>2, <2>4, <2>5, <2>6, <2>7 DEF DurableInv, At, frame
<1> QED
  BY <1>5, <1>6, <1>7 DEF FileLogInv

LEMMA AppendTornInv ==
  ASSUME FileLogInv, AppendTorn
  PROVE  FileLogInv'
<1> DEFINE h == wal.handle
           new == files'[h].frames
<1>1. /\ IsOpen /\ op.pc = "idle" /\ Idle /\ LogTyped /\ OrderInv
      /\ wal' = wal /\ name' = name /\ durableName' = durableName
      /\ state' = state /\ durableState' = durableState
      /\ appended' = appended /\ returned' = returned /\ op' = op
      /\ faults' = faults \cup {"write"} /\ Write(Torn)
  BY DEF AppendTorn, Idle, FileLogInv, NoOp, Fault
<1>2. IsOpen' /\ h \in FileIds /\ Torn \in Frame
  BY <1>1, Typed DEF IsOpen, Frame
<1>3. /\ files' \in [FileIds -> [frames : Seq(Frame), synced : Nat]]
      /\ \A i \in FileIds :
           /\ files'[i].synced <= Len(files'[i].frames)
           /\ Ordered(files'[i].frames) /\ (SyncFailed \/ Increasing(files'[i].frames))
      /\ Below(new, wal.next + 1) /\ (SyncFailed \/ Below(new, wal.next))
  BY <1>1, <1>2, WriteKeeps
<1>4. LogTyped'
  BY <1>1, <1>2, <1>3 DEF LogTyped
<1>5. OrderInv'
  BY <1>1, <1>2, <1>3 DEF OrderInv, At, SyncFailed
<1>6. DurableInv'
  BY <1>1 DEF DurableInv, NothingLost, LosingFaults
<1> QED
  BY <1>4, <1>5, <1>6 DEF FileLogInv

LEMMA CheckpointInv ==
  ASSUME FileLogInv, NEW offset \in Nat, Checkpoint(offset)
  PROVE  FileLogInv'
<1>1. /\ IsOpen /\ op.pc = "idle" /\ LogTyped /\ OrderInv /\ DurableInv
      /\ wal' = wal /\ name' = name /\ durableName' = durableName /\ files' = files
      /\ state' = [checkpoint |-> offset, first |-> wal.first] /\ durableState' = durableState
      /\ appended' = appended /\ returned' = returned /\ faults' = faults
      /\ op' = [pc |-> "checkpoint", offset |-> offset]
  BY DEF Checkpoint, Idle, FileLogInv, NoOp
<1>2. IsOpen' /\ op'.pc = "checkpoint" /\ op' \in Calls
  BY <1>1 DEF IsOpen, Calls
<1>3. wal.first \in Nat /\ state' \in State /\ state'.first = wal.first
  BY <1>1, Typed DEF State
<1>4. LogTyped'
  BY <1>1, <1>2, <1>3 DEF LogTyped
<1>5. OrderInv'
  BY <1>1, <1>2 DEF OrderInv, At, SyncFailed
<1>6. Floor = wal.first /\ Floor' = wal.first /\ (NothingLost' <=> NothingLost)
  BY <1>1, <1>2 DEF Floor, NothingLost
<1>7. DurableInv'
  BY <1>1, <1>2, <1>3, <1>6 DEF DurableInv, At, Holds
<1> QED
  BY <1>4, <1>5, <1>7 DEF FileLogInv

LEMMA CheckpointSyncInv ==
  ASSUME FileLogInv, CheckpointSync
  PROVE  FileLogInv'
<1>1. /\ op.pc = "checkpoint" /\ LogTyped /\ OrderInv /\ DurableInv
      /\ name' = name /\ durableName' = name /\ files' = files
      /\ state' = state /\ durableState' = state
      /\ wal' = [wal EXCEPT !.checkpoint = op.offset] /\ op' = NoOp
      /\ appended' = appended /\ returned' = returned /\ faults' = faults
  BY DEF CheckpointSync, At, FileLogInv, SyncDirectory
<1>2. IsOpen /\ op.offset \in Nat /\ wal \in OpenWal /\ NoOp.pc = "idle"
  BY <1>1, OpIs, Typed DEF NoOp
<1>3. /\ wal' \in OpenWal /\ wal'.entries = wal.entries /\ wal'.next = wal.next
      /\ wal'.first = wal.first /\ wal'.handle = wal.handle
  BY <1>1, <1>2 DEF OpenWal
<1>4. IsOpen'
  BY <1>3, OpenOrClosed DEF IsOpen
<1>5. LogTyped'
  BY <1>1, <1>3, <1>4 DEF LogTyped
<1>6. OrderInv'
  BY <1>1, <1>2, <1>3, <1>4 DEF OrderInv, At, SyncFailed
<1>7. Floor = wal.first /\ Floor' = wal.first /\ (NothingLost' <=> NothingLost)
  BY <1>1, <1>2, <1>3, <1>4 DEF Floor, NothingLost
<1>8. DurableInv'
  BY <1>1, <1>2, <1>3, <1>4, <1>7 DEF DurableInv, At, Holds
<1> QED
  BY <1>5, <1>6, <1>8 DEF FileLogInv

LEMMA TruncateInv ==
  ASSUME FileLogInv, Truncate
  PROVE  FileLogInv'
<1>1. /\ IsOpen /\ op.pc = "idle" /\ LogTyped /\ OrderInv /\ DurableInv
      /\ wal' = wal /\ name' = name /\ durableName' = durableName /\ files' = files
      /\ state' = [checkpoint |-> wal.checkpoint, first |-> Later(wal.first, wal.checkpoint)]
      /\ durableState' = durableState
      /\ appended' = appended /\ returned' = returned /\ faults' = faults
      /\ op' = [pc |-> "truncate"]
  BY DEF Truncate, Idle, FileLogInv, NoOp
<1>2. IsOpen' /\ op'.pc = "truncate" /\ op' \in Calls
  BY <1>1 DEF IsOpen, Calls
<1>3. /\ wal.first \in Nat /\ state' \in State
      /\ state'.first = Later(wal.first, wal.checkpoint) /\ wal.first <= state'.first
  BY <1>1, Typed DEF State, Later
<1>4. LogTyped'
  BY <1>1, <1>2, <1>3 DEF LogTyped
<1>5. OrderInv'
  BY <1>1, <1>2 DEF OrderInv, At, SyncFailed
<1>6. Floor = wal.first /\ Floor' = wal.first /\ (NothingLost' <=> NothingLost)
  BY <1>1, <1>2 DEF Floor, NothingLost
<1>7. DurableInv'
  BY <1>1, <1>2, <1>3, <1>6 DEF DurableInv, At, Holds
<1> QED
  BY <1>4, <1>5, <1>7 DEF FileLogInv

\* The floor is raised, and what is popped lies below it.
LEMMA TruncateSyncInv ==
  ASSUME FileLogInv, TruncateSync
  PROVE  FileLogInv'
<1> DEFINE floor == Later(wal.first, wal.checkpoint)
           rest == From(wal.entries, wal.checkpoint)
<1>1. /\ op.pc = "truncate" /\ LogTyped /\ OrderInv /\ DurableInv
      /\ name' = name /\ durableName' = name /\ files' = files
      /\ state' = state /\ durableState' = state
      /\ wal' = [wal EXCEPT !.first = floor, !.entries = rest]
      /\ op' = [pc |-> "compact"]
      /\ appended' = appended /\ returned' = returned /\ faults' = faults
  BY DEF TruncateSync, At, FileLogInv, SyncDirectory
<1>2. /\ IsOpen /\ wal \in OpenWal /\ op'.pc = "compact" /\ op' \in Calls
      /\ wal.first \in Nat /\ wal.checkpoint \in Nat /\ wal.entries \in Seq(Entry)
      /\ returned \in SUBSET Nat
  BY <1>1, OpIs, Typed DEF Calls, LogTyped
<1>3. floor \in Nat /\ wal.first <= floor /\ wal.checkpoint <= floor
  BY <1>2 DEF Later
<1>4. /\ rest \in Seq(Entry)
      /\ Ordered(wal.entries) => Ordered(rest)
      /\ Increasing(wal.entries) => Increasing(rest)
      /\ \A bound : Below(wal.entries, bound) => Below(rest, bound)
      /\ \A i \in 1 .. Len(wal.entries) : wal.entries[i].offset >= wal.checkpoint =>
           \E j \in 1 .. Len(rest) : rest[j] = wal.entries[i]
  BY <1>2, FromFacts
<1>n. Len(rest) \in Nat
  BY <1>4
<1> HIDE DEF rest, floor
<1>5. /\ wal' \in OpenWal /\ wal'.entries = rest /\ wal'.next = wal.next
      /\ wal'.first = floor /\ wal'.handle = wal.handle
  BY <1>1, <1>2, <1>3, <1>4 DEF OpenWal
<1>6. IsOpen'
  BY <1>5, OpenOrClosed DEF IsOpen
<1>7. LogTyped'
  BY <1>1, <1>2, <1>5, <1>6 DEF LogTyped
<1>8. OrderInv'
  BY <1>1, <1>2, <1>4, <1>5, <1>6 DEF OrderInv, At, SyncFailed
<1>9. DurableInv'
  <2> SUFFICES ASSUME NothingLost PROVE DurableInv'
    BY <1>1 DEF DurableInv, NothingLost
  <2>1. /\ \A i \in {name, durableName} : Holds(files[i].frames, files[i].synced, Floor)
        /\ durableName = name
        /\ Holds(wal.entries, Len(wal.entries), wal.first)
        /\ \A o \in returned : o < wal.next
        /\ wal.handle = name
        /\ \A k \in 1 .. Len(files[name].frames) : files[name].frames[k] # Torn
        /\ state.first = floor
    BY <1>1, <1>2 DEF DurableInv, At, floor
  <2>2. Floor = wal.first /\ Floor' = floor
    BY <1>2, <1>5, <1>6 DEF Floor
  <2>3. Has(files[name].frames, files[name].synced, floor, returned, appended)
    BY <1>2, <1>3, <2>1, <2>2, HasLater DEF Holds
  <2>4. Has(rest, Len(rest), floor, returned, appended)
    <3> SUFFICES ASSUME NEW o \in returned, o >= floor
                 PROVE  \E j \in 1 .. Len(rest) :
                          /\ rest[j] = [offset |-> o, mutation |-> appended[o]]
                          /\ \A k \in 1 .. j : rest[k] # Torn
      BY DEF Has
    <3>1. o \in Nat /\ o >= wal.first /\ o >= wal.checkpoint
      BY <1>2, <1>3
    <3>2. PICK i \in 1 .. Len(wal.entries) :
            wal.entries[i] = [offset |-> o, mutation |-> appended[o]]
      BY <2>1, <3>1 DEF Holds, Has
    <3>3. PICK j \in 1 .. Len(rest) : rest[j] = wal.entries[i]
      BY <1>4, <3>1, <3>2
    <3>4. \A k \in 1 .. j : rest[k] \in Entry
      BY <1>4, <3>3
    <3>5. \A k \in 1 .. j : rest[k] # Torn
      BY <3>4, NotTorn
    <3> QED
      BY <3>2, <3>3, <3>5
  <2> QED
    BY <1>1, <1>2, <1>3, <1>5, <1>6, <2>1, <2>2, <2>3, <2>4 DEF DurableInv, At, Holds
<1> QED
  BY <1>7, <1>8, <1>9 DEF FileLogInv

LEMMA FailInv ==
  ASSUME FileLogInv, Fail
  PROVE  FileLogInv'
<1>1. /\ LogTyped /\ OrderInv /\ DurableInv
      /\ name' = name /\ durableName' = durableName /\ files' = files /\ wal' = wal
      /\ state' = state /\ durableState' = durableState /\ op' = NoOp
      /\ appended' = appended /\ returned' = returned /\ faults \subseteq faults'
      /\ \/ op.pc = "append" /\ "sync" \in faults'
         \/ op.pc \in {"checkpoint", "truncate", "compact"}
         \/ op.pc = "reopen" /\ "reopen" \in faults'
  BY DEF Fail, At, Fault, FileLogInv
<1>2. (IsOpen' <=> IsOpen) /\ IsOpen /\ NoOp.pc = "idle"
  BY <1>1, OpIs DEF IsOpen, NoOp
<1>3. LogTyped'
  BY <1>1, <1>2 DEF LogTyped
<1>4. OrderInv'
  BY <1>1, <1>2 DEF OrderInv, At, SyncFailed
<1>5. DurableInv'
  <2> SUFFICES ASSUME NothingLost', NothingLost, op.pc # "reopen" PROVE DurableInv'
    BY <1>1 DEF DurableInv, NothingLost, LosingFaults
  <2>1. Floor' = Floor
    BY <1>1, <1>2 DEF Floor
  <2> QED
    BY <1>1, <1>2, <2>1 DEF DurableInv, At, Holds
<1> QED
  BY <1>3, <1>4, <1>5 DEF FileLogInv

LEMMA WriteBackInv ==
  ASSUME FileLogInv, WriteBack
  PROVE  FileLogInv'
<1>1. /\ LogTyped /\ OrderInv /\ DurableInv
      /\ name' = name /\ durableName' \in {durableName, name} /\ files' = files /\ wal' = wal
      /\ state' = state /\ durableState' \in {durableState, state} /\ op' = op
      /\ appended' = appended /\ returned' = returned /\ faults' = faults
  BY DEF WriteBack, FileLogInv
<1>2. IsOpen' <=> IsOpen
  BY <1>1 DEF IsOpen
<1>3. LogTyped'
  BY <1>1, <1>2 DEF LogTyped
<1>4. OrderInv'
  BY <1>1, <1>2 DEF OrderInv, At, SyncFailed
<1>5. Floor' = Floor /\ (NothingLost' <=> NothingLost)
  BY <1>1, <1>2 DEF Floor, NothingLost
<1>6. DurableInv'
  BY <1>1, <1>2, <1>5 DEF DurableInv, At, Holds
<1> QED
  BY <1>3, <1>4, <1>6 DEF FileLogInv

\* The frame is synced, so its offset may be returned.
LEMMA AppendSyncInv ==
  ASSUME FileLogInv, AppendSync
  PROVE  FileLogInv'
<1> DEFINE h == wal.handle
           frames == files[h].frames
           next == wal.next
           entry == [offset |-> next, mutation |-> op.mutation]
           longer == Append(wal.entries, entry)
<1>1. /\ op.pc = "append" /\ LogTyped /\ OrderInv /\ DurableInv
      /\ files' = [files EXCEPT ![h].synced = Len(frames)]
      /\ wal' = [wal EXCEPT !.next = next + 1, !.entries = longer]
      /\ name' = name /\ durableName' = durableName
      /\ state' = state /\ durableState' = durableState
      /\ appended' = [o \in DOMAIN appended \cup {next} |->
                        IF o = next THEN op.mutation ELSE appended[o]]
      /\ returned' = returned \cup {next}
      /\ op' = NoOp /\ faults' = faults
  BY DEF AppendSync, At, FileLogInv
<1>2. /\ IsOpen /\ op.mutation \in Mutations /\ NoOp.pc = "idle"
      /\ wal \in OpenWal /\ wal.entries \in Seq(Entry) /\ Len(wal.entries) \in Nat
      /\ next \in Nat /\ wal.first \in Nat /\ h \in FileIds
      /\ frames \in Seq(Frame) /\ Len(frames) \in Nat
      /\ files \in [FileIds -> [frames : Seq(Frame), synced : Nat]]
      /\ returned \in SUBSET Nat /\ returned \subseteq DOMAIN appended
  BY <1>1, OpIs, Typed DEF NoOp, LogTyped
<1>3. entry \in Entry /\ entry.offset = next
  BY <1>2 DEF Entry
<1>4. entry \in Frame /\ entry # Torn /\ wal.entries \in Seq(Frame)
  BY <1>2, <1>3, NotTorn
<1> HIDE DEF entry
<1>5. /\ Ordered(wal.entries) /\ Below(wal.entries, next)
      /\ SyncFailed \/ Increasing(wal.entries)
      /\ Below(frames, next + 1)
  BY <1>1, <1>2 DEF OrderInv
<1>6. Below(wal.entries, next + 1)
  <2>1. \A i \in 1 .. Len(wal.entries) : wal.entries[i] \in Entry
    BY <1>2
  <2>2. \A i \in 1 .. Len(wal.entries) : wal.entries[i].offset \in Nat
    BY <2>1 DEF Entry
  <2> QED
    BY <1>2, <1>5, <2>2, NotTorn DEF Below
<1>7. /\ Len(longer) = Len(wal.entries) + 1 /\ longer[Len(wal.entries) + 1] = entry
      /\ \A i \in 1 .. Len(wal.entries) : longer[i] = wal.entries[i]
      /\ Ordered(longer)
      /\ Increasing(wal.entries) => Increasing(longer)
      /\ Below(longer, next + 1)
  BY <1>2, <1>3, <1>4, <1>5, <1>6, AppendOrder
<1>8. longer \in Seq(Entry)
  BY <1>2, <1>3
<1> HIDE DEF longer
<1>9. /\ wal' \in OpenWal /\ wal'.entries = longer /\ wal'.next = next + 1
      /\ wal'.first = wal.first /\ wal'.handle = h
  <2> DEFINE more == next + 1
  <2>1. more \in Nat
    BY <1>2
  <2>2. wal' = [wal EXCEPT !.next = more, !.entries = longer]
    BY <1>1
  <2> HIDE DEF more
  <2>3. wal' = [entries |-> longer, next |-> more, first |-> wal.first,
                checkpoint |-> wal.checkpoint, handle |-> wal.handle]
    BY <1>2, <2>2 DEF OpenWal
  <2>4. wal.first \in Nat /\ wal.checkpoint \in Nat /\ wal.handle \in FileIds
    BY <1>2 DEF OpenWal
  <2>5. wal' \in OpenWal
    BY <1>8, <2>1, <2>3, <2>4 DEF OpenWal
  <2> QED
    BY <2>3, <2>5 DEF more
<1>10. IsOpen'
  BY <1>9, OpenOrClosed DEF IsOpen
<1>11. /\ files' \in [FileIds -> [frames : Seq(Frame), synced : Nat]]
       /\ \A i \in FileIds : files'[i].frames = files[i].frames
                             /\ files'[i].synced <= Len(files'[i].frames)
       /\ files'[h].synced = Len(frames)
  <2> DEFINE all == Len(frames)
  <2>1. all \in Nat /\ files' = [files EXCEPT ![h].synced = all]
    BY <1>1, <1>2
  <2> HIDE DEF all
  <2>2. /\ files' \in [FileIds -> [frames : Seq(Frame), synced : Nat]]
        /\ \A i \in FileIds \ {h} : files'[i] = files[i]
        /\ files'[h].frames = files[h].frames /\ files'[h].synced = all
    BY <1>2, <2>1
  <2>3. \A i \in FileIds : files[i].synced <= Len(files[i].frames)
    BY <1>1 DEF LogTyped
  <2>4. files'[h].synced <= Len(files'[h].frames)
    BY <1>2, <2>2 DEF all
  <2> QED
    BY <2>2, <2>3, <2>4 DEF all
<1>12. LogTyped'
  BY <1>1, <1>2, <1>9, <1>10, <1>11 DEF LogTyped
<1>13. OrderInv'
  <2>1. Below(frames, next + 1 + 1)
    <3>1. \A i \in 1 .. Len(frames) : frames[i] \in Frame
      BY <1>2
    <3>2. \A i \in 1 .. Len(frames) : frames[i] # Torn => frames[i].offset \in Nat
      BY <3>1, NotTorn DEF Entry
    <3> QED
      BY <1>2, <1>5, <3>2 DEF Below
  <2> QED
    BY <1>1, <1>2, <1>5, <1>7, <1>9, <1>10, <1>11, <2>1 DEF OrderInv, At, SyncFailed
<1>14. DurableInv'
  <2> SUFFICES ASSUME NothingLost PROVE DurableInv'
    BY <1>1 DEF DurableInv, NothingLost
  <2>1. /\ wal.first <= state.first /\ wal.first <= durableState.first
        /\ Has(files[h].frames, files[h].synced, wal.first, returned, appended)
        /\ durableName = name
        /\ Has(wal.entries, Len(wal.entries), wal.first, returned, appended)
        /\ \A o \in returned : o < next
        /\ h = name
        /\ \A k \in 1 .. Len(frames) : frames[k] # Torn
        /\ Len(frames) > 0 /\ frames[Len(frames)] = entry
    BY <1>1, <1>2 DEF DurableInv, At, Holds, Floor, entry
  <2>2. appended'[next] = op.mutation /\ \A o \in returned : appended'[o] = appended[o]
    BY <1>1, <1>2, <2>1
  <2>3. Has(frames, Len(frames), wal.first, returned', appended')
    <3> SUFFICES ASSUME NEW o \in returned', o >= wal.first
                 PROVE  \E j \in 1 .. Len(frames) :
                          /\ frames[j] = [offset |-> o, mutation |-> appended'[o]]
                          /\ \A k \in 1 .. j : frames[k] # Torn
      BY DEF Has
    <3>n. \A j \in 1 .. Len(frames) : \A k \in 1 .. j : frames[k] # Torn
      BY <1>2, <2>1
    <3>1. files[h].synced \in Nat /\ files[h].synced <= Len(frames)
      BY <1>1, <1>2, Typed
    <3>2. CASE o = next
      <4>1. Len(frames) \in 1 .. Len(frames)
        BY <1>2, <2>1
      <4> QED
        BY <2>1, <2>2, <3>2, <3>n, <4>1 DEF entry
    <3>3. CASE o \in returned
      <4>1. PICK j \in 1 .. files[h].synced :
              frames[j] = [offset |-> o, mutation |-> appended[o]]
        BY <2>1, <3>3 DEF Has
      <4>2. j \in 1 .. Len(frames)
        BY <1>2, <3>1, <4>1
      <4> QED
        BY <2>2, <3>3, <3>n, <4>1, <4>2
    <3> QED
      BY <1>1, <3>2, <3>3
  <2>4. Has(longer, Len(longer), wal.first, returned', appended')
    <3>1. \A i \in 1 .. Len(longer) : longer[i] \in Entry
      BY <1>8
    <3>2. \A i \in 1 .. Len(longer) : longer[i] # Torn
      BY <3>1, NotTorn
    <3> SUFFICES ASSUME NEW o \in returned', o >= wal.first
                 PROVE  \E j \in 1 .. Len(longer) :
                          /\ longer[j] = [offset |-> o, mutation |-> appended'[o]]
                          /\ \A k \in 1 .. j : longer[k] # Torn
      BY DEF Has
    <3>n. \A j \in 1 .. Len(longer) : \A k \in 1 .. j : longer[k] # Torn
      BY <1>2, <1>7, <3>2
    <3>3. CASE o = next
      <4>1. Len(longer) \in 1 .. Len(longer)
        BY <1>2, <1>7
      <4> QED
        BY <1>7, <2>2, <3>3, <3>n, <4>1 DEF entry
    <3>4. CASE o \in returned
      <4>1. PICK j \in 1 .. Len(wal.entries) :
              wal.entries[j] = [offset |-> o, mutation |-> appended[o]]
        BY <2>1, <3>4 DEF Has
      <4>2. j \in 1 .. Len(longer) /\ longer[j] = wal.entries[j]
        BY <1>2, <1>7, <4>1
      <4> QED
        BY <2>2, <3>4, <3>n, <4>1, <4>2
    <3> QED
      BY <1>1, <3>3, <3>4
  <2>5. Floor' = wal.first /\ \A o \in returned' : o < next + 1
    BY <1>1, <1>2, <1>9, <1>10, <2>1 DEF Floor
  <2> QED
    BY <1>1, <1>2, <1>9, <1>10, <1>11, <2>1, <2>3, <2>4, <2>5 DEF DurableInv, At, Holds
<1> QED
  BY <1>12, <1>13, <1>14 DEF FileLogInv

LEMMA FileFacts ==
  ASSUME NEW frames \in Seq(Frame)
  PROVE  /\ File(frames) \in [frames : Seq(Frame), synced : Nat]
         /\ File(frames).frames = frames /\ File(frames).synced = Len(frames)
         /\ NoFile \in [frames : Seq(Frame), synced : Nat] /\ NoFile.synced <= Len(NoFile.frames)
         /\ Ordered(NoFile.frames) /\ Increasing(NoFile.frames)
BY DEF File, NoFile, Ordered, Increasing

\* The new file holds what the old one does from the floor on, and until the
\* directory is synced either may be what a crash brings back.
LEMMA CompactInv ==
  ASSUME FileLogInv, Compact
  PROVE  FileLogInv'
<1>1. PICK fresh \in FileIds \ {name, durableName, wal.handle} :
        /\ files' = [i \in FileIds |->
                       CASE i = fresh -> File(wal.entries)
                         [] i \in {name, durableName, wal.handle} -> files[i]
                         [] OTHER -> NoFile]
        /\ name' = fresh
  BY DEF Compact
<1>2. /\ op.pc = "compact" /\ LogTyped /\ OrderInv /\ DurableInv
      /\ durableName' = durableName /\ wal' = wal
      /\ state' = state /\ durableState' = durableState
      /\ appended' = appended /\ returned' = returned
      /\ op' = [pc |-> "reopen"] /\ faults' = faults
  BY DEF Compact, At, FileLogInv
<1>3. /\ IsOpen /\ IsOpen' /\ op'.pc = "reopen" /\ op' \in Calls
      /\ wal.entries \in Seq(Entry) /\ wal.entries \in Seq(Frame)
      /\ wal.handle \in FileIds /\ name \in FileIds /\ durableName \in FileIds
  <2>1. IsOpen
    BY <1>2, OpIs
  <2>2. IsOpen' /\ op'.pc = "reopen" /\ op' \in Calls
    BY <1>2, <2>1 DEF IsOpen, Calls
  <2>3. wal.entries \in Seq(Entry) /\ wal.handle \in FileIds
    BY <1>2, <2>1, Typed
  <2>4. wal.entries \in Seq(Frame)
    BY <2>3, NotTorn
  <2>5. name \in FileIds /\ durableName \in FileIds
    BY <1>2 DEF LogTyped
  <2> QED
    BY <2>1, <2>2, <2>3, <2>4, <2>5
<1>4. /\ files'[fresh] = File(wal.entries)
      /\ \A i \in {name, durableName, wal.handle} : files'[i] = files[i]
      /\ \A i \in FileIds \ {fresh, name, durableName, wal.handle} : files'[i] = NoFile
      /\ DOMAIN files' = FileIds /\ files' = [i \in FileIds |-> files'[i]]
  <2>1. \A i \in FileIds : files'[i] = CASE i = fresh -> File(wal.entries)
                         [] i \in {name, durableName, wal.handle} -> files[i]
                         [] OTHER -> NoFile
    BY <1>1
  <2>2. files'[fresh] = File(wal.entries)
    BY <1>1, <2>1
  <2>3. \A i \in {name, durableName, wal.handle} : files'[i] = files[i]
    BY <1>1, <1>3, <2>1
  <2>4. \A i \in FileIds \ {fresh, name, durableName, wal.handle} : files'[i] = NoFile
    BY <2>1
  <2> QED
    BY <1>1, <2>2, <2>3, <2>4
<1>5. /\ File(wal.entries) \in [frames : Seq(Frame), synced : Nat]
      /\ File(wal.entries).frames = wal.entries /\ File(wal.entries).synced = Len(wal.entries)
      /\ NoFile \in [frames : Seq(Frame), synced : Nat] /\ NoFile.synced <= Len(NoFile.frames)
      /\ Ordered(NoFile.frames) /\ Increasing(NoFile.frames) /\ Len(wal.entries) \in Nat
  BY <1>3, FileFacts
<1>6. \A i \in FileIds : i = fresh \/ i \in {name, durableName, wal.handle}
                         \/ i \in FileIds \ {fresh, name, durableName, wal.handle}
  OBVIOUS
<1>7. \A i \in FileIds : /\ files'[i] \in [frames : Seq(Frame), synced : Nat]
                         /\ files'[i].synced <= Len(files'[i].frames)
  <2> TAKE i \in FileIds
  <2>1. CASE i = fresh
    <3>1. files'[i] = File(wal.entries)
      BY <1>4, <2>1
    <3> QED
      BY <1>5, <3>1
  <2>2. CASE i \in {name, durableName, wal.handle}
    <3>1. files'[i] = files[i]
      BY <1>4, <2>2
    <3> QED
      BY <1>2, <3>1 DEF LogTyped
  <2>3. CASE i \in FileIds \ {fresh, name, durableName, wal.handle}
    BY <1>4, <1>5, <2>3
  <2> QED
    BY <1>6, <2>1, <2>2, <2>3
<1>8. LogTyped'
  <2>1. files' \in [FileIds -> [frames : Seq(Frame), synced : Nat]]
    BY <1>4, <1>7
  <2> QED
    BY <1>1, <1>2, <1>3, <1>7, <2>1 DEF LogTyped
<1>9. OrderInv'
  <2>1. \A i \in FileIds : Ordered(files'[i].frames)
                           /\ (SyncFailed \/ Increasing(files'[i].frames))
    BY <1>2, <1>3, <1>4, <1>5, <1>6 DEF OrderInv
  <2> QED
    BY <1>1, <1>2, <1>3, <1>4, <1>5, <2>1 DEF OrderInv, At, SyncFailed
<1>10. DurableInv'
  <2> SUFFICES ASSUME NothingLost PROVE DurableInv'
    BY <1>2 DEF DurableInv, NothingLost
  <2>1. Floor = wal.first /\ Floor' = wal.first
    BY <1>2, <1>3 DEF Floor
  <2> QED
    BY <1>1, <1>2, <1>3, <1>4, <1>5, <2>1 DEF DurableInv, At, Holds
<1> QED
  BY <1>8, <1>9, <1>10 DEF FileLogInv

LEMMA CompactReopenInv ==
  ASSUME FileLogInv, CompactReopen
  PROVE  FileLogInv'
<1>1. /\ op.pc = "reopen" /\ LogTyped /\ OrderInv /\ DurableInv
      /\ name' = name /\ durableName' = name
      /\ files' = [i \in FileIds |-> IF i = name THEN files[i] ELSE NoFile]
      /\ state' = state /\ durableState' = state
      /\ wal' = [wal EXCEPT !.handle = name] /\ op' = NoOp
      /\ appended' = appended /\ returned' = returned /\ faults' = faults
  BY DEF CompactReopen, At, FileLogInv, SyncDirectory
<1>2. /\ IsOpen /\ wal \in OpenWal /\ NoOp.pc = "idle" /\ name \in FileIds
      /\ wal.entries \in Seq(Entry) /\ wal.entries \in Seq(Frame) /\ wal.next \in Nat
  BY <1>1, OpIs, Typed, NotTorn DEF NoOp, LogTyped
<1>3. /\ wal' \in OpenWal /\ wal'.entries = wal.entries /\ wal'.next = wal.next
      /\ wal'.first = wal.first /\ wal'.handle = name
  BY <1>1, <1>2 DEF OpenWal
<1>4. IsOpen'
  BY <1>3, OpenOrClosed DEF IsOpen
<1>5. /\ files'[name] = files[name] /\ \A i \in FileIds \ {name} : files'[i] = NoFile
      /\ DOMAIN files' = FileIds /\ files' = [i \in FileIds |-> files'[i]]
  BY <1>1, <1>2
<1>6. /\ NoFile \in [frames : Seq(Frame), synced : Nat] /\ NoFile.synced <= Len(NoFile.frames)
      /\ Ordered(NoFile.frames) /\ Increasing(NoFile.frames)
      /\ File(wal.entries).frames = wal.entries
  BY <1>2, FileFacts
<1>7. \A i \in FileIds : /\ files'[i] \in [frames : Seq(Frame), synced : Nat]
                         /\ files'[i].synced <= Len(files'[i].frames)
  BY <1>1, <1>2, <1>5, <1>6, Typed
<1>8. LogTyped'
  <2>1. files' \in [FileIds -> [frames : Seq(Frame), synced : Nat]]
    BY <1>5, <1>7
  <2> QED
    BY <1>1, <1>2, <1>3, <1>4, <1>7, <2>1 DEF LogTyped
<1>9. OrderInv'
  <2>1. \A i \in FileIds : Ordered(files'[i].frames)
                           /\ (SyncFailed \/ Increasing(files'[i].frames))
    BY <1>1, <1>2, <1>5, <1>6 DEF OrderInv
  <2>2. files[name].frames = wal.entries /\ Below(wal.entries, wal.next)
    BY <1>1, <1>2 DEF OrderInv, At
  <2>3. Below(wal.entries, wal.next + 1)
    <3>1. \A i \in 1 .. Len(wal.entries) : wal.entries[i] \in Entry
      BY <1>2
    <3>2. \A i \in 1 .. Len(wal.entries) : wal.entries[i].offset \in Nat
      BY <3>1 DEF Entry
    <3>3. \A i \in 1 .. Len(wal.entries) : wal.entries[i] # Torn
      BY <3>1, NotTorn
    <3> QED
      BY <1>2, <2>2, <3>2, <3>3 DEF Below
  <2> QED
    BY <1>1, <1>2, <1>3, <1>4, <1>5, <2>1, <2>2, <2>3 DEF OrderInv, At, SyncFailed
<1>10. DurableInv'
  <2> SUFFICES ASSUME NothingLost PROVE DurableInv'
    BY <1>1 DEF DurableInv, NothingLost
  <2>1. Floor = wal.first /\ Floor' = wal.first
    BY <1>2, <1>3, <1>4 DEF Floor
  <2>2. \A i \in 1 .. Len(wal.entries) : wal.entries[i] # Torn
    <3>1. \A i \in 1 .. Len(wal.entries) : wal.entries[i] \in Entry
      BY <1>2
    <3> QED
      BY <3>1, NotTorn
  <2>3. files[name].frames = wal.entries
    BY <1>1, <1>2 DEF OrderInv, At
  <2> QED
    BY <1>1, <1>2, <1>3, <1>4, <1>5, <2>1, <2>2, <2>3 DEF DurableInv, At, Holds
<1> QED
  BY <1>8, <1>9, <1>10 DEF FileLogInv

------------------------------------------------------------------------------
(* Crash and open *)

\* What a crash may leave: files in order, with all that was acknowledged.
LEMMA OutcomeFacts ==
  ASSUME FileLogInv, NEW left \in Outcomes
  PROVE  /\ left.frames \in Seq(Frame) /\ left.state \in State
         /\ Ordered(left.frames) /\ (SyncFailed \/ Increasing(left.frames))
         /\ NothingLost => Has(left.frames, Len(left.frames), left.state.first, returned, appended)
<1>1. PICK i \in {name, durableName} :
        /\ left.frames \in Remains(files[i]) /\ left.state \in {state, durableState}
  BY DEF Outcomes
<1>2. LogTyped /\ OrderInv /\ DurableInv
  BY DEF FileLogInv
<1>3. i \in FileIds /\ left.state \in State /\ left.state.first \in Nat
  BY <1>1, <1>2, Typed DEF LogTyped
<1>4. /\ files[i] \in [frames : Seq(Frame), synced : Nat]
      /\ files[i].synced \in Nat /\ files[i].synced <= Len(files[i].frames)
      /\ Ordered(files[i].frames) /\ (SyncFailed \/ Increasing(files[i].frames))
  BY <1>2, <1>3, Typed DEF OrderInv
<1> DEFINE frames == left.frames
<1>5. frames \in Remains(files[i])
  BY <1>1
<1> HIDE DEF frames
<1>6. /\ frames \in Seq(Frame) /\ files[i].synced <= Len(frames)
      /\ \A k \in 1 .. files[i].synced : frames[k] = files[i].frames[k]
      /\ Ordered(files[i].frames) => Ordered(frames)
      /\ Increasing(files[i].frames) => Increasing(frames)
  BY <1>4, <1>5, RemainsFacts
<1>7. ASSUME NothingLost
      PROVE  Has(frames, Len(frames), left.state.first, returned, appended)
  <2>1. /\ Has(files[i].frames, files[i].synced, Floor, returned, appended)
        /\ Floor <= left.state.first
    BY <1>1, <1>2, <1>7 DEF DurableInv, Holds
  <2>2. Floor \in Nat /\ returned \in SUBSET Nat /\ Len(frames) \in Nat
    BY <1>2, <1>6, Typed DEF Floor, LogTyped
  <2> SUFFICES ASSUME NEW o \in returned, o >= left.state.first
               PROVE  \E j \in 1 .. Len(frames) :
                        /\ frames[j] = [offset |-> o, mutation |-> appended[o]]
                        /\ \A h \in 1 .. j : frames[h] # Torn
    BY DEF Has
  <2>3. o >= Floor
    BY <1>3, <2>1, <2>2
  <2>4. PICK j \in 1 .. files[i].synced :
          /\ files[i].frames[j] = [offset |-> o, mutation |-> appended[o]]
          /\ \A h \in 1 .. j : files[i].frames[h] # Torn
    BY <2>1, <2>3 DEF Has
  <2>5. j \in 1 .. Len(frames) /\ \A h \in 1 .. j : h \in 1 .. files[i].synced
    BY <1>4, <1>6, <2>2, <2>4
  <2> QED
    BY <1>6, <2>4, <2>5
<1> QED
  BY <1>3, <1>4, <1>6, <1>7 DEF frames

\* What recovery finds changes no mutation that was known.
LEMMA RecoveredKeeps ==
  ASSUME NEW log
  PROVE  /\ DOMAIN appended \subseteq DOMAIN WithRecovered(log)
         /\ \A o \in DOMAIN appended : WithRecovered(log)[o] = appended[o]
BY DEF WithRecovered

LEMMA CrashInv ==
  ASSUME FileLogInv, Crash
  PROVE  FileLogInv'
<1>1. PICK left \in Outcomes :
        /\ files' = [i \in FileIds |-> IF i = 1 THEN File(left.frames) ELSE NoFile]
        /\ state' = left.state /\ durableState' = left.state
        /\ appended' = WithRecovered(Loaded(left.frames, left.state).entries)
  BY DEF Crash
<1>2. /\ name' = 1 /\ durableName' = 1 /\ wal' = Closed /\ op' = NoOp
      /\ returned' = returned /\ faults' = faults
      /\ LogTyped
  BY DEF Crash, FileLogInv
<1>3. /\ left.frames \in Seq(Frame) /\ left.state \in State
      /\ Ordered(left.frames) /\ (SyncFailed \/ Increasing(left.frames))
      /\ NothingLost => Has(left.frames, Len(left.frames), left.state.first, returned, appended)
  BY OutcomeFacts
<1>4. /\ DOMAIN appended \subseteq DOMAIN appended'
      /\ \A o \in DOMAIN appended : appended'[o] = appended[o]
  BY <1>1, RecoveredKeeps
<1>5. returned \in SUBSET Nat /\ returned \subseteq DOMAIN appended
  BY <1>2 DEF LogTyped
<1>6. ~IsOpen' /\ NoOp.pc = "idle" /\ 1 \in FileIds
  BY <1>2, OpenOrClosed DEF IsOpen, NoOp, FileIds
<1>7. /\ File(left.frames) \in [frames : Seq(Frame), synced : Nat]
      /\ File(left.frames).frames = left.frames /\ File(left.frames).synced = Len(left.frames)
      /\ NoFile \in [frames : Seq(Frame), synced : Nat] /\ NoFile.synced <= Len(NoFile.frames)
      /\ Ordered(NoFile.frames) /\ Increasing(NoFile.frames) /\ Len(left.frames) \in Nat
  BY <1>3, FileFacts
<1>8. /\ files'[1] = File(left.frames) /\ \A i \in FileIds \ {1} : files'[i] = NoFile
      /\ files' = [i \in FileIds |-> files'[i]]
  BY <1>1, <1>6
<1>9. \A i \in FileIds : /\ files'[i] \in [frames : Seq(Frame), synced : Nat]
                         /\ files'[i].synced <= Len(files'[i].frames)
                         /\ Ordered(files'[i].frames)
                         /\ SyncFailed \/ Increasing(files'[i].frames)
  <2> TAKE i \in FileIds
  <2>1. CASE i = 1
    BY <1>3, <1>7, <1>8, <2>1
  <2>2. CASE i # 1
    BY <1>7, <1>8, <2>2
  <2> QED
    BY <2>1, <2>2
<1>10. LogTyped'
  <2>1. files' \in [FileIds -> [frames : Seq(Frame), synced : Nat]]
    BY <1>8, <1>9
  <2>2. returned' \subseteq DOMAIN appended'
    BY <1>2, <1>4, <1>5
  <2> QED
    BY <1>1, <1>2, <1>3, <1>5, <1>6, <1>9, <2>1, <2>2 DEF LogTyped
<1>11. OrderInv'
  BY <1>2, <1>6, <1>9 DEF OrderInv, SyncFailed
<1>12. DurableInv'
  <2> SUFFICES ASSUME NothingLost PROVE DurableInv'
    BY <1>2 DEF DurableInv, NothingLost
  <2>1. Floor' = left.state.first /\ left.state.first \in Nat
    BY <1>1, <1>3, <1>6 DEF Floor, State
  <2>2. Has(left.frames, Len(left.frames), left.state.first, returned', appended')
    BY <1>2, <1>3, <1>4, <1>5 DEF Has
  <2>3. \A i \in {name, durableName}' : Holds(files[i].frames, files[i].synced, Floor)'
    BY <1>2, <1>7, <1>8, <2>1, <2>2 DEF Holds
  <2> QED
    BY <1>1, <1>2, <1>6, <2>1, <2>3 DEF DurableInv
<1> QED
  BY <1>10, <1>11, <1>12 DEF FileLogInv

\* The files stay as they are; either they are synced or the process ended
\* before they were, which is one of the losing faults.
LEMMA ExitInv ==
  ASSUME FileLogInv, Exit
  PROVE  FileLogInv'
<1>1. /\ IsOpen /\ LogTyped /\ OrderInv /\ DurableInv
      /\ (Synced /\ faults' = faults) \/ faults' = faults \cup {"exit"}
      /\ wal' = Closed /\ op' = NoOp
      /\ appended' = WithRecovered(Loaded(files[name].frames, state).entries)
      /\ files' = files /\ name' = name /\ durableName' = durableName
      /\ state' = state /\ durableState' = durableState /\ returned' = returned
  BY DEF Exit, Fault, FileLogInv
<1>2. /\ DOMAIN appended \subseteq DOMAIN appended'
      /\ \A o \in DOMAIN appended : appended'[o] = appended[o]
  BY <1>1, RecoveredKeeps
<1>3. /\ ~IsOpen' /\ returned \in SUBSET Nat /\ returned \subseteq DOMAIN appended
      /\ state.first \in Nat /\ wal.first \in Nat
  BY <1>1, Typed, OpenOrClosed DEF IsOpen, LogTyped
<1>4. LogTyped'
  <2>1. returned' \subseteq DOMAIN appended'
    BY <1>1, <1>2, <1>3
  <2> QED
    BY <1>1, <1>3, <2>1 DEF LogTyped
<1>5. OrderInv'
  BY <1>1, <1>3 DEF OrderInv, SyncFailed
<1>6. DurableInv'
  <2> SUFFICES ASSUME NothingLost' PROVE DurableInv'
    BY DEF DurableInv
  <2>1. Synced /\ NothingLost
    BY <1>1 DEF NothingLost, LosingFaults
  <2>2. /\ durableName = name /\ durableState = state
        /\ Has(files[name].frames, files[name].synced, wal.first, returned, appended)
        /\ wal.first <= state.first
    BY <1>1, <2>1 DEF Synced, DurableInv, Floor, Holds
  <2>3. Has(files[name].frames, files[name].synced, state.first, returned, appended)
    BY <1>3, <2>2, HasLater
  <2>4. Has(files[name].frames, files[name].synced, state.first, returned', appended')
    BY <1>1, <1>2, <1>3, <2>3 DEF Has
  <2>5. Floor' = state.first
    BY <1>1, <1>3 DEF Floor
  <2> QED
    BY <1>1, <1>3, <2>2, <2>4, <2>5 DEF DurableInv, Holds
<1> QED
  BY <1>4, <1>5, <1>6 DEF FileLogInv

\* What a torn frame hides was never acknowledged.
LEMMA OpenInv ==
  ASSUME FileLogInv, Open
  PROVE  FileLogInv'
<1> DEFINE frames == files[name].frames
           loaded == Loaded(frames, state)
           cut == Intact(frames)
           kept == IF cut = frames THEN files[name] ELSE File(cut)
<1>1. /\ ~IsOpen /\ LogTyped /\ OrderInv /\ DurableInv
      /\ wal' = [entries |-> loaded.entries, next |-> loaded.next, first |-> loaded.first,
                 checkpoint |-> loaded.checkpoint, handle |-> name]
      /\ files' = [files EXCEPT ![name] = kept]
      /\ name' = name /\ durableName' = durableName /\ op' = op
      /\ state' = state /\ durableState' = durableState
      /\ appended' = appended /\ returned' = returned /\ faults' = faults
  BY DEF Open, FileLogInv
<1>2. /\ op = NoOp /\ op.pc = "idle" /\ name \in FileIds /\ state \in State
      /\ frames \in Seq(Frame) /\ Len(frames) \in Nat
      /\ files[name] \in [frames : Seq(Frame), synced : Nat]
      /\ files[name].synced \in Nat /\ files[name].synced <= Len(frames)
      /\ returned \in SUBSET Nat /\ state.first \in Nat /\ state.checkpoint \in Nat
  BY <1>1, Typed DEF LogTyped, NoOp
<1>3. Ordered(frames) /\ (SyncFailed \/ Increasing(frames))
  BY <1>1, <1>2 DEF OrderInv
<1>4. /\ loaded.entries \in Seq(Entry) /\ loaded.next \in Nat
      /\ loaded.first = state.first /\ loaded.checkpoint = state.checkpoint
      /\ state.first <= loaded.next
      /\ Ordered(loaded.entries) /\ (Increasing(frames) => Increasing(loaded.entries))
      /\ Below(loaded.entries, loaded.next) /\ Below(cut, loaded.next)
      /\ \A j \in 1 .. Len(frames) :
           /\ \A h \in 1 .. j : frames[h] # Torn
           /\ frames[j].offset >= state.first
           => \E i \in 1 .. Len(loaded.entries) : loaded.entries[i] = frames[j]
  BY <1>2, <1>3, LoadedFacts
<1>5. /\ cut \in Seq(Entry) /\ Len(cut) <= Len(frames)
      /\ \A i \in 1 .. Len(cut) : cut[i] = frames[i] /\ frames[i] # Torn
      /\ \A j \in 1 .. Len(frames) :
           (\A h \in 1 .. j : frames[h] # Torn) => j \in 1 .. Len(cut)
  BY <1>2, IntactFacts
<1> HIDE DEF loaded, cut
<1>6. cut \in Seq(Frame) /\ Len(cut) \in Nat /\ \A i \in 1 .. Len(cut) : i \in 1 .. Len(frames)
  BY <1>2, <1>5, NotTorn
<1>7. Ordered(cut) /\ (SyncFailed \/ Increasing(cut))
  BY <1>3, <1>5, <1>6 DEF Ordered, Increasing
<1>8. /\ File(cut) \in [frames : Seq(Frame), synced : Nat]
      /\ File(cut).frames = cut /\ File(cut).synced = Len(cut)
  BY <1>6, FileFacts
<1>9. /\ kept \in [frames : Seq(Frame), synced : Nat] /\ kept.frames = cut
      /\ kept.synced <= Len(cut) /\ kept.synced \in Nat
      /\ kept = files[name] \/ kept.synced = Len(cut)
  BY <1>2, <1>6, <1>8
<1> HIDE DEF kept
<1>10. /\ files' \in [FileIds -> [frames : Seq(Frame), synced : Nat]]
       /\ files'[name] = kept /\ \A i \in FileIds \ {name} : files'[i] = files[i]
  BY <1>1, <1>2, <1>9 DEF LogTyped
<1>11. /\ wal' \in OpenWal /\ wal'.entries = loaded.entries /\ wal'.next = loaded.next
       /\ wal'.first = state.first /\ wal'.handle = name
  BY <1>1, <1>2, <1>4 DEF OpenWal
<1>12. IsOpen'
  BY <1>11, OpenOrClosed DEF IsOpen
<1>13. LogTyped'
  <2>1. \A i \in FileIds : files'[i].synced <= Len(files'[i].frames)
    <3> TAKE i \in FileIds
    <3>1. CASE i = name
      BY <1>9, <1>10, <3>1
    <3>2. CASE i # name
      BY <1>1, <1>10, <3>2 DEF LogTyped
    <3> QED
      BY <3>1, <3>2
  <2> QED
    BY <1>1, <1>2, <1>10, <1>11, <1>12, <2>1 DEF LogTyped
<1>14. OrderInv'
  <2>1. Below(cut, loaded.next + 1)
    <3>1. \A i \in 1 .. Len(cut) : cut[i] \in Entry
      BY <1>5
    <3>2. \A i \in 1 .. Len(cut) : cut[i].offset \in Nat /\ cut[i] # Torn
      BY <3>1, NotTorn DEF Entry
    <3> QED
      BY <1>4, <3>2 DEF Below
  <2>2. \A i \in FileIds : Ordered(files'[i].frames)
                           /\ (SyncFailed \/ Increasing(files'[i].frames))
    <3> TAKE i \in FileIds
    <3>1. CASE i = name
      BY <1>7, <1>9, <1>10, <3>1
    <3>2. CASE i # name
      BY <1>1, <1>10, <3>2 DEF OrderInv
    <3> QED
      BY <3>1, <3>2
  <2> QED
    BY <1>1, <1>2, <1>3, <1>4, <1>9, <1>10, <1>11, <1>12, <2>1, <2>2 DEF OrderInv, At, SyncFailed
<1>15. DurableInv'
  <2> SUFFICES ASSUME NothingLost PROVE DurableInv'
    BY <1>1 DEF DurableInv, NothingLost
  <2>1. /\ state.first <= durableState.first /\ durableName = name
        /\ Has(frames, files[name].synced, state.first, returned, appended)
    BY <1>1, <1>2 DEF DurableInv, At, Holds, Floor
  <2>2. Floor' = state.first
    BY <1>11, <1>12 DEF Floor
  <2>3. ASSUME NEW o \in returned, o >= state.first
        PROVE  \E j \in 1 .. files[name].synced :
                 /\ j \in 1 .. Len(cut) /\ j \in 1 .. Len(frames)
                 /\ cut[j] = [offset |-> o, mutation |-> appended[o]]
                 /\ cut[j] = frames[j]
                 /\ \A h \in 1 .. j : frames[h] # Torn
    <3>1. PICK j \in 1 .. files[name].synced :
            /\ frames[j] = [offset |-> o, mutation |-> appended[o]]
            /\ \A h \in 1 .. j : frames[h] # Torn
      BY <2>1, <2>3 DEF Has
    <3>2. j \in 1 .. Len(frames)
      BY <1>2, <3>1
    <3>3. j \in 1 .. Len(cut)
      BY <1>5, <3>1, <3>2
    <3> QED
      BY <1>5, <3>1, <3>2, <3>3
  <2>4. \A i \in 1 .. Len(cut) : cut[i] # Torn
    BY <1>5
  <2>5. Has(cut, kept.synced, state.first, returned, appended)
    <3>1. CASE kept = files[name]
      BY <1>9, <2>1, <3>1
    <3>2. CASE kept.synced = Len(cut)
      <4> SUFFICES ASSUME NEW o \in returned, o >= state.first
                   PROVE  \E j \in 1 .. Len(cut) :
                            /\ cut[j] = [offset |-> o, mutation |-> appended[o]]
                            /\ \A h \in 1 .. j : cut[h] # Torn
        BY <3>2 DEF Has
      <4>1. PICK j \in 1 .. Len(cut) : cut[j] = [offset |-> o, mutation |-> appended[o]]
        BY <2>3
      <4>2. \A h \in 1 .. j : cut[h] # Torn
        BY <1>6, <2>4, <4>1
      <4> QED
        BY <4>1, <4>2
    <3> QED
      BY <1>9, <3>1, <3>2
  <2>6. ASSUME NEW o \in returned, o >= state.first
        PROVE  \E i \in 1 .. Len(loaded.entries) :
                 loaded.entries[i] = [offset |-> o, mutation |-> appended[o]]
    <3>1. PICK j \in 1 .. Len(frames) :
            /\ frames[j] = [offset |-> o, mutation |-> appended[o]]
            /\ \A h \in 1 .. j : frames[h] # Torn
      BY <2>3, <2>6
    <3>2. frames[j].offset >= state.first
      BY <2>6, <3>1
    <3>3. PICK i \in 1 .. Len(loaded.entries) : loaded.entries[i] = frames[j]
      BY <1>4, <3>1, <3>2
    <3> QED
      BY <3>1, <3>3
  <2>7. \A i \in 1 .. Len(loaded.entries) : loaded.entries[i] # Torn
    <3>1. \A i \in 1 .. Len(loaded.entries) : loaded.entries[i] \in Entry
      BY <1>4
    <3> QED
      BY <3>1, NotTorn
  <2>8. Has(loaded.entries, Len(loaded.entries), state.first, returned, appended)
    <3> SUFFICES ASSUME NEW o \in returned, o >= state.first
                 PROVE  \E j \in 1 .. Len(loaded.entries) :
                          /\ loaded.entries[j] = [offset |-> o, mutation |-> appended[o]]
                          /\ \A h \in 1 .. j : loaded.entries[h] # Torn
      BY DEF Has
    <3>1. PICK j \in 1 .. Len(loaded.entries) :
            loaded.entries[j] = [offset |-> o, mutation |-> appended[o]]
      BY <2>6
    <3>2. Len(loaded.entries) \in Nat
      BY <1>4
    <3>3. \A h \in 1 .. j : loaded.entries[h] # Torn
      BY <2>7, <3>1, <3>2
    <3> QED
      BY <3>1, <3>3
  <2>9. \A o \in returned : o < loaded.next
    <3> SUFFICES ASSUME NEW o \in returned PROVE o < loaded.next
      OBVIOUS
    <3>1. CASE o >= state.first
      <4>1. PICK i \in 1 .. Len(loaded.entries) :
              loaded.entries[i] = [offset |-> o, mutation |-> appended[o]]
        BY <2>6, <3>1
      <4>2. loaded.entries[i].offset < loaded.next
        BY <1>4, <2>7 DEF Below
      <4> QED
        BY <4>1, <4>2
    <3>2. CASE o < state.first
      BY <1>2, <1>4, <3>2
    <3> QED
      BY <1>2, <3>1, <3>2
  <2> QED
    BY <1>1, <1>2, <1>9, <1>10, <1>11, <1>12, <2>1, <2>2, <2>4, <2>5, <2>8, <2>9
       DEF DurableInv, At, Holds
<1> QED
  BY <1>13, <1>14, <1>15 DEF FileLogInv

------------------------------------------------------------------------------
(* The invariant *)

LEMMA InitInv == Init => FileLogInv
<1> SUFFICES ASSUME Init PROVE FileLogInv
  OBVIOUS
<1>1. /\ files = [i \in FileIds |-> NoFile] /\ name = 1 /\ durableName = 1
      /\ state = [checkpoint |-> 0, first |-> 0] /\ durableState = state
      /\ wal = Closed /\ op = NoOp /\ returned = {}
  BY DEF Init
<1>2. /\ <<>> \in Seq(Frame) /\ NoFile.frames = <<>> /\ NoFile.synced = 0
      /\ NoFile \in [frames : Seq(Frame), synced : Nat] /\ Len(NoFile.frames) = 0
  BY DEF NoFile, File
<1>3. ~IsOpen /\ NoOp.pc = "idle" /\ 1 \in FileIds /\ state \in State /\ Floor = 0
  BY <1>1, OpenOrClosed DEF IsOpen, NoOp, FileIds, State, Floor
<1>4. \A i \in FileIds : files[i] = NoFile
  BY <1>1
<1>5. LogTyped
  BY <1>1, <1>2, <1>3, <1>4 DEF LogTyped
<1>6. OrderInv
  BY <1>2, <1>3, <1>4 DEF OrderInv, Ordered, Increasing
<1>7. DurableInv
  BY <1>1, <1>3 DEF DurableInv, Holds, Has, At
<1> QED
  BY <1>5, <1>6, <1>7 DEF FileLogInv

LEMMA StepInv == FileLogInv /\ [Next]_logVars => FileLogInv'
<1> SUFFICES ASSUME FileLogInv, [Next]_logVars PROVE FileLogInv'
  OBVIOUS
<1>1. ASSUME NEW m \in Mutations, AppendWrite(m) PROVE FileLogInv'
  BY <1>1, AppendWriteInv
<1>2. CASE AppendTorn
  BY <1>2, AppendTornInv
<1>3. CASE AppendSync
  BY <1>3, AppendSyncInv
<1>4. ASSUME NEW offset \in 0 .. MaxAppends, Checkpoint(offset) PROVE FileLogInv'
  <2>1. offset \in Nat
    BY FileLogAssumption
  <2> QED
    BY <1>4, <2>1, CheckpointInv
<1>5. CASE CheckpointSync
  BY <1>5, CheckpointSyncInv
<1>6. CASE Truncate
  BY <1>6, TruncateInv
<1>7. CASE TruncateSync
  BY <1>7, TruncateSyncInv
<1>8. CASE Compact
  BY <1>8, CompactInv
<1>9. CASE CompactReopen
  BY <1>9, CompactReopenInv
<1>10. CASE Fail
  BY <1>10, FailInv
<1>11. CASE WriteBack
  BY <1>11, WriteBackInv
<1>12. CASE Crash
  BY <1>12, CrashInv
<1>13. CASE Exit
  BY <1>13, ExitInv
<1>14. CASE Open
  BY <1>14, OpenInv
<1>15. CASE UNCHANGED logVars
  <2>1. /\ files' = files /\ name' = name /\ durableName' = durableName
        /\ state' = state /\ durableState' = durableState /\ wal' = wal /\ op' = op
        /\ appended' = appended /\ returned' = returned /\ faults' = faults
    BY <1>15 DEF logVars
  <2>2. IsOpen' <=> IsOpen
    BY <2>1 DEF IsOpen
  <2>3. LogTyped'
    BY <2>1, <2>2 DEF FileLogInv, LogTyped
  <2>4. OrderInv'
    BY <2>1, <2>2 DEF FileLogInv, OrderInv, At, SyncFailed
  <2>5. Floor' = Floor /\ (NothingLost' <=> NothingLost)
    BY <2>1, <2>2 DEF Floor, NothingLost
  <2>6. DurableInv'
    BY <2>1, <2>2, <2>5 DEF FileLogInv, DurableInv, At, Holds
  <2> QED
    BY <2>3, <2>4, <2>6 DEF FileLogInv
<1> QED
  BY <1>1, <1>2, <1>3, <1>4, <1>5, <1>6, <1>7, <1>8, <1>9, <1>10, <1>11, <1>12, <1>13,
     <1>14, <1>15 DEF Next

\* The order of every file and what every file holds, in every behavior
\* (append_mutation, checkpoint, truncate_before_checkpoint, load_wal).
THEOREM FileLogInvariant == Spec => []FileLogInv
BY InitInv, StepInv, PTL DEF Spec

------------------------------------------------------------------------------
(* What a crash recovers *)

LEMMA RecoveryFacts ==
  ASSUME FileLogInv, NEW log \in Recoveries
  PROVE  /\ log.entries \in Seq(Entry) /\ log.first \in Nat /\ log.next \in Nat
         /\ log.first <= log.next /\ Below(log.entries, log.next)
         /\ SyncFailed \/ Increasing(log.entries)
         /\ NothingLost =>
              \A o \in returned : o >= log.first =>
                \E i \in 1 .. Len(log.entries) :
                  log.entries[i] = [offset |-> o, mutation |-> appended[o]]
<1>1. PICK left \in Outcomes : log = Loaded(left.frames, left.state)
  BY DEF Recoveries
<1>2. /\ left.frames \in Seq(Frame) /\ left.state \in State
      /\ Ordered(left.frames) /\ (SyncFailed \/ Increasing(left.frames))
      /\ NothingLost => Has(left.frames, Len(left.frames), left.state.first, returned, appended)
  BY OutcomeFacts
<1> DEFINE frames == left.frames
<1> HIDE DEF frames
<1>3. /\ frames \in Seq(Frame) /\ Ordered(frames) /\ (SyncFailed \/ Increasing(frames))
      /\ log = Loaded(frames, left.state)
      /\ NothingLost => Has(frames, Len(frames), left.state.first, returned, appended)
  BY <1>1, <1>2 DEF frames
<1>4. /\ log.entries \in Seq(Entry) /\ log.next \in Nat
      /\ log.first = left.state.first
      /\ left.state.first <= log.next
      /\ Increasing(frames) => Increasing(log.entries)
      /\ Below(log.entries, log.next)
      /\ \A j \in 1 .. Len(frames) :
           /\ \A h \in 1 .. j : frames[h] # Torn
           /\ frames[j].offset >= left.state.first
           => \E i \in 1 .. Len(log.entries) : log.entries[i] = frames[j]
  BY <1>2, <1>3, LoadedFacts
<1>5. log.first \in Nat
  BY <1>2, <1>4 DEF State
<1>6. ASSUME NothingLost, NEW o \in returned, o >= log.first
      PROVE  \E i \in 1 .. Len(log.entries) :
               log.entries[i] = [offset |-> o, mutation |-> appended[o]]
  <2>1. PICK j \in 1 .. Len(frames) :
          /\ frames[j] = [offset |-> o, mutation |-> appended[o]]
          /\ \A h \in 1 .. j : frames[h] # Torn
    BY <1>3, <1>4, <1>6 DEF Has
  <2>2. frames[j].offset >= left.state.first
    BY <1>4, <1>6, <2>1
  <2>3. PICK i \in 1 .. Len(log.entries) : log.entries[i] = frames[j]
    BY <1>4, <2>1, <2>2
  <2> QED
    BY <2>1, <2>3
<1> QED
  BY <1>3, <1>4, <1>5, <1>6

\* None of the faults but the losing ones, and no crash, at any point of any
\* call, loses an append that was acknowledged (append_mutation, checkpoint,
\* truncate_before_checkpoint, load_wal).
THEOREM AcknowledgedAppendsNeverLost == Spec => []AcknowledgedAppendsSurvive
<1>1. FileLogInv => AcknowledgedAppendsSurvive
  <2> SUFFICES ASSUME FileLogInv, NothingLost, NEW log \in Recoveries,
                      NEW o \in returned, o >= log.first
               PROVE  \E i \in DOMAIN log.entries :
                        log.entries[i] = [offset |-> o, mutation |-> appended[o]]
    BY DEF AcknowledgedAppendsSurvive, AppendsAreDurable, NothingLost
  <2>1. log.entries \in Seq(Entry)
        /\ \E i \in 1 .. Len(log.entries) :
             log.entries[i] = [offset |-> o, mutation |-> appended[o]]
    BY RecoveryFacts
  <2> QED
    BY <2>1
<1> QED
  BY <1>1, FileLogInvariant, PTL

\* An offset that was returned is not handed out again after a crash, even
\* when truncation has emptied the log (load_wal).
THEOREM OffsetsNotReused == Spec => []NoOffsetReused
<1>1. FileLogInv => NoOffsetReused
  <2> SUFFICES ASSUME FileLogInv, NothingLost, NEW log \in Recoveries, NEW o \in returned
               PROVE  o < log.next
    BY DEF NoOffsetReused, NothingLost
  <2>1. /\ log.entries \in Seq(Entry) /\ log.first \in Nat /\ log.next \in Nat
        /\ log.first <= log.next /\ Below(log.entries, log.next)
        /\ o >= log.first =>
             \E i \in 1 .. Len(log.entries) :
               log.entries[i] = [offset |-> o, mutation |-> appended[o]]
    BY RecoveryFacts
  <2>2. o \in Nat
    BY DEF FileLogInv, LogTyped
  <2>3. CASE o >= log.first
    <3>1. PICK i \in 1 .. Len(log.entries) :
            log.entries[i] = [offset |-> o, mutation |-> appended[o]]
      BY <2>1, <2>3
    <3>2. log.entries[i] \in Entry
      BY <2>1
    <3>3. log.entries[i].offset < log.next
      BY <2>1, <3>2, NotTorn DEF Below
    <3> QED
      BY <3>1, <3>3
  <2>4. CASE o < log.first
    BY <2>1, <2>2, <2>4
  <2> QED
    BY <2>1, <2>2, <2>3, <2>4
<1> QED
  BY <1>1, FileLogInvariant, PTL

\* Unless the fsync of an append failed, the offsets of a recovered log
\* increase, whatever else went wrong (append_mutation, load_wal).
THEOREM OffsetsIncrease == Spec => []RecoveredOffsetsIncrease
<1>1. FileLogInv => RecoveredOffsetsIncrease
  <2> SUFFICES ASSUME FileLogInv, ~SyncFailed, NEW log \in Recoveries,
                      NEW i \in DOMAIN log.entries, NEW j \in DOMAIN log.entries, i < j
               PROVE  log.entries[i].offset < log.entries[j].offset
    BY DEF RecoveredOffsetsIncrease, SyncFailed
  <2>1. log.entries \in Seq(Entry) /\ Increasing(log.entries)
    BY RecoveryFacts
  <2>2. log.entries[i] \in Entry /\ log.entries[j] \in Entry
        /\ i \in 1 .. Len(log.entries) /\ j \in 1 .. Len(log.entries)
    BY <2>1
  <2> QED
    BY <2>1, <2>2, NotTorn DEF Increasing
<1> QED
  BY <1>1, FileLogInvariant, PTL

------------------------------------------------------------------------------
(* Spans: what the log holds while no file operation fails *)

\* The frames of the offsets from start up to end, with their mutations.
Span(start, end, m) ==
  [j \in 1 .. end - start |-> [offset |-> start + j - 1, mutation |-> m[start + j - 1]]]

LEMMA SameSeq ==
  ASSUME NEW S, NEW s \in Seq(S), NEW t \in Seq(S), Len(s) = Len(t),
         \A i \in 1 .. Len(s) : s[i] = t[i]
  PROVE  s = t
OBVIOUS

LEMMA SpanFacts ==
  ASSUME NEW start \in Nat, NEW end \in Nat, start <= end, NEW m,
         \A o \in start .. end - 1 : m[o] \in Mutations
  PROVE  LET span == Span(start, end, m)
         IN  /\ span \in Seq(Entry) /\ span \in Seq(Frame) /\ Len(span) = end - start
             /\ \A j \in 1 .. end - start :
                  /\ span[j] = [offset |-> start + j - 1, mutation |-> m[start + j - 1]]
                  /\ span[j].offset = start + j - 1 /\ span[j] # Torn
<1> DEFINE length == end - start
           span == [j \in 1 .. length |->
                      [offset |-> start + j - 1, mutation |-> m[start + j - 1]]]
<1>1. length \in Nat
  OBVIOUS
<1>2. \A j \in 1 .. length : start + j - 1 \in Nat /\ start + j - 1 \in start .. end - 1
  OBVIOUS
<1> HIDE DEF length
<1>3. \A j \in 1 .. length :
        span[j] = [offset |-> start + j - 1, mutation |-> m[start + j - 1]]
  OBVIOUS
<1>4. \A j \in 1 .. length : span[j] \in Entry
  BY <1>2, <1>3 DEF Entry
<1>5. DOMAIN span = 1 .. length /\ span = [j \in 1 .. length |-> span[j]]
  OBVIOUS
<1>6. span = Span(start, end, m)
  BY DEF Span, length
<1> HIDE DEF span
<1>7. span \in [1 .. length -> Entry]
  BY <1>4, <1>5
<1>8. span \in Seq(Entry) /\ Len(span) = length
  BY <1>1, <1>7
<1>9. \A j \in 1 .. length : span[j].offset = start + j - 1 /\ span[j] # Torn
  <2> TAKE j \in 1 .. length
  <2> DEFINE o == start + j - 1
  <2>1. span[j] = [offset |-> o, mutation |-> m[o]] /\ span[j] \in Entry
    BY <1>3, <1>4
  <2> HIDE DEF o
  <2>2. span[j].offset = o
    BY <2>1
  <2> QED
    BY <2>1, <2>2, NotTorn DEF o
<1>10. span \in Seq(Frame)
  BY <1>8, NotTorn
<1> QED
  BY <1>3, <1>6, <1>8, <1>9, <1>10 DEF length

LEMMA SpanIsLog ==
  ASSUME NEW start \in Nat, NEW end \in Nat, start <= end, NEW m,
         \A o \in start .. end - 1 : m[o] \in Mutations
  PROVE  Span(start, end, m) \in Seq(Entry)
BY SpanFacts

LEMMA SpanSame ==
  ASSUME NEW start, NEW end, NEW m, NEW n, \A j \in 1 .. end - start : m[start + j - 1] = n[start + j - 1]
  PROVE  Span(start, end, m) = Span(start, end, n)
BY DEF Span

\* Popping a span up to an offset leaves the span from there.
LEMMA SpanFrom ==
  ASSUME NEW start \in Nat, NEW end \in Nat, NEW floor \in Nat, start <= floor, floor <= end, NEW m,
         \A o \in start .. end - 1 : m[o] \in Mutations
  PROVE  From(Span(start, end, m), floor) = Span(floor, end, m)
<1> DEFINE log == Span(start, end, m)
           rest == From(log, floor)
           span == Span(floor, end, m)
<1>1. /\ log \in Seq(Entry) /\ Len(log) = end - start
      /\ \A j \in 1 .. end - start :
           /\ log[j] = [offset |-> start + j - 1, mutation |-> m[start + j - 1]]
           /\ log[j].offset = start + j - 1
  BY SpanFacts
<1>2. /\ span \in Seq(Entry) /\ Len(span) = end - floor
      /\ \A j \in 1 .. end - floor :
           span[j] = [offset |-> floor + j - 1, mutation |-> m[floor + j - 1]]
  BY SpanFacts
<1> HIDE DEF log
<1>3. PICK k \in 0 .. Len(log) :
        /\ \A i \in 1 .. k : log[i].offset < floor
        /\ k < Len(log) => log[k + 1].offset >= floor
        /\ rest \in Seq(Entry) /\ Len(rest) = Len(log) - k
        /\ \A i \in 1 .. Len(log) - k : rest[i] = log[i + k]
  BY <1>1, FromIs
<1> HIDE DEF rest, span
<1>4. k \in Nat /\ k <= end - start /\ end - start \in Nat
  BY <1>1, <1>3
<1>5. ~ k > floor - start
  <2> SUFFICES ASSUME k > floor - start PROVE FALSE
    OBVIOUS
  <2>1. k \in 1 .. k /\ k \in 1 .. end - start
    BY <1>4
  <2>2. start + k - 1 < floor
    BY <1>1, <1>3, <2>1
  <2> QED
    BY <1>4, <2>2
<1>6. ~ k < floor - start
  <2> SUFFICES ASSUME k < floor - start PROVE FALSE
    OBVIOUS
  <2>1. k + 1 \in 1 .. end - start /\ k < Len(log)
    BY <1>1, <1>4
  <2>2. log[k + 1].offset = start + (k + 1) - 1
    BY <1>1, <2>1
  <2>3. log[k + 1].offset >= floor
    BY <1>3, <2>1
  <2> QED
    BY <1>4, <2>2, <2>3
<1>7. k = floor - start
  BY <1>4, <1>5, <1>6
<1>8. Len(rest) = end - floor
  BY <1>1, <1>3, <1>7
<1>9. \A i \in 1 .. end - floor : rest[i] = span[i]
  <2> TAKE i \in 1 .. end - floor
  <2>1. i \in 1 .. Len(log) - k /\ i + k \in 1 .. end - start /\ start + (i + k) - 1 = floor + i - 1
    BY <1>1, <1>7
  <2> QED
    BY <1>1, <1>2, <1>3, <2>1
<1> QED
  BY <1>2, <1>3, <1>8, <1>9, SameSeq DEF rest, span, log

LEMMA SpanAppend ==
  ASSUME NEW start \in Nat, NEW end \in Nat, start <= end, NEW m,
         \A o \in start .. end : m[o] \in Mutations
  PROVE  /\ Append(Span(start, end, m), [offset |-> end, mutation |-> m[end]])
              = Span(start, end + 1, m)
<1> DEFINE span == Span(start, end, m)
           more == Span(start, end + 1, m)
           entry == [offset |-> end, mutation |-> m[end]]
           longer == Append(span, entry)
<1>1. /\ span \in Seq(Entry) /\ Len(span) = end - start
      /\ \A j \in 1 .. end - start :
           span[j] = [offset |-> start + j - 1, mutation |-> m[start + j - 1]]
  BY SpanFacts
<1>2. /\ more \in Seq(Entry) /\ Len(more) = (end + 1) - start
      /\ \A j \in 1 .. (end + 1) - start :
           more[j] = [offset |-> start + j - 1, mutation |-> m[start + j - 1]]
  <2>1. end + 1 \in Nat /\ start <= end + 1 /\ \A o \in start .. (end + 1) - 1 : m[o] \in Mutations
    OBVIOUS
  <2> QED
    BY <2>1, SpanFacts
<1>3. end \in start .. end
  OBVIOUS
<1>4. entry \in Entry
  BY <1>3 DEF Entry
<1> HIDE DEF span, more
<1>5. /\ longer \in Seq(Entry) /\ Len(longer) = (end - start) + 1
      /\ \A j \in 1 .. end - start : longer[j] = span[j]
      /\ longer[(end - start) + 1] = entry
  BY <1>1, <1>4
<1> HIDE DEF longer
<1>6. \A j \in 1 .. Len(longer) : longer[j] = more[j]
  <2> TAKE j \in 1 .. Len(longer)
  <2>1. CASE j \in 1 .. end - start
    <3>1. j \in 1 .. (end + 1) - start
      BY <2>1
    <3> QED
      BY <1>1, <1>2, <1>5, <2>1, <3>1
  <2>2. CASE j = (end - start) + 1
    <3>1. j \in 1 .. (end + 1) - start /\ start + j - 1 = end
      BY <2>2
    <3> QED
      BY <1>2, <1>5, <2>2, <3>1
  <2> QED
    BY <1>5, <2>1, <2>2
<1>7. Len(longer) = Len(more)
  BY <1>2, <1>5
<1> QED
  BY <1>2, <1>5, <1>6, <1>7, SameSeq DEF longer, more, span

\* A file of whole frames, and one with a torn tail, read as those frames.
LEMMA IntactWhole ==
  ASSUME NEW whole \in Seq(Entry), NEW frames, frames \in {whole, Append(whole, Torn)}
  PROVE  Intact(frames) = whole
<1>1. Torn \in Frame /\ whole \in Seq(Frame) /\ Len(whole) \in Nat
  BY NotTorn
<1>2. /\ frames \in Seq(Frame)
      /\ \A i \in 1 .. Len(whole) : frames[i] = whole[i]
      /\ Len(frames) = Len(whole) \/ (Len(frames) = Len(whole) + 1 /\ frames[Len(whole) + 1] = Torn)
  BY <1>1
<1>3. \A i \in 1 .. Len(whole) : whole[i] \in Entry
  OBVIOUS
<1>4. \A i \in 1 .. Len(whole) : frames[i] # Torn
  BY <1>2, <1>3, NotTorn
<1> DEFINE intact == Intact(frames)
<1>5. /\ intact \in Seq(Entry) /\ Len(intact) <= Len(frames)
      /\ \A i \in 1 .. Len(intact) : intact[i] = frames[i] /\ frames[i] # Torn
      /\ \A j \in 1 .. Len(frames) :
           (\A h \in 1 .. j : frames[h] # Torn) => j \in 1 .. Len(intact)
  BY <1>2, IntactFacts
<1> HIDE DEF intact
<1>6. Len(intact) \in Nat
  BY <1>5
<1>7. Len(intact) <= Len(whole)
  <2> SUFFICES ASSUME Len(intact) > Len(whole) PROVE FALSE
    BY <1>1, <1>6
  <2>1. Len(whole) + 1 \in 1 .. Len(intact) /\ Len(frames) = Len(whole) + 1
    BY <1>1, <1>2, <1>5, <1>6
  <2> QED
    BY <1>1, <1>2, <1>5, <2>1
<1>8. Len(whole) <= Len(intact)
  <2>1. CASE Len(whole) = 0
    BY <1>6, <2>1
  <2>2. CASE Len(whole) > 0
    <3>1. Len(whole) \in 1 .. Len(frames)
      BY <1>1, <1>2, <2>2
    <3>2. Len(whole) \in 1 .. Len(intact)
      BY <1>4, <1>5, <3>1
    <3> QED
      BY <3>2
  <2> QED
    BY <1>1, <2>1, <2>2
<1>9. Len(intact) = Len(whole) /\ \A i \in 1 .. Len(intact) : intact[i] = whole[i]
  BY <1>1, <1>2, <1>5, <1>6, <1>7, <1>8
<1> QED
  BY <1>5, <1>9, SameSeq DEF intact

\* What load_wal makes of a span that reaches down to the floor.
LEMMA LoadedSpan ==
  ASSUME NEW start \in Nat, NEW first \in Nat, NEW check \in Nat, NEW end \in Nat,
         start <= first, first <= check, check <= end, NEW m,
         \A o \in start .. end - 1 : m[o] \in Mutations,
         NEW frames, frames \in {Span(start, end, m), Append(Span(start, end, m), Torn)}
  PROVE  Loaded(frames, [checkpoint |-> check, first |-> first])
           = [entries |-> Span(first, end, m), next |-> end, first |-> first, checkpoint |-> check]
<1> DEFINE span == Span(first, end, m)
           last == IF span = <<>> THEN 0 ELSE span[Len(span)].offset + 1
<1>1. Span(start, end, m) \in Seq(Entry) /\ first <= end
  <2>1. start <= end /\ first <= end
    OBVIOUS
  <2> QED
    BY <2>1, SpanIsLog
<1>2. Intact(frames) = Span(start, end, m)
  BY <1>1, IntactWhole
<1>3. From(Intact(frames), first) = span
  BY <1>1, <1>2, SpanFrom
<1>4. /\ span \in Seq(Entry) /\ Len(span) = end - first
      /\ \A j \in 1 .. end - first : span[j].offset = first + j - 1
  <2>1. first <= end /\ \A o \in first .. end - 1 : m[o] \in Mutations
    OBVIOUS
  <2>2. /\ span \in Seq(Entry) /\ Len(span) = end - first
        /\ \A j \in 1 .. end - first :
             /\ span[j] = [offset |-> first + j - 1, mutation |-> m[first + j - 1]]
             /\ span[j].offset = first + j - 1
    BY <2>1, SpanFacts
  <2> HIDE DEF span
  <2> QED
    BY <2>2
<1>5. Later(Later(first, check), last) = end
  <2> HIDE DEF span
  <2>1. CASE first = end
    <3>1. span = <<>>
      BY <1>4, <2>1
    <3> QED
      BY <2>1, <3>1 DEF Later
  <2>2. CASE first < end
    <3>1. end - first \in 1 .. end - first /\ span # <<>>
      BY <1>4, <2>2
    <3>2. last = end
      BY <1>4, <3>1
    <3> QED
      BY <2>2, <3>2 DEF Later
  <2> QED
    BY <1>1, <2>1, <2>2
<1> DEFINE kept == From(Intact(frames), first)
           st == [checkpoint |-> check, first |-> first]
<1>6. st.first = first /\ st.checkpoint = check
  OBVIOUS
<1> HIDE DEF st
<1>7. Loaded(frames, st)
      = [entries |-> kept,
         next |-> Later(Later(first, check), IF kept = <<>> THEN 0 ELSE kept[Len(kept)].offset + 1),
         first |-> first, checkpoint |-> check]
  BY <1>6 DEF Loaded
<1>8. kept = span
  BY <1>3
<1> HIDE DEF span, kept
<1>9. Loaded(frames, st) = [entries |-> span, next |-> end, first |-> first, checkpoint |-> check]
  BY <1>5, <1>7, <1>8
<1> QED
  BY <1>9 DEF span, st

\* What a crash leaves of a file of which all frames up to next are synced.
LEMMA SpanRemains ==
  ASSUME NEW start \in Nat, NEW next \in Nat, NEW end \in Nat,
         start <= next, next <= end, end <= next + 1, NEW m,
         \A o \in start .. end - 1 : m[o] \in Mutations,
         NEW file, file.frames = Span(start, end, m), file.synced = next - start,
         NEW frames \in Remains(file)
  PROVE  \E e \in {next, end} : frames \in {Span(start, e, m), Append(Span(start, e, m), Torn)}
<1> DEFINE span == Span(start, end, m)
           prefix(k) == SubSeq(file.frames, 1, k)
           lengths == file.synced .. Len(file.frames)
<1>1. PICK k \in lengths : frames = prefix(k) \/ frames = Append(prefix(k), Torn)
  BY DEF Remains
<1>2. /\ span \in Seq(Entry) /\ Len(span) = end - start
      /\ \A j \in 1 .. end - start :
           span[j] = [offset |-> start + j - 1, mutation |-> m[start + j - 1]]
  BY SpanFacts
<1>3. /\ k \in Nat /\ k <= end - start /\ next - start <= k
      /\ start + k \in {next, end} /\ start + k \in Nat /\ start <= start + k
      /\ 1 <= k + 1 /\ k <= Len(span)
  BY <1>1, <1>2
<1>4. SubSeq(span, 1, k) = Span(start, start + k, m)
  <2> DEFINE part == SubSeq(span, 1, k)
             to == Span(start, start + k, m)
  <2>1. /\ part \in Seq(Entry) /\ Len(part) = k - 1 + 1
        /\ \A i \in 1 .. k - 1 + 1 : part[i] = span[i + 1 - 1]
    <3>1. /\ span \in Seq(Entry) /\ k \in Nat /\ 1 \in Nat /\ 1 <= 1 /\ 1 <= k + 1
          /\ k <= Len(span)
      BY <1>2, <1>3
    <3> HIDE DEF span
    <3> QED
      BY <3>1, PartOf
  <2>2. /\ to \in Seq(Entry) /\ Len(to) = (start + k) - start
        /\ \A j \in 1 .. (start + k) - start :
             to[j] = [offset |-> start + j - 1, mutation |-> m[start + j - 1]]
    <3> DEFINE last == start + k
    <3>1. last \in Nat /\ start <= last /\ \A o \in start .. last - 1 : m[o] \in Mutations
      BY <1>3
    <3> HIDE DEF last
    <3>2. /\ Span(start, last, m) \in Seq(Entry) /\ Len(Span(start, last, m)) = last - start
          /\ \A j \in 1 .. last - start :
               Span(start, last, m)[j] = [offset |-> start + j - 1, mutation |-> m[start + j - 1]]
      BY <3>1, SpanFacts
    <3> QED
      BY <3>2 DEF last
  <2> HIDE DEF part, to, span
  <2>3. Len(part) = k /\ Len(to) = k
    BY <1>3, <2>1, <2>2
  <2>4. \A i \in 1 .. Len(part) : part[i] = to[i]
    <3> TAKE i \in 1 .. Len(part)
    <3>1. i \in 1 .. k - 1 + 1 /\ i + 1 - 1 = i /\ i \in 1 .. end - start /\ i \in 1 .. (start + k) - start
      BY <1>3, <2>3
    <3> QED
      BY <1>2, <2>1, <2>2, <3>1
  <2> QED
    BY <2>1, <2>2, <2>3, <2>4, SameSeq DEF part, to
<1> QED
  BY <1>1, <1>3, <1>4

\* m is the history, but for one more offset that an append under way adds.
Extends(m, first, next, end) ==
  /\ first \in Nat /\ next \in Nat /\ end \in Nat
  /\ first <= next /\ next <= end /\ end <= next + 1
  /\ DOMAIN appended = 0 .. next - 1
  /\ \A o \in 0 .. next - 1 : appended[o] = m[o]
  /\ \A o \in 0 .. end - 1 : m[o] \in Mutations

Upto(m, end) == [o \in 0 .. end - 1 |-> m[o]]

\* An append that had not returned is the last entry of the recovered log.
LEMMA RecoveredSpan ==
  ASSUME NEW m, NEW first, NEW next, NEW end, Extends(m, first, next, end)
  PROVE  WithRecovered(Span(first, end, m)) = Upto(m, end)
<1>0. /\ first \in Nat /\ next \in Nat /\ end \in Nat
      /\ first <= next /\ next <= end /\ end <= next + 1
      /\ DOMAIN appended = 0 .. next - 1
      /\ \A o \in 0 .. next - 1 : appended[o] = m[o]
      /\ \A o \in 0 .. end - 1 : m[o] \in Mutations
  BY DEF Extends
<1> DEFINE log == Span(first, end, m)
<1>1. /\ log \in Seq(Entry) /\ Len(log) = end - first
      /\ \A j \in 1 .. end - first :
           /\ log[j] = [offset |-> first + j - 1, mutation |-> m[first + j - 1]]
           /\ log[j].offset = first + j - 1
  <2>1. first <= end /\ \A o \in first .. end - 1 : m[o] \in Mutations
    BY <1>0
  <2> QED
    BY <1>0, <2>1, SpanFacts
<1> HIDE DEF log
<1>2. DOMAIN log = 1 .. end - first
  BY <1>0, <1>1
<1> DEFINE D == DOMAIN appended \cup {log[i].offset : i \in DOMAIN log}
           pick(o) == CHOOSE e \in {log[i] : i \in DOMAIN log} : e.offset = o
<1>3. D = 0 .. end - 1
  <2>1. ASSUME NEW o \in D PROVE o \in 0 .. end - 1
    <3>1. CASE o \in DOMAIN appended
      BY <1>0, <3>1
    <3>2. CASE \E i \in DOMAIN log : o = log[i].offset
      <4>1. PICK i \in 1 .. end - first : o = first + i - 1
        BY <1>0, <1>1, <1>2, <3>2
      <4> QED
        BY <1>0, <4>1
    <3> QED
      BY <1>0, <2>1, <3>1, <3>2
  <2>2. ASSUME NEW o \in 0 .. end - 1 PROVE o \in D
    <3>1. CASE o < next
      BY <1>0, <3>1
    <3>2. CASE ~ o < next
      <4>1. o - first + 1 \in 1 .. end - first /\ first + (o - first + 1) - 1 = o
        BY <1>0, <3>2
      <4>2. log[o - first + 1].offset = o
        BY <1>0, <1>1, <4>1
      <4> QED
        BY <1>0, <1>2, <4>1, <4>2
    <3> QED
      BY <1>0, <3>1, <3>2
  <2> QED
    BY <1>0, <2>1, <2>2
<1>4. ASSUME NEW o \in 0 .. end - 1
      PROVE  (IF o \in DOMAIN appended THEN appended[o] ELSE pick(o).mutation) = m[o]
  <2>1. CASE o < next
    BY <1>0, <2>1
  <2>2. CASE ~ o < next
    <3>1. o - first + 1 \in 1 .. end - first /\ first + (o - first + 1) - 1 = o /\ o \notin DOMAIN appended
      BY <1>0, <2>2
    <3>2. \E e \in {log[i] : i \in DOMAIN log} : e.offset = o
      BY <1>0, <1>1, <1>2, <3>1
    <3>3. pick(o) \in {log[i] : i \in DOMAIN log} /\ pick(o).offset = o
      BY <1>0, <3>2
    <3>4. PICK i \in 1 .. end - first : pick(o) = log[i]
      BY <1>0, <1>2, <3>3
    <3>5. first + i - 1 = o
      BY <1>0, <1>1, <3>3, <3>4
    <3>6. log[i].mutation = m[o]
      <4>1. log[i] = [offset |-> first + i - 1, mutation |-> m[first + i - 1]]
        BY <1>0, <1>1, <3>4
      <4> DEFINE at == first + i - 1
      <4>2. log[i] = [offset |-> at, mutation |-> m[at]] /\ at = o
        BY <1>0, <3>5, <4>1
      <4> HIDE DEF at
      <4> QED
        BY <1>0, <4>2
    <3> HIDE DEF pick
    <3> QED
      BY <1>0, <3>1, <3>4, <3>6
  <2> QED
    BY <1>0, <2>1, <2>2
<1>5. WithRecovered(log) = [o \in D |-> IF o \in DOMAIN appended THEN appended[o] ELSE pick(o).mutation]
  BY DEF WithRecovered
<1> HIDE DEF D, pick
<1> QED
  BY <1>0, <1>3, <1>4, <1>5 DEF log, Upto

------------------------------------------------------------------------------
(* The refinement, when the machine may crash but no file operation fails *)

\* What STATE.json says between two calls; how far the file is written, and
\* which mutation each of its offsets has.
Saved == [checkpoint |-> wal.checkpoint, first |-> wal.first]
Written == IF At("append") THEN wal.next + 1 ELSE wal.next
Planned ==
  IF At("append")
    THEN [o \in 0 .. wal.next |-> IF o = wal.next THEN op.mutation ELSE appended[o]]
    ELSE appended

\* Every file a crash may bring back is a span of the history that reaches
\* down to the floor, synced but for the append under way; the state is the
\* one before the call under way or the one after it.
OpenLog ==
  IsOpen =>
    /\ wal.first <= wal.checkpoint /\ wal.checkpoint <= wal.next
    /\ appended \in [0 .. wal.next - 1 -> Mutations]
    /\ wal.entries = Span(wal.first, wal.next, appended)
    /\ \A i \in {name, durableName} : \E start \in 0 .. wal.first :
         /\ files[i].frames = Span(start, Written, Planned)
         /\ files[i].synced = wal.next - start
    /\ At("append") => wal.next < MaxAppends
    /\ At("checkpoint") =>
         /\ state = [checkpoint |-> op.offset, first |-> wal.first]
         /\ wal.first <= op.offset /\ op.offset <= wal.next /\ op.offset <= MaxAppends
    /\ At("truncate") => state = [checkpoint |-> wal.checkpoint, first |-> wal.checkpoint]
    /\ At("checkpoint") \/ At("truncate") \/ state = Saved
    /\ durableState \in {Saved, state}

\* The frames are the history's from start up to end, but for a torn tail.
Holding(frames, start, end, m) ==
  frames \in {Span(start, end, m), Append(Span(start, end, m), Torn)}

\* What opening finds is a history from below its floor up to its end.
Sound(frames, st, start, end, known) ==
  /\ end \in Nat /\ known \in [0 .. end - 1 -> Mutations]
  /\ start \in Nat /\ start <= st.first /\ st.first <= st.checkpoint /\ st.checkpoint <= end
  /\ Holding(frames, start, end, known)

\* A closed log is on disk.
ClosedLog ==
  ~IsOpen =>
    /\ durableName = name /\ durableState = state
    /\ files[name].synced = Len(files[name].frames)
    /\ \E start, end \in Nat : Sound(files[name].frames, state, start, end, appended)

FaultFreeInv == FileLogInv /\ faults = {} /\ OpenLog /\ ClosedLog
LogStep == [Log!LogNext]_(Log!logVars)

\* A step of the open log that changes nothing its callers know.
LEMMA StillShown ==
  ASSUME IsOpen, IsOpen', wal'.entries = wal.entries, wal'.next = wal.next,
         wal'.first = wal.first, wal'.checkpoint = wal.checkpoint, appended' = appended
  PROVE  LogStep
BY DEF LogStep, Log!logVars, Visible

LEMMA CrashFacts ==
  ASSUME FaultFreeInv
  PROVE  /\ LogTyped /\ NothingLost
         /\ At("reopen") \/ (durableName = name /\ (IsOpen => wal.handle = name))
         /\ IsOpen => /\ wal.first \in Nat /\ wal.checkpoint \in Nat /\ wal.next \in Nat
                      /\ wal.first <= wal.checkpoint /\ wal.checkpoint <= wal.next
                      /\ appended \in [0 .. wal.next - 1 -> Mutations]
                      /\ DOMAIN appended = 0 .. wal.next - 1
                      /\ wal.entries = Span(wal.first, wal.next, appended)
                      /\ \A o \in 0 .. wal.next - 1 : appended[o] \in Mutations
<1>1. LogTyped /\ DurableInv /\ NothingLost
  BY DEF FaultFreeInv, FileLogInv, NothingLost
<1>2. IsOpen => /\ wal.first \in Nat /\ wal.checkpoint \in Nat /\ wal.next \in Nat
                /\ wal.first <= wal.checkpoint /\ wal.checkpoint <= wal.next
                /\ appended \in [0 .. wal.next - 1 -> Mutations]
                /\ wal.entries = Span(wal.first, wal.next, appended)
  BY <1>1, Typed DEF FaultFreeInv, OpenLog
<1> QED
  BY <1>1, <1>2 DEF DurableInv

LEMMA AppendWriteRefines ==
  ASSUME FaultFreeInv, NEW m \in Mutations, AppendWrite(m)
  PROVE  (OpenLog /\ ClosedLog)' /\ LogStep
<1> DEFINE frame == [offset |-> wal.next, mutation |-> m]
           plan == [o \in 0 .. wal.next |-> IF o = wal.next THEN m ELSE appended[o]]
<1>1. /\ IsOpen /\ op.pc = "idle" /\ op = NoOp /\ wal.next < MaxAppends
      /\ wal' = wal /\ name' = name /\ durableName' = durableName
      /\ state' = state /\ durableState' = durableState
      /\ appended' = appended
      /\ op' = [pc |-> "append", mutation |-> m] /\ Write(frame)
  BY DEF AppendWrite, Idle, NoOp
<1>2. IsOpen' /\ op'.pc = "append" /\ op'.mutation = m
  BY <1>1 DEF IsOpen
<1>3. /\ LogTyped /\ durableName = name /\ wal.handle = name
      /\ wal.first \in Nat /\ wal.next \in Nat /\ wal.first <= wal.next
      /\ \A o \in 0 .. wal.next - 1 : appended[o] \in Mutations
  BY <1>1, CrashFacts DEF At
<1>4. frame \in Frame /\ name \in FileIds
  BY <1>3 DEF Frame, LogTyped
<1>5. files'[name].frames = Append(files[name].frames, frame)
      /\ files'[name].synced = files[name].synced
  BY <1>1, <1>3, <1>4, WriteFacts
<1>6. PICK start \in 0 .. wal.first :
        /\ files[name].frames = Span(start, wal.next, appended)
        /\ files[name].synced = wal.next - start
  BY <1>1, <1>3 DEF FaultFreeInv, OpenLog, Written, Planned, At
<1>7. \A o \in 0 .. wal.next : plan[o] \in Mutations
  BY <1>3
<1>8. plan[wal.next] = m /\ \A o \in 0 .. wal.next - 1 : plan[o] = appended[o]
  BY <1>3
<1>9. Written' = wal.next + 1 /\ Planned' = plan
  BY <1>1, <1>2 DEF Written, Planned, At
<1> HIDE DEF plan
<1>10. Append(Span(start, wal.next, appended), frame) = Span(start, wal.next + 1, plan)
  <2>1. \A j \in 1 .. wal.next - start : start + j - 1 \in 0 .. wal.next - 1
    BY <1>3
  <2>2. Span(start, wal.next, appended) = Span(start, wal.next, plan)
    BY <1>8, <2>1, SpanSame
  <2>3. start \in Nat /\ start <= wal.next /\ \A o \in start .. wal.next : plan[o] \in Mutations
    BY <1>3, <1>7
  <2>4. Append(Span(start, wal.next, plan), [offset |-> wal.next, mutation |-> plan[wal.next]])
        = Span(start, wal.next + 1, plan)
    BY <1>3, <2>3, SpanAppend
  <2> QED
    BY <1>8, <2>2, <2>4
<1>11. OpenLog'
  <2>1. \A i \in {name, durableName}' : \E s \in (0 .. wal.first)' :
           /\ files'[i].frames = Span(s, Written', Planned')
           /\ files'[i].synced = (wal.next)' - s
    BY <1>1, <1>3, <1>5, <1>6, <1>9, <1>10
  <2>2. Saved' = Saved
    BY <1>1 DEF Saved
  <2> QED
    BY <1>1, <1>2, <2>1, <2>2 DEF FaultFreeInv, OpenLog, At
<1>12. ClosedLog'
  BY <1>2 DEF ClosedLog
<1> QED
  BY <1>1, <1>2, <1>11, <1>12, StillShown

\* The append is made when its frame is synced.
LEMMA AppendSyncRefines ==
  ASSUME FaultFreeInv, AppendSync
  PROVE  (OpenLog /\ ClosedLog)' /\ LogStep
<1> DEFINE next == wal.next
           entry == [offset |-> next, mutation |-> op.mutation]
           plan == [o \in 0 .. next |-> IF o = next THEN op.mutation ELSE appended[o]]
<1>1. /\ op.pc = "append"
      /\ files' = [files EXCEPT ![wal.handle].synced = Len(files[wal.handle].frames)]
      /\ wal' = [wal EXCEPT !.next = @ + 1, !.entries = Append(@, entry)]
      /\ name' = name /\ durableName' = durableName
      /\ state' = state /\ durableState' = durableState
      /\ appended' = [o \in DOMAIN appended \cup {next} |->
                        IF o = next THEN op.mutation ELSE appended[o]]
      /\ op' = NoOp
  BY DEF AppendSync, At
<1>2. IsOpen /\ op.mutation \in Mutations /\ NoOp.pc = "idle" /\ wal \in OpenWal
  BY <1>1, OpIs, Typed, CrashFacts DEF NoOp
<1>3. /\ LogTyped /\ durableName = name /\ wal.handle = name
      /\ wal.first \in Nat /\ wal.checkpoint \in Nat /\ next \in Nat
      /\ wal.first <= wal.checkpoint /\ wal.checkpoint <= next
      /\ DOMAIN appended = 0 .. next - 1
      /\ wal.entries = Span(wal.first, next, appended)
      /\ \A o \in 0 .. next - 1 : appended[o] \in Mutations
  BY <1>1, <1>2, CrashFacts DEF At
<1>4. /\ wal'.entries = Append(wal.entries, entry) /\ wal'.next = next + 1
      /\ wal'.first = wal.first /\ wal'.checkpoint = wal.checkpoint
      /\ "next" \in DOMAIN wal'
  <2>1. DOMAIN wal = {"entries", "next", "first", "checkpoint", "handle"}
    BY <1>2 DEF OpenWal
  <2> QED
    BY <1>1, <2>1
<1>5. IsOpen'
  BY <1>4 DEF IsOpen
<1>6. DOMAIN appended \cup {next} = 0 .. next
  BY <1>3
<1>7. appended' = plan
  BY <1>1, <1>6
<1>8. /\ \A o \in 0 .. next : plan[o] \in Mutations
      /\ plan[next] = op.mutation /\ \A o \in 0 .. next - 1 : plan[o] = appended[o]
  BY <1>2, <1>3
<1>9. plan \in [0 .. next -> Mutations]
  BY <1>8
<1>10. Written = next + 1 /\ Planned = plan
  BY <1>1 DEF Written, Planned, At
<1> HIDE DEF plan
<1>11. PICK start \in 0 .. wal.first : files[name].frames = Span(start, next + 1, plan)
  BY <1>2, <1>3, <1>10 DEF FaultFreeInv, OpenLog
<1>12. Append(wal.entries, entry) = Span(wal.first, next + 1, plan)
  <2>1. \A j \in 1 .. next - wal.first : wal.first + j - 1 \in 0 .. next - 1
    BY <1>3
  <2>2. wal.entries = Span(wal.first, next, plan)
    <3>1. \A j \in 1 .. next - wal.first :
            appended[wal.first + j - 1] = plan[wal.first + j - 1]
      BY <1>8, <2>1
    <3>2. Span(wal.first, next, appended) = Span(wal.first, next, plan)
      BY <3>1, SpanSame
    <3> QED
      BY <1>3, <3>2
  <2>3. wal.first <= next /\ \A o \in wal.first .. next : plan[o] \in Mutations
    BY <1>3, <1>8
  <2>4. Append(Span(wal.first, next, plan), [offset |-> next, mutation |-> plan[next]])
        = Span(wal.first, next + 1, plan)
    BY <1>3, <2>3, SpanAppend
  <2> QED
    BY <1>8, <2>2, <2>4
<1>13. files'[name].frames = files[name].frames /\ files'[name].synced = (next + 1) - start
  <2>1. start \in Nat /\ start <= next + 1 /\ next + 1 \in Nat
        /\ \A o \in start .. (next + 1) - 1 : plan[o] \in Mutations
    BY <1>3, <1>8
  <2>2. Len(files[name].frames) = (next + 1) - start
    BY <1>11, <2>1, SpanFacts
  <2> DEFINE all == Len(files[name].frames)
  <2>3. files' = [files EXCEPT ![name].synced = all]
    BY <1>1, <1>3
  <2> HIDE DEF all
  <2>4. name \in FileIds /\ files \in [FileIds -> [frames : Seq(Frame), synced : Nat]]
    BY <1>3 DEF LogTyped
  <2>5. files'[name].frames = files[name].frames /\ files'[name].synced = all
    BY <2>3, <2>4
  <2> QED
    BY <2>2, <2>5 DEF all
<1>14. OpenLog'
  <2>1. Written' = next + 1 /\ Planned' = plan /\ Saved' = Saved
    BY <1>1, <1>2, <1>4, <1>7 DEF Written, Planned, Saved, At
  <2>2. \A i \in {name, durableName}' : \E s \in (0 .. wal.first)' :
           /\ files'[i].frames = Span(s, Written', Planned')
           /\ files'[i].synced = (wal.next)' - s
    BY <1>1, <1>3, <1>4, <1>11, <1>13, <2>1
  <2>3. /\ (wal.first <= wal.checkpoint /\ wal.checkpoint <= wal.next)'
        /\ (next + 1) - 1 = next
    BY <1>3, <1>4
  <2>4. (appended \in [0 .. wal.next - 1 -> Mutations])'
    BY <1>4, <1>7, <1>9, <2>3
  <2>5. (wal.entries = Span(wal.first, wal.next, appended))'
    BY <1>4, <1>7, <1>12
  <2>6. state = Saved /\ durableState \in {Saved, state}
    BY <1>1, <1>2 DEF FaultFreeInv, OpenLog, At
  <2> QED
    BY <1>1, <1>2, <2>1, <2>2, <2>3, <2>4, <2>5, <2>6 DEF OpenLog, At
<1>15. ClosedLog'
  BY <1>5 DEF ClosedLog
<1>16. Log!AppendMutation(op.mutation)
  <2>1. next < MaxAppends
    BY <1>1, <1>2 DEF FaultFreeInv, OpenLog, At
  <2> QED
    BY <1>1, <1>2, <1>4, <1>5, <2>1 DEF Log!AppendMutation, Visible
<1> QED
  BY <1>2, <1>14, <1>15, <1>16 DEF LogStep, Log!LogNext

LEMMA CheckpointRefines ==
  ASSUME FaultFreeInv, NEW offset \in 0 .. MaxAppends, Checkpoint(offset)
  PROVE  (OpenLog /\ ClosedLog)' /\ LogStep
<1>1. /\ IsOpen /\ op.pc = "idle" /\ wal.first <= offset /\ offset <= wal.next
      /\ wal' = wal /\ name' = name /\ durableName' = durableName /\ files' = files
      /\ state' = [checkpoint |-> offset, first |-> wal.first] /\ durableState' = durableState
      /\ appended' = appended /\ op' = [pc |-> "checkpoint", offset |-> offset]
  BY DEF Checkpoint, Idle, NoOp
<1>2. IsOpen' /\ op'.pc = "checkpoint" /\ op'.offset = offset /\ offset <= MaxAppends
  BY <1>1, FileLogAssumption DEF IsOpen
<1>3. Written' = Written /\ Planned' = Planned /\ Saved' = Saved
  BY <1>1, <1>2 DEF Written, Planned, Saved, At
<1>4. state = Saved /\ durableState \in {Saved, state}
  BY <1>1 DEF FaultFreeInv, OpenLog, At
<1>5. OpenLog'
  BY <1>1, <1>2, <1>3, <1>4 DEF FaultFreeInv, OpenLog, At
<1>6. ClosedLog'
  BY <1>2 DEF ClosedLog
<1> QED
  BY <1>1, <1>2, <1>5, <1>6, StillShown

\* The checkpoint moves when the directory is synced.
LEMMA CheckpointSyncRefines ==
  ASSUME FaultFreeInv, CheckpointSync
  PROVE  (OpenLog /\ ClosedLog)' /\ LogStep
<1>1. /\ op.pc = "checkpoint"
      /\ name' = name /\ durableName' = name /\ files' = files
      /\ state' = state /\ durableState' = state
      /\ wal' = [wal EXCEPT !.checkpoint = op.offset] /\ op' = NoOp
      /\ appended' = appended
  BY DEF CheckpointSync, At, SyncDirectory
<1>2. IsOpen /\ op.offset \in Nat /\ wal \in OpenWal /\ NoOp.pc = "idle" /\ durableName = name
  BY <1>1, OpIs, Typed, CrashFacts DEF NoOp, At
<1>3. /\ wal'.entries = wal.entries /\ wal'.next = wal.next
      /\ wal'.first = wal.first /\ wal'.checkpoint = op.offset /\ "next" \in DOMAIN wal'
  <2>1. DOMAIN wal = {"entries", "next", "first", "checkpoint", "handle"}
    BY <1>2 DEF OpenWal
  <2> QED
    BY <1>1, <2>1
<1>4. IsOpen'
  BY <1>3 DEF IsOpen
<1>5. /\ state = [checkpoint |-> op.offset, first |-> wal.first]
      /\ wal.first <= op.offset /\ op.offset <= wal.next /\ op.offset \in 0 .. MaxAppends
  BY <1>1, <1>2, FileLogAssumption DEF FaultFreeInv, OpenLog, At
<1>6. Written' = Written /\ Planned' = Planned /\ Saved' = state
  BY <1>1, <1>2, <1>3, <1>5 DEF Written, Planned, Saved, At
<1>7. OpenLog'
  BY <1>1, <1>2, <1>3, <1>4, <1>5, <1>6 DEF FaultFreeInv, OpenLog, At
<1>8. ClosedLog'
  BY <1>4 DEF ClosedLog
<1>9. Log!Checkpoint(op.offset)
  BY <1>1, <1>2, <1>3, <1>4, <1>5 DEF Log!Checkpoint, Visible
<1> QED
  BY <1>5, <1>7, <1>8, <1>9 DEF LogStep, Log!LogNext

LEMMA TruncateRefines ==
  ASSUME FaultFreeInv, Truncate
  PROVE  (OpenLog /\ ClosedLog)' /\ LogStep
<1>1. /\ IsOpen /\ op.pc = "idle"
      /\ wal' = wal /\ name' = name /\ durableName' = durableName /\ files' = files
      /\ state' = [checkpoint |-> wal.checkpoint, first |-> Later(wal.first, wal.checkpoint)]
      /\ durableState' = durableState
      /\ appended' = appended /\ op' = [pc |-> "truncate"]
  BY DEF Truncate, Idle, NoOp
<1>2. IsOpen' /\ op'.pc = "truncate"
  BY <1>1 DEF IsOpen
<1>3. Later(wal.first, wal.checkpoint) = wal.checkpoint
  BY <1>1, CrashFacts DEF Later
<1>4. Written' = Written /\ Planned' = Planned /\ Saved' = Saved
  BY <1>1, <1>2 DEF Written, Planned, Saved, At
<1>5. state = Saved /\ durableState \in {Saved, state}
  BY <1>1 DEF FaultFreeInv, OpenLog, At
<1>6. OpenLog'
  BY <1>1, <1>2, <1>3, <1>4, <1>5 DEF FaultFreeInv, OpenLog, At
<1>7. ClosedLog'
  BY <1>2 DEF ClosedLog
<1> QED
  BY <1>1, <1>2, <1>6, <1>7, StillShown

\* The log is truncated when the raised floor is synced; the file still has
\* the frames below it.
LEMMA TruncateSyncRefines ==
  ASSUME FaultFreeInv, TruncateSync
  PROVE  (OpenLog /\ ClosedLog)' /\ LogStep
<1> DEFINE rest == From(wal.entries, wal.checkpoint)
<1>1. /\ op.pc = "truncate"
      /\ name' = name /\ durableName' = name /\ files' = files
      /\ state' = state /\ durableState' = state
      /\ wal' = [wal EXCEPT !.first = Later(wal.first, wal.checkpoint), !.entries = rest]
      /\ op' = [pc |-> "compact"] /\ appended' = appended
  BY DEF TruncateSync, At, SyncDirectory
<1>2. IsOpen /\ wal \in OpenWal /\ durableName = name
  BY <1>1, OpIs, Typed, CrashFacts DEF At
<1>3. /\ wal.first \in Nat /\ wal.checkpoint \in Nat /\ wal.next \in Nat
      /\ wal.first <= wal.checkpoint /\ wal.checkpoint <= wal.next
      /\ wal.entries = Span(wal.first, wal.next, appended)
      /\ \A o \in 0 .. wal.next - 1 : appended[o] \in Mutations
      /\ Later(wal.first, wal.checkpoint) = wal.checkpoint
  BY <1>2, CrashFacts DEF Later
<1>4. rest = Span(wal.checkpoint, wal.next, appended)
  BY <1>3, SpanFrom
<1> HIDE DEF rest
<1>5. /\ wal'.entries = rest /\ wal'.next = wal.next
      /\ wal'.first = wal.checkpoint /\ wal'.checkpoint = wal.checkpoint /\ "next" \in DOMAIN wal'
  <2>1. DOMAIN wal = {"entries", "next", "first", "checkpoint", "handle"}
    BY <1>2 DEF OpenWal
  <2> QED
    BY <1>1, <1>3, <2>1
<1>6. IsOpen' /\ op'.pc = "compact"
  BY <1>1, <1>5 DEF IsOpen
<1>7. Written' = Written /\ Planned' = Planned /\ Written = wal.next /\ Planned = appended
  BY <1>1, <1>5, <1>6 DEF Written, Planned, At
<1>8. state = Saved'
  BY <1>1, <1>2, <1>5 DEF FaultFreeInv, OpenLog, At, Saved
<1>9. OpenLog'
  <2>1. \A i \in {name, durableName}' : \E s \in (0 .. wal.first)' :
           /\ files'[i].frames = Span(s, Written', Planned')
           /\ files'[i].synced = (wal.next)' - s
    <3>1. PICK start \in 0 .. wal.first :
            /\ files[name].frames = Span(start, Written, Planned)
            /\ files[name].synced = wal.next - start
      BY <1>2 DEF FaultFreeInv, OpenLog
    <3>2. start \in 0 .. wal.checkpoint
      BY <1>3
    <3> QED
      BY <1>1, <1>5, <1>7, <3>1, <3>2
  <2> QED
    BY <1>1, <1>2, <1>3, <1>4, <1>5, <1>6, <1>8, <2>1 DEF FaultFreeInv, OpenLog, At
<1>10. ClosedLog'
  BY <1>6 DEF ClosedLog
<1>11. Log!TruncateBeforeCheckpoint
  <2>1. Log!From(wal.entries, wal.checkpoint) = rest
    BY DEF Log!From, From, rest
  <2>2. Log!Later(wal.first, wal.checkpoint) = wal.checkpoint
    BY <1>3 DEF Log!Later, Later
  <2>3. Visible = wal /\ Visible' = wal'
    BY <1>2, <1>6 DEF Visible
  <2> QED
    BY <1>1, <1>5, <2>1, <2>2, <2>3 DEF Log!TruncateBeforeCheckpoint
<1> QED
  BY <1>9, <1>10, <1>11 DEF LogStep, Log!LogNext

LEMMA CompactRefines ==
  ASSUME FaultFreeInv, Compact
  PROVE  (OpenLog /\ ClosedLog)' /\ LogStep
<1>1. PICK fresh \in FileIds \ {name, durableName, wal.handle} :
        /\ files' = [i \in FileIds |->
                       CASE i = fresh -> File(wal.entries)
                         [] i \in {name, durableName, wal.handle} -> files[i]
                         [] OTHER -> NoFile]
        /\ name' = fresh
  BY DEF Compact
<1>2. /\ op.pc = "compact" /\ durableName' = durableName /\ wal' = wal
      /\ state' = state /\ durableState' = durableState /\ appended' = appended
      /\ op' = [pc |-> "reopen"]
  BY DEF Compact, At
<1>3. /\ IsOpen /\ IsOpen' /\ op'.pc = "reopen" /\ durableName \in FileIds
      /\ wal.entries \in Seq(Frame)
  <2>1. IsOpen /\ LogTyped
    BY <1>2, OpIs, CrashFacts
  <2>2. IsOpen' /\ op'.pc = "reopen"
    BY <1>2, <2>1 DEF IsOpen
  <2>3. durableName \in FileIds
    BY <2>1 DEF LogTyped
  <2>4. wal.entries \in Seq(Frame)
    BY <2>1, Typed, NotTorn
  <2> QED
    BY <2>1, <2>2, <2>3, <2>4
<1>4. /\ wal.first \in Nat /\ wal.next \in Nat /\ wal.first <= wal.next
      /\ wal.entries = Span(wal.first, wal.next, appended)
      /\ \A o \in 0 .. wal.next - 1 : appended[o] \in Mutations
  BY <1>3, CrashFacts
<1>5. Written' = wal.next /\ Planned' = appended /\ Saved' = Saved
      /\ Written = wal.next /\ Planned = appended
  BY <1>2, <1>3 DEF Written, Planned, Saved, At
<1>6. files'[fresh].frames = wal.entries /\ files'[fresh].synced = wal.next - wal.first
  <2>1. files'[fresh] = File(wal.entries)
    BY <1>1
  <2>2. \A o \in wal.first .. wal.next - 1 : appended[o] \in Mutations
    BY <1>4
  <2>3. Len(wal.entries) = wal.next - wal.first
    BY <1>4, <2>2, SpanFacts
  <2> QED
    BY <1>3, <2>1, <2>3, FileFacts
<1>7. files'[durableName] = files[durableName]
  BY <1>1, <1>3
<1>8. OpenLog'
  <2>1. \A i \in {name, durableName}' : \E s \in (0 .. wal.first)' :
           /\ files'[i].frames = Span(s, Written', Planned')
           /\ files'[i].synced = (wal.next)' - s
    <3>1. PICK start \in 0 .. wal.first :
            /\ files[durableName].frames = Span(start, Written, Planned)
            /\ files[durableName].synced = wal.next - start
      BY <1>3 DEF FaultFreeInv, OpenLog
    <3>2. wal.first \in 0 .. wal.first
      BY <1>4
    <3> QED
      BY <1>1, <1>2, <1>4, <1>5, <1>6, <1>7, <3>1, <3>2
  <2> QED
    BY <1>2, <1>3, <1>5, <2>1 DEF FaultFreeInv, OpenLog, At
<1>9. ClosedLog'
  BY <1>3 DEF ClosedLog
<1> QED
  BY <1>2, <1>3, <1>8, <1>9, StillShown

LEMMA CompactReopenRefines ==
  ASSUME FaultFreeInv, CompactReopen
  PROVE  (OpenLog /\ ClosedLog)' /\ LogStep
<1>1. /\ op.pc = "reopen" /\ name' = name /\ durableName' = name
      /\ files' = [i \in FileIds |-> IF i = name THEN files[i] ELSE NoFile]
      /\ state' = state /\ durableState' = state
      /\ wal' = [wal EXCEPT !.handle = name] /\ op' = NoOp /\ appended' = appended
  BY DEF CompactReopen, At, SyncDirectory
<1>2. IsOpen /\ wal \in OpenWal /\ NoOp.pc = "idle" /\ name \in FileIds
  BY <1>1, OpIs, Typed, CrashFacts DEF NoOp, LogTyped
<1>3. /\ wal'.entries = wal.entries /\ wal'.next = wal.next
      /\ wal'.first = wal.first /\ wal'.checkpoint = wal.checkpoint /\ "next" \in DOMAIN wal'
  <2>1. DOMAIN wal = {"entries", "next", "first", "checkpoint", "handle"}
    BY <1>2 DEF OpenWal
  <2> QED
    BY <1>1, <2>1
<1>4. IsOpen' /\ files'[name] = files[name]
  BY <1>1, <1>2, <1>3 DEF IsOpen
<1>5. Written' = Written /\ Planned' = Planned /\ Saved' = Saved
  BY <1>1, <1>2, <1>3 DEF Written, Planned, Saved, At
<1>6. state = Saved
  BY <1>1, <1>2 DEF FaultFreeInv, OpenLog, At
<1>7. OpenLog'
  BY <1>1, <1>2, <1>3, <1>4, <1>5, <1>6 DEF FaultFreeInv, OpenLog, At
<1>8. ClosedLog'
  BY <1>4 DEF ClosedLog
<1> QED
  BY <1>1, <1>2, <1>3, <1>4, <1>7, <1>8, StillShown

LEMMA WriteBackRefines ==
  ASSUME FaultFreeInv, WriteBack
  PROVE  (OpenLog /\ ClosedLog)' /\ LogStep
<1>1. /\ name' = name /\ durableName' \in {durableName, name} /\ files' = files /\ wal' = wal
      /\ state' = state /\ durableState' \in {durableState, state} /\ op' = op
      /\ appended' = appended
  BY DEF WriteBack
<1>2. /\ IsOpen' <=> IsOpen
      /\ Written' = Written /\ Planned' = Planned /\ Saved' = Saved
  BY <1>1 DEF IsOpen, Written, Planned, Saved, At
<1>3. OpenLog'
  BY <1>1, <1>2 DEF FaultFreeInv, OpenLog, At
<1>4. ClosedLog'
  BY <1>1, <1>2 DEF FaultFreeInv, ClosedLog
<1>5. Visible' = Visible
  BY <1>1, <1>2 DEF Visible
<1> QED
  BY <1>1, <1>3, <1>4, <1>5 DEF LogStep, Log!logVars

\* The log and its history are what they were, or what the call under way
\* makes of them: an append, a checkpoint or a truncation.
BeforeOrAfter(log, known) ==
  \/ /\ log.entries = wal.entries /\ log.next = wal.next
     /\ log.first = wal.first /\ log.checkpoint = wal.checkpoint
     /\ known = appended
  \/ /\ op.mutation \in Mutations /\ wal.next < MaxAppends
     /\ log.entries = Append(wal.entries, [offset |-> wal.next, mutation |-> op.mutation])
     /\ log.next = wal.next + 1
     /\ log.first = wal.first /\ log.checkpoint = wal.checkpoint
     /\ known = [o \in DOMAIN appended \cup {wal.next} |->
                   IF o = wal.next THEN op.mutation ELSE appended[o]]
  \/ /\ op.offset \in 0 .. MaxAppends
     /\ wal.first <= op.offset /\ op.offset <= wal.next
     /\ log.entries = wal.entries /\ log.next = wal.next
     /\ log.first = wal.first /\ log.checkpoint = op.offset
     /\ known = appended
  \/ /\ log.entries = From(wal.entries, wal.checkpoint) /\ log.next = wal.next
     /\ log.first = Later(wal.first, wal.checkpoint)
     /\ log.checkpoint = wal.checkpoint
     /\ known = appended

\* What a crash or an exit brings back of an open log: what it was, or what
\* the call under way makes of it.
LEMMA Recovers ==
  ASSUME FaultFreeInv, IsOpen, NEW start \in 0 .. wal.first, NEW end \in {wal.next, Written},
         NEW frames, Holding(frames, start, end, Planned),
         NEW st, st \in {state, durableState}
  PROVE  LET log == Loaded(frames, st)
             known == WithRecovered(log.entries)
         IN  Sound(frames, st, start, end, known) /\ BeforeOrAfter(log, known)
<1> DEFINE next == wal.next
           log == Loaded(frames, st)
           known == WithRecovered(log.entries)
           plan == Planned
<1>1. /\ LogTyped
      /\ wal.first \in Nat /\ wal.checkpoint \in Nat /\ next \in Nat
      /\ wal.first <= wal.checkpoint /\ wal.checkpoint <= next
      /\ DOMAIN appended = 0 .. next - 1 /\ appended = [o \in 0 .. next - 1 |-> appended[o]]
      /\ wal.entries = Span(wal.first, next, appended)
      /\ \A o \in 0 .. next - 1 : appended[o] \in Mutations
  BY CrashFacts
<1>2. /\ end \in Nat /\ next <= end /\ end <= next + 1
      /\ end = next \/ (At("append") /\ end = next + 1)
  BY <1>1 DEF Written
<1>3. At("append") => op.mutation \in Mutations /\ next < MaxAppends
  BY <1>1, OpIs DEF FaultFreeInv, OpenLog, At
<1>p. IF At("append")
         THEN plan = [o \in 0 .. next |-> IF o = next THEN op.mutation ELSE appended[o]]
         ELSE plan = appended
  BY DEF Planned
<1> HIDE DEF plan
<1>4. \A o \in 0 .. next - 1 : appended[o] = plan[o] /\ plan[o] \in Mutations
  <2> TAKE o \in 0 .. next - 1
  <2>1. o \in 0 .. next /\ o # next
    BY <1>1
  <2>2. appended[o] = plan[o]
    BY <1>p, <2>1
  <2> QED
    BY <1>1, <2>2
<1>5. At("append") => /\ plan[next] = op.mutation
                      /\ plan = [o \in 0 .. next |-> IF o = next THEN op.mutation ELSE appended[o]]
  <2>1. next \in 0 .. next
    BY <1>1
  <2> QED
    BY <1>p, <2>1
<1>6. \A o \in 0 .. end - 1 : plan[o] \in Mutations
  <2> TAKE o \in 0 .. end - 1
  <2>1. o \in 0 .. next - 1 \/ (At("append") /\ o = next)
    BY <1>1, <1>2
  <2> QED
    BY <1>3, <1>4, <1>5, <2>1
\* The state is the one before the call or the one after it.
<1>7. \/ st = [checkpoint |-> wal.checkpoint, first |-> wal.first]
      \/ /\ At("checkpoint") /\ st = [checkpoint |-> op.offset, first |-> wal.first]
         /\ wal.first <= op.offset /\ op.offset <= next /\ op.offset \in 0 .. MaxAppends
      \/ At("truncate") /\ st = [checkpoint |-> wal.checkpoint, first |-> wal.checkpoint]
  <2>1. At("checkpoint") => op.offset \in Nat
    BY <1>1, OpIs DEF At
  <2> QED
    BY <2>1, FileLogAssumption DEF FaultFreeInv, OpenLog, Saved
<1> DEFINE f == st.first
           c == st.checkpoint
<1>8. /\ f \in Nat /\ c \in Nat /\ f <= c /\ c <= next /\ wal.first <= f
      /\ st = [checkpoint |-> c, first |-> f]
  BY <1>1, <1>7
<1> HIDE DEF f, c
<1>9. log = [entries |-> Span(f, end, plan), next |-> end, first |-> f, checkpoint |-> c]
  <2>1. /\ start \in Nat /\ start <= f /\ c <= end
        /\ \A o \in start .. end - 1 : plan[o] \in Mutations
    BY <1>1, <1>2, <1>6, <1>8
  <2>2. frames \in {Span(start, end, plan), Append(Span(start, end, plan), Torn)}
    BY DEF plan, Holding
  <2>3. Loaded(frames, [checkpoint |-> c, first |-> f])
        = [entries |-> Span(f, end, plan), next |-> end, first |-> f, checkpoint |-> c]
    BY <1>2, <1>8, <2>1, <2>2, LoadedSpan
  <2> QED
    BY <1>8, <2>3
<1>10. known = [o \in 0 .. end - 1 |-> plan[o]]
  <2>1. WithRecovered(Span(f, end, plan)) = Upto(plan, end)
    <3> DEFINE n == wal.next
    <3>1. /\ n \in Nat /\ f \in Nat /\ end \in Nat
          /\ f <= n /\ n <= end /\ end <= n + 1 /\ DOMAIN appended = 0 .. n - 1
      BY <1>1, <1>2, <1>8
    <3>2. \A o \in 0 .. n - 1 : appended[o] = plan[o]
      BY <1>4
    <3>3. Extends(plan, f, n, end)
      BY <1>6, <3>1, <3>2 DEF Extends
    <3> HIDE DEF n
    <3> QED
      BY <3>3, RecoveredSpan
  <2> QED
    BY <1>9, <2>1 DEF Upto
<1> HIDE DEF log, known
<1>11. known \in [0 .. end - 1 -> Mutations]
  BY <1>6, <1>10
<1>12. Span(start, end, plan) = Span(start, end, known)
  <2>1. \A j \in 1 .. end - start : plan[start + j - 1] = known[start + j - 1]
    <3> TAKE j \in 1 .. end - start
    <3>1. start + j - 1 \in 0 .. end - 1
      BY <1>1, <1>2
    <3> QED
      BY <1>10, <3>1
  <2> QED
    BY <2>1, SpanSame
<1>13. Holding(frames, start, end, known)
  BY <1>12 DEF plan, Holding
<1>14. ASSUME end = next PROVE known = appended
  BY <1>1, <1>4, <1>10, <1>14
<1>15. ASSUME end = next
       PROVE  Span(f, end, plan) = Span(f, next, appended)
  <2>1. \A j \in 1 .. next - f : plan[f + j - 1] = appended[f + j - 1]
    <3> TAKE j \in 1 .. next - f
    <3>1. f + j - 1 \in 0 .. next - 1
      BY <1>1, <1>8
    <3> QED
      BY <1>4, <3>1
  <2>2. Span(f, next, plan) = Span(f, next, appended)
    BY <2>1, SpanSame
  <2> QED
    BY <1>15, <2>2
<1>16. BeforeOrAfter(log, known)
  <2>1. CASE end = next /\ f = wal.first /\ c = wal.checkpoint
    BY <1>1, <1>9, <1>14, <1>15, <2>1 DEF BeforeOrAfter
  <2>2. CASE end # next
    <3>1. At("append") /\ end = next + 1
      BY <1>2, <2>2
    <3>2. f = wal.first /\ c = wal.checkpoint
      BY <1>7, <3>1 DEF f, c, At
    <3>3. log.entries = Append(wal.entries, [offset |-> next, mutation |-> op.mutation])
      <4>1. \A j \in 1 .. next - f : appended[f + j - 1] = plan[f + j - 1]
        <5> TAKE j \in 1 .. next - f
        <5>1. f + j - 1 \in 0 .. next - 1
          BY <1>1, <1>8
        <5> QED
          BY <1>4, <5>1
      <4>2. Span(f, next, appended) = Span(f, next, plan)
        BY <4>1, SpanSame
      <4>3. f <= next /\ \A o \in f .. next : plan[o] \in Mutations
        <5>1. \A o \in f .. next : o \in 0 .. end - 1
          BY <1>1, <1>8, <3>1
        <5> QED
          BY <1>1, <1>6, <1>8, <5>1
      <4>4. Append(Span(f, next, plan), [offset |-> next, mutation |-> plan[next]])
            = Span(f, next + 1, plan)
        <5> DEFINE n == wal.next
        <5>1. n \in Nat /\ f \in Nat /\ f <= n /\ \A o \in f .. n : plan[o] \in Mutations
          BY <1>1, <1>8, <4>3
        <5> HIDE DEF n
        <5>2. Append(Span(f, n, plan), [offset |-> n, mutation |-> plan[n]]) = Span(f, n + 1, plan)
          BY <5>1, SpanAppend
        <5> QED
          BY <5>2 DEF n
      <4>5. log.entries = Span(f, next + 1, plan)
        BY <1>9, <3>1
      <4> QED
        BY <1>1, <1>5, <3>1, <3>2, <4>2, <4>4, <4>5
    <3>4. known = [o \in DOMAIN appended \cup {next} |->
                     IF o = next THEN op.mutation ELSE appended[o]]
      <4>1. DOMAIN appended \cup {next} = 0 .. next /\ end - 1 = next
        BY <1>1, <3>1
      <4>2. \A o \in 0 .. next : plan[o] = IF o = next THEN op.mutation ELSE appended[o]
        BY <1>5, <3>1
      <4>3. known = [o \in 0 .. next |-> plan[o]]
        BY <1>10, <4>1
      <4>4. known = [o \in 0 .. next |-> IF o = next THEN op.mutation ELSE appended[o]]
        BY <4>2, <4>3
      <4> QED
        BY <4>1, <4>4
    <3>5. log.next = next + 1 /\ log.first = wal.first /\ log.checkpoint = wal.checkpoint
      BY <1>9, <3>1, <3>2
    <3> QED
      BY <1>3, <3>1, <3>3, <3>4, <3>5 DEF BeforeOrAfter
  <2>3. CASE end = next /\ At("checkpoint") /\ f = wal.first /\ c = op.offset
             /\ wal.first <= op.offset /\ op.offset <= next /\ op.offset \in 0 .. MaxAppends
    BY <1>1, <1>9, <1>14, <1>15, <2>3 DEF BeforeOrAfter
  <2>4. CASE end = next /\ f = wal.checkpoint /\ c = wal.checkpoint
    <3>1. From(wal.entries, wal.checkpoint) = Span(wal.checkpoint, next, appended)
      <4>1. \A o \in wal.first .. next - 1 : appended[o] \in Mutations
        BY <1>1
      <4> QED
        <5> DEFINE n == wal.next
                   floor == wal.checkpoint
                   bottom == wal.first
        <5>1. /\ n \in Nat /\ floor \in Nat /\ bottom \in Nat /\ bottom <= floor /\ floor <= n
              /\ \A o \in bottom .. n - 1 : appended[o] \in Mutations
          BY <1>1, <4>1
        <5>2. From(Span(bottom, n, appended), floor) = Span(floor, n, appended)
          <6> HIDE DEF n, floor, bottom
          <6> QED
            BY <5>1, SpanFrom
        <5> QED
          BY <1>1, <5>2
    <3>2. Later(wal.first, wal.checkpoint) = wal.checkpoint
      BY <1>1 DEF Later
    <3> QED
      BY <1>9, <1>14, <1>15, <2>4, <3>1, <3>2 DEF BeforeOrAfter
  <2>5. \/ f = wal.first /\ c = wal.checkpoint
        \/ /\ At("checkpoint") /\ f = wal.first /\ c = op.offset
           /\ wal.first <= op.offset /\ op.offset <= next /\ op.offset \in 0 .. MaxAppends
        \/ f = wal.checkpoint /\ c = wal.checkpoint
    BY <1>7 DEF f, c
  <2> QED
    BY <2>1, <2>2, <2>3, <2>4, <2>5
<1>17. start \in Nat /\ start <= f /\ f <= c /\ c <= end
  BY <1>1, <1>2, <1>8
<1> QED
  BY <1>2, <1>11, <1>13, <1>16, <1>17 DEF f, c, log, known, Sound

\* So it looks as if that call had returned or had never been made.
LEMMA RecoveryIsAStep ==
  ASSUME IsOpen, NEW log, NEW known, Visible' = log, appended' = known,
         BeforeOrAfter(log, known)
  PROVE  LogStep
<1>1. Visible = wal
  BY DEF Visible
<1>2. CASE /\ log.entries = wal.entries /\ log.next = wal.next
           /\ log.first = wal.first /\ log.checkpoint = wal.checkpoint
           /\ known = appended
  BY <1>1, <1>2 DEF LogStep, Log!logVars
<1>3. CASE /\ op.mutation \in Mutations /\ wal.next < MaxAppends
           /\ log.entries = Append(wal.entries, [offset |-> wal.next, mutation |-> op.mutation])
           /\ log.next = wal.next + 1
           /\ log.first = wal.first /\ log.checkpoint = wal.checkpoint
           /\ known = [o \in DOMAIN appended \cup {wal.next} |->
                         IF o = wal.next THEN op.mutation ELSE appended[o]]
  <2>1. Log!AppendMutation(op.mutation)
    BY <1>1, <1>3 DEF Log!AppendMutation
  <2> QED
    BY <1>3, <2>1 DEF LogStep, Log!LogNext
<1>4. CASE /\ op.offset \in 0 .. MaxAppends
           /\ wal.first <= op.offset /\ op.offset <= wal.next
           /\ log.entries = wal.entries /\ log.next = wal.next
           /\ log.first = wal.first /\ log.checkpoint = op.offset
           /\ known = appended
  <2>1. Log!Checkpoint(op.offset)
    BY <1>1, <1>4 DEF Log!Checkpoint
  <2> QED
    BY <1>4, <2>1 DEF LogStep, Log!LogNext
<1>5. CASE /\ log.entries = From(wal.entries, wal.checkpoint) /\ log.next = wal.next
           /\ log.first = Later(wal.first, wal.checkpoint)
           /\ log.checkpoint = wal.checkpoint
           /\ known = appended
  <2>1. Log!From(wal.entries, wal.checkpoint) = From(wal.entries, wal.checkpoint)
    BY DEF Log!From, From
  <2>2. Log!Later(wal.first, wal.checkpoint) = Later(wal.first, wal.checkpoint)
    BY DEF Log!Later, Later
  <2>3. Log!TruncateBeforeCheckpoint
    BY <1>1, <1>5, <2>1, <2>2 DEF Log!TruncateBeforeCheckpoint
  <2> QED
    BY <2>3 DEF LogStep, Log!LogNext
<1> QED
  BY <1>2, <1>3, <1>4, <1>5 DEF BeforeOrAfter

LEMMA CrashRefines ==
  ASSUME FaultFreeInv, Crash
  PROVE  (OpenLog /\ ClosedLog)' /\ LogStep
<1>1. PICK left \in Outcomes :
        /\ files' = [i \in FileIds |-> IF i = 1 THEN File(left.frames) ELSE NoFile]
        /\ state' = left.state /\ durableState' = left.state
        /\ appended' = WithRecovered(Loaded(left.frames, left.state).entries)
  BY DEF Crash
<1>2. /\ name' = 1 /\ durableName' = 1 /\ wal' = Closed /\ op' = NoOp /\ ~IsOpen'
  BY OpenOrClosed DEF Crash, IsOpen
<1>3. PICK i \in {name, durableName} :
        /\ left.frames \in Remains(files[i]) /\ left.state \in {state, durableState}
  BY DEF Outcomes
<1>4. LogTyped /\ FileLogInv /\ i \in FileIds
  BY CrashFacts DEF FaultFreeInv, LogTyped
<1>5. left.frames \in Seq(Frame) /\ left.state \in State
  BY <1>4, OutcomeFacts
<1> DEFINE frames == left.frames
           st == left.state
           known == WithRecovered(Loaded(frames, st).entries)
<1>6. /\ files'[name'].frames = frames /\ files'[name'].synced = Len(frames)
      /\ state' = st /\ appended' = known
      /\ frames \in Remains(files[i]) /\ st \in {state, durableState}
  BY <1>1, <1>2, <1>3, <1>5, FileFacts DEF FileIds
<1>7. Visible' = Loaded(frames, st)
  BY <1>2, <1>6 DEF Visible
<1>8. OpenLog'
  BY <1>2 DEF OpenLog
<1> HIDE DEF frames, st
<1>9. CASE IsOpen
  <2>1. PICK start \in 0 .. wal.first :
          /\ files[i].frames = Span(start, Written, Planned)
          /\ files[i].synced = wal.next - start
    BY <1>3, <1>9 DEF FaultFreeInv, OpenLog
  <2>2. PICK end \in {wal.next, Written} :
          Holding(frames, start, end, Planned)
    <3> DEFINE written == Written
               plan == Planned
    <3>1. /\ wal.first \in Nat /\ wal.next \in Nat /\ wal.first <= wal.next
          /\ \A o \in 0 .. wal.next - 1 : appended[o] \in Mutations
      BY <1>9, CrashFacts
    <3>2. /\ written \in Nat /\ start \in Nat /\ start <= wal.next
          /\ wal.next <= written /\ written <= wal.next + 1
      BY <3>1 DEF Written
    <3>3. ASSUME NEW o \in start .. written - 1 PROVE plan[o] \in Mutations
      <4>1. At("append") => op.mutation \in Mutations
        BY <1>4, OpIs DEF At
      <4>2. CASE At("append")
        <5>1. o \in 0 .. wal.next
          BY <3>1, <3>2, <3>3, <4>2 DEF Written
        <5>2. plan[o] = IF o = wal.next THEN op.mutation ELSE appended[o]
          BY <4>2, <5>1 DEF Planned
        <5>3. o # wal.next => o \in 0 .. wal.next - 1
          BY <3>1, <5>1
        <5> QED
          BY <3>1, <4>1, <4>2, <5>2, <5>3
      <4>3. CASE ~ At("append")
        <5>1. o \in 0 .. wal.next - 1 /\ plan[o] = appended[o]
          BY <3>1, <3>2, <3>3, <4>3 DEF Written, Planned
        <5> QED
          BY <3>1, <5>1
      <4> QED
        BY <4>2, <4>3
    <3> HIDE DEF written, plan
    <3>4. \E e \in {wal.next, written} :
            frames \in {Span(start, e, plan), Append(Span(start, e, plan), Torn)}
      <4> DEFINE file == files[i]
                 n == wal.next
      <4>1. /\ file.frames = Span(start, written, plan) /\ file.synced = n - start
            /\ frames \in Remains(file)
        BY <1>6, <2>1 DEF written, plan
      <4>2. /\ n \in Nat /\ written \in Nat /\ start \in Nat
            /\ start <= n /\ n <= written /\ written <= n + 1
        BY <3>1, <3>2
      <4> HIDE DEF file, n
      <4>3. \E e \in {n, written} :
              frames \in {Span(start, e, plan), Append(Span(start, e, plan), Torn)}
        BY <3>3, <4>1, <4>2, SpanRemains
      <4> QED
        BY <4>3 DEF n
    <3> QED
      BY <3>4 DEF written, plan, Holding
  <2>3. Sound(frames, st, start, end, known) /\ BeforeOrAfter(Loaded(frames, st), known)
    BY <1>6, <1>9, <2>2, Recovers
  <2> HIDE DEF known
  <2>4. ClosedLog'
    <3>1. start \in Nat /\ end \in Nat
      BY <2>3 DEF Sound
    <3> QED
      BY <1>1, <1>2, <1>6, <2>3, <3>1 DEF ClosedLog
  <2>5. LogStep
    <3> DEFINE log == Loaded(frames, st)
    <3>1. Visible' = log /\ appended' = known /\ BeforeOrAfter(log, known)
      BY <1>6, <1>7, <2>3
    <3> HIDE DEF log
    <3> QED
      BY <1>9, <3>1, RecoveryIsAStep
  <2> QED
    BY <1>8, <2>4, <2>5
<1>10. CASE ~IsOpen
  <2>1. /\ durableName = name /\ durableState = state /\ i = name /\ st = state
        /\ files[name].synced = Len(files[name].frames)
    BY <1>3, <1>10 DEF FaultFreeInv, ClosedLog, st
  <2>2. PICK start \in Nat, end \in Nat :
          /\ start <= state.first /\ state.first <= state.checkpoint /\ state.checkpoint <= end
          /\ appended \in [0 .. end - 1 -> Mutations]
          /\ files[name].frames \in
               {Span(start, end, appended), Append(Span(start, end, appended), Torn)}
    BY <1>10 DEF FaultFreeInv, ClosedLog, Sound, Holding
  <2>3. frames = files[name].frames
    <3> DEFINE file == files[name]
    <3>1. /\ file.frames \in Seq(Frame) /\ file.synced = Len(file.frames)
          /\ Len(file.frames) \in Nat /\ frames \in Remains(file)
      BY <1>4, <1>6, <2>1, Typed
    <3> HIDE DEF file
    <3>2. frames = SubSeq(file.frames, 1, Len(file.frames))
      BY <3>1 DEF Remains
    <3>3. SubSeq(file.frames, 1, Len(file.frames)) = file.frames
      BY <3>1
    <3> QED
      BY <3>2, <3>3 DEF file
  <2>4. known = appended
    <3>1. state = [checkpoint |-> state.checkpoint, first |-> state.first]
          /\ state.first \in Nat /\ state.checkpoint \in Nat
      BY <1>4 DEF LogTyped, State
    <3>2. DOMAIN appended = 0 .. end - 1 /\ appended = [o \in 0 .. end - 1 |-> appended[o]]
          /\ \A o \in 0 .. end - 1 : appended[o] \in Mutations
      BY <2>2
    <3>3. Loaded(frames, state).entries = Span(state.first, end, appended)
      <4>1. \A o \in start .. end - 1 : appended[o] \in Mutations
        BY <3>2
      <4> DEFINE f == state.first
                 c == state.checkpoint
      <4>2. /\ f \in Nat /\ c \in Nat /\ start <= f /\ f <= c /\ c <= end
            /\ frames \in {Span(start, end, appended), Append(Span(start, end, appended), Torn)}
        BY <2>2, <2>3, <3>1
      <4> HIDE DEF f, c
      <4>3. Loaded(frames, [checkpoint |-> c, first |-> f])
            = [entries |-> Span(f, end, appended), next |-> end, first |-> f, checkpoint |-> c]
        BY <4>1, <4>2, LoadedSpan
      <4> QED
        BY <3>1, <4>3 DEF f, c
    <3>4. WithRecovered(Span(state.first, end, appended)) = [o \in 0 .. end - 1 |-> appended[o]]
      <4> DEFINE f == state.first
      <4>1. /\ f \in Nat /\ end \in Nat /\ f <= end /\ end <= end /\ end <= end + 1
        BY <2>2, <3>1
      <4>2. Extends(appended, f, end, end)
        BY <3>2, <4>1 DEF Extends
      <4> HIDE DEF f
      <4>3. WithRecovered(Span(f, end, appended)) = Upto(appended, end)
        BY <4>2, RecoveredSpan
      <4> QED
        BY <4>3 DEF f, Upto
    <3> QED
      BY <2>1, <3>2, <3>3, <3>4
  <2> HIDE DEF known
  <2>5. ClosedLog'
    <3>1. Sound(frames, st, start, end, appended)
      BY <2>1, <2>2, <2>3 DEF Sound, Holding
    <3> QED
      BY <1>1, <1>2, <1>6, <2>2, <2>4, <3>1 DEF ClosedLog
  <2>6. Visible' = Visible
    BY <1>7, <1>10, <2>1, <2>3 DEF Visible
  <2>7. LogStep
    BY <1>6, <2>4, <2>6 DEF LogStep, Log!logVars
  <2> QED
    BY <1>8, <2>5, <2>7
<1> QED
  BY <1>9, <1>10

\* The process can only end without a fault when everything is on disk.
LEMMA ExitRefines ==
  ASSUME FaultFreeInv, Exit, Synced
  PROVE  (OpenLog /\ ClosedLog)' /\ LogStep
<1> DEFINE frames == files[name].frames
           known == WithRecovered(Loaded(frames, state).entries)
<1>1. /\ IsOpen /\ ~IsOpen' /\ appended' = known
      /\ files' = files /\ name' = name /\ durableName' = durableName
      /\ state' = state /\ durableState' = durableState
  BY OpenOrClosed DEF Exit, IsOpen
<1>2. durableName = name /\ durableState = state /\ files[name].synced = Len(frames)
  BY DEF Synced
<1>3. /\ wal.first \in Nat /\ wal.next \in Nat /\ wal.first <= wal.next
  BY <1>1, CrashFacts
<1>4. PICK start \in 0 .. wal.first : frames = Span(start, Written, Planned)
  BY <1>1 DEF FaultFreeInv, OpenLog
<1>5. Holding(frames, start, Written, Planned)
  BY <1>4 DEF Holding
<1> HIDE DEF frames
<1>6. Sound(frames, state, start, Written, known) /\ BeforeOrAfter(Loaded(frames, state), known)
  BY <1>1, <1>5, Recovers
<1> HIDE DEF known
<1>7. Visible' = Loaded(frames, state)
  BY <1>1 DEF Visible, frames
<1>8. LogStep
  <2> DEFINE log == Loaded(frames, state)
  <2>1. Visible' = log /\ appended' = known /\ BeforeOrAfter(log, known)
    BY <1>1, <1>6, <1>7
  <2> HIDE DEF log
  <2> QED
    BY <1>1, <2>1, RecoveryIsAStep
<1>9. OpenLog'
  BY <1>1 DEF OpenLog
<1>10. ClosedLog'
  <2>1. start \in Nat /\ Written \in Nat
    BY <1>6 DEF Sound
  <2> QED
    BY <1>1, <1>2, <1>6, <2>1 DEF ClosedLog, frames
<1> QED
  BY <1>8, <1>9, <1>10

\* Opening shows what the closed log was taken to be.
LEMMA OpenRefines ==
  ASSUME FaultFreeInv, Open
  PROVE  (OpenLog /\ ClosedLog)' /\ LogStep
<1> DEFINE frames == files[name].frames
           loaded == Loaded(frames, state)
<1>1. /\ ~IsOpen
      /\ wal' = [entries |-> loaded.entries, next |-> loaded.next, first |-> loaded.first,
                 checkpoint |-> loaded.checkpoint, handle |-> name]
      /\ files' = [files EXCEPT ![name] =
                      IF Intact(frames) = frames THEN files[name] ELSE File(Intact(frames))]
      /\ name' = name /\ durableName' = durableName /\ op' = op
      /\ state' = state /\ durableState' = durableState /\ appended' = appended
  BY DEF Open
<1>2. /\ LogTyped /\ name \in FileIds /\ op = NoOp /\ op.pc = "idle"
      /\ state = [checkpoint |-> state.checkpoint, first |-> state.first]
      /\ state.first \in Nat /\ state.checkpoint \in Nat
      /\ durableName = name /\ durableState = state
      /\ files[name].synced = Len(frames)
  <2>1. LogTyped
    BY CrashFacts
  <2>2. name \in FileIds /\ op = NoOp /\ state \in State
    BY <1>1, <2>1 DEF LogTyped
  <2>3. /\ state = [checkpoint |-> state.checkpoint, first |-> state.first]
        /\ state.first \in Nat /\ state.checkpoint \in Nat
    BY <2>2 DEF State
  <2>4. /\ durableName = name /\ durableState = state
        /\ files[name].synced = Len(frames)
    BY <1>1 DEF FaultFreeInv, ClosedLog
  <2>5. op.pc = "idle"
    BY <2>2 DEF NoOp
  <2> QED
    BY <2>1, <2>2, <2>3, <2>4, <2>5
<1>3. PICK start \in Nat, end \in Nat :
        /\ start <= state.first /\ state.first <= state.checkpoint /\ state.checkpoint <= end
        /\ appended \in [0 .. end - 1 -> Mutations]
        /\ frames \in {Span(start, end, appended), Append(Span(start, end, appended), Torn)}
  BY <1>1 DEF FaultFreeInv, ClosedLog, Sound, Holding
<1>4. \A o \in start .. end - 1 : appended[o] \in Mutations
  BY <1>3
<1>5. start <= end
  BY <1>2, <1>3
<1>6. loaded = [entries |-> Span(state.first, end, appended), next |-> end,
                first |-> state.first, checkpoint |-> state.checkpoint]
  <2>1. Loaded(frames, [checkpoint |-> state.checkpoint, first |-> state.first])
        = [entries |-> Span(state.first, end, appended), next |-> end,
           first |-> state.first, checkpoint |-> state.checkpoint]
    <3> HIDE DEF frames
    <3> QED
      BY <1>2, <1>3, <1>4, LoadedSpan
  <2> QED
    BY <1>2, <2>1
<1> DEFINE span == Span(start, end, appended)
<1>7. span \in Seq(Entry) /\ span \in Seq(Frame) /\ Len(span) = end - start
  BY <1>4, <1>5, SpanFacts
<1>8. Intact(frames) = span
  BY <1>3, <1>7, IntactWhole
<1> HIDE DEF frames, loaded, span
<1>9. files'[name].frames = span /\ files'[name].synced = end - start
  <2>1. files'[name] = IF span = frames THEN files[name] ELSE File(span)
    BY <1>1, <1>2, <1>8 DEF LogTyped
  <2>2. CASE span = frames
    BY <1>2, <1>7, <2>1, <2>2 DEF frames
  <2>3. CASE span # frames
    BY <1>7, <2>1, <2>3, FileFacts
  <2> QED
    BY <2>2, <2>3
<1>10. /\ wal'.entries = loaded.entries /\ wal'.next = end
       /\ wal'.first = state.first /\ wal'.checkpoint = state.checkpoint
       /\ "next" \in DOMAIN wal'
  BY <1>1, <1>6
<1>11. IsOpen' /\ op'.pc = "idle"
  BY <1>1, <1>2, <1>10 DEF IsOpen
<1>12. Written' = end /\ Planned' = appended /\ Saved' = state
  BY <1>1, <1>2, <1>10, <1>11 DEF Written, Planned, Saved, At
<1>13. OpenLog'
  <2>1. \A i \in {name, durableName}' : \E s \in (0 .. wal.first)' :
           /\ files'[i].frames = Span(s, Written', Planned')
           /\ files'[i].synced = (wal.next)' - s
    <3>1. start \in 0 .. state.first
      BY <1>2, <1>3
    <3> QED
      BY <1>1, <1>2, <1>9, <1>10, <1>12, <3>1 DEF span
  <2> QED
    BY <1>1, <1>2, <1>3, <1>6, <1>10, <1>11, <1>12, <2>1 DEF OpenLog, At
<1>14. ClosedLog'
  BY <1>11 DEF ClosedLog
<1>15. LogStep
  <2>1. Visible = loaded
    BY <1>1 DEF Visible, loaded, frames
  <2>2. Visible' = wal'
    BY <1>11 DEF Visible
  <2>3. /\ wal'.next = loaded.next /\ wal'.first = loaded.first
        /\ wal'.checkpoint = loaded.checkpoint
    BY <1>6, <1>10
  <2> QED
    BY <1>1, <1>10, <2>1, <2>2, <2>3 DEF LogStep, Log!logVars
<1> QED
  BY <1>13, <1>14, <1>15

LEMMA CrashInit == Init => FaultFreeInv /\ Log!LogInit
<1> SUFFICES ASSUME Init PROVE FaultFreeInv /\ Log!LogInit
  OBVIOUS
<1>1. /\ files = [i \in FileIds |-> NoFile] /\ name = 1 /\ durableName = 1
      /\ state = [checkpoint |-> 0, first |-> 0] /\ durableState = state
      /\ wal = Closed /\ faults = {} /\ appended = [o \in {} |-> o]
  BY DEF Init
<1>2. ~IsOpen /\ 1 \in FileIds /\ FileLogInv
  BY <1>1, OpenOrClosed, InitInv DEF IsOpen, FileIds
<1>3. files[name].frames = <<>> /\ files[name].synced = Len(files[name].frames)
  <2>1. files[name] = NoFile
    BY <1>1, <1>2
  <2> QED
    BY <2>1 DEF NoFile, File
<1>4. Span(0, 0, appended) = <<>>
  <2>1. Span(0, 0, appended) \in Seq(Entry) /\ Len(Span(0, 0, appended)) = 0 - 0
    <3>1. \A o \in 0 .. 0 - 1 : appended[o] \in Mutations
      OBVIOUS
    <3> QED
      BY <3>1, SpanFacts
  <2> QED
    BY <2>1
<1>5. appended \in [0 .. 0 - 1 -> Mutations]
  <2>1. 0 .. 0 - 1 = {}
    OBVIOUS
  <2> QED
    BY <1>1, <2>1
<1>6. OpenLog /\ ClosedLog
  <2>1. state.first = 0 /\ state.checkpoint = 0
    BY <1>1
  <2>2. Sound(files[name].frames, state, 0, 0, appended)
    BY <1>3, <1>4, <1>5, <2>1 DEF Sound, Holding
  <2>3. \E start, end \in Nat : Sound(files[name].frames, state, start, end, appended)
    BY <2>2
  <2> QED
    BY <1>1, <1>2, <1>3, <2>3 DEF OpenLog, ClosedLog
<1>7. Visible = [entries |-> <<>>, next |-> 0, first |-> 0, checkpoint |-> 0]
  <2>1. Loaded(<<>>, [checkpoint |-> 0, first |-> 0])
        = [entries |-> Span(0, 0, appended), next |-> 0, first |-> 0, checkpoint |-> 0]
    <3>1. \A o \in 0 .. 0 - 1 : appended[o] \in Mutations
      OBVIOUS
    <3> QED
      BY <1>4, <3>1, LoadedSpan
  <2> QED
    BY <1>1, <1>2, <1>3, <1>4, <2>1 DEF Visible
<1>8. Log!LogInit
  BY <1>1, <1>7 DEF Log!LogInit
<1> QED
  BY <1>1, <1>2, <1>6, <1>8 DEF FaultFreeInv

LEMMA CrashStep ==
  ASSUME Faults = {}, FaultFreeInv, [Next]_logVars
  PROVE  FaultFreeInv' /\ LogStep
<1>1. FileLogInv'
  BY StepInv DEF FaultFreeInv
<1>2. ASSUME NEW kind PROVE ~ Fault(kind)
  BY DEF Fault
<1>3. faults' = {} /\ (OpenLog /\ ClosedLog)' /\ LogStep
  <2>1. ASSUME NEW m \in Mutations, AppendWrite(m)
        PROVE  faults' = {} /\ (OpenLog /\ ClosedLog)' /\ LogStep
    <3>1. faults' = {}
      BY <2>1 DEF FaultFreeInv, AppendWrite
    <3> QED
      BY <2>1, <3>1, AppendWriteRefines
  <2>2. CASE AppendTorn
    BY <1>2, <2>2 DEF AppendTorn
  <2>3. CASE AppendSync
    <3>1. faults' = {}
      BY <2>3 DEF FaultFreeInv, AppendSync
    <3> QED
      BY <2>3, <3>1, AppendSyncRefines
  <2>4. ASSUME NEW offset \in 0 .. MaxAppends, Checkpoint(offset)
        PROVE  faults' = {} /\ (OpenLog /\ ClosedLog)' /\ LogStep
    <3>1. faults' = {}
      BY <2>4 DEF FaultFreeInv, Checkpoint
    <3> QED
      BY <2>4, <3>1, CheckpointRefines
  <2>5. CASE CheckpointSync
    <3>1. faults' = {}
      BY <2>5 DEF FaultFreeInv, CheckpointSync
    <3> QED
      BY <2>5, <3>1, CheckpointSyncRefines
  <2>6. CASE Truncate
    <3>1. faults' = {}
      BY <2>6 DEF FaultFreeInv, Truncate
    <3> QED
      BY <2>6, <3>1, TruncateRefines
  <2>7. CASE TruncateSync
    <3>1. faults' = {}
      BY <2>7 DEF FaultFreeInv, TruncateSync
    <3> QED
      BY <2>7, <3>1, TruncateSyncRefines
  <2>8. CASE Compact
    <3>1. faults' = {}
      BY <2>8 DEF FaultFreeInv, Compact
    <3> QED
      BY <2>8, <3>1, CompactRefines
  <2>9. CASE CompactReopen
    <3>1. faults' = {}
      BY <2>9 DEF FaultFreeInv, CompactReopen
    <3> QED
      BY <2>9, <3>1, CompactReopenRefines
  <2>10. CASE Fail
    BY <1>2, <2>10 DEF Fail
  <2>11. CASE WriteBack
    <3>1. faults' = {}
      BY <2>11 DEF FaultFreeInv, WriteBack
    <3> QED
      BY <2>11, <3>1, WriteBackRefines
  <2>12. CASE Crash
    <3>1. faults' = {}
      BY <2>12 DEF FaultFreeInv, Crash
    <3> QED
      BY <2>12, <3>1, CrashRefines
  <2>13. CASE Exit
    <3>1. Synced /\ faults' = {}
      BY <1>2, <2>13 DEF FaultFreeInv, Exit
    <3> QED
      BY <2>13, <3>1, ExitRefines
  <2>14. CASE Open
    <3>1. faults' = {}
      BY <2>14 DEF FaultFreeInv, Open
    <3> QED
      BY <2>14, <3>1, OpenRefines
  <2>15. CASE UNCHANGED logVars
    <3>1. /\ files' = files /\ name' = name /\ durableName' = durableName
          /\ state' = state /\ durableState' = durableState /\ wal' = wal /\ op' = op
          /\ appended' = appended /\ faults' = faults
      BY <2>15 DEF logVars
    <3>3. /\ IsOpen' <=> IsOpen
          /\ Written' = Written /\ Planned' = Planned /\ Saved' = Saved
      BY <3>1 DEF IsOpen, Written, Planned, Saved, At
    <3>4. (OpenLog /\ ClosedLog)'
      BY <3>1, <3>3 DEF FaultFreeInv, OpenLog, ClosedLog, At
    <3>5. Visible' = Visible
      BY <3>1, <3>3 DEF Visible
    <3> QED
      BY <3>1, <3>4, <3>5 DEF FaultFreeInv, LogStep, Log!logVars
  <2> QED
    BY <2>1, <2>2, <2>3, <2>4, <2>5, <2>6, <2>7, <2>8, <2>9, <2>10, <2>11, <2>12, <2>13,
       <2>14, <2>15 DEF Next
<1> QED
  BY <1>1, <1>3 DEF FaultFreeInv

\* When no file operation fails, the file log is a mutation log: a crash or
\* an exit at any point looks as if the call under way had returned or had
\* never been made, and opening shows what it left (append_mutation,
\* checkpoint, truncate_before_checkpoint, load_wal).
THEOREM CrashesAreInvisible ==
  ASSUME Faults = {}
  PROVE  Spec => ImplementsMutationLog
<1>1. Init => FaultFreeInv /\ Log!LogInit
  BY CrashInit
<1>2. FaultFreeInv /\ [Next]_logVars => FaultFreeInv' /\ [Log!LogNext]_(Log!logVars)
  BY CrashStep DEF LogStep
<1> QED
  BY <1>1, <1>2, PTL DEF Spec, ImplementsMutationLog, Log!LogSpec
==============================================================================
