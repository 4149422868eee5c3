----------------------------- MODULE LogEntries ------------------------------
(* Sequences of log entries, in memory or in a file. *)
EXTENDS Integers, Sequences

\* The later of two offsets.
Later(a, b) == IF a < b THEN b ELSE a

\* What is left of a log when the entries before offset are popped off its
\* front.  Offsets never decrease along a log, so keeping the entries at or
\* after offset, as the replay and the loading of a log do, is the same.
From(log, offset) ==
  LET popped == CHOOSE k \in 0 .. Len(log) :
                  /\ \A i \in 1 .. k : log[i].offset < offset
                  /\ k < Len(log) => log[k + 1].offset >= offset
  IN  SubSeq(log, popped + 1, Len(log))

==============================================================================
