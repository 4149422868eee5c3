------------------------------ MODULE LabelSets ------------------------------
(***************************************************************************)
(* Label sets: sorted sequences of labels without duplicates, compared by  *)
(* merging.  Labels are integers.                                          *)
(***************************************************************************)
EXTENDS Integers, Sequences, SequencesExt

\* Every conversion into a label set sorts and removes duplicates.
LabelSet(labels) == SetToSortSeq(ToSet(labels), <)

\* Whether two label sets share a label.
Overlaps(a, b) ==
  LET merge[p \in (1 .. Len(a) + 1) \X (1 .. Len(b) + 1)] ==
        LET i == p[1]
            j == p[2]
        IN  /\ i <= Len(a) /\ j <= Len(b)
            /\ \/ a[i] = b[j]
               \/ a[i] < b[j] /\ merge[<<i + 1, j>>]
               \/ b[j] < a[i] /\ merge[<<i, j + 1>>]
  IN  merge[<<1, 1>>]

\* Whether c has every label that a and b share; k is where c is read.
ContainsIntersection(c, a, b) ==
  LET skip(k, label) ==
        CHOOSE n \in k .. Len(c) + 1 :
          /\ n = Len(c) + 1 \/ c[n] >= label
          /\ \A m \in k .. n - 1 : c[m] < label
      merge[i \in 1 .. Len(a) + 1, j \in 1 .. Len(b) + 1, k \in 1 .. Len(c) + 1] ==
        \/ i > Len(a) \/ j > Len(b)
        \/ /\ a[i] = b[j]
           /\ LET n == skip(k, a[i]) IN n <= Len(c) /\ c[n] = a[i] /\ merge[i + 1, j + 1, n]
        \/ a[i] < b[j] /\ merge[i + 1, j, k]
        \/ b[j] < a[i] /\ merge[i, j + 1, k]
  IN  merge[1, 1, 1]

==============================================================================
