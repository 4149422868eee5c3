---------------------------- MODULE MCOnlineIndex ----------------------------
(* Small instances of OnlineIndex for TLC. *)
EXTENDS OnlineIndex, TLC

\* A row without labels, and one for each of two labels.
CONSTANTS plain, tagged, other, label, otherLabel

MCStarts == StartMaps
MCLabelsOf ==
  [row \in Rows |-> CASE row = plain -> {}
                     [] row = tagged -> {label}
                     [] row = other -> {otherLabel}]

\* The two labels are interchangeable, together with the rows that carry them.
LabelSymmetry ==
  {p \in Permutations({tagged, other, label, otherLabel}) :
     \/ p[tagged] = tagged /\ p[other] = other /\ p[label] = label
     \/ p[tagged] = other /\ p[other] = tagged /\ p[label] = otherLabel}

==============================================================================
