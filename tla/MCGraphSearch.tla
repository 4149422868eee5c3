---------------------------- MODULE MCGraphSearch ----------------------------
(* A small instance of GraphSearch for TLC: points on a 3 x 2 grid. *)
EXTENDS GraphSearch, TLC
CONSTANTS r1, r2

Row(x, y, labels) == [point |-> <<x, y>>, labels |-> labels]

\* The built graphs that are searched: of four rows, two of them equal, one row, none.
MCSearched ==
  {<<Row(2, 1, <<1>>), Row(2, 1, <<2, 1>>), Row(1, 0, <<>>), Row(0, 1, <<3, 2>>)>>,
   <<Row(1, 0, <<2>>)>>,
   <<>>}

MCInputs == MCSearched \cup [1 .. 4 -> {Row(x, 0, <<>>) : x \in 0 .. 2}]

MCConfigs ==
  {[routing |-> 1, sbq |-> FALSE, useMean |-> FALSE, bits |-> 1],
   [routing |-> 2, sbq |-> TRUE, useMean |-> TRUE, bits |-> 2]}

\* With a filter, in single reads, and without, cut short by four rows.
MCSearches ==
  {[query |-> <<2, 0>>, filter |-> <<2>>, size |-> 4, batch |-> 1],
   [query |-> <<1, 1>>, filter |-> <<>>, size |-> 3, batch |-> 2]}
MCBudget == [visited |-> 4, candidates |-> 4, rescore |-> 4, bytes |-> 32]

\* The two readers are interchangeable.
MCSymmetry == Permutations(Readers)

==============================================================================
