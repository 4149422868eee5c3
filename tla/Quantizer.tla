------------------------------ MODULE Quantizer ------------------------------
(***************************************************************************)
(* Routing vectors: a prefix of the full vector, or its bits under         *)
(* Statistical Binary Quantization, and the distances between them.        *)
(* Vectors are sequences of integers; means and deviations are compared by *)
(* cross-multiplication, so they are exact where the code rounds.          *)
(*                                                                         *)
(* A configuration has the fields routing (routing_dimensions), sbq,       *)
(* useMean and bits (per dimension); a quantizer has count and, for each   *)
(* dimension, the sum and the sum of squares of the samples; an encoding   *)
(* is the set of the bits that are set.                                    *)
(***************************************************************************)
EXTENDS Integers, Sequences, FiniteSets, FiniteSetsExt

Prefix(config, v) == SubSeq(v, 1, config.routing)
Dimensions(config) == 1 .. config.routing

Untrained == [count |-> 0, sum |-> <<>>, squares |-> <<>>]

\* start_training, add_sample for every vector, finish_training.
Train(config, vectors) ==
  IF ~config.useMean THEN Untrained
  ELSE LET over(value(_)) == MapThenSumSet(LAMBDA i : value(vectors[i]), DOMAIN vectors)
       IN  [count |-> Len(vectors),
            sum |-> [d \in Dimensions(config) |-> over(LAMBDA v : v[d])],
            squares |-> [d \in Dimensions(config) |-> over(LAMBDA v : v[d] * v[d])]]

\* count * (x - mean), and count^2 * variance.
Deviation(model, d, x) == model.count * x - model.sum[d]
Variance(model, d) == model.count * model.squares[d] - model.sum[d] * model.sum[d]

\* Whether x lies at least num / den standard deviations above the mean; with
\* no spread the z-score is 0.
ZScoreAtLeast(model, d, x, num, den) ==
  LET scaled == Deviation(model, d, x) * den
      bound == num * num * Variance(model, d)
  IN  IF Variance(model, d) = 0 THEN num <= 0
      ELSE IF num <= 0 THEN scaled >= 0 \/ scaled * scaled <= bound
      ELSE scaled >= 0 /\ scaled * scaled >= bound

\* encode_z_score: one bit for each boundary of bits + 1 equal ranges of
\* [-2, 2] that the z-score has passed.
Passed(config, model, d, x) ==
  LET ranges == config.bits + 1
  IN  {k \in 1 .. config.bits : ZScoreAtLeast(model, d, x, 4 * k - 2 * ranges, ranges)}

Bit(d) == d - 1

Quantize(config, model, v) ==
  IF ~config.useMean THEN {Bit(d) : d \in {e \in Dimensions(config) : v[e] > 0}}
  ELSE IF config.bits = 1
       THEN {Bit(d) : d \in {e \in Dimensions(config) : Deviation(model, e, v[e]) > 0}}
       ELSE UNION {{Bit(d) * config.bits + k - 1 : k \in Passed(config, model, d, v[d])} :
                     d \in Dimensions(config)}

\* routing_vector_for_full_vector, routing_query_for_snapshot
RoutingVector(config, model, v) ==
  IF config.sbq THEN Quantize(config, model, v) ELSE Prefix(config, v)

\* Squared Euclidean distance, and the number of bits that differ.
L2(a, b) == MapThenSumSet(LAMBDA d : (a[d] - b[d]) * (a[d] - b[d]), DOMAIN a)
Hamming(a, b) == Cardinality((a \ b) \cup (b \ a))

\* routing_distance_between, routing_distance_to_query
RoutingDistance(config, a, b) == IF config.sbq THEN Hamming(a, b) ELSE L2(a, b)

==============================================================================
