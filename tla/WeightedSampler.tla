--------------------------- MODULE WeightedSampler ---------------------------
(***************************************************************************)
(* src/weighted_sampler.hpp: queries drawn from a relevance model.  What   *)
(* the generator delivers is any number of the range asked for, also when  *)
(* two threads draw from it at the same time.                              *)
(***************************************************************************)
EXTENDS Integers, Sequences, SequencesExt

CONSTANTS
    MinTerms, MaxTerms,     \* the lengths of a generated query (5 and 15)
    Grain                   \* rand() is one of 1/Grain, ..., Grain/Grain

NotFound == -1      \* std::numeric_limits<size_t>::max()

(* cdf, in units of 1/Grain of the denominator of the relevance model.     *)
Cdf(rm) ==
    LET c[i \in 0..Len(rm.terms)] ==
            IF i = 0 THEN 0 ELSE c[i - 1] + rm.terms[i].weight * Grain
    IN  [i \in 1..Len(rm.terms) |-> c[i]]

(* Mutant: the search starts from the first element instead of before it.  *)
BssFromFirst(cdf, target) ==
    LET n == Len(cdf)
        high[lo \in -1..n, hi \in 0..n] ==
            IF hi - lo <= 1 THEN hi
            ELSE LET probe == (lo + hi) \div 2 IN
                 IF cdf[probe + 1] < target THEN high[probe, hi]
                 ELSE high[lo, probe]
    IN  IF high[0, n] = n THEN NotFound ELSE high[0, n]

(* bss: the first index whose value is not below the target.  low starts   *)
(* at size_t(-1), which counts like -1.                                    *)
Bss(cdf, target) ==
    LET n == Len(cdf)
        high[lo \in -1..n, hi \in 0..n] ==
            IF hi - lo <= 1 THEN hi
            ELSE LET probe == (lo + hi) \div 2 IN
                 IF cdf[probe + 1] < target THEN high[probe, hi]
                 ELSE high[lo, probe]
    IN  IF high[-1, n] = n THEN NotFound ELSE high[-1, n]

(* The index one draw of rand() selects.                                   *)
Drawn(rm, r) == Bss(Cdf(rm), r * rm.denom)

(* A draw beyond the end of the model reads outside of it.                 *)
MayMiss(rm) == \E r \in 1..Grain : Drawn(rm, r) = NotFound

(* generate_query: as many terms as asked for, each drawn anew.            *)
GenerateQuery(rm) ==
    LET index == {Drawn(rm, r) : r \in 1..Grain} \ {NotFound}
        term == {rm.terms[i + 1].term : i \in index}
    IN  UNION {[1..n -> term] : n \in MinTerms..MaxTerms}

(* add_original_query: a coin is flipped for each term of the original.    *)
AddOriginal(original, candidate) ==
    {candidate \o [i \in 1..Len(kept) |-> original[kept[i]]] :
        kept \in {SetToSortSeq(S, <) : S \in SUBSET (1..Len(original))}}

(* generate_query_batch, as the sequences of queries it may return.        *)
GenerateQueryBatch(rm, original, batch_size) ==
    LET one == UNION {AddOriginal(original, q) : q \in GenerateQuery(rm)}
    IN  [1..batch_size -> one]
=============================================================================
