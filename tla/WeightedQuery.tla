---------------------------- MODULE WeightedQuery ----------------------------
(***************************************************************************)
(* The queries of src/queries_util.hpp: a line of words becomes a sequence *)
(* of terms, the terms a relevance model proposes become a weighted query, *)
(* terms of an external collection become terms of the target, and the     *)
(* terms the user asked for are added.                                     *)
(*                                                                         *)
(* A weighted query has a sequence of terms and numbers; the weight of a   *)
(* term is its number divided by the query's denominator.  A denominator   *)
(* of 0 is a query whose weights were divided by zero.                     *)
(***************************************************************************)
EXTENDS Integers, Sequences, Functions, SequencesExt

(* parse_query: words that are not in the lexicon are left out, repeated   *)
(* ones stay.                                                              *)
ParseQuery(words, lexicon) ==
    LET known == SelectSeq(words, LAMBDA w : w \in DOMAIN lexicon)
    IN  [i \in 1..Len(known) |-> lexicon[known[i]]]

(* build_term_map: the term of an external collection and the one of the   *)
(* target that stand for the same word.                                    *)
BackMap(lexicon, target_lexicon) ==
    LET shared == DOMAIN lexicon \cap DOMAIN target_lexicon
        word(t) == CHOOSE w \in shared : lexicon[w] = t
    IN  [t \in {lexicon[w] : w \in shared} |-> target_lexicon[word(t)]]

(* query_from_ext_to_src: terms the target does not have are erased.       *)
QueryFromExtToSrc(original, back_map) ==
    LET known == SelectSeq(original, LAMBDA t : t \in DOMAIN back_map)
    IN  [i \in 1..Len(known) |-> back_map[known[i]]]

(* wsum: accumulate starts from the int 0, so the sum is an int after      *)
(* every addition.                                                         *)
Wsum(q) ==
    FoldLeft(LAMBDA a, e : (a * q.denom + e.weight) \div q.denom, 0, q.terms)

NormalizeWeightedQuery(q) == [q EXCEPT !.denom = @ * Wsum(q)]

NormalizeWeightedQueryExt(q, back_map) ==
    LET known == SelectSeq(q.terms, LAMBDA e : e.term \in DOMAIN back_map)
        back == [q EXCEPT !.terms =
                    [i \in 1..Len(known) |->
                        [known[i] EXCEPT !.term = back_map[@]]]]
    IN  IF Wsum(back) > 0 THEN NormalizeWeightedQuery(back) ELSE back

(* add_original_query: the weight num/den is shared by the original terms, *)
(* the rest scales the terms that are there.                               *)
AddOriginalQuery(num, den, w_query, original) ==
    LET n == Len(original)
        parts == IF n = 0 THEN 1 ELSE n
        scaled == [i \in DOMAIN w_query.terms |->
                     [w_query.terms[i] EXCEPT !.weight = @ * (den - num) * parts]]
        added == [i \in 1..n |->
                     [term |-> original[i], weight |-> num * w_query.denom]]
    IN  [terms |-> scaled \o added, denom |-> w_query.denom * den * parts]
=============================================================================
