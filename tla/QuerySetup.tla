----------------------------- MODULE QuerySetup -----------------------------
(***************************************************************************)
(* How operator() of the query algorithms sets a query up before it        *)
(* searches: the algorithms of src/queries.hpp count the terms they are    *)
(* given and open one list per distinct term; those of                     *)
(* src/weighted_queries.hpp open one list per entry of the weighted query, *)
(* also when two entries have the same term.                               *)
(*                                                                         *)
(* An index is a record: idf, the query_term_weight of a term that occurs  *)
(* once; ranker; and term_weight, doc_weight and starts, as in a query of  *)
(* DisjunctiveQuery but by term.                                           *)
(***************************************************************************)
EXTENDS Integers, Sequences, FiniteSets, SequencesExt

(* query_freqs: the terms in their order, with their numbers.              *)
QueryFreqs(terms) ==
    LET ids == SetToSortSeq({terms[i] : i \in DOMAIN terms}, <) IN
    [i \in DOMAIN ids |->
        [term |-> ids[i], count |-> Cardinality({j \in DOMAIN terms : terms[j] = ids[i]})]]

(* query_term_weight: LMDS weighs a term 1, however often it occurs.       *)
QueryTermWeight(index, term, f_qt) ==
    IF index.ranker = "LMDS" THEN 1 ELSE f_qt * index.idf[term]

(* One enumerator for each of some entries [term, q_weight].               *)
Enums(index, entries, q_len, weighted) ==
    [weighted    |-> weighted,
     lists       |-> Len(entries),
     q_len       |-> q_len,
     q_weight    |-> [i \in DOMAIN entries |-> entries[i].q_weight],
     term_weight |-> [i \in DOMAIN entries |-> index.term_weight[entries[i].term]],
     doc_weight  |-> index.doc_weight,
     starts      |-> [i \in DOMAIN entries |-> index.starts[entries[i].term]]]

(* The setup of queries.hpp.                                               *)
BagOfWords(index, terms) ==
    LET freqs == QueryFreqs(terms) IN
    Enums(index,
          [i \in DOMAIN freqs |->
              [term |-> freqs[i].term,
               q_weight |-> QueryTermWeight(index, freqs[i].term, freqs[i].count)]],
          Len(terms), FALSE)

(* The setup of weighted_queries.hpp, for entries [term, weight].          *)
Weighted(index, terms) ==
    Enums(index,
          [i \in DOMAIN terms |->
              [term |-> terms[i].term,
               q_weight |-> QueryTermWeight(index, terms[i].term, 1) * terms[i].weight]],
          Len(terms), TRUE)
=============================================================================
