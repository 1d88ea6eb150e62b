--------------------------- MODULE ExpansionTools ---------------------------
(***************************************************************************)
(* The query expansion programs: single_shot_expansion, the two programs   *)
(* that expand from external collections, external_corpus_sampler and      *)
(* train_corpus_sampler.  A query is parsed for every collection; a worker *)
(* per collection retrieves feedback documents, builds their relevance     *)
(* model, converts it to the terms of the target collection and makes      *)
(* queries of it; the queries are run on the target by threads of their    *)
(* own; the rankings are fused.  The main thread joins the workers, then   *)
(* the runs.                                                               *)
(*                                                                         *)
(* Retrieval is the promise of the query algorithms, as QueryAlgorithms    *)
(* checks it: the docs of largest positive score, equal ones in any order. *)
(* The weight of a posting is its frequency.                               *)
(***************************************************************************)
EXTENDS Integers, Sequences, FiniteSets, Functions, FiniteSetsExt

CONSTANTS
    Programs,       \* the programs a run considers
    Words,          \* the words of the queries and of the lexicons
    Queries,        \* sequences of words
    Collections,    \* Collections[1] is the target, the others are external
    Lambda,         \* lambda_expand, as <<numerator, denominator>>
    GenQueries,     \* gen_queries
    Unit, MinTerms, MaxTerms, Grain, Common

VARIABLES
    program, query,
    pc,             \* the main thread
    parsed_query,   \* of each collection
    worker,         \* the worker of each collection
    tk,             \* its feedback documents
    rm,             \* its weighted query
    all_q,          \* the queries it generated
    runs,           \* final_trec_runs
    running,        \* the runs whose threads have not ended
    final_ranking

vars == <<program, query, pc, parsed_query, worker, tk, rm, all_q, runs,
          running, final_ranking>>

Forward == INSTANCE ForwardIndex
Weighted == INSTANCE WeightedQuery
Sampler == INSTANCE WeightedSampler

Target == Collections[1]
Buckets == DOMAIN Collections
External == Buckets \ {1}

Samples == program \in {"external_corpus_sampler", "train_corpus_sampler"}
Fuses == Samples \/ program = "external_corpus_expansion"

(* The collections the program expands from.                               *)
Sources ==
    IF program = "single_shot_expansion" THEN {1}
    ELSE IF program \in {"external_corpora_expansion", "train_corpus_sampler"}
         THEN {2} ELSE External

(* The collections the query is parsed for.                                *)
Parsed ==
    IF program = "external_corpora_expansion" THEN {1, 2}
    ELSE IF program \in {"external_corpus_expansion", "external_corpus_sampler"}
         THEN Buckets ELSE Sources

ASSUME ExpansionAssumption ==
    /\ Programs \subseteq {"single_shot_expansion", "external_corpora_expansion",
                           "external_corpus_expansion", "external_corpus_sampler",
                           "train_corpus_sampler"}
    /\ Len(Collections) >= 2
    /\ \A b \in Buckets :
         LET c == Collections[b] IN
         /\ c.num_docs \in Nat \ {0} /\ DOMAIN c.lexicon \subseteq Words
         /\ \A w \in DOMAIN c.lexicon : c.lexicon[w] \in 0 .. Len(c.lists) - 1
         /\ \A v, w \in DOMAIN c.lexicon : c.lexicon[v] = c.lexicon[w] => v = w
         /\ \A d \in 0 .. c.num_docs - 1 :
              LET dv == Forward!Compress(Forward!PlainPostings(c, d)) IN
              dv.doclen > 0 => Unit % dv.doclen = 0
    /\ Lambda[1] \in 0..Lambda[2]
-----------------------------------------------------------------------------
(* The index of the collection has lists for the terms 0 .. size - 1 only. *)
InIndex(c, t) == t < Len(c.lists)

FreqIn(c, t, d) ==
    LET l == c.lists[t + 1] IN
    IF \E i \in DOMAIN l : l[i].doc = d
    THEN l[CHOOSE i \in DOMAIN l : l[i].doc = d].freq ELSE 0

(* The score of a document for terms [term, weight].                       *)
ScoreOf(c, terms, d) ==
    Forward!Total([i \in DOMAIN terms |->
                      terms[i].weight * FreqIn(c, terms[i].term, d)])

BagOfWords(ids) == [i \in DOMAIN ids |-> [term |-> ids[i], weight |-> 1]]

(* The answers a query algorithm may give.                                 *)
TopK(c, terms, most) ==
    LET score == [d \in 0 .. c.num_docs - 1 |-> ScoreOf(c, terms, d)]
        found == {d \in DOMAIN score : score[d] > 0}
        n == IF Cardinality(found) < most THEN Cardinality(found) ELSE most
    IN  {[i \in 1..n |-> [score |-> score[s[i]], doc |-> s[i]]] :
            s \in {p \in [1..n -> found] :
                     /\ \A i, j \in 1..n :
                          i < j => p[i] # p[j] /\ score[p[i]] >= score[p[j]]
                     /\ \A d \in found :
                          \/ \E i \in 1..n : p[i] = d
                          \/ \A i \in 1..n : score[p[i]] >= score[d]}}

(* A run on the target.  With weights that were divided by zero every      *)
(* document of a term scores infinity, and which of them stay is open.     *)
FinalRun(q) ==
    LET matching == {d \in 0 .. Target.num_docs - 1 :
                        ScoreOf(Target, BagOfWords([i \in DOMAIN q.terms |->
                                                      q.terms[i].term]), d) > 0}
        n == IF Cardinality(matching) < Target.final_k
             THEN Cardinality(matching) ELSE Target.final_k
    IN  IF q.denom > 0 THEN TopK(Target, q.terms, Target.final_k)
        ELSE {[i \in 1..n |-> [score |-> 0, doc |-> p[i]]] :
                p \in {f \in [1..n -> matching] :
                          \A i, j \in 1..n : i < j => f[i] # f[j]}}

(* all_subqueries: what the workers generated, and in                      *)
(* external_corpus_sampler the query of the user last.                     *)
Subqueries ==
    LET all == Forward!FlattenSeq([b \in Buckets |-> all_q[b]]) IN
    IF program = "external_corpus_sampler" THEN Append(all, parsed_query[1])
    ELSE all

WorkerPlaces == {"idle", "retrieve", "expand", "convert", "query", "run",
                 "done", "undefined"}

(* A worker that is undefined is the end of the program.                   *)
Alive == \A b \in Buckets : worker[b] # "undefined"
-----------------------------------------------------------------------------
Init ==
    /\ program \in Programs /\ query \in Queries
    /\ pc = "parse"
    /\ parsed_query = [b \in Buckets |-> <<>>]
    /\ worker = [b \in Buckets |-> "idle"]
    /\ tk = [b \in Buckets |-> <<>>]
    /\ rm = [b \in Buckets |-> [terms |-> <<>>, denom |-> Unit]]
    /\ all_q = [b \in Buckets |-> <<>>]
    /\ runs = <<>> /\ running = {} /\ final_ranking = <<>>

(* The query is parsed for its collections and the workers are started.    *)
Parse ==
    /\ pc = "parse"
    /\ parsed_query' = [b \in Buckets |->
                          IF b \in Parsed
                          THEN Weighted!ParseQuery(query, Collections[b].lexicon)
                          ELSE <<>>]
    /\ worker' = [b \in Buckets |-> IF b \in Sources THEN "retrieve" ELSE "idle"]
    /\ runs' = IF Samples THEN <<>> ELSE [i \in 1..Cardinality(Sources) |-> <<>>]
    /\ pc' = "join_workers"
    /\ UNCHANGED <<program, query, tk, rm, all_q, running, final_ranking>>

(* The bag of words is run on the collection of the worker.                *)
Retrieve(b) ==
    /\ Alive /\ worker[b] = "retrieve"
    /\ \E answer \in TopK(Collections[b], BagOfWords(parsed_query[b]),
                          Collections[b].docs_to_expand) :
         tk' = [tk EXCEPT ![b] = answer]
    /\ worker' = [worker EXCEPT ![b] = "expand"]
    /\ UNCHANGED <<program, query, pc, parsed_query, rm, all_q, runs, running,
                   final_ranking>>

(* Mutant: a worker that found nothing to expand from looks again.         *)
ExpandLookingAgain(b) ==
    /\ Alive /\ worker[b] = "expand"
    /\ IF Forward!HasNoModel(Collections[b], tk[b])
       THEN worker' = [worker EXCEPT ![b] = "retrieve"] /\ UNCHANGED rm
       ELSE /\ \E terms \in Forward!RmExpander(Collections[b], tk[b],
                                               Collections[b].terms_to_expand) :
                 rm' = [rm EXCEPT ![b] = [terms |-> terms, denom |-> Unit]]
            /\ worker' = [worker EXCEPT ![b] = "convert"]
    /\ UNCHANGED <<program, query, pc, parsed_query, tk, all_q, runs, running,
                   final_ranking>>

(* rm_expander on what was retrieved.                                      *)
Expand(b) ==
    /\ Alive /\ worker[b] = "expand"
    /\ IF Forward!HasNoModel(Collections[b], tk[b])
       THEN worker' = [worker EXCEPT ![b] = "undefined"] /\ UNCHANGED rm
       ELSE /\ \E terms \in Forward!RmExpander(Collections[b], tk[b],
                                               Collections[b].terms_to_expand) :
                 rm' = [rm EXCEPT ![b] = [terms |-> terms, denom |-> Unit]]
            /\ worker' = [worker EXCEPT ![b] = "convert"]
    /\ UNCHANGED <<program, query, pc, parsed_query, tk, all_q, runs, running,
                   final_ranking>>

(* Mutant: the parsed query is not converted to terms of the target.       *)
ConvertModelOnly(b) ==
    LET back_map == Weighted!BackMap(Collections[b].lexicon, Target.lexicon) IN
    /\ Alive /\ worker[b] = "convert"
    /\ rm' = [rm EXCEPT ![b] = IF b = 1 THEN Weighted!NormalizeWeightedQuery(@)
                               ELSE Weighted!NormalizeWeightedQueryExt(@, back_map)]
    /\ worker' = [worker EXCEPT ![b] = "query"]
    /\ UNCHANGED <<program, query, pc, parsed_query, tk, all_q, runs, running,
                   final_ranking>>

(* The model is normalised; from an external collection both it and the    *)
(* parsed query are converted to terms of the target.                      *)
Convert(b) ==
    LET back_map == Weighted!BackMap(Collections[b].lexicon, Target.lexicon) IN
    /\ Alive /\ worker[b] = "convert"
    /\ rm' = [rm EXCEPT ![b] = IF b = 1 THEN Weighted!NormalizeWeightedQuery(@)
                               ELSE Weighted!NormalizeWeightedQueryExt(@, back_map)]
    /\ parsed_query' = [parsed_query EXCEPT ![b] =
                          IF b = 1 THEN @
                          ELSE Weighted!QueryFromExtToSrc(@, back_map)]
    /\ worker' = [worker EXCEPT ![b] = "query"]
    /\ UNCHANGED <<program, query, pc, tk, all_q, runs, running,
                   final_ranking>>

(* add_original_query.                                                     *)
AddOriginalTerms(b) ==
    /\ Alive /\ worker[b] = "query" /\ ~Samples
    /\ rm' = [rm EXCEPT ![b] =
                 Weighted!AddOriginalQuery(Lambda[1], Lambda[2], @, parsed_query[b])]
    /\ worker' = [worker EXCEPT ![b] = "run"]
    /\ UNCHANGED <<program, query, pc, parsed_query, tk, all_q, runs, running,
                   final_ranking>>

(* The expanded query is run on the target by the same worker, unless it   *)
(* asks for a list the index does not have.                                *)
RunExpanded(b) ==
    LET slot == IF program = "external_corpus_expansion" THEN b - 1 ELSE 1 IN
    /\ Alive /\ worker[b] = "run"
    /\ IF \E i \in DOMAIN rm[b].terms : ~InIndex(Target, rm[b].terms[i].term)
       THEN worker' = [worker EXCEPT ![b] = "undefined"] /\ UNCHANGED runs
       ELSE /\ \E answer \in FinalRun(rm[b]) :
                 runs' = [runs EXCEPT ![slot] = answer]
            /\ worker' = [worker EXCEPT ![b] = "done"]
    /\ UNCHANGED <<program, query, pc, parsed_query, tk, rm, all_q, running,
                   final_ranking>>

(* generate_query_batch; a draw past the end of the model is undefined.    *)
Generate(b) ==
    /\ Alive /\ worker[b] = "query" /\ Samples
    /\ \/ /\ Sampler!MayMiss(rm[b])
          /\ worker' = [worker EXCEPT ![b] = "undefined"] /\ UNCHANGED all_q
       \/ /\ \E batch \in Sampler!GenerateQueryBatch(rm[b], parsed_query[b],
                                                      GenQueries) :
               all_q' = [all_q EXCEPT ![b] = batch]
          /\ worker' = [worker EXCEPT ![b] = "done"]
    /\ UNCHANGED <<program, query, pc, parsed_query, tk, rm, runs, running,
                   final_ranking>>

Worker(b) ==
    \/ Retrieve(b) \/ Expand(b) \/ Convert(b)
    \/ AddOriginalTerms(b) \/ RunExpanded(b) \/ Generate(b)

(* The main thread joins the workers; what they generated is run next.     *)
JoinWorkers ==
    /\ pc = "join_workers"
    /\ \A b \in Sources : worker[b] = "done"
    /\ runs' = IF Samples THEN [i \in DOMAIN Subqueries |-> <<>>] ELSE runs
    /\ running' = IF Samples THEN DOMAIN Subqueries ELSE {}
    /\ pc' = IF Samples THEN "join_runs" ELSE "fuse"
    /\ UNCHANGED <<program, query, parsed_query, worker, tk, rm, all_q,
                   final_ranking>>

(* Mutant: the thread captures bucket by reference and sees it moved on.   *)
RunSubqueryByReference(i) ==
    /\ pc = "join_runs" /\ i \in running
    /\ \E j \in i .. Len(runs) :
       \E answer \in FinalRun([terms |-> BagOfWords(Subqueries[j]), denom |-> 1]) :
         runs' = [runs EXCEPT ![i] = answer]
    /\ running' = running \ {i}
    /\ UNCHANGED <<program, query, pc, parsed_query, worker, tk, rm, all_q,
                   final_ranking>>

(* The thread of one query of the list.                                    *)
RunSubquery(i) ==
    /\ pc = "join_runs" /\ i \in running
    /\ \E answer \in FinalRun([terms |-> BagOfWords(Subqueries[i]), denom |-> 1]) :
         runs' = [runs EXCEPT ![i] = answer]
    /\ running' = running \ {i}
    /\ UNCHANGED <<program, query, pc, parsed_query, worker, tk, rm, all_q,
                   final_ranking>>

JoinRuns ==
    /\ pc = "join_runs"
    /\ running = {}
    /\ pc' = "fuse"
    /\ UNCHANGED <<program, query, parsed_query, worker, tk, rm, all_q, runs,
                   running, final_ranking>>

(***************************************************************************)
(* document_fuser.hpp: reciprocal rank fusion of several rankings.  Scores *)
(* are integers in units of 1/Common, where every 60 + j + 1 that occurs   *)
(* divides Common.                                                         *)
(***************************************************************************)
k == 60

RankShare(i, j) == Common \div (k + j)

(* accum: what each document collects over all lists.                      *)
Accum(res_lists) ==
    LET places == UNION {{i} \X DOMAIN res_lists[i] : i \in DOMAIN res_lists}
        holders(d) == {p \in places : res_lists[p[1]][p[2]].doc = d}
    IN  [d \in {res_lists[p[1]][p[2]].doc : p \in places} |->
            FoldSet(LAMBDA p, sum : RankShare(p[1], p[2]) + sum, 0, holders(d))]

(* hot_fuse: the documents by decreasing score, equal ones in any order.   *)
HotFuse(res_lists) ==
    LET accum == Accum(res_lists)
        n == Cardinality(DOMAIN accum)
    IN  {[i \in 1..n |-> [score |-> accum[p[i]], doc |-> p[i]]] :
            p \in {q \in Bijection(1..n, DOMAIN accum) :
                      \A i, j \in 1..n : i < j => accum[q[i]] >= accum[q[j]]}}

(* Mutant: the fused ranking is not cut.                                   *)
FuseUncut ==
    /\ pc = "fuse"
    /\ IF Fuses THEN \E fused \in HotFuse(runs) : final_ranking' = fused
       ELSE final_ranking' = runs[1]
    /\ pc' = "done"
    /\ UNCHANGED <<program, query, parsed_query, worker, tk, rm, all_q, runs,
                   running>>

(* Rankings are fused and cut to final_k; a single one is the answer.      *)
Fuse ==
    /\ pc = "fuse"
    /\ IF Fuses
       THEN \E fused \in HotFuse(runs) :
              final_ranking' = IF Len(fused) > Target.final_k
                               THEN SubSeq(fused, 1, Target.final_k) ELSE fused
       ELSE final_ranking' = runs[1]
    /\ pc' = "done"
    /\ UNCHANGED <<program, query, parsed_query, worker, tk, rm, all_q, runs,
                   running>>

Main == Parse \/ JoinWorkers \/ JoinRuns \/ Fuse

(* The program has returned, or a worker was undefined.                    *)
Over == pc = "done" \/ ~Alive

Next ==
    \/ Main
    \/ \E b \in Buckets : Worker(b)
    \/ \E i \in running : RunSubquery(i)
    \/ Over /\ UNCHANGED vars

Spec == Init /\ [][Next]_vars

(* The steps of the threads as what they change: a worker and the main     *)
(* thread move to another place, the thread of a run ends.                 *)
WorkerMoves(b) ==
    /\ Alive /\ worker[b] \notin {"idle", "done"}
    /\ \E next \in WorkerPlaces \ {worker[b]} : worker' = [worker EXCEPT ![b] = next]

MainMoves ==
    /\ pc = "join_workers" => \A b \in Sources : worker[b] = "done"
    /\ pc = "join_runs" => running = {}
    /\ pc # "done"
    /\ \E next \in {"join_workers", "join_runs", "fuse", "done"} \ {pc} : pc' = next

SomeRunEnds == \E i \in running : running' = running \ {i}

(* Every thread is a thread of the system: none is kept from running.      *)
FairSpec ==
    /\ Spec
    /\ WF_pc(MainMoves)
    /\ \A b \in Buckets : WF_worker(WorkerMoves(b))
    /\ WF_running(SomeRunEnds)
-----------------------------------------------------------------------------
TypeOK ==
    /\ program \in Programs /\ query \in Queries
    /\ pc \in {"parse", "join_workers", "join_runs", "fuse", "done"}
    /\ \A b \in Buckets :
         /\ worker[b] \in WorkerPlaces
         /\ parsed_query[b] \in Seq(Nat)
         /\ Len(tk[b]) <= Collections[b].docs_to_expand
         /\ rm[b].denom \in Nat
         /\ \A i \in DOMAIN rm[b].terms :
              rm[b].terms[i].term \in Nat /\ rm[b].terms[i].weight \in Nat
         /\ \A i \in DOMAIN all_q[b] : all_q[b][i] \in Seq(Nat)
    /\ \A i \in DOMAIN runs : Len(runs[i]) <= Target.final_k
    /\ running \subseteq DOMAIN runs
    /\ Len(final_ranking) <= Target.final_k

(* The relevance model by its definition: the weight of a term is the sum, *)
(* over the feedback documents, of the document's score times the share of *)
(* the term in the document, stopped terms not counted.                    *)
Kept(c) == (0 .. Len(c.lists) - 1) \ c.stoplist

Share(c, t, d) ==
    LET length == Forward!Total([u \in 1..Len(c.lists) |->
                      IF u - 1 \in Kept(c) THEN FreqIn(c, u - 1, d) ELSE 0])
    IN  (FreqIn(c, t, d) * Unit) \div length

ModelWeight(c, docs, t) ==
    Forward!Total([i \in DOMAIN docs |->
        IF FreqIn(c, t, docs[i].doc) = 0 THEN 0
        ELSE docs[i].score * Share(c, t, docs[i].doc)])

(* rm_expander returns the terms_to_expand heaviest terms of the relevance *)
(* model, each once and with its weight.  The term the loader makes up     *)
(* comes after all of them and weighs nothing.                             *)
ExpansionIsRelevanceModel ==
    \A b \in Buckets : worker[b] = "convert" =>
        LET c == Collections[b]
            terms == rm[b].terms
            real == {i \in DOMAIN terms : InIndex(c, terms[i].term)}
        IN
        /\ \A i \in real :
             /\ terms[i].term \in Kept(c)
             /\ terms[i].weight = ModelWeight(c, tk[b], terms[i].term)
             /\ \A j \in real :
                  i < j => /\ terms[i].term # terms[j].term
                           /\ terms[i].weight >= terms[j].weight
        /\ \A i \in DOMAIN terms \ real : terms[i].weight = 0
        /\ \A t \in Kept(c) :
             ModelWeight(c, tk[b], t) > 0 /\ (\A i \in real : terms[i].term # t)
             => /\ Len(terms) = c.terms_to_expand
                /\ \A i \in DOMAIN terms :
                     terms[i].weight >= ModelWeight(c, tk[b], t)

(* Whatever a worker asks of the target, a generated query or an expanded  *)
(* one, it means words of the query or of its own feedback documents: no   *)
(* term id of an external collection is taken for one of the target.       *)
MeantWords(b) ==
    LET c == Collections[b] IN
    {w \in Words : \E i \in DOMAIN query : query[i] = w} \cup
    {w \in DOMAIN c.lexicon :
        /\ c.lexicon[w] \in Kept(c)
        /\ \E i \in DOMAIN tk[b] : FreqIn(c, c.lexicon[w], tk[b][i].doc) > 0}

Means(t, words) == \E w \in words \cap DOMAIN Target.lexicon : Target.lexicon[w] = t

QueriesKeepTheirWords ==
    \A b \in Buckets :
        /\ \A i \in DOMAIN all_q[b] : \A j \in DOMAIN all_q[b][i] :
             Means(all_q[b][i][j], MeantWords(b))
        /\ worker[b] \in {"run", "done"} =>
             \A i \in DOMAIN rm[b].terms :
                \/ Means(rm[b].terms[i].term, MeantWords(b))
                \/ b = 1 /\ ~InIndex(Target, rm[b].terms[i].term)

(* The fused ranking is the fusion of the answers to all the queries: none *)
(* is missing, each is the answer to its own query, each document has what *)
(* its places earn it, and no document that is left out has more.          *)
QueryOfRun(i) ==
    IF Samples THEN [terms |-> BagOfWords(Subqueries[i]), denom |-> 1]
    ELSE rm[i + 1]

Earned(d) ==
    Forward!Total([i \in DOMAIN runs |->
        Forward!Total([j \in DOMAIN runs[i] |->
            IF runs[i][j].doc = d THEN Common \div (k + j) ELSE 0])])

FusionIsOfAllRuns ==
    pc = "done" /\ Fuses =>
        /\ \A i \in DOMAIN runs : runs[i] \in FinalRun(QueryOfRun(i))
        /\ \A i \in DOMAIN final_ranking :
             /\ final_ranking[i].score = Earned(final_ranking[i].doc)
             /\ i > 1 => final_ranking[i - 1].score >= final_ranking[i].score
        /\ \A d \in 0 .. Target.num_docs - 1 :
             Earned(d) > 0 /\ (\A i \in DOMAIN final_ranking :
                                final_ranking[i].doc # d)
             => /\ Len(final_ranking) = Target.final_k
                /\ \A i \in DOMAIN final_ranking :
                     final_ranking[i].score >= Earned(d)

(* When a worker may go wrong: no feedback document was found; only words  *)
(* of the stoplist are in one that the loader gives postings to; a query is*)
(* drawn from a model in which every weight is below 1, so that its        *)
(* truncated sum is 0; or the term the loader makes up, which only the     *)
(* vector of document 0 has, is asked of the index.                        *)
UndefinedOnlyIf ==
    \A b \in Buckets : worker[b] = "undefined" =>
        \/ tk[b] = <<>>
        \/ \E i \in DOMAIN tk[b] : \A t \in Kept(Collections[b]) :
             FreqIn(Collections[b], t, tk[b][i].doc) = 0
        \/ /\ Samples
           /\ \A i \in DOMAIN rm[b].terms : rm[b].terms[i].weight < rm[b].denom
        \/ /\ program = "single_shot_expansion"
           /\ \E i \in DOMAIN tk[b] : tk[b][i].doc = 0

(* Every query is answered, unless the program is undefined: no thread     *)
(* waits for a thread that does not end.                                   *)
Answered == <>Over

(* lambda_expand is the weight given to the original query, and 1 - lambda *)
(* is given to the expanded query.  It is not: the weights of the model    *)
(* are divided by the sum of their integer parts.                          *)
ExpandedGetTheRest ==
    \A b \in Buckets : worker[b] = "run" /\ rm[b].denom > 0 =>
        LET expanded == SubSeq(rm[b].terms, 1,
                               Len(rm[b].terms) - Len(parsed_query[b]))
            total == Forward!Total([i \in DOMAIN expanded |-> expanded[i].weight])
        IN  expanded # <<>> =>
                total * Lambda[2] = (Lambda[2] - Lambda[1]) * rm[b].denom
=============================================================================
