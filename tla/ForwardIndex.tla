---------------------------- MODULE ForwardIndex ----------------------------
(***************************************************************************)
(* document_index and document_vector of src/docvector: the terms of every *)
(* document, and the relevance model of some feedback documents.           *)
(*                                                                         *)
(* A collection is what its two ds2i files hold: num_docs, and lists, the  *)
(* postings [doc, freq] of each term in the order of the documents; the    *)
(* list of term t is lists[t + 1].  stoplist is a set of terms to leave    *)
(* out.  Documents and terms count from 0.                                 *)
(***************************************************************************)
EXTENDS Integers, Sequences, FiniteSets, SequencesExt

CONSTANT
    Unit    \* weights are integer multiples of 1/Unit: every document
            \* length divides it

Codec == INSTANCE Qmx

(* uint32_t(-1), an id above that of every term.                           *)
DummyId == 2147483647

Total(s) == FoldSeq(LAMBDA x, sum : x + sum, 0, s)

(* The postings that pass t of the loading loop reads.  The loop tests the *)
(* end of the files before it reads, so there is one pass after the last   *)
(* list: its reads fail, d_seq_len keeps the length of the last list, and  *)
(* docid and fdt stay 0.                                                   *)
ReadList(coll, t) ==
    LET n == Len(coll.lists) IN
    IF t < n THEN coll.lists[t + 1]
    ELSE [i \in 1 .. IF n = 0 THEN 0 ELSE Len(coll.lists[n]) |->
             [doc |-> 0, freq |-> 0]]

NoTerms(coll) == Len(coll.lists) + 1

(* plain_terms[d] and plain_freqs[d].                                      *)
PlainPostings(coll, d) ==
    FlattenSeq([t \in 1..NoTerms(coll) |->
        IF t - 1 \in coll.stoplist THEN <<>>
        ELSE LET own == SelectSeq(ReadList(coll, t - 1),
                                  LAMBDA p : p.doc = d)
             IN  [i \in 1..Len(own) |->
                     [term |-> t - 1, freq |-> own[i].freq]]])

(* fastDelta and what decompress_terms does with its gaps.                 *)
Deltas(s) == [i \in 1..Len(s) |-> IF i = 1 THEN s[1] ELSE s[i] - s[i - 1]]

PrefixSums(s) ==
    LET sum[i \in 0..Len(s)] == IF i = 0 THEN 0 ELSE sum[i - 1] + s[i]
    IN  [i \in 1..Len(s) |-> sum[i]]

(* A document_vector: its length and its compressed lists.                 *)
Compress(plain) ==
    [doclen |-> Total([i \in 1..Len(plain) |-> plain[i].freq]),
     terms  |-> Codec!EncodeArray(Deltas([i \in 1..Len(plain) |-> plain[i].term])),
     freqs  |-> Codec!EncodeArray([i \in 1..Len(plain) |-> plain[i].freq])]

(* What a vector_iterator runs over: begin() decompresses the lists and    *)
(* puts a dummy id behind them.                                            *)
Decoded(dv) ==
    LET lists(terms, freqs) ==
            [i \in 1 .. Len(terms) + 1 |->
                IF i <= Len(terms) THEN [term |-> terms[i], freq |-> freqs[i]]
                ELSE [term |-> DummyId, freq |-> DummyId]]
    IN  lists(PrefixSums(Codec!DecodeArray(dv.terms)), Codec!DecodeArray(dv.freqs))

(* The vector_wrapper of a feedback document.                              *)
Wrapper(coll, entry) ==
    LET dv == Compress(PlainPostings(coll, entry.doc)) IN
    [postings |-> Decoded(dv), doc_len |-> dv.doclen, doc_score |-> entry.score]

(***************************************************************************)
(* get_rm_daat: the feedback documents are merged term by term.  A pass    *)
(* adds up the parts of the documents that are at cur_term, moves them on  *)
(* and takes the least term they are at now, no_terms at the end.          *)
(***************************************************************************)
LeastTerm(ws, pos, no_terms) ==
    LET terms == {no_terms} \cup {ws[i].postings[pos[i]].term : i \in DOMAIN ws}
    IN  CHOOSE t \in terms : \A u \in terms : t <= u

DaatStart(ws, no_terms) ==
    LET pos == [i \in DOMAIN ws |-> 1] IN
    [cur_term |-> LeastTerm(ws, pos, no_terms), pos |-> pos, result |-> <<>>]

(* doc_score * (freq / doc_len).                                           *)
PartOf(w, p) == w.doc_score * w.postings[p].freq * (Unit \div w.doc_len)

DaatPass(ws, no_terms, s) ==
    LET here(i) == ws[i].postings[s.pos[i]].term = s.cur_term
        pos == [i \in DOMAIN ws |-> IF here(i) THEN s.pos[i] + 1 ELSE s.pos[i]]
        score == Total([i \in DOMAIN ws |->
                           IF here(i) THEN PartOf(ws[i], s.pos[i]) ELSE 0])
    IN  [cur_term |-> LeastTerm(ws, pos, no_terms), pos |-> pos,
         result |-> Append(s.result, [term |-> s.cur_term, weight |-> score])]

GetRmDaat(ws, no_terms) ==
    LET most == Total([i \in DOMAIN ws |-> Len(ws[i].postings)])
        pass[n \in 0..most] ==
            IF n = 0 THEN DaatStart(ws, no_terms)
            ELSE LET s == pass[n - 1] IN
                 IF s.cur_term < no_terms THEN DaatPass(ws, no_terms, s) ELSE s
    IN  pass[most].result

(* std::sort by decreasing weight leaves terms of equal weight in any      *)
(* order.                                                                  *)
ByWeight(result) ==
    {[i \in DOMAIN result |-> result[p[i]]] :
        p \in {q \in Bijection(DOMAIN result, DOMAIN result) :
                  \A i, j \in DOMAIN result :
                      i < j => result[q[i]].weight >= result[q[j]].weight}}

(* Mutant: the result is cut before it is sorted.                          *)
RmExpanderCutFirst(coll, retrieval, terms_to_expand) ==
    LET ws == [i \in 1..Len(retrieval) |-> Wrapper(coll, retrieval[i])]
        all == GetRmDaat(ws, NoTerms(coll))
        few == SubSeq(all, 1, terms_to_expand)
    IN  ByWeight(IF terms_to_expand > 0 /\ Len(all) > terms_to_expand
                 THEN few ELSE all)

(* When rm_expander is undefined.  On no documents get_rm_daat             *)
(* dereferences the least element of nothing.  A document of length 0 that *)
(* has postings, those of the failed reads, weighs them 0 / 0, and what is *)
(* not a number is not ordered.                                            *)
HasNoModel(coll, retrieval) ==
    \/ retrieval = <<>>
    \/ \E i \in DOMAIN retrieval :
          LET dv == Compress(PlainPostings(coll, retrieval[i].doc)) IN
          dv.doclen = 0 /\ dv.terms # <<>>

RmExpander(coll, retrieval, terms_to_expand) ==
    LET ws == [i \in 1..Len(retrieval) |-> Wrapper(coll, retrieval[i])] IN
    {IF terms_to_expand > 0 /\ Len(r) > terms_to_expand
     THEN SubSeq(r, 1, terms_to_expand) ELSE r :
        r \in ByWeight(GetRmDaat(ws, NoTerms(coll)))}
=============================================================================
