-------------------------- MODULE MCExpansionTools --------------------------
(* Small instances of ExpansionTools for TLC. *)
EXTENDS ExpansionTools, TLC, Functions

(* Postings of a list, by pairs of document and frequency.                 *)
Postings(pairs) == [i \in DOMAIN pairs |-> [doc |-> pairs[i][1], freq |-> pairs[i][2]]]

(* The target knows b and a.                                               *)
MCTarget ==
    [num_docs |-> 3, lexicon |-> "b" :> 0 @@ "a" :> 1, stoplist |-> {},
     lists |-> <<Postings(<<<<1, 2>>, <<2, 1>>>>), Postings(<<<<0, 2>>, <<2, 1>>>>)>>,
     docs_to_expand |-> 2, terms_to_expand |-> 2, final_k |-> 2]

(* One external collection has a, c and b; its last list holds document 0. *)
MCFirst ==
    [num_docs |-> 2, lexicon |-> "a" :> 0 @@ "c" :> 1 @@ "b" :> 2, stoplist |-> {},
     lists |-> <<Postings(<<<<0, 1>>, <<1, 3>>>>), Postings(<<<<1, 2>>>>),
                 Postings(<<<<0, 1>>, <<1, 1>>>>)>>,
     docs_to_expand |-> 2, terms_to_expand |-> 2, final_k |-> 2]

(* The other one has c and b only, and stops c.                            *)
MCSecond ==
    [num_docs |-> 2, lexicon |-> "c" :> 0 @@ "b" :> 1, stoplist |-> {0},
     lists |-> <<Postings(<<<<0, 1>>, <<1, 1>>>>), Postings(<<<<1, 2>>>>)>>,
     docs_to_expand |-> 1, terms_to_expand |-> 0, final_k |-> 2]

MCCollections == <<MCTarget, MCFirst, MCSecond>>

MCQueries == {<<"a", "b">>, <<"b", "b">>, <<"a">>, <<"c", "b">>, <<"c">>}

MCLambda == <<1, 4>>

-----------------------------------------------------------------------------
(* The codec of document vectors, on lists longer than those above: every  *)
(* width in blocks of every type, tails of every kind, and runs of ones.   *)
Largest == <<0, 1, 3, 7, 15, 31, 63, 127, 255, 511, 1023, 4095, 65535, 2097151,
             2147483647>>

(* n integers: every p-th is v, the others are w.                          *)
Mixed(n, v, w, p) == [i \in 1..n |-> IF i % p = 0 THEN v ELSE w]

MCVectors ==
    {Mixed(n, v, w, 9) : n \in (1..8) \cup {12, 15, 16, 17, 28, 40},
                         v \in Range(Largest), w \in {0, 1, 31}}
    \cup {Mixed(n, v, 15, 5) : n \in {36, 72}, v \in Range(Largest)}
    \cup {Mixed(n, v, 1, 150) : n \in {128, 131, 256, 260}, v \in {0, 1, 3}}

(* decodeArray, which is not told how long the list is, writes the list    *)
(* and nothing behind it, because every block of a run is full.            *)
ASSUME CodecAssumption ==
    \A source \in MCVectors :
        /\ Forward!Codec!DecodeArray(Forward!Codec!EncodeArray(source)) = source
        /\ \A r \in Range(Forward!Codec!Runs(source, Forward!Codec!Widths(source))) :
              Len(r.in) % Forward!Codec!BlockCount(r.width) = 0

(* A last block of less than 16 integers is meant to take 8 bits for each  *)
(* if they fit; it is promoted further.                                    *)
ASSUME ShortEndAssumption ==
    \A n \in 1..15 : 8 \notin Range(Forward!Codec!Widths(Mixed(n, 255, 7, 3)))
=============================================================================
