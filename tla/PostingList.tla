----------------------------- MODULE PostingList -----------------------------
(***************************************************************************)
(* What a document_enumerator promises, whatever the index type: it is at  *)
(* a position of a posting list, a strictly increasing sequence of         *)
(* documents with a frequency each, or behind the last, where its document *)
(* is the number of documents; it answers with the document and, if asked, *)
(* the frequency there.  Positions count from 0.                           *)
(***************************************************************************)
EXTENDS Integers, Sequences, FiniteSets

CONSTANT
    NumDocs     \* the number of documents of the index

VARIABLES
    list,       \* the posting list
    position,   \* where the enumerator is
    docid,      \* docid()
    asked,      \* the last call and its argument
    answer      \* what freq() returned last, 0 when it was not asked

vars == <<list, position, docid, asked, answer>>

IsPostingList(l) ==
    /\ l \in [docs : Seq(0 .. NumDocs - 1), freqs : Seq(Nat \ {0})]
    /\ Len(l.docs) > 0 /\ Len(l.freqs) = Len(l.docs)
    /\ \A i, j \in DOMAIN l.docs : i < j => l.docs[i] < l.docs[j]

DocAt(p) == IF p = Len(list.docs) THEN NumDocs ELSE list.docs[p + 1]

Go(p) ==
    /\ position' = p
    /\ docid' = DocAt(p)
    /\ UNCHANGED <<list, answer>>

Init ==
    /\ IsPostingList(list)
    /\ position = 0
    /\ docid = DocAt(0)
    /\ asked = <<"reset">>
    /\ answer = 0

AskFreq ==
    /\ position < Len(list.docs)
    /\ asked' = <<"freq">>
    /\ answer' = list.freqs[position + 1]
    /\ UNCHANGED <<list, position, docid>>

Reset == asked' = <<"reset">> /\ Go(0)

Advance ==
    /\ position < Len(list.docs)
    /\ asked' = <<"next">>
    /\ Go(position + 1)

(* To the first document from lower_bound on.                              *)
Seek(lower_bound) ==
    /\ asked' = <<"next_geq", lower_bound>>
    /\ Go(Cardinality({i \in DOMAIN list.docs : list.docs[i] < lower_bound}))

Move(p) ==
    /\ asked' = <<"move", p>>
    /\ Go(p)

Next ==
    \/ AskFreq \/ Reset \/ Advance
    \/ \E lower_bound \in 0 .. NumDocs : Seek(lower_bound)
    \/ \E p \in 0 .. Len(list.docs) : Move(p)

Spec == Init /\ [][Next]_vars
=============================================================================
