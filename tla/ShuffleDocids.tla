---------------------------- MODULE ShuffleDocids ----------------------------
(***************************************************************************)
(* src/shuffle_docids.cpp: writes a collection with other numbers for its  *)
(* documents, those of an order file or random ones.  The order file has a *)
(* line for each document, with its number and the new one.                *)
(***************************************************************************)
EXTENDS InputCollection, SequencesExt

VARIABLES
    input,      \* the program, its options and files
    pc,         \* where the program is
    ended,      \* how it ended
    it,         \* the iterator over the collection
    new_doc_id, \* by the number of the document
    count,      \* the lines of the order file that were read
    output      \* the files that are written

vars == <<input, pc, ended, it, new_doc_id, count, output>>

Files == input.files
Known == DOMAIN new_doc_id

Init ==
    /\ new_doc_id = <<>> /\ count = 0
    /\ output = [sizes |-> <<>>, docs |-> <<>>, freqs |-> <<>>]

End(how) ==
    /\ pc' = "over" /\ ended' = how
    /\ UNCHANGED it

GoOn(to) == pc' = to /\ UNCHANGED <<ended, it>>

(* The next list of the collection, unless it is out of the file.          *)
GoOnWith(next_it) ==
    IF Out(next_it) THEN End("undefined")
    ELSE pc' = "shuffle" /\ it' = next_it /\ UNCHANGED ended

(* All documents have the number 0 until an order is known.                *)
Open ==
    /\ pc = "open"
    /\ IF BadHeader(Files) THEN End("throws") /\ UNCHANGED new_doc_id
       ELSE LET documents == 0 .. num_docs(Files) - 1 IN
            IF input.order = "random"
            THEN /\ new_doc_id' \in Bijection(documents, documents)
                 /\ GoOn("sizes")
            ELSE /\ new_doc_id' = [d \in documents |-> 0]
                 /\ GoOn("order")
    /\ UNCHANGED <<input, count, output>>

(* A line of the order file, with a document that there should be.         *)
ReadLine ==
    /\ pc = "order" /\ count < Len(input.lines)
    /\ LET line == input.lines[count + 1] IN
       IF line.prev_id \in Known
       THEN /\ new_doc_id' = [new_doc_id EXCEPT ![line.prev_id] = line.new_id]
            /\ count' = count + 1
            /\ GoOn("order")
       ELSE End("undefined") /\ UNCHANGED <<new_doc_id, count>>
    /\ UNCHANGED <<input, output>>

(* As many lines are wanted as there are documents.                        *)
OrderIsRead ==
    /\ pc = "order" /\ count = Len(input.lines)
    /\ IF count # Cardinality(Known) THEN End("throws") ELSE GoOn("sizes")
    /\ UNCHANGED <<input, new_doc_id, count, output>>

(* The sizes of the documents: the last of those with one number stays.    *)
ShuffleSizes ==
    /\ pc = "sizes"
    /\ LET sizes == First(input.sizes)
           n == Cardinality(Known)
           size(d) == input.sizes[sizes.begin + d + 1]
           new_size(d) == FoldLeft(
                LAMBDA s, old : IF new_doc_id[old] = d THEN size(old) ELSE s,
                0, [i \in 1..n |-> i - 1])
       IN  IF sizes.out THEN End("undefined") /\ UNCHANGED output
           ELSE IF sizes.size # n THEN End("throws") /\ UNCHANGED output
           ELSE IF ~ Range(new_doc_id) \subseteq Known
           THEN End("undefined") /\ UNCHANGED output
           ELSE /\ output' = [sizes |-> <<n>> \o [i \in 1..n |-> new_size(i - 1)],
                              docs |-> <<1, n>>, freqs |-> <<>>]
                /\ GoOnWith(Begin(Files))
    /\ UNCHANGED <<input, new_doc_id, count>>

(* The postings of a list by their new numbers; those with one number by   *)
(* their frequencies.                                                      *)
Renumbered(docs, freqs) ==
    SortSeq([i \in DOMAIN docs |-> <<new_doc_id[docs[i]], freqs[i]>>],
            LAMBDA p, q : p[1] < q[1] \/ (p[1] = q[1] /\ p[2] < q[2]))

(* Mutant: the frequencies are written in the order they have.             *)
ShuffleDocsOnly ==
    /\ pc = "shuffle" /\ ~AtEnd(Files, it)
    /\ LET pl == Renumbered(Docs(Files, it), Freqs(Files, it)) IN
       IF ~Readable(Files, it) THEN End("undefined") /\ UNCHANGED output
       ELSE /\ output' = [output EXCEPT
                    !.docs = @ \o <<Len(pl)>> \o [i \in DOMAIN pl |-> pl[i][1]],
                    !.freqs = @ \o <<Len(pl)>> \o Freqs(Files, it)]
            /\ GoOnWith(Advance(Files, it))
    /\ UNCHANGED <<input, new_doc_id, count>>

ShuffleList ==
    /\ pc = "shuffle" /\ ~AtEnd(Files, it)
    /\ LET pl == Renumbered(Docs(Files, it), Freqs(Files, it)) IN
       IF ~Readable(Files, it) THEN End("undefined") /\ UNCHANGED output
       ELSE /\ output' = [output EXCEPT
                    !.docs = @ \o <<Len(pl)>> \o [i \in DOMAIN pl |-> pl[i][1]],
                    !.freqs = @ \o <<Len(pl)>> \o [i \in DOMAIN pl |-> pl[i][2]]]
            /\ GoOnWith(Advance(Files, it))
    /\ UNCHANGED <<input, new_doc_id, count>>

Done ==
    /\ pc = "shuffle" /\ AtEnd(Files, it)
    /\ End("built")
    /\ UNCHANGED <<input, new_doc_id, count, output>>

Next == Open \/ ReadLine \/ OrderIsRead \/ ShuffleSizes \/ ShuffleList \/ Done
=============================================================================
