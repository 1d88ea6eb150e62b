--------------------------- MODULE InputCollection ---------------------------
(***************************************************************************)
(* src/binary_collection.hpp and src/binary_freq_collection.hpp: the files *)
(* an index is built from.  A file is a sequence of numbers, each list in  *)
(* it its length and then its members; files.docs starts with a list of    *)
(* one member, the number of documents, files.freqs does not.  An iterator *)
(* has the position of its list, that of the next one, and where the       *)
(* members begin and how many there are; out tells that it has read past   *)
(* the end of the file.                                                    *)
(***************************************************************************)
EXTENDS Integers, Sequences, FiniteSetsExt

(* Mutant: a list without members is a list.                               *)
ReadOfAny(data, it) ==
    LET n == Min({data[it.pos + 1], Len(data) - it.pos - 1})
    IN  IF it.pos = Len(data) THEN it
        ELSE [it EXCEPT !.next_pos = it.pos + 1 + n,
                        !.begin = it.pos + 1, !.size = n]

(* read(): empty lists are skipped, without looking where the file ends;   *)
(* a list that is cut short has the members that are left, even none.  At  *)
(* the end of the file the iterator keeps its list.                        *)
Read(data, it) ==
    LET lengths == {p \in it.pos .. Len(data) - 1 : data[p + 1] # 0}
        begin == Min(lengths) + 1
        n == Min({data[begin], Len(data) - begin})
    IN  IF it.pos = Len(data) THEN it
        ELSE IF lengths = {} THEN [it EXCEPT !.out = TRUE]
        ELSE [it EXCEPT !.next_pos = begin + n, !.begin = begin, !.size = n]

Unread ==
    [pos |-> 0, next_pos |-> 0, begin |-> 0, size |-> 0, out |-> FALSE]
First(data) == Read(data, Unread)

Increment(data, it) == Read(data, [it EXCEPT !.pos = it.next_pos])

(* The n numbers at the beginning of the list: those asked for, which are  *)
(* not always those it has.                                                *)
InFile(data, it, n) == it.begin + n <= Len(data)
Members(data, it, n) == SubSeq(data, it.begin + 1, it.begin + n)

(* The constructor of binary_freq_collection throws on these.              *)
BadHeader(files) == First(files.docs).size # 1
num_docs(files) == files.docs[First(files.docs).begin + 1]

(* Its iterator goes through both files in step; only the documents tell   *)
(* it where to stop.                                                       *)
Begin(files) ==
    [docs |-> Increment(files.docs, First(files.docs)),
     freqs |-> First(files.freqs)]

Advance(files, it) ==
    [docs |-> Increment(files.docs, it.docs),
     freqs |-> Increment(files.freqs, it.freqs)]

AtEnd(files, it) == it.docs.pos = Len(files.docs)
Out(it) == it.docs.out \/ it.freqs.out

(* docs and freqs of the list, as everything that builds something of it   *)
(* reads them: as many frequencies as there are documents.                 *)
Docs(files, it) == Members(files.docs, it.docs, it.docs.size)
Freqs(files, it) == Members(files.freqs, it.freqs, it.docs.size)
Readable(files, it) == InFile(files.freqs, it.freqs, it.docs.size)
=============================================================================
