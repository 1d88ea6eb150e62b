--------------------------- MODULE UnaryEnumerator ---------------------------
(***************************************************************************)
(* succinct::bit_vector::unary_enumerator as the sequences of src/ use it. *)
(* A bit vector is the set of the positions of its ones, an enumerator the *)
(* position up to which it has consumed them.  Positions count from 0.     *)
(***************************************************************************)
EXTENDS Integers, FiniteSets

(* The member of S with k smaller ones.                                    *)
Kth(S, k) == CHOOSE x \in S : Cardinality({y \in S : y < x}) = k

(* skip(k) and then next(), on an enumerator at rest.                      *)
OneAfter(ones, position, k) == Kth({b \in ones : b > position}, k)

(* The same on an enumerator just constructed at a position.               *)
OneFrom(ones, position, k) == Kth({b \in ones : b >= position}, k)

(* skip0(k) on an enumerator at rest, where the one it stands on has been  *)
(* consumed and counts as a zero, and on one just constructed at a zero.   *)
ZeroFrom(zeros, position, k) ==
    Kth({position} \cup {b \in zeros : b > position}, k)

(* predecessor1 of the bit before a position.                              *)
OneBefore(ones, position) ==
    CHOOSE b \in ones : b < position /\ \A c \in ones : c < position => c <= b

(* ceil_log2() of src/util.hpp.                                            *)
CeilLog2(x) ==
    CHOOSE b \in 0 .. x : 2^b >= x /\ \A c \in 0 .. b - 1 : 2^c < x
=============================================================================
