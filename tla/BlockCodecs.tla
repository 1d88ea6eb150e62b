----------------------------- MODULE BlockCodecs -----------------------------
(***************************************************************************)
(* The codecs of blocks: src/interpolative_coding.hpp, src/block_codecs.hpp*)
(* and src/mixed_block.hpp.  A block of n values is coded with their sum,  *)
(* which the reader either knows or finds in front of the block.  A coded  *)
(* block is a sequence of bytes.  What FastPFor makes of a full block is   *)
(* outside of src: its values stand for it.                                *)
(***************************************************************************)
EXTENDS Integers, Sequences, SequencesExt, FiniteSetsExt

CONSTANT BlockSize      \* block_size

Unknown == -1   \* uint32_t(-1), the sum the reader does not know

-----------------------------------------------------------------------------
(* TightVariableByte: seven bits a byte, the lowest first; the eighth bit  *)
(* marks the last byte.                                                    *)
EncodeSingle(val) ==
    LET n == CHOOSE k \in 1..5 : val < 128^k /\ \A j \in 1 .. k - 1 : val >= 128^j
    IN  [i \in 1..n |-> ((val \div 128^(i - 1)) % 128) + (IF i = n THEN 128 ELSE 0)]

(* What is decoded is a value and the byte it ends at.                     *)
DecodeSingle(bytes, at) ==
    LET from[i \in 1..Len(bytes)] ==
            IF bytes[i] >= 128 THEN [value |-> bytes[i] - 128, at |-> i]
            ELSE [value |-> bytes[i] + 128 * from[i + 1].value,
                  at |-> from[i + 1].at]
    IN  from[at + 1]

(* bit_writer and bit_reader: the first bit is the lowest of a byte.       *)
Bits(val, len) == [i \in 1..len |-> (val \div 2^(i - 1)) % 2]

Pack(bits) ==
    LET bit(j) == IF j <= Len(bits) THEN bits[j] ELSE 0
    IN  [k \in 1 .. (Len(bits) + 7) \div 8 |->
            MapThenSumSet(LAMBDA i : bit(8 * k - 7 + i) * 2^i, 0..7)]

(* The bits from position pos on in the bytes behind at.                   *)
ReadBits(bytes, at, pos, len) ==
    LET bit(j) == (bytes[at + j \div 8 + 1] \div 2^(j % 8)) % 2
    IN  MapThenSumSet(LAMBDA i : bit(pos + i) * 2^i, 0 .. len - 1)

(* A number below u takes msb(u) bits, or one more if it is not among the  *)
(* m smallest.                                                             *)
Msb(u) == CHOOSE b \in 0..30 : 2^b <= u /\ u - 2^b < 2^b
Short(u) == 2^Msb(u) - (u - 2^Msb(u))

WriteInt(val, u) ==
    IF val < Short(u) THEN Bits(val, Msb(u))
    ELSE Bits((val + Short(u)) \div 2, Msb(u)) \o Bits(val + Short(u), 1)

ReadInt(bytes, at, pos, u) ==
    LET next == pos + Msb(u)
        int(val) ==
            IF val < Short(u) THEN [value |-> val, pos |-> next]
            ELSE [value |-> 2 * val + ReadBits(bytes, at, next, 1) - Short(u),
                  pos |-> next + 1]
    IN  int(ReadBits(bytes, at, pos, Msb(u)))

(* write_interpolative: the value in the middle, then those before it,     *)
(* then those behind.                                                      *)
WriteInterpolative(in, high_most) ==
    LET bits[first \in 0..Len(in), n \in 0..Len(in),
             low \in 0..high_most, high \in 0..high_most] ==
            LET h == n \div 2
                val == in[first + h + 1]
            IN  IF n = 0 THEN <<>>
                ELSE WriteInt(val - low, high - low + 1)
                     \o bits[first, h, low, val]
                     \o bits[first + h + 1, n - h - 1, val, high]
    IN  bits[0, Len(in), 0, high_most]

(* read_interpolative: the values and the bit they end at.                 *)
ReadInterpolative(bytes, at, count, high_most) ==
    LET read[pos \in 0 .. 8 * Len(bytes), n \in 0..count,
             low \in 0..high_most, high \in 0..high_most] ==
            LET h == n \div 2
                all(left, val, right) ==
                    [out |-> left.out \o <<val>> \o right.out, pos |-> right.pos]
                after(left, val) ==
                    all(left, val, read[left.pos, n - h - 1, val, high])
                around(val, next) == after(read[next, h, low, val], val)
                from(int) == around(low + int.value, int.pos)
            IN  IF n = 0 THEN [out |-> <<>>, pos |-> pos]
                ELSE from(ReadInt(bytes, at, pos, high - low + 1))
    IN  read[0, count, 0, high_most]

-----------------------------------------------------------------------------
(* interpolative_block: the sums of the first values are increasing; the   *)
(* last of them is the sum of all.                                         *)
EncodeInterpolative(in, sum_of_values) ==
    LET inbuf == [i \in DOMAIN in |-> FoldLeft(+, 0, SubSeq(in, 1, i))]
        bits(sum) == Pack(WriteInterpolative(Front(inbuf), sum))
    IN  IF sum_of_values = Unknown
        THEN EncodeSingle(Last(inbuf)) \o bits(Last(inbuf))
        ELSE bits(sum_of_values)

Differences(out) == [i \in DOMAIN out |-> IF i = 1 THEN out[1] ELSE out[i] - out[i - 1]]

(* The values and the byte they end at.                                    *)
DecodeInterpolative(bytes, at, sum_of_values, n) ==
    LET decoded(sum, read) ==
            [values |-> Differences(Append(read.out, sum.value)),
             at |-> sum.at + (read.pos + 7) \div 8]
        behind(sum) ==
            decoded(sum, ReadInterpolative(bytes, sum.at, n - 1, sum.value))
    IN  behind(IF sum_of_values = Unknown THEN DecodeSingle(bytes, at)
               ELSE [value |-> sum_of_values, at |-> at])

(* optpfor_block and varint_G8IU_block leave partial blocks to it.         *)
Encode(codec, in, sum_of_values) ==
    IF codec = "interpolative" \/ Len(in) < BlockSize
    THEN EncodeInterpolative(in, sum_of_values)
    ELSE in

DecodeAs(codec, bytes, at, sum_of_values, n) ==
    IF codec = "interpolative" \/ n < BlockSize
    THEN DecodeInterpolative(bytes, at, sum_of_values, n)
    ELSE [values |-> SubSeq(bytes, at + 1, at + n), at |-> at + n]

(* mixed_block: a full block has its type in front.                        *)
MixedTypes == <<"pfor", "varint", "interpolative">>

EncodeType(type, in, sum_of_values) ==
    LET number == CHOOSE t \in DOMAIN MixedTypes : MixedTypes[t] = type
    IN  (IF Len(in) < BlockSize THEN <<>> ELSE <<number - 1>>)
        \o Encode(type, in, sum_of_values)

Decode(codec, bytes, at, sum_of_values, n) ==
    IF codec = "mixed" /\ n = BlockSize
    THEN DecodeAs(MixedTypes[bytes[at + 1] + 1], bytes, at + 1, sum_of_values, n)
    ELSE DecodeAs(codec, bytes, at, sum_of_values, n)
=============================================================================
