--------------------------------- MODULE Qmx ---------------------------------
(***************************************************************************)
(* src/docvector/compress_qmx.cpp, the codec of document vectors.  A list  *)
(* is cut into blocks; the integers of a block have the same width, and a  *)
(* block has as many of them as fit into 128 or 256 bits.  The selectors   *)
(* of the blocks stand behind them, the first one last.  What is coded is  *)
(* a sequence of bits, the lowest of each byte first.                      *)
(***************************************************************************)
EXTENDS Integers, Sequences, SequencesExt, FiniteSetsExt

(* The width of each type and the integers in a block of it.               *)
WidthOfType == <<0, 1, 2, 3, 4, 5, 6, 7, 8, 9, 10, 12, 16, 21, 32, 128>>
CountOfType == <<256, 128, 64, 40, 32, 24, 20, 36, 16, 28, 12, 20, 8, 12, 4, 1>>

Type(width) == CHOOSE t \in 0..15 : WidthOfType[t + 1] = width
BlockCount(width) == CountOfType[Type(width) + 1]

(* A one takes no bit, a zero one.                                         *)
BitsNeededFor(value) ==
    IF value = 1 THEN 0
    ELSE Min({w \in Range(WidthOfType) \ {0, 128} : w = 32 \/ value < 2^w})

-----------------------------------------------------------------------------
(* encodeArray chooses the widths.  They are those of groups of four       *)
(* integers; each starts with what its largest one needs, and behind the   *)
(* list there are groups of width 0.                                       *)
Groups(source) == (Len(source) + 3) \div 4

GroupWidths(source) ==
    [g \in 1 .. Groups(source) + 4 |->
        Max({0} \cup {BitsNeededFor(source[i]) :
                         i \in 4 * g - 3 .. Min({4 * g, Len(source)})})]

(* SHORT_END_BLOCKS: the widths of the groups from g on when left integers *)
(* are left.                                                               *)
ShortEnd(widths, g, left) ==
    LET block == g .. g + (IF left < 8 THEN 1 ELSE 3)
        short == IF left < 4 THEN {8, 16, 32} ELSE IF left < 16 THEN {8} ELSE {}
        fit == {w \in short : \A h \in block : widths[h] <= w}
    IN  [h \in DOMAIN widths |->
            IF h \in block /\ fit # {} THEN Min(fit) ELSE widths[h]]

(* One pass of the loop: the block at group g gets its width if enough     *)
(* integers are left and none is too large; otherwise the first group is   *)
(* promoted.  The last resort are single integers.                         *)
Pass(n, s) ==
    LET left == n - 4 * (s.at - 1)
        next(widths) ==
            LET w == widths[s.at]
                block == s.at .. s.at + BlockCount(w) \div 4 - 1
                promoted == WidthOfType[Type(w) + 2]
            IN  IF w = 128 THEN [at |-> s.at + 1, widths |-> widths]
                ELSE IF BlockCount(w) <= left /\ \A h \in block : widths[h] <= w
                THEN [at |-> s.at + BlockCount(w) \div 4,
                      widths |-> [h \in DOMAIN widths |->
                                     IF h \in block THEN w ELSE widths[h]]]
                ELSE [s EXCEPT !.widths = [widths EXCEPT ![s.at] = promoted]]
    IN  next(ShortEnd(s.widths, s.at, left))

Widths(source) ==
    LET from[s \in [at : Nat, widths : Seq(Nat)]] ==
            IF 4 * (s.at - 1) >= Len(source) THEN s.widths
            ELSE from[Pass(Len(source), s)]
        each(widths) == [i \in DOMAIN source |-> widths[(i + 3) \div 4]]
    IN  each(from[[at |-> 1, widths |-> GroupWidths(source)]])

-----------------------------------------------------------------------------
(* The bits of an integer below 2^31.                                      *)
Bits(value, len) ==
    [i \in 1..len |-> IF i = 32 THEN 0 ELSE (value \div 2^(i - 1)) % 2]

Number(bits) ==
    MapThenSumSet(LAMBDA i : IF bits[i] = 0 THEN 0 ELSE 2^(i - 1), DOMAIN bits)

Zeros(n) == [i \in 1..n |-> 0]

(* Blocks of two 128-bit words, and of integers stored as they are.        *)
Double == {7, 9, 12, 21}
Plain == {8, 16, 32, 128}

(* Every fourth integer goes to the same 32-bit lane, from its low bits    *)
(* on; integers fit their width.  The second words of 12 and 21 bits leave *)
(* a gap after the integer that both words share.                          *)
Gap(width) == CASE width = 12 -> 4 [] width = 21 -> 1 [] OTHER -> 0

Lane(width, in, k) ==
    LET full == IF width \in Double THEN 64 ELSE 32
        split == 32 \div width + 1
        filled(bits) == bits \o Zeros(full - Len(bits))
    IN  filled(FlattenSeq([s \in 1 .. Len(in) \div 4 |->
                   Bits(in[4 * s - 4 + k], width)
                   \o (IF width \in Double /\ s = split
                       THEN Zeros(Gap(width)) ELSE <<>>)]))

(* write_out of the integers of one block.                                 *)
WriteBlock(width, in) ==
    LET words(lanes) ==
            FlattenSeq([w \in 1 .. IF width \in Double THEN 8 ELSE 4 |->
                SubSeq(lanes[((w - 1) % 4) + 1],
                       32 * ((w - 1) \div 4) + 1, 32 * ((w - 1) \div 4) + 32)])
    IN  IF width = 0 THEN <<>>
        ELSE IF width \in Plain
        THEN FlattenSeq([i \in DOMAIN in |-> Bits(in[i], Min({width, 32}))])
        ELSE words([k \in 1..4 |-> Lane(width, in, k)])

(* write_out of a run of integers of one width: a selector has the type    *)
(* and up to 16 blocks.                                                    *)
WriteOut(width, in) ==
    LET size == BlockCount(width)
        count == (Len(in) + size - 1) \div size
        batches == (count + 15) \div 16
        batch(k) == IF k < batches THEN 16 ELSE count - 16 * (batches - 1)
    IN  [keys |-> [k \in 1..batches |-> 16 * Type(width) + (16 - batch(k))],
         bits |-> FlattenSeq([b \in 1..count |->
                     WriteBlock(width, SubSeq(in, size * (b - 1) + 1, size * b))])]

(* The runs of integers of one width.                                      *)
Runs(source, widths) ==
    LET ends(j) == j = Len(source) \/ widths[j + 1] # widths[j]
        last(i) == CHOOSE j \in i .. Len(source) :
                      ends(j) /\ \A h \in i .. j - 1 : ~ends(h)
        runs[i \in 1 .. Len(source) + 1] ==
            IF i > Len(source) THEN <<>>
            ELSE <<[width |-> widths[i], in |-> SubSeq(source, i, last(i))]>>
                 \o runs[last(i) + 1]
    IN  runs[1]

EncodeArray(source) ==
    LET backwards(keys) ==
            FlattenSeq([k \in DOMAIN keys |-> Bits(keys[Len(keys) + 1 - k], 8)])
        stored(written) ==
            FlattenSeq([r \in DOMAIN written |-> written[r].bits])
            \o backwards(FlattenSeq([r \in DOMAIN written |-> written[r].keys]))
        blocks(runs) ==
            [r \in DOMAIN runs |-> WriteOut(runs[r].width, runs[r].in)]
    IN  stored(blocks(Runs(source, Widths(source))))

-----------------------------------------------------------------------------
(* decodeArray reads the blocks from the front and their selectors from    *)
(* the back, until they meet.  A block takes as many bits as it has when   *)
(* it is full.                                                             *)
BlockBits(width) ==
    CASE width = 0 -> 0 [] width = 128 -> 32 [] width \in Double -> 256
      [] OTHER -> 128

(* Where integer i of a block starts in its lane, and its bits there.      *)
Offset(width, i) ==
    LET slot == (i - 1) \div 4 IN
    slot * width + (IF width \in Double /\ slot > 32 \div width
                    THEN Gap(width) ELSE 0)

ReadBlock(width, bits, in) ==
    LET lane(k, j) == bits[in + 128 * (j \div 32) + 32 * k + (j % 32) + 1]
        striped(i) == [b \in 1..width |->
                          lane((i - 1) % 4, Offset(width, i) + b - 1)]
        plain(i, len) == SubSeq(bits, in + len * (i - 1) + 1, in + len * i)
    IN  [i \in 1 .. BlockCount(width) |->
            IF width = 0 THEN 1
            ELSE Number(IF width \in Plain THEN plain(i, Min({width, 32}))
                        ELSE striped(i))]

ReadBatch(width, bits, in, batch) ==
    FlattenSeq([b \in 1..batch |->
                   ReadBlock(width, bits, in + BlockBits(width) * (b - 1))])

(* What is written to the target: the length of the list is not asked for. *)
DecodeArray(bits) ==
    LET key(keys) == Number(SubSeq(bits, 8 * keys - 7, 8 * keys))
        from[in \in 0 .. Len(bits), keys \in 0 .. Len(bits) \div 8] ==
            LET read(width, batch) ==
                    ReadBatch(width, bits, in, batch)
                    \o from[in + BlockBits(width) * batch, keys - 1]
            IN  IF in >= 8 * keys THEN <<>>
                ELSE read(WidthOfType[key(keys) \div 16 + 1],
                          16 - (key(keys) % 16))
    IN  from[0, Len(bits) \div 8]
=============================================================================
