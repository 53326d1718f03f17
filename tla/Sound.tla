------------------------------- MODULE Sound --------------------------------
(***************************************************************************)
(* The arithmetic of audio: G.711 coding of 16-bit samples (codec.rs) and  *)
(* reading the samples of a WAV file (wav.rs). Shifts of the code are      *)
(* divisions, its masks remainders.                                        *)
(***************************************************************************)
EXTENDS Integers, Sequences, SequencesExt

Linear16 == -32768 .. 32767
Magnitude(n) == IF n < 0 THEN -n ELSE n
Smaller(a, b) == IF a < b THEN a ELSE b

(* The segment a magnitude lies in: the first one ends below `first`, each  *)
(* later one at twice the end of the one before.                            *)
Segment(magnitude, first) ==
    IF magnitude < first THEN 0
    ELSE CHOOSE g \in 1 .. 8 : magnitude \div (first * 2^(g - 1)) = 1

(* Mutated: the magnitude is not clipped. *)
UnclippedMulaw(sample) ==
    LET pcm == sample \div 4
        biased == Magnitude(pcm) + 33
        segment == Segment(biased, 64)
        code == (16 * segment + ((biased \div 2^(segment + 1)) % 16)) % 128
    IN  (IF pcm < 0 THEN 0 ELSE 128) + 127 - code

LinearToMulaw(sample) ==
    LET pcm == sample \div 4
        biased == Smaller(Magnitude(pcm), 8159) + 33
        segment == Segment(biased, 64)
        code == IF segment > 7 THEN 127
                ELSE 16 * segment + ((biased \div 2^(segment + 1)) % 16)
    IN  (IF pcm < 0 THEN 0 ELSE 128) + 127 - code

MulawToLinear(mulaw) ==
    LET u == 255 - mulaw
        t == ((u % 16) * 8 + 132) * 2^((u \div 16) % 8)
    IN  IF u >= 128 THEN 132 - t ELSE t - 132

(* XOR with 0x55. *)
EvenBits(code) == (code % 2) + 4 * ((code \div 4) % 2) + 16 * ((code \div 16) % 2)
                      + 64 * ((code \div 64) % 2)
InvertEven(code) == code + 85 - 2 * EvenBits(code)

LinearToAlaw(sample) ==
    LET pcm == sample \div 8
        magnitude == IF pcm >= 0 THEN pcm ELSE -pcm - 1
        segment == Segment(magnitude, 32)
        mantissa == (magnitude \div 2^(IF segment < 2 THEN 1 ELSE segment)) % 16
    IN  InvertEven(16 * segment + mantissa) + (IF pcm >= 0 THEN 128 ELSE 0)

AlawToLinear(alaw) ==
    LET a == InvertEven(alaw)
        segment == (a \div 16) % 8
        t == (a % 16) * 16
        value == CASE segment = 0 -> t + 8
                   [] segment = 1 -> t + 264
                   [] OTHER -> (t + 264) * 2^(segment - 1)
    IN  IF a >= 128 THEN value ELSE -value

Codecs == {"pcmu", "pcma"}
Encode(codec, sample) == IF codec = "pcmu" THEN LinearToMulaw(sample) ELSE LinearToAlaw(sample)
Decode(codec, byte) == IF codec = "pcmu" THEN MulawToLinear(byte) ELSE AlawToLinear(byte)

-----------------------------------------------------------------------------
(* A WAV file behind its RIFF header, one cell per byte. The first of the   *)
(* eight bytes of a chunk's header stands for the header, the first of a    *)
(* format's body for the format.                                            *)
NoFormat == [pcm |-> FALSE, channels |-> 0, bits |-> 0]
Byte(b) == [id |-> "byte", size |-> 0, byte |-> b, format |-> NoFormat]
Header(id, size) == <<[Byte(0) EXCEPT !.id = id, !.size = size]>> \o [i \in 1 .. 7 |-> Byte(0)]
Formatted(f) == [Byte(0) EXCEPT !.format = f]

Failed == [ok |-> FALSE, samples |-> <<>>]

(* Division that truncates. *)
Quotient(a, b) == IF a >= 0 THEN a \div b ELSE -((-a) \div b)
SumOf(seq) == FoldSeq(LAMBDA a, b : a + b, 0, seq)

Linear(bytes, bits) ==
    IF bits = 8 THEN [i \in 1 .. Len(bytes) |-> (bytes[i] - 128) * 256]
    ELSE [i \in 1 .. Len(bytes) \div 2 |->
             LET word == bytes[2 * i - 1] + 256 * bytes[2 * i]
             IN  IF word >= 32768 THEN word - 65536 ELSE word]

(* The channels are averaged; an incomplete last frame is dropped. *)
Downmix(samples, channels) ==
    IF channels <= 1 THEN samples
    ELSE [f \in 1 .. Len(samples) \div channels |->
             Quotient(SumOf(SubSeq(samples, (f - 1) * channels + 1, f * channels)), channels)]

Skip(size) == size + 8 + (size % 2)

(* A sample rate of 0 is refused in the same way. *)
Playable(format) ==
    format.bits \in {8, 16} /\ format.channels # 0

(* The walk over the chunks: the last format before the first data counts. *)
ParseWav(file) ==
    LET End(o) == Smaller(o + 8 + file[o + 1].size, Len(file))
        Samples(o) == [i \in 1 .. End(o) - o - 8 |-> file[o + 8 + i].byte]
        Scan[o \in Nat, seen \in BOOLEAN, format \in [pcm : BOOLEAN, channels : Nat, bits : Nat]] ==
            IF o + 8 > Len(file) THEN Failed
            ELSE CASE file[o + 1].id = "fmt" ->
                        IF End(o) - o - 8 < 16 \/ ~file[o + 9].format.pcm THEN Failed
                        ELSE Scan[o + Skip(file[o + 1].size), TRUE, file[o + 9].format]
                   [] file[o + 1].id = "data" ->
                        IF ~seen \/ ~Playable(format) THEN Failed
                        ELSE [ok |-> TRUE, samples |->
                                 Downmix(Linear(Samples(o), format.bits), format.channels)]
                   [] OTHER -> Scan[o + Skip(file[o + 1].size), seen, format]
    IN  Scan[0, FALSE, NoFormat]
=============================================================================
