------------------------------- MODULE Base64 -------------------------------
(***************************************************************************)
(* base64.c: payloads as text in datagrams and back.                        *)
(*                                                                          *)
(* A byte is a number, a character its ASCII code, and a buffer a sequence; *)
(* the null character that ends a text is left out, its room is not.  The   *)
(* functions give what the C functions return, ret, and what they write,    *)
(* out: a negative ret leaves nothing of use in the buffer.                 *)
(***************************************************************************)
EXTENDS Integers, Sequences

Byte == 0 .. 255
Char == 0 .. 255

code_62 == 43      \* '+'
code_63 == 47      \* '/'
code_pad == 61     \* '='

\* Mutant: the digits start one too late.
code_to_char_shifted(x) ==
  IF x <= 25 THEN 65 + x
  ELSE IF x <= 51 THEN 97 + (x - 26)
  ELSE IF x <= 61 THEN 48 + (x - 51)
  ELSE IF x = 62 THEN code_62 ELSE code_63

\* x is a code, in the range 0-63.
code_to_char(x) ==
  IF x <= 25 THEN 65 + x
  ELSE IF x <= 51 THEN 97 + (x - 26)
  ELSE IF x <= 61 THEN 48 + (x - 52)
  ELSE IF x = 62 THEN code_62 ELSE code_63

\* The characters char_to_code takes; any other ends the thread that asks.
CodeChar == 65 .. 90 \cup 97 .. 122 \cup 48 .. 57 \cup {code_62, code_63}

char_to_code(c) ==
  IF c \in 65 .. 90 THEN c - 65
  ELSE IF c \in 97 .. 122 THEN c - 97 + 26
  ELSE IF c \in 48 .. 57 THEN c - 48 + 52
  ELSE IF c = code_62 THEN 62 ELSE 63

Result(ret, out) == [ret |-> ret, out |-> out]
Failure == Result(-1, <<>>)

\* What is left of a buffer behind its end counts as 0 in the last block.
At(in, i) == IF i \in DOMAIN in THEN in[i] ELSE 0

-----------------------------------------------------------------------------
(* Encoding.                                                               *)

\* The 24 bits of the i-th block of three bytes, and the j-th code in them.
Block3(in, i) == At(in, 3 * i + 1) * 65536 + At(in, 3 * i + 2) * 256 + At(in, 3 * i + 3)
CodeOf(b, j) == (b \div <<262144, 4096, 64, 1>>[j + 1]) % 64

\* Characters without padding for n bytes.
CharsFor(n) == 4 * (n \div 3) + <<0, 2, 3>>[(n % 3) + 1]

bin_to_b64_nopad(in, max_len) ==
  LET n == CharsFor(Len(in))
  IN  IF Len(in) = 0 THEN Result(0, <<>>)
      ELSE IF max_len < n + 1 THEN Failure
      ELSE Result(n, [k \in 1 .. n |->
                        code_to_char(CodeOf(Block3(in, (k - 1) \div 4), (k - 1) % 4))])

Padding(n) == [k \in 1 .. n |-> code_pad]

bin_to_b64(in, max_len) ==
  LET text == bin_to_b64_nopad(in, max_len)
      pads == <<0, 0, 2, 1>>[(text.ret % 4) + 1]
  IN  IF text.ret = -1 \/ text.ret % 4 = 0 THEN text
      ELSE IF max_len >= text.ret + pads + 1 THEN Result(text.ret + pads, text.out \o Padding(pads))
      ELSE Failure

-----------------------------------------------------------------------------
(* Decoding.                                                               *)

\* The 24 bits of the i-th block of four characters, and the j-th byte in them.
\* Bits of the last character that are not part of a byte are ignored.
Code(in, i) == IF i \in DOMAIN in THEN char_to_code(in[i]) ELSE 0
Block4(in, i) == Code(in, 4 * i + 1) * 262144 + Code(in, 4 * i + 2) * 4096
                 + Code(in, 4 * i + 3) * 64 + Code(in, 4 * i + 4)
ByteOf(b, j) == (b \div <<65536, 256, 1>>[j + 1]) % 256

\* Bytes in n characters without padding.
BytesFor(n) == 3 * (n \div 4) + <<0, 0, 1, 2>>[(n % 4) + 1]

\* The call ends in exit: a character is looked at, and is none of base64.
Exits(in, max_len) ==
  /\ Len(in) % 4 # 1 /\ BytesFor(Len(in)) <= max_len
  /\ \E k \in DOMAIN in : in[k] \notin CodeChar

\* (where Exits is false)
b64_to_bin_nopad(in, max_len) ==
  LET n == BytesFor(Len(in))
  IN  IF Len(in) = 0 THEN Result(0, <<>>)
      ELSE IF Len(in) % 4 = 1 \/ max_len < n THEN Failure
      ELSE Result(n, [k \in 1 .. n |-> ByteOf(Block4(in, (k - 1) \div 3), (k - 1) % 3)])

\* A text of whole blocks may end in one or two padding characters.
Unpadded(in) ==
  LET n == Len(in)
  IN  IF n % 4 # 0 \/ n < 4 THEN in
      ELSE IF in[n - 1] = code_pad THEN SubSeq(in, 1, n - 2)
      ELSE IF in[n] = code_pad THEN SubSeq(in, 1, n - 1) ELSE in

b64_to_bin(in, max_len) == b64_to_bin_nopad(Unpadded(in), max_len)
b64_to_bin_exits(in, max_len) == Exits(Unpadded(in), max_len)

-----------------------------------------------------------------------------
(* What the text of a payload is, by the table of RFC 4648 and bit by bit.  *)

Alphabet ==
  <<65, 66, 67, 68, 69, 70, 71, 72, 73, 74, 75, 76, 77, 78, 79, 80, 81, 82, 83, 84, 85, 86,
    87, 88, 89, 90, 97, 98, 99, 100, 101, 102, 103, 104, 105, 106, 107, 108, 109, 110, 111,
    112, 113, 114, 115, 116, 117, 118, 119, 120, 121, 122, 48, 49, 50, 51, 52, 53, 54, 55,
    56, 57, 43, 47>>

\* Bit i of a number of `width' bits, the first the most significant.
Weights == <<1, 2, 4, 8, 16, 32, 64, 128>>
Bit(x, width, i) == (x \div Weights[width - i]) % 2
Bits(seq, width) == [k \in 0 .. width * Len(seq) - 1 |-> Bit(seq[k \div width + 1], width, k % width)]

\* The bits of the codes of characters.
CodeBits(data) == Bits([k \in DOMAIN data |-> CHOOSE x \in 0 .. 63 : Alphabet[x + 1] = data[k]], 6)

\* `text' is whole blocks of the alphabet and padding, and its bits begin with
\* those of `bytes' and go on with zeroes.
Encodes(text, bytes) ==
  LET pads == (3 - (Len(bytes) % 3)) % 3
      data == SubSeq(text, 1, Len(text) - pads)
      tbits == CodeBits(data)
      bbits == Bits(bytes, 8)
  IN  /\ 3 * Len(text) = 4 * (Len(bytes) + pads)
      /\ \A k \in 1 .. pads : text[Len(data) + k] = 61
      /\ \A k \in DOMAIN data : \E x \in DOMAIN Alphabet : Alphabet[x] = data[k]
      /\ \A k \in DOMAIN tbits : tbits[k] = IF k \in DOMAIN bbits THEN bbits[k] ELSE 0

\* `bytes' are the whole bytes in the bits of `data', a text without padding.
Denotes(data, bytes) ==
  LET tbits == CodeBits(data)
      bbits == Bits(bytes, 8)
  IN  /\ Len(bytes) = (6 * Len(data)) \div 8
      /\ \A k \in DOMAIN bbits : bbits[k] = tbits[k]
=============================================================================
