----------------------------- MODULE DataFacts -----------------------------
(***************************************************************************)
(* What the proofs of several modules need of their data: numbers, sums      *)
(* along a sequence, and base64.c for payloads and texts of every length.    *)
(***************************************************************************)
EXTENDS Base64, SequenceTheorems, WellFoundedInduction, TLAPS

-----------------------------------------------------------------------------
(* Numbers.                                                                 *)

\* A value within the range of the counter is its own remainder.
LEMMA SmallMod ==
  ASSUME NEW n \in Nat \ {0}, NEW a \in Int, 0 <= a, a < n
  PROVE  a % n = a
  OBVIOUS

\* A set of naturals that is not empty has a smallest element.
LEMMA SmallestExists ==
  ASSUME NEW S, S \subseteq Nat, S # {}
  PROVE  \E m \in S : \A n \in S : m <= n
<1> DEFINE R == {ss \in Nat \X Nat : ss[1] < ss[2]}
<1>1. IsWellFoundedOn(R, Nat)
  BY NatLessThanWellFounded DEF OpToRel
<1>2. PICK x \in S : \A y \in S : ~ (<<y, x>> \in R)
  BY <1>1, WFMin, Zenon
<1>3. ASSUME NEW n \in S PROVE x <= n
  <2>1. n \in Nat /\ x \in Nat
    OBVIOUS
  <2>2. ~(n < x)
    <3>1. SUFFICES ASSUME n < x PROVE <<n, x>> \in R
      BY <1>2
    <3> QED BY <2>1, <3>1
  <2> QED BY <2>1, <2>2
<1> QED BY <1>3

\* A product of naturals is a natural.
LEMMA ProductType ==
  ASSUME NEW a \in Nat, NEW b \in Nat
  PROVE  a * b \in Nat
  OBVIOUS

\* The quotient and the remainder of the division by a positive number.
LEMMA DivMod ==
  ASSUME NEW S \in Nat \ {0}, NEW a \in Int
  PROVE  /\ a \div S \in Int /\ a % S \in Int /\ a = S * (a \div S) + (a % S)
         /\ 0 <= a % S /\ a % S < S
  OBVIOUS

\* Multiplication with a natural keeps the order.
LEMMA MulMono ==
  ASSUME NEW S \in Nat, NEW a \in Int, NEW b \in Int, a <= b
  PROVE  S * a <= S * b
  OBVIOUS

\* What is left over a multiple of the divisor is the remainder.
LEMMA ModUnique ==
  ASSUME NEW S \in Nat \ {0}, NEW q \in Int, NEW r \in Int, 0 <= r, r < S
  PROVE  (S * q + r) % S = r
  OBVIOUS

\* The remainder grows with the number until it comes to the divisor.
LEMMA ModSucc ==
  ASSUME NEW S \in Nat \ {0}, NEW a \in Nat, (a % S) + 1 # S
  PROVE  (a + 1) % S = (a % S) + 1
<1> DEFINE q == a \div S r == a % S
<1>1. q \in Int /\ r \in Int /\ a = S * q + r /\ 0 <= r /\ r < S
  BY DivMod
<1> HIDE DEF q, r
<1>2. r + 1 \in Int /\ 0 <= r + 1 /\ r + 1 < S
  BY <1>1 DEF r
<1>3. (S * q + (r + 1)) % S = r + 1
  BY <1>1, <1>2, ModUnique
<1>4. a + 1 = S * q + (r + 1)
  BY <1>1
<1> QED BY <1>3, <1>4 DEF r

\* A multiple of the divisor makes no difference to the remainder.
LEMMA ModMultiple ==
  ASSUME NEW S \in Nat \ {0}, NEW a \in Int, NEW k \in Int
  PROVE  (a + k * S) % S = a % S
<1> DEFINE q == a \div S r == a % S
<1>1. q \in Int /\ r \in Int /\ a = S * q + r /\ 0 <= r /\ r < S
  BY DivMod
<1> HIDE DEF q, r
<1>2. (S * (q + k) + r) % S = r
  BY <1>1, ModUnique
<1>3. a + k * S = S * (q + k) + r
  BY <1>1
<1> QED BY <1>2, <1>3 DEF r

-----------------------------------------------------------------------------
(* Sums of a field over a sequence of records, on top of a number m.       *)

FieldSum(rs, m, f) ==
  LET sum[n \in 0 .. Len(rs)] == IF n = 0 THEN m ELSE sum[n - 1] + rs[n][f]
  IN  sum[Len(rs)]

\* g gives the sums over the prefixes of rs that are no longer than n.
Sums(g, rs, m, f, n) ==
  /\ g \in [0 .. n -> Int]
  /\ g[0] = m
  /\ \A k \in 1 .. n : g[k] = g[k - 1] + rs[k][f]

\* Every sequence has sums: were there a prefix without, the shortest one would extend
\* the one before.
LEMMA SumsExist ==
  ASSUME NEW rs, NEW n \in Nat, NEW m \in Int, NEW f, \A k \in 1 .. n : rs[k][f] \in Int
  PROVE  \E g : Sums(g, rs, m, f, n)
<1> DEFINE Bad == {k \in 0 .. n : ~ \E g : Sums(g, rs, m, f, k)}
<1>1. Bad = {}
  <2> SUFFICES ASSUME Bad # {} PROVE FALSE
    OBVIOUS
  <2>1. PICK l \in Bad : \A k \in Bad : l <= k
    <3>1. Bad \subseteq Nat
      OBVIOUS
    <3> HIDE DEF Bad
    <3> QED BY <3>1, SmallestExists
  <2>2. l \in 0 .. n /\ ~ \E g : Sums(g, rs, m, f, l)
    OBVIOUS
  <2>3. l # 0
    <3>1. Sums([k \in 0 .. 0 |-> m], rs, m, f, 0)
      BY DEF Sums
    <3> QED BY <2>2, <3>1
  <2>4. l - 1 \in 0 .. n /\ l - 1 \notin Bad
    <3>1. l - 1 \in 0 .. n /\ ~(l <= l - 1)
      BY <2>2, <2>3
    <3> HIDE DEF Bad
    <3> QED BY <2>1, <3>1
  <2>5. PICK g : Sums(g, rs, m, f, l - 1)
    BY <2>4
  <2> DEFINE h == [k \in 0 .. l |-> IF k = l THEN g[l - 1] + rs[l][f] ELSE g[k]]
  <2>6. Sums(h, rs, m, f, l)
    <3>1. l \in Nat /\ l >= 1 /\ rs[l][f] \in Int
      BY <2>2, <2>3
    <3>2. h \in [0 .. l -> Int] /\ h[0] = m
      BY <2>5, <3>1 DEF Sums
    <3>3. ASSUME NEW k \in 1 .. l PROVE h[k] = h[k - 1] + rs[k][f]
      <4>1. CASE k = l
        BY <3>1, <4>1
      <4>2. CASE k # l
        <5>1. k \in 1 .. l - 1 /\ k - 1 \in 0 .. l - 1
          BY <3>1, <4>2
        <5> QED BY <2>5, <3>1, <5>1 DEF Sums
      <4> QED BY <4>1, <4>2
    <3> HIDE DEF h
    <3> QED BY <3>2, <3>3 DEF Sums
  <2> HIDE DEF h
  <2> QED BY <2>2, <2>6
<1>2. n \in 0 .. n
  OBVIOUS
<1> QED BY <1>1, <1>2

\* The sum over a sequence is the last of its sums, and there is no other.
LEMMA SumIs ==
  ASSUME NEW rs, Len(rs) \in Nat, NEW m, NEW f, NEW g, Sums(g, rs, m, f, Len(rs))
  PROVE  FieldSum(rs, m, f) = g[Len(rs)]
<1> DEFINE S == 0 .. Len(rs)
           step(s) == [n \in S |-> IF n = 0 THEN m ELSE s[n - 1] + rs[n][f]]
           sum == CHOOSE s : s = step(s)
<1>1. g = step(g)
  <2>1. g = [n \in S |-> g[n]]
    BY DEF Sums
  <2>2. \A n \in S : g[n] = IF n = 0 THEN m ELSE g[n - 1] + rs[n][f]
    BY DEF Sums
  <2> QED BY <2>1, <2>2
<1>2. sum = step(sum)
  BY <1>1
<1>3. FieldSum(rs, m, f) = sum[Len(rs)]
  BY DEF FieldSum
<1> HIDE DEF sum
<1>4. ASSUME NEW n \in S, n # 0, sum[n] # g[n] PROVE sum[n - 1] # g[n - 1]
  BY <1>1, <1>2, <1>4
<1> DEFINE Bad == {n \in S : sum[n] # g[n]}
<1>5. Bad = {}
  <2> SUFFICES ASSUME Bad # {} PROVE FALSE
    OBVIOUS
  <2>1. Bad \subseteq Nat
    OBVIOUS
  <2>2. PICK n \in Bad : \A k \in Bad : n <= k
    <3> HIDE DEF Bad
    <3> QED BY <2>1, SmallestExists
  <2>3. sum[0] = m /\ g[0] = m
    BY <1>2 DEF Sums
  <2>4. n \in S /\ n # 0 /\ n - 1 \in S
    BY <2>2, <2>3
  <2>5. n - 1 \in Bad
    BY <1>4, <2>2, <2>4
  <2> QED BY <2>2, <2>4, <2>5
<1>6. Len(rs) \in S
  OBVIOUS
<1> QED BY <1>3, <1>5, <1>6

\* A sum of integers is one.
LEMMA SumType ==
  ASSUME NEW rs, Len(rs) \in Nat, NEW m \in Int, NEW f, \A k \in 1 .. Len(rs) : rs[k][f] \in Int
  PROVE  FieldSum(rs, m, f) \in Int
<1>1. PICK g : Sums(g, rs, m, f, Len(rs))
  BY SumsExist
<1>2. g[Len(rs)] \in Int
  BY <1>1 DEF Sums
<1>3. FieldSum(rs, m, f) = g[Len(rs)]
  BY <1>1, SumIs
<1> QED BY <1>2, <1>3

\* What the sum begins with is added to it.
LEMMA SumShift ==
  ASSUME NEW rs, Len(rs) \in Nat, NEW m \in Int, NEW d \in Int, NEW f,
         \A k \in 1 .. Len(rs) : rs[k][f] \in Int
  PROVE  FieldSum(rs, m + d, f) = FieldSum(rs, m, f) + d
<1>1. PICK g : Sums(g, rs, m, f, Len(rs))
  BY SumsExist
<1> DEFINE n == Len(rs)
           h == [k \in 0 .. n |-> g[k] + d]
<1>2. Sums(h, rs, m + d, f, n)
  <2>1. h \in [0 .. n -> Int] /\ h[0] = m + d
    BY <1>1 DEF Sums
  <2>2. ASSUME NEW k \in 1 .. n PROVE h[k] = h[k - 1] + rs[k][f]
    <3>1. g[k] = g[k - 1] + rs[k][f] /\ g[k - 1] \in Int /\ rs[k][f] \in Int
      BY <1>1 DEF Sums
    <3>2. h[k] = g[k] + d /\ h[k - 1] = g[k - 1] + d
      OBVIOUS
    <3> QED BY <3>1, <3>2
  <2> HIDE DEF h
  <2> QED BY <2>1, <2>2 DEF Sums
<1>3. h[n] = g[n] + d
  OBVIOUS
<1> HIDE DEF h
<1> QED BY <1>1, <1>2, <1>3, SumIs

\* The sum goes on with every element.
LEMMA SumAppend ==
  ASSUME NEW S, NEW rs \in Seq(S), NEW r \in S, NEW m \in Int, NEW f, \A s \in S : s[f] \in Int
  PROVE  FieldSum(Append(rs, r), m, f) = FieldSum(rs, m, f) + r[f]
<1> DEFINE n == Len(rs)
           rs2 == Append(rs, r)
<1>1. /\ n \in Nat /\ Len(rs2) = n + 1
      /\ \A k \in 1 .. n : rs2[k] = rs[k] /\ rs[k] \in S
      /\ rs2[n + 1] = r
  OBVIOUS
<1> HIDE DEF rs2
<1>2. PICK g : Sums(g, rs, m, f, n)
  BY <1>1, SumsExist
<1> DEFINE h == [k \in 0 .. n + 1 |-> IF k = n + 1 THEN g[n] + r[f] ELSE g[k]]
<1>3. Sums(h, rs2, m, f, n + 1)
  <2>1. h \in [0 .. n + 1 -> Int] /\ h[0] = m
    BY <1>1, <1>2 DEF Sums
  <2>2. ASSUME NEW k \in 1 .. n + 1 PROVE h[k] = h[k - 1] + rs2[k][f]
    <3>1. CASE k = n + 1
      BY <1>1, <3>1
    <3>2. CASE k # n + 1
      <4>1. k \in 1 .. n /\ k - 1 \in 0 .. n
        BY <1>1, <3>2
      <4> QED BY <1>1, <1>2, <4>1 DEF Sums
    <3> QED BY <3>1, <3>2
  <2> HIDE DEF h
  <2> QED BY <2>1, <2>2 DEF Sums
<1>4. h[n + 1] = g[n] + r[f]
  BY <1>1
<1> HIDE DEF h
<1>5. FieldSum(rs, m, f) = g[n]
  BY <1>1, <1>2, SumIs
<1>6. FieldSum(rs2, m, f) = h[n + 1]
  BY <1>1, <1>3, SumIs
<1> QED BY <1>4, <1>5, <1>6 DEF rs2

\* Where what was added so far is appended as an element, the sum stays.
LEMMA SumMoved ==
  ASSUME NEW S, NEW rs \in Seq(S), NEW r \in S, NEW f, \A s \in S : s[f] \in Int
  PROVE  FieldSum(Append(rs, r), 0, f) = FieldSum(rs, r[f], f)
<1>1. Len(rs) \in Nat /\ r[f] \in Int /\ \A k \in 1 .. Len(rs) : rs[k][f] \in Int
  <2>1. ASSUME NEW k \in 1 .. Len(rs) PROVE rs[k] \in S
    OBVIOUS
  <2> QED BY <2>1
<1>2. FieldSum(rs, 0 + r[f], f) = FieldSum(rs, 0, f) + r[f]
  BY <1>1, SumShift
<1>3. 0 + r[f] = r[f]
  BY <1>1
<1> QED BY <1>2, <1>3, SumAppend

-----------------------------------------------------------------------------
(* base64.c: the text of a payload fits where thread_up writes it, is the    *)
(* text that RFC 4648 gives it, and reads back as the payload; and a text    *)
(* reads as the bytes it denotes.                                           *)

\* How many characters n bytes take, by the rest of n by 3 (bin_to_b64_nopad).
LEMMA CharsForIs ==
  ASSUME NEW n \in Nat
  PROVE  /\ CharsFor(n) \in Nat
         /\ n % 3 = 0 => CharsFor(n) = 4 * (n \div 3)
         /\ n % 3 = 1 => CharsFor(n) = 4 * (n \div 3) + 2
         /\ n % 3 = 2 => CharsFor(n) = 4 * (n \div 3) + 3
<1>1. n % 3 \in {0, 1, 2}
  OBVIOUS
<1>2. <<0, 2, 3>>[1] = 0 /\ <<0, 2, 3>>[2] = 2 /\ <<0, 2, 3>>[3] = 3
  OBVIOUS
<1>3. n \div 3 \in Nat
  OBVIOUS
<1> QED
  BY <1>1, <1>2, <1>3 DEF CharsFor

\* Rounded up to whole blocks of four these are the blocks of three bytes that n bytes
\* begin.
LEMMA CharsBlocks ==
  ASSUME NEW n \in Nat
  PROVE  LET c == CharsFor(n)
             full == 4 * ((n + 2) \div 3)
         IN  /\ c \in Nat
             /\ c <= full
             /\ c % 4 \in {0, 2, 3}
             /\ c % 4 = 0 => c = full
             /\ c % 4 = 2 => c + 2 = full
             /\ c % 4 = 3 => c + 1 = full
<1> DEFINE q == n \div 3
<1>1. q \in Nat /\ n = 3 * q + (n % 3) /\ n % 3 \in {0, 1, 2}
  OBVIOUS
<1>2. CASE n % 3 = 0
  <2>1. (n + 2) \div 3 = q
    BY <1>1, <1>2
  <2>2. CharsFor(n) = 4 * q
    BY <1>2, CharsForIs
  <2>3. (4 * q) % 4 = 0
    BY <1>1
  <2> QED
    BY <1>1, <2>1, <2>2, <2>3
<1>3. CASE n % 3 = 1
  <2>1. (n + 2) \div 3 = q + 1
    BY <1>1, <1>3
  <2>2. CharsFor(n) = 4 * q + 2
    BY <1>3, CharsForIs
  <2>3. (4 * q + 2) % 4 = 2
    BY <1>1
  <2> QED
    BY <1>1, <2>1, <2>2, <2>3
<1>4. CASE n % 3 = 2
  <2>1. (n + 2) \div 3 = q + 1
    BY <1>1, <1>4
  <2>2. CharsFor(n) = 4 * q + 3
    BY <1>4, CharsForIs
  <2>3. (4 * q + 3) % 4 = 3
    BY <1>1
  <2> QED
    BY <1>1, <2>1, <2>2, <2>3
<1> QED
  BY <1>1, <1>2, <1>3, <1>4

\* The padding completes the last block of four characters (bin_to_b64).
LEMMA PadsIs ==
  /\ <<0, 0, 2, 1>>[1] = 0 /\ <<0, 0, 2, 1>>[2] = 0
  /\ <<0, 0, 2, 1>>[3] = 2 /\ <<0, 0, 2, 1>>[4] = 1
OBVIOUS

\* bin_to_b64 with enough room: what it returns is four characters for every three
\* bytes that have begun, and it is never -1.
LEMMA TextLength ==
  ASSUME NEW in \in Seq(Byte), NEW max_len \in Nat,
         max_len >= 4 * ((Len(in) + 2) \div 3) + 1
  PROVE  bin_to_b64(in, max_len).ret = 4 * ((Len(in) + 2) \div 3)
<1> DEFINE n == Len(in)
           c == CharsFor(n)
           text == bin_to_b64_nopad(in, max_len)
<1>1. n \in Nat
  OBVIOUS
<1>2. CASE n = 0
  <2>1. text.ret = 0
    BY <1>2 DEF bin_to_b64_nopad, Result
  <2>2. bin_to_b64(in, max_len) = text
    BY <2>1 DEF bin_to_b64
  <2> QED
    BY <2>1, <2>2, <1>2
<1>3. CASE n > 0
  <2>1. /\ c \in Nat
        /\ c <= 4 * ((n + 2) \div 3)
        /\ c % 4 \in {0, 2, 3}
        /\ c % 4 = 0 => c = 4 * ((n + 2) \div 3)
        /\ c % 4 = 2 => c + 2 = 4 * ((n + 2) \div 3)
        /\ c % 4 = 3 => c + 1 = 4 * ((n + 2) \div 3)
    BY <1>1, CharsBlocks
  <2>2. text.ret = c
    BY <1>3, <2>1 DEF bin_to_b64_nopad, Result
  <2>3. CASE c % 4 = 0
    <3>1. bin_to_b64(in, max_len) = text
      BY <2>1, <2>2, <2>3 DEF bin_to_b64
    <3> QED
      BY <2>1, <2>2, <2>3, <3>1
  <2>4. CASE c % 4 = 2
    <3>1. bin_to_b64(in, max_len).ret = c + 2
      BY <2>1, <2>2, <2>4, PadsIs DEF bin_to_b64, Result
    <3> QED
      BY <2>1, <2>4, <3>1
  <2>5. CASE c % 4 = 3
    <3>1. bin_to_b64(in, max_len).ret = c + 1
      BY <2>1, <2>2, <2>5, PadsIs DEF bin_to_b64, Result
    <3> QED
      BY <2>1, <2>5, <3>1
  <2> QED
    BY <2>1, <2>3, <2>4, <2>5
<1> QED
  BY <1>1, <1>2, <1>3

\* "255 bytes = 340 chars in b64 + null char" (lora_pkt_fwd.c:1804): no payload a
\* LoRa packet can have, whatever its length, makes bin_to_b64 fail in thread_up, which
\* would end the thread.
THEOREM PayloadFits ==
  ASSUME NEW in \in Seq(Byte), Len(in) <= 255
  PROVE  bin_to_b64(in, 341).ret \in Nat /\ bin_to_b64(in, 341).ret <= 340
<1>1. \A n \in Nat : n <= 255 => (n + 2) \div 3 \in Nat /\ (n + 2) \div 3 <= 85
  OBVIOUS
<1>2. Len(in) \in Nat
  OBVIOUS
<1>3. bin_to_b64(in, 341).ret = 4 * ((Len(in) + 2) \div 3)
  BY <1>1, <1>2, TextLength
<1> QED
  BY <1>1, <1>2, <1>3

-----------------------------------------------------------------------------

\* char_to_code takes back what code_to_char does, and never exits on it.
LEMMA CodesInverse ==
  \A x \in 0 .. 63 : /\ code_to_char(x) \in CodeChar
                     /\ char_to_code(code_to_char(x)) = x
BY DEF code_to_char, CodeChar, char_to_code, code_62, code_63

\* No code is written as padding.
LEMMA PadIsNoCode == code_pad \notin CodeChar
BY DEF code_pad, CodeChar, code_62, code_63

\* The four codes of a block of 24 bits.
LEMMA CodeOfIs ==
  ASSUME NEW b \in Nat
  PROVE  /\ CodeOf(b, 0) = (b \div 262144) % 64
         /\ CodeOf(b, 1) = (b \div 4096) % 64
         /\ CodeOf(b, 2) = (b \div 64) % 64
         /\ CodeOf(b, 3) = b % 64
BY SMT DEF CodeOf

\* A block, and the block that four codes or three bytes make.
Bits24 == {b \in Nat : b <= 16777215}
FromCodes(c0, c1, c2, c3) == c0 * 262144 + c1 * 4096 + c2 * 64 + c3
FromBytes(x, y, z) == x * 65536 + y * 256 + z

\* A block is put together again from its codes.
LEMMA BlockOfCodes ==
  ASSUME NEW b \in Bits24
  PROVE  /\ \A j \in 0 .. 3 : CodeOf(b, j) \in 0 .. 63
         /\ FromCodes(CodeOf(b, 0), CodeOf(b, 1), CodeOf(b, 2), CodeOf(b, 3)) = b
<1>0. b \in Nat /\ b <= 16777215
  BY SMT DEF Bits24
<1> DEFINE p == b \div 64
           q == p \div 64
           r == q \div 64
<1>1. p \in Nat /\ b = 64 * p + (b % 64) /\ b % 64 \in 0 .. 63 /\ p <= 262143
  BY SMT, <1>0
<1>2. q \in Nat /\ p = 64 * q + (p % 64) /\ p % 64 \in 0 .. 63 /\ q <= 4095
  BY SMT, <1>0, <1>1
<1>3. r \in Nat /\ q = 64 * r + (q % 64) /\ q % 64 \in 0 .. 63 /\ r <= 63 /\ r % 64 = r
  BY SMT, <1>0, <1>1, <1>2
<1>4. b \div 64 = p /\ b \div 4096 = q /\ b \div 262144 = r
  BY SMT, <1>0
<1> HIDE DEF p, q, r
<1>5. CodeOf(b, 0) = r /\ CodeOf(b, 1) = q % 64 /\ CodeOf(b, 2) = p % 64 /\ CodeOf(b, 3) = b % 64
  <2>1. /\ CodeOf(b, 0) = (b \div 262144) % 64
        /\ CodeOf(b, 1) = (b \div 4096) % 64
        /\ CodeOf(b, 2) = (b \div 64) % 64
        /\ CodeOf(b, 3) = b % 64
    BY SMT, <1>0 DEF CodeOf
  <2> QED
    BY SMT, <1>0, <1>1, <1>2, <1>3, <1>4, <2>1
<1>6. \A j \in 0 .. 3 : CodeOf(b, j) \in 0 .. 63
  BY SMT, <1>1, <1>2, <1>3, <1>5
<1>7. r * 262144 + (q % 64) * 4096 + (p % 64) * 64 + (b % 64) = b
  BY SMT, <1>1, <1>2, <1>3
<1> QED
  BY SMT, <1>5, <1>6, <1>7 DEF FromCodes

\* A byte as the arithmetic of a block uses it.
LEMMA ByteIs == \A x \in Byte : x \in Nat /\ x <= 255
BY DEF Byte

\* Where the last block has one byte, or two, the codes without a character are 0.
LEMMA RestIsZero ==
  ASSUME NEW x \in Nat, NEW y \in Nat
  PROVE  /\ CodeOf(FromBytes(x, 0, 0), 2) = 0 /\ CodeOf(FromBytes(x, 0, 0), 3) = 0
         /\ CodeOf(FromBytes(x, y, 0), 3) = 0
<1>1. x * 65536 \in Nat /\ x * 65536 + y * 256 \in Nat
  BY SMT
<1>2. (x * 65536) \div 64 = x * 1024 /\ (x * 1024) % 64 = 0
  BY SMT
<1>3. (x * 65536) % 64 = 0 /\ (x * 65536 + y * 256) % 64 = 0
  BY SMT
<1>4. FromBytes(x, 0, 0) = x * 65536 /\ FromBytes(x, y, 0) = x * 65536 + y * 256
  BY SMT DEF FromBytes
<1> QED
  BY SMT, <1>1, <1>2, <1>3, <1>4, CodeOfIs

\* The bytes of a payload, and what counts as one behind its end.
LEMMA AtIs ==
  ASSUME NEW in \in Seq(Byte)
  PROVE  \A k \in Nat : At(in, k) \in Nat /\ At(in, k) <= 255
<1> TAKE k \in Nat
<1>1. CASE k \in DOMAIN in
  <2>1. in[k] \in Byte
    BY <1>1
  <2> QED
    BY <1>1, <2>1, ByteIs DEF At
<1>2. CASE k \notin DOMAIN in
  BY <1>2 DEF At
<1> QED
  BY <1>1, <1>2

\* The three bytes in the block at index i of a payload.
LEMMA BlockIs ==
  ASSUME NEW in \in Seq(Byte), NEW i \in Nat
  PROVE  /\ At(in, 3 * i + 1) \in Nat /\ At(in, 3 * i + 2) \in Nat /\ At(in, 3 * i + 3) \in Nat
         /\ Block3(in, i) = FromBytes(At(in, 3 * i + 1), At(in, 3 * i + 2), At(in, 3 * i + 3))
         /\ Block3(in, i) \in Bits24
         /\ ByteOf(Block3(in, i), 0) = At(in, 3 * i + 1)
         /\ ByteOf(Block3(in, i), 1) = At(in, 3 * i + 2)
         /\ ByteOf(Block3(in, i), 2) = At(in, 3 * i + 3)
<1>2. 3 * i + 1 \in Nat /\ 3 * i + 2 \in Nat /\ 3 * i + 3 \in Nat
  OBVIOUS
<1> DEFINE x == At(in, 3 * i + 1)
           y == At(in, 3 * i + 2)
           z == At(in, 3 * i + 3)
<1>3. x \in Nat /\ x <= 255 /\ y \in Nat /\ y <= 255 /\ z \in Nat /\ z <= 255
  BY <1>2, AtIs
<1>4. Block3(in, i) = x * 65536 + y * 256 + z
  BY SMT DEF Block3
<1> HIDE DEF x, y, z
<1> DEFINE b == Block3(in, i)
<1> HIDE DEF b
<1>5. b = x * 65536 + y * 256 + z
  BY SMT, <1>4 DEF b
<1>6. b \in Nat /\ b <= 16777215
  BY SMT, <1>3, <1>5
<1>7. b \div 65536 = x /\ b \div 256 = x * 256 + y
  BY SMT, <1>3, <1>5
<1>8. x % 256 = x /\ (x * 256 + y) % 256 = y /\ b % 256 = z
  BY SMT, <1>3, <1>5
<1>9. ByteOf(b, 0) = x /\ ByteOf(b, 1) = y /\ ByteOf(b, 2) = z
  <2>1. /\ ByteOf(b, 0) = (b \div 65536) % 256
        /\ ByteOf(b, 1) = (b \div 256) % 256
        /\ ByteOf(b, 2) = b % 256
    BY SMT, <1>6 DEF ByteOf
  <2> QED
    BY SMT, <1>7, <1>8, <2>1
<1>10. b \in Bits24
  BY SMT, <1>6 DEF Bits24
<1>11. Block3(in, i) = FromBytes(x, y, z)
  BY SMT, <1>4 DEF FromBytes
<1> QED
  BY <1>3, <1>9, <1>10, <1>11 DEF b, x, y, z

\* The codes of a payload are codes.
LEMMA PayloadCodes ==
  ASSUME NEW in \in Seq(Byte)
  PROVE  \A i \in Nat : \A j \in 0 .. 3 : CodeOf(Block3(in, i), j) \in 0 .. 63
BY BlockIs, BlockOfCodes

\* The text without padding: codes only, as many as CharsFor says, each the next six bits.
LEMMA TextCodes ==
  ASSUME NEW in \in Seq(Byte), Len(in) > 0,
         NEW max_len \in Nat, max_len >= CharsFor(Len(in)) + 1,
         NEW T, T = bin_to_b64_nopad(in, max_len).out
  PROVE  /\ T \in Seq(CodeChar)
         /\ Len(T) = CharsFor(Len(in))
         /\ bin_to_b64_nopad(in, max_len).ret = CharsFor(Len(in))
         /\ \A k \in 1 .. Len(T) :
              char_to_code(T[k]) = CodeOf(Block3(in, (k - 1) \div 4), (k - 1) % 4)
<1> DEFINE c == CharsFor(Len(in))
           code(k) == CodeOf(Block3(in, (k - 1) \div 4), (k - 1) % 4)
<1>1. c \in Nat
  BY CharsForIs
<1>2. T = [k \in 1 .. c |-> code_to_char(code(k))] /\ bin_to_b64_nopad(in, max_len).ret = c
  BY <1>1 DEF bin_to_b64_nopad, Result
<1>3. ASSUME NEW k \in 1 .. c
      PROVE  code(k) \in 0 .. 63
  <2>1. (k - 1) \div 4 \in Nat /\ (k - 1) % 4 \in 0 .. 3
    BY <1>1
  <2> QED
    BY <2>1, PayloadCodes
<1> HIDE DEF c, code
<1>4. \A k \in 1 .. c : T[k] \in CodeChar /\ char_to_code(T[k]) = code(k)
  BY <1>2, <1>3, CodesInverse
<1>5. T \in [1 .. c -> CodeChar]
  BY <1>2, <1>4
<1>6. T \in Seq(CodeChar) /\ Len(T) = c
  BY <1>1, <1>5
<1> QED
  BY <1>2, <1>4, <1>6 DEF c, code

\* What b64_to_bin_nopad reads of a block of four characters is what bin_to_b64_nopad
\* made it of, also in a last block that is not complete.
LEMMA BlockBack ==
  ASSUME NEW in \in Seq(Byte), NEW i \in Nat, 3 * i < Len(in),
         NEW T \in Seq(CodeChar), Len(T) = CharsFor(Len(in)),
         \A k \in 1 .. Len(T) :
           char_to_code(T[k]) = CodeOf(Block3(in, (k - 1) \div 4), (k - 1) % 4)
  PROVE  Block4(T, i) = Block3(in, i)
<1> DEFINE b == Block3(in, i)
           n == Len(in)
           c == Len(T)
<1>1. n \in Nat /\ c \in Nat
  OBVIOUS
<1>2. \A k \in 1 .. c : Code(T, k) = CodeOf(Block3(in, (k - 1) \div 4), (k - 1) % 4)
  BY DEF Code
<1>3. /\ 4 * i + 1 <= c => Code(T, 4 * i + 1) = CodeOf(b, 0)
      /\ 4 * i + 2 <= c => Code(T, 4 * i + 2) = CodeOf(b, 1)
      /\ 4 * i + 3 <= c => Code(T, 4 * i + 3) = CodeOf(b, 2)
      /\ 4 * i + 4 <= c => Code(T, 4 * i + 4) = CodeOf(b, 3)
  <2>1. \A k \in 1 .. c, j \in 0 .. 3 :
          (k - 1) \div 4 = i /\ (k - 1) % 4 = j => Code(T, k) = CodeOf(b, j)
    BY Zenon, <1>2
  <2> HIDE DEF b, c
  <2>2. 4 * i + 1 <= c => Code(T, 4 * i + 1) = CodeOf(b, 0)
    <3> DEFINE k == 4 * i + 1
    <3>1. (k <= c => k \in 1 .. c) /\ (k - 1) \div 4 = i /\ (k - 1) % 4 = 0 /\ 0 \in 0 .. 3
      BY <1>1
    <3> HIDE DEF k
    <3>2. k <= c => Code(T, k) = CodeOf(b, 0)
      BY Zenon, <2>1, <3>1
    <3> QED
      BY Zenon, <3>2 DEF k
  <2>3. 4 * i + 2 <= c => Code(T, 4 * i + 2) = CodeOf(b, 1)
    <3> DEFINE k == 4 * i + 2
    <3>1. (k <= c => k \in 1 .. c) /\ (k - 1) \div 4 = i /\ (k - 1) % 4 = 1 /\ 1 \in 0 .. 3
      BY <1>1
    <3> HIDE DEF k
    <3>2. k <= c => Code(T, k) = CodeOf(b, 1)
      BY Zenon, <2>1, <3>1
    <3> QED
      BY Zenon, <3>2 DEF k
  <2>4. 4 * i + 3 <= c => Code(T, 4 * i + 3) = CodeOf(b, 2)
    <3> DEFINE k == 4 * i + 3
    <3>1. (k <= c => k \in 1 .. c) /\ (k - 1) \div 4 = i /\ (k - 1) % 4 = 2 /\ 2 \in 0 .. 3
      BY <1>1
    <3> HIDE DEF k
    <3>2. k <= c => Code(T, k) = CodeOf(b, 2)
      BY Zenon, <2>1, <3>1
    <3> QED
      BY Zenon, <3>2 DEF k
  <2>5. 4 * i + 4 <= c => Code(T, 4 * i + 4) = CodeOf(b, 3)
    <3> DEFINE k == 4 * i + 4
    <3>1. (k <= c => k \in 1 .. c) /\ (k - 1) \div 4 = i /\ (k - 1) % 4 = 3 /\ 3 \in 0 .. 3
      BY <1>1
    <3> HIDE DEF k
    <3>2. k <= c => Code(T, k) = CodeOf(b, 3)
      BY Zenon, <2>1, <3>1
    <3> QED
      BY Zenon, <3>2 DEF k
  <2> QED
    BY <2>2, <2>3, <2>4, <2>5
<1>4. \A k \in Nat : k > c => Code(T, k) = 0
  BY <1>1 DEF Code
<1>5. b \in Bits24
  BY BlockIs
<1>6. FromCodes(CodeOf(b, 0), CodeOf(b, 1), CodeOf(b, 2), CodeOf(b, 3)) = b
  BY <1>5, BlockOfCodes
<1>7. Block4(T, i) = FromCodes(Code(T, 4 * i + 1), Code(T, 4 * i + 2),
                               Code(T, 4 * i + 3), Code(T, 4 * i + 4))
  BY SMT DEF Block4, FromCodes
<1>8. CASE 3 * i + 3 <= n
  <2>1. 4 * i + 4 <= c
    <3>1. CharsFor(n) = 4 * (n \div 3) \/ CharsFor(n) = 4 * (n \div 3) + 2
            \/ CharsFor(n) = 4 * (n \div 3) + 3
      <4>1. n % 3 \in {0, 1, 2}
        BY <1>1
      <4> QED
        BY <1>1, <4>1, CharsForIs
    <3>2. n \div 3 >= i + 1 /\ n \div 3 \in Nat
      BY <1>1, <1>8
    <3> QED
      BY <3>1, <3>2
  <2> HIDE DEF b, n, c
  <2>2. 4 * i + 1 <= c /\ 4 * i + 2 <= c /\ 4 * i + 3 <= c
    BY <1>1, <2>1
  <2> QED
    BY Zenon, <1>3, <1>6, <1>7, <2>1, <2>2 DEF b
<1>9. CASE n = 3 * i + 1
  <2>1. c = 4 * i + 2
    <3>1. n % 3 = 1 /\ n \div 3 = i
      BY <1>9
    <3> QED
      BY <1>1, <3>1, CharsForIs
  <2>2. At(in, 3 * i + 2) = 0 /\ At(in, 3 * i + 3) = 0
    BY <1>9 DEF At
  <2>3. At(in, 3 * i + 1) \in Nat /\ b = FromBytes(At(in, 3 * i + 1), 0, 0)
    BY Zenon, <2>2, BlockIs
  <2>4. CodeOf(b, 2) = 0 /\ CodeOf(b, 3) = 0
    BY Zenon, <2>3, RestIsZero
  <2> HIDE DEF b, n, c
  <2>5. Code(T, 4 * i + 3) = 0 /\ Code(T, 4 * i + 4) = 0
    BY <1>4, <2>1
  <2>6. 4 * i + 1 <= c /\ 4 * i + 2 <= c
    BY <2>1
  <2> QED
    BY Zenon, <1>3, <1>6, <1>7, <2>4, <2>5, <2>6 DEF b
<1>10. CASE n = 3 * i + 2
  <2>1. c = 4 * i + 3
    <3>1. n % 3 = 2 /\ n \div 3 = i
      BY <1>10
    <3> QED
      BY <1>1, <3>1, CharsForIs
  <2>2. At(in, 3 * i + 3) = 0
    BY <1>10 DEF At
  <2>3. /\ At(in, 3 * i + 1) \in Nat /\ At(in, 3 * i + 2) \in Nat
        /\ b = FromBytes(At(in, 3 * i + 1), At(in, 3 * i + 2), 0)
    BY Zenon, <2>2, BlockIs
  <2>4. CodeOf(b, 3) = 0
    BY Zenon, <2>3, RestIsZero
  <2> HIDE DEF b, n, c
  <2>5. Code(T, 4 * i + 4) = 0
    BY <1>4, <2>1
  <2>6. 4 * i + 1 <= c /\ 4 * i + 2 <= c /\ 4 * i + 3 <= c
    BY <2>1
  <2> QED
    BY Zenon, <1>3, <1>6, <1>7, <2>4, <2>5, <2>6 DEF b
<1> QED
  BY <1>1, <1>8, <1>9, <1>10

\* b64_to_bin_nopad finds as many bytes in the characters of n bytes as there were.
LEMMA BytesBack ==
  ASSUME NEW n \in Nat
  PROVE  BytesFor(CharsFor(n)) = n
<1> DEFINE q == n \div 3
<1>1. q \in Nat /\ n = 3 * q + (n % 3) /\ n % 3 \in {0, 1, 2}
  OBVIOUS
<1>2. <<0, 0, 1, 2>>[1] = 0 /\ <<0, 0, 1, 2>>[3] = 1 /\ <<0, 0, 1, 2>>[4] = 2
  OBVIOUS
<1>3. CASE n % 3 = 0
  <2>1. CharsFor(n) = 4 * q
    BY <1>3, CharsForIs
  <2>2. (4 * q) % 4 = 0 /\ (4 * q) \div 4 = q
    BY <1>1
  <2> QED
    BY <1>1, <1>2, <1>3, <2>1, <2>2 DEF BytesFor
<1>4. CASE n % 3 = 1
  <2>1. CharsFor(n) = 4 * q + 2
    BY <1>4, CharsForIs
  <2>2. (4 * q + 2) % 4 = 2 /\ (4 * q + 2) \div 4 = q
    BY <1>1
  <2> QED
    BY <1>1, <1>2, <1>4, <2>1, <2>2 DEF BytesFor
<1>5. CASE n % 3 = 2
  <2>1. CharsFor(n) = 4 * q + 3
    BY <1>5, CharsForIs
  <2>2. (4 * q + 3) % 4 = 3 /\ (4 * q + 3) \div 4 = q
    BY <1>1
  <2> QED
    BY <1>1, <1>2, <1>5, <2>1, <2>2 DEF BytesFor
<1> QED
  BY <1>1, <1>3, <1>4, <1>5

\* b64_to_bin takes off the padding that bin_to_b64 put on, and nothing else.
LEMMA PaddingBack ==
  ASSUME NEW T \in Seq(CodeChar), Len(T) > 0
  PROVE  /\ Len(T) % 4 = 0 => Unpadded(T) = T
         /\ Len(T) % 4 = 2 => Unpadded(T \o Padding(2)) = T
         /\ Len(T) % 4 = 3 => Unpadded(T \o Padding(1)) = T
<1> DEFINE c == Len(T)
<1>1. c \in Nat /\ c > 0
  OBVIOUS
<1>2. \A k \in 1 .. c : T[k] # code_pad
  BY PadIsNoCode
<1>3. CASE c % 4 = 0
  <2>1. c - 1 \in 1 .. c /\ c \in 1 .. c
    BY <1>1, <1>3
  <2> QED
    BY <1>1, <1>2, <1>3, <2>1 DEF Unpadded
<1>4. CASE c % 4 = 2
  <2> DEFINE P == Padding(2)
             U == T \o P
             S == CodeChar \cup {code_pad}
  <2>1. P \in Seq(S) /\ Len(P) = 2 /\ P[1] = code_pad
    BY DEF Padding
  <2>2. T \in Seq(S)
    OBVIOUS
  <2> HIDE DEF P, S
  <2>3. /\ Len(U) = c + Len(P)
        /\ \A k \in 1 .. c + Len(P) : U[k] = IF k <= c THEN T[k] ELSE P[k - c]
    BY <2>1, <2>2, ConcatProperties
  <2>4. Len(U) = c + 2 /\ U[c + 1] = code_pad /\ \A k \in 1 .. c : U[k] = T[k]
    <3>1. U[c + 1] = P[1]
      <4>1. c + 1 \in 1 .. c + Len(P) /\ ~(c + 1 <= c) /\ (c + 1) - c = 1
        BY <1>1, <2>1
      <4> HIDE DEF U, c
      <4> QED
        BY <4>1, <2>3
    <3> HIDE DEF U, c
    <3> QED
      BY <1>1, <2>1, <2>3, <3>1
  <2>5. (c + 2) % 4 = 0 /\ c + 2 >= 4 /\ (c + 2) - 1 = c + 1 /\ (c + 2) - 2 = c
    BY <1>1, <1>4
  <2>6. SubSeq(U, 1, c) = T
    BY <1>1, <2>1, <2>4, <2>2
  <2> HIDE DEF U
  <2>7. Unpadded(U) = SubSeq(U, 1, c)
    BY <1>1, <2>4, <2>5 DEF Unpadded
  <2> QED
    BY <1>4, <2>6, <2>7 DEF U, P
<1>5. CASE c % 4 = 3
  <2> DEFINE P == Padding(1)
             U == T \o P
             S == CodeChar \cup {code_pad}
  <2>1. P \in Seq(S) /\ Len(P) = 1 /\ P[1] = code_pad
    BY DEF Padding
  <2>2. T \in Seq(S)
    OBVIOUS
  <2> HIDE DEF P, S
  <2>3. /\ Len(U) = c + Len(P)
        /\ \A k \in 1 .. c + Len(P) : U[k] = IF k <= c THEN T[k] ELSE P[k - c]
    BY <2>1, <2>2, ConcatProperties
  <2>4. Len(U) = c + 1 /\ U[c + 1] = code_pad /\ \A k \in 1 .. c : U[k] = T[k]
    <3>1. U[c + 1] = P[1]
      <4>1. c + 1 \in 1 .. c + Len(P) /\ ~(c + 1 <= c) /\ (c + 1) - c = 1
        BY <1>1, <2>1
      <4> HIDE DEF U, c
      <4> QED
        BY <4>1, <2>3
    <3> HIDE DEF U, c
    <3> QED
      BY <1>1, <2>1, <2>3, <3>1
  <2>5. (c + 1) % 4 = 0 /\ c + 1 >= 4 /\ (c + 1) - 1 = c /\ (c + 1) - 2 = c - 1
    BY <1>1, <1>5
  <2>6. SubSeq(U, 1, c) = T
    BY <1>1, <2>1, <2>4, <2>2
  <2>7. U[c] # code_pad
    BY <1>1, <1>2, <2>4
  <2> HIDE DEF U
  <2>8. Unpadded(U) = SubSeq(U, 1, c)
    BY <1>1, <2>4, <2>5, <2>7 DEF Unpadded
  <2> QED
    BY <1>5, <2>6, <2>8 DEF U, P
<1> QED
  BY <1>1, <1>3, <1>4, <1>5

\* bin_to_b64 puts behind the characters of bin_to_b64_nopad what is missing of a block.
LEMMA TextIs ==
  ASSUME NEW in \in Seq(Byte), Len(in) > 0, NEW max_len \in Nat,
         max_len >= 4 * ((Len(in) + 2) \div 3) + 1
  PROVE  LET n == Len(in)
             T == bin_to_b64_nopad(in, max_len).out
             text == bin_to_b64(in, max_len).out
         IN  /\ CharsFor(n) \in Nat /\ max_len >= CharsFor(n) + 1
             /\ n % 3 = 0 => CharsFor(n) % 4 = 0 /\ text = T
             /\ n % 3 = 1 => CharsFor(n) % 4 = 2 /\ text = T \o Padding(2)
             /\ n % 3 = 2 => CharsFor(n) % 4 = 3 /\ text = T \o Padding(1)
<1> DEFINE T == bin_to_b64_nopad(in, max_len).out
           text == bin_to_b64(in, max_len).out
           n == Len(in)
           c == CharsFor(n)
           R == bin_to_b64_nopad(in, max_len)
<1>1. n \in Nat /\ n > 0
  OBVIOUS
<1>2. /\ c \in Nat
      /\ c % 4 = 0 => c = 4 * ((n + 2) \div 3)
      /\ c % 4 = 2 => c + 2 = 4 * ((n + 2) \div 3)
      /\ c % 4 = 3 => c + 1 = 4 * ((n + 2) \div 3)
      /\ c <= 4 * ((n + 2) \div 3)
  BY <1>1, CharsBlocks
<1>3. max_len >= c + 1
  BY <1>1, <1>2
<1>4. R.ret = c /\ R.out = T
  BY <1>1, <1>3, <1>2 DEF bin_to_b64_nopad, Result
<1>5. /\ n % 3 = 0 => c % 4 = 0
      /\ n % 3 = 1 => c % 4 = 2
      /\ n % 3 = 2 => c % 4 = 3
  <2>1. n \div 3 \in Nat
    BY <1>1
  <2>2. \A q \in Nat : (4 * q) % 4 = 0 /\ (4 * q + 2) % 4 = 2 /\ (4 * q + 3) % 4 = 3
    OBVIOUS
  <2> QED
    BY <1>1, <2>1, <2>2, CharsForIs
<1>6. n % 3 = 0 => text = T
  <2> HIDE DEF n, c, R
  <2> QED
    BY <1>2, <1>4, <1>5 DEF bin_to_b64, R
<1>7. n % 3 = 1 => text = T \o Padding(2)
  <2> HIDE DEF n, c
  <2> SUFFICES ASSUME n % 3 = 1 PROVE text = T \o Padding(2)
    OBVIOUS
  <2>1. ~(R.ret = -1 \/ R.ret % 4 = 0)
    BY <1>2, <1>4, <1>5
  <2>2. <<0, 0, 2, 1>>[(R.ret % 4) + 1] = 2
    BY <1>2, <1>4, <1>5, PadsIs
  <2>3. max_len >= R.ret + 2 + 1
    BY <1>2, <1>4, <1>5 DEF n
  <2>4. bin_to_b64(in, max_len) = Result(R.ret + 2, R.out \o Padding(2))
    BY Zenon, <2>1, <2>2, <2>3 DEF bin_to_b64
  <2> QED
    BY <1>4, <2>4 DEF Result
<1>8. n % 3 = 2 => text = T \o Padding(1)
  <2> HIDE DEF n, c
  <2> SUFFICES ASSUME n % 3 = 2 PROVE text = T \o Padding(1)
    OBVIOUS
  <2>1. ~(R.ret = -1 \/ R.ret % 4 = 0)
    BY <1>2, <1>4, <1>5
  <2>2. <<0, 0, 2, 1>>[(R.ret % 4) + 1] = 1
    BY <1>2, <1>4, <1>5, PadsIs
  <2>3. max_len >= R.ret + 1 + 1
    BY <1>2, <1>4, <1>5 DEF n
  <2>4. bin_to_b64(in, max_len) = Result(R.ret + 1, R.out \o Padding(1))
    BY Zenon, <2>1, <2>2, <2>3 DEF bin_to_b64
  <2> QED
    BY <1>4, <2>4 DEF Result
<1> QED
  BY <1>2, <1>3, <1>5, <1>6, <1>7, <1>8

\* Each byte that b64_to_bin_nopad finds in the characters of a payload is the payload's.
LEMMA ByteBack ==
  ASSUME NEW in \in Seq(Byte), NEW k \in 1 .. Len(in),
         NEW b, b = Block3(in, (k - 1) \div 3)
  PROVE  ByteOf(b, (k - 1) % 3) = in[k]
<1> DEFINE i == (k - 1) \div 3
           j == (k - 1) % 3
<1>1. i \in Nat /\ j \in {0, 1, 2} /\ k = 3 * i + j + 1
  OBVIOUS
<1>2. /\ ByteOf(Block3(in, i), 0) = At(in, 3 * i + 1)
      /\ ByteOf(Block3(in, i), 1) = At(in, 3 * i + 2)
      /\ ByteOf(Block3(in, i), 2) = At(in, 3 * i + 3)
  BY <1>1, BlockIs
<1>3. At(in, k) = in[k]
  BY DEF At
<1> HIDE DEF i, j
<1>4. /\ j = 0 => k = 3 * i + 1
      /\ j = 1 => k = 3 * i + 2
      /\ j = 2 => k = 3 * i + 3
  BY <1>1
<1>5. ByteOf(Block3(in, i), j) = At(in, k)
  BY Zenon, <1>1, <1>2, <1>4
<1> QED
  BY Zenon, <1>3, <1>5 DEF i, j

\* b64_to_bin reads the text that bin_to_b64 wrote as the payload it was, whatever its
\* length and wherever its last block ends, and no such text makes char_to_code call
\* exit: a server that encodes as thread_up does can never end the forwarder.
THEOREM RoundTrip ==
  ASSUME NEW in \in Seq(Byte), NEW max_len \in Nat,
         max_len >= 4 * ((Len(in) + 2) \div 3) + 1,
         NEW room \in Nat, room >= Len(in),
         NEW text, text = bin_to_b64(in, max_len).out
  PROVE  /\ ~b64_to_bin_exits(text, room)
         /\ b64_to_bin(text, room) = Result(Len(in), in)
<1> DEFINE n == Len(in)
           T == bin_to_b64_nopad(in, max_len).out
<1>1. n \in Nat
  OBVIOUS
<1>2. CASE n = 0
  <2>1. bin_to_b64_nopad(in, max_len) = Result(0, <<>>)
    BY <1>2 DEF bin_to_b64_nopad
  <2>2. text = <<>>
    BY <2>1 DEF bin_to_b64, Result
  <2>3. Unpadded(<<>>) = <<>>
    BY DEF Unpadded
  <2>4. b64_to_bin(text, room) = Result(0, <<>>)
    BY <2>2, <2>3 DEF b64_to_bin, b64_to_bin_nopad
  <2>5. ~b64_to_bin_exits(text, room)
    BY <2>2, <2>3 DEF b64_to_bin_exits, Exits
  <2>6. in = <<>>
    BY <1>2
  <2> QED
    BY <1>2, <2>4, <2>5, <2>6
<1>3. CASE n > 0
  <2>1. /\ CharsFor(n) \in Nat
        /\ CharsFor(n) <= 4 * ((n + 2) \div 3)
        /\ CharsFor(n) % 4 \in {0, 2, 3}
        /\ CharsFor(n) % 4 = 0 => CharsFor(n) = 4 * ((n + 2) \div 3)
        /\ CharsFor(n) % 4 = 2 => CharsFor(n) + 2 = 4 * ((n + 2) \div 3)
        /\ CharsFor(n) % 4 = 3 => CharsFor(n) + 1 = 4 * ((n + 2) \div 3)
    BY <1>1, CharsBlocks
  <2>2. max_len >= CharsFor(n) + 1
    BY <1>1, <2>1
  <2>3. /\ T \in Seq(CodeChar)
        /\ Len(T) = CharsFor(n)
        /\ bin_to_b64_nopad(in, max_len).ret = CharsFor(n)
        /\ \A k \in 1 .. Len(T) :
             char_to_code(T[k]) = CodeOf(Block3(in, (k - 1) \div 4), (k - 1) % 4)
    BY <1>3, <2>2, TextCodes
  <2>4. BytesFor(Len(T)) = n
    BY <1>1, <2>3, BytesBack
  <2>5. Len(T) > 0
    <3>1. BytesFor(0) = 0
      BY DEF BytesFor
    <3> QED
      BY <1>3, <2>1, <2>3, <2>4, <3>1
  <2>6. Unpadded(text) = T
    <3>1. /\ n % 3 = 0 => CharsFor(n) % 4 = 0 /\ text = T
          /\ n % 3 = 1 => CharsFor(n) % 4 = 2 /\ text = T \o Padding(2)
          /\ n % 3 = 2 => CharsFor(n) % 4 = 3 /\ text = T \o Padding(1)
      BY <1>3, TextIs
    <3>2. n % 3 \in {0, 1, 2}
      BY <1>1
    <3> HIDE DEF n, T
    <3>3. /\ Len(T) % 4 = 0 => Unpadded(T) = T
          /\ Len(T) % 4 = 2 => Unpadded(T \o Padding(2)) = T
          /\ Len(T) % 4 = 3 => Unpadded(T \o Padding(1)) = T
      BY <2>3, <2>5, PaddingBack
    <3> QED
      BY Zenon, <2>3, <3>1, <3>2, <3>3
  <2>7. ~b64_to_bin_exits(text, room)
    <3>1. \A k \in DOMAIN T : T[k] \in CodeChar
      BY <2>3
    <3> QED
      BY <2>6, <3>1 DEF b64_to_bin_exits, Exits
  <2>8. ASSUME NEW k \in 1 .. n
        PROVE  ByteOf(Block4(T, (k - 1) \div 3), (k - 1) % 3) = in[k]
    <3>1. (k - 1) \div 3 \in Nat /\ 3 * ((k - 1) \div 3) < n
      BY <1>1
    <3>2. Block4(T, (k - 1) \div 3) = Block3(in, (k - 1) \div 3)
      BY <2>3, <3>1, BlockBack
    <3> QED
      BY <3>2, ByteBack
  <2>9. b64_to_bin_nopad(T, room)
          = Result(n, [k \in 1 .. n |-> ByteOf(Block4(T, (k - 1) \div 3), (k - 1) % 3)])
    BY <1>1, <1>3, <2>1, <2>3, <2>4, <2>5 DEF b64_to_bin_nopad
  <2>10. [k \in 1 .. n |-> ByteOf(Block4(T, (k - 1) \div 3), (k - 1) % 3)] = in
    <3>1. in = [k \in 1 .. n |-> in[k]]
      OBVIOUS
    <3> QED
      BY <2>8, <3>1
  <2> QED
    BY <2>6, <2>7, <2>9, <2>10 DEF b64_to_bin
<1> QED
  BY <1>1, <1>2, <1>3

-----------------------------------------------------------------------------
(* The bits: those of the codes are those of the bytes.                    *)

\* The three bytes of a block of 24 bits.
LEMMA ByteOfIs ==
  ASSUME NEW b \in Nat
  PROVE  /\ ByteOf(b, 0) = (b \div 65536) % 256
         /\ ByteOf(b, 1) = (b \div 256) % 256
         /\ ByteOf(b, 2) = b % 256
BY SMT DEF ByteOf

\* Bit p of a block, the first the most significant.
BlockBit(b, p) ==
  (b \div <<8388608, 4194304, 2097152, 1048576, 524288, 262144, 131072, 65536, 32768, 16384,
            8192, 4096, 2048, 1024, 512, 256, 128, 64, 32, 16, 8, 4, 2, 1>>[p + 1]) % 2

\* The bits of a code are the last six of what it is the rest of.
LEMMA RestBits64 ==
  ASSUME NEW x \in Nat
  PROVE  /\ Bit(x % 64, 6, 0) = Bit(x, 6, 0) /\ Bit(x % 64, 6, 1) = Bit(x, 6, 1)
         /\ Bit(x % 64, 6, 2) = Bit(x, 6, 2) /\ Bit(x % 64, 6, 3) = Bit(x, 6, 3)
         /\ Bit(x % 64, 6, 4) = Bit(x, 6, 4) /\ Bit(x % 64, 6, 5) = Bit(x, 6, 5)
BY SMT DEF Bit, Weights

\* The bits of a byte are the last eight.
LEMMA RestBits256 ==
  ASSUME NEW x \in Nat
  PROVE  /\ Bit(x % 256, 8, 0) = Bit(x, 8, 0) /\ Bit(x % 256, 8, 1) = Bit(x, 8, 1)
         /\ Bit(x % 256, 8, 2) = Bit(x, 8, 2) /\ Bit(x % 256, 8, 3) = Bit(x, 8, 3)
         /\ Bit(x % 256, 8, 4) = Bit(x, 8, 4) /\ Bit(x % 256, 8, 5) = Bit(x, 8, 5)
         /\ Bit(x % 256, 8, 6) = Bit(x, 8, 6) /\ Bit(x % 256, 8, 7) = Bit(x, 8, 7)
<1>1. Bit(x % 256, 8, 0) = Bit(x, 8, 0)
  BY SMT DEF Bit, Weights
<1>2. Bit(x % 256, 8, 1) = Bit(x, 8, 1)
  BY SMT DEF Bit, Weights
<1>3. Bit(x % 256, 8, 2) = Bit(x, 8, 2)
  BY SMT DEF Bit, Weights
<1>4. Bit(x % 256, 8, 3) = Bit(x, 8, 3)
  BY SMT DEF Bit, Weights
<1>5. Bit(x % 256, 8, 4) = Bit(x, 8, 4)
  BY SMT DEF Bit, Weights
<1>6. Bit(x % 256, 8, 5) = Bit(x, 8, 5)
  BY SMT DEF Bit, Weights
<1>7. Bit(x % 256, 8, 6) = Bit(x, 8, 6)
  BY SMT DEF Bit, Weights
<1>8. Bit(x % 256, 8, 7) = Bit(x, 8, 7)
  BY SMT DEF Bit, Weights
<1> QED
  BY Zenon, <1>1, <1>2, <1>3, <1>4, <1>5, <1>6, <1>7, <1>8

\* The bits of the codes of a block are those of the block, six for each code.
LEMMA CodesBits ==
  ASSUME NEW b \in Nat
  PROVE  /\ Bit(CodeOf(b, 0), 6, 0) = BlockBit(b, 0) /\ Bit(CodeOf(b, 0), 6, 1) = BlockBit(b, 1)
         /\ Bit(CodeOf(b, 0), 6, 2) = BlockBit(b, 2) /\ Bit(CodeOf(b, 0), 6, 3) = BlockBit(b, 3)
         /\ Bit(CodeOf(b, 0), 6, 4) = BlockBit(b, 4) /\ Bit(CodeOf(b, 0), 6, 5) = BlockBit(b, 5)
         /\ Bit(CodeOf(b, 1), 6, 0) = BlockBit(b, 6) /\ Bit(CodeOf(b, 1), 6, 1) = BlockBit(b, 7)
         /\ Bit(CodeOf(b, 1), 6, 2) = BlockBit(b, 8) /\ Bit(CodeOf(b, 1), 6, 3) = BlockBit(b, 9)
         /\ Bit(CodeOf(b, 1), 6, 4) = BlockBit(b, 10) /\ Bit(CodeOf(b, 1), 6, 5) = BlockBit(b, 11)
         /\ Bit(CodeOf(b, 2), 6, 0) = BlockBit(b, 12) /\ Bit(CodeOf(b, 2), 6, 1) = BlockBit(b, 13)
         /\ Bit(CodeOf(b, 2), 6, 2) = BlockBit(b, 14) /\ Bit(CodeOf(b, 2), 6, 3) = BlockBit(b, 15)
         /\ Bit(CodeOf(b, 2), 6, 4) = BlockBit(b, 16) /\ Bit(CodeOf(b, 2), 6, 5) = BlockBit(b, 17)
         /\ Bit(CodeOf(b, 3), 6, 0) = BlockBit(b, 18) /\ Bit(CodeOf(b, 3), 6, 1) = BlockBit(b, 19)
         /\ Bit(CodeOf(b, 3), 6, 2) = BlockBit(b, 20) /\ Bit(CodeOf(b, 3), 6, 3) = BlockBit(b, 21)
         /\ Bit(CodeOf(b, 3), 6, 4) = BlockBit(b, 22) /\ Bit(CodeOf(b, 3), 6, 5) = BlockBit(b, 23)
<1>1. /\ Bit(CodeOf(b, 0), 6, 0) = BlockBit(b, 0) /\ Bit(CodeOf(b, 0), 6, 1) = BlockBit(b, 1)
      /\ Bit(CodeOf(b, 0), 6, 2) = BlockBit(b, 2) /\ Bit(CodeOf(b, 0), 6, 3) = BlockBit(b, 3)
      /\ Bit(CodeOf(b, 0), 6, 4) = BlockBit(b, 4) /\ Bit(CodeOf(b, 0), 6, 5) = BlockBit(b, 5)
  <2>1. Bit(b \div 262144, 6, 0) = BlockBit(b, 0)
    BY SMT DEF Bit, Weights, BlockBit
  <2>2. Bit(b \div 262144, 6, 1) = BlockBit(b, 1)
    <3>1. (b \div 262144) \div 16 = b \div 4194304
      BY SMT
    <3> QED
      BY SMT, <3>1 DEF Bit, Weights, BlockBit
  <2>3. Bit(b \div 262144, 6, 2) = BlockBit(b, 2)
    BY SMT DEF Bit, Weights, BlockBit
  <2>4. Bit(b \div 262144, 6, 3) = BlockBit(b, 3)
    BY SMT DEF Bit, Weights, BlockBit
  <2>5. Bit(b \div 262144, 6, 4) = BlockBit(b, 4)
    BY SMT DEF Bit, Weights, BlockBit
  <2>6. Bit(b \div 262144, 6, 5) = BlockBit(b, 5)
    BY SMT DEF Bit, Weights, BlockBit
  <2> DEFINE x == b \div 262144
  <2>7. x \in Nat /\ CodeOf(b, 0) = x % 64
    BY SMT, CodeOfIs
  <2> HIDE DEF x
  <2>8. /\ Bit(x % 64, 6, 0) = Bit(x, 6, 0) /\ Bit(x % 64, 6, 1) = Bit(x, 6, 1)
        /\ Bit(x % 64, 6, 2) = Bit(x, 6, 2) /\ Bit(x % 64, 6, 3) = Bit(x, 6, 3)
        /\ Bit(x % 64, 6, 4) = Bit(x, 6, 4) /\ Bit(x % 64, 6, 5) = Bit(x, 6, 5)
    BY Zenon, <2>7, RestBits64
  <2> QED
    BY <2>1, <2>2, <2>3, <2>4, <2>5, <2>6, <2>7, <2>8 DEF x
<1>2. /\ Bit(CodeOf(b, 1), 6, 0) = BlockBit(b, 6) /\ Bit(CodeOf(b, 1), 6, 1) = BlockBit(b, 7)
      /\ Bit(CodeOf(b, 1), 6, 2) = BlockBit(b, 8) /\ Bit(CodeOf(b, 1), 6, 3) = BlockBit(b, 9)
      /\ Bit(CodeOf(b, 1), 6, 4) = BlockBit(b, 10) /\ Bit(CodeOf(b, 1), 6, 5) = BlockBit(b, 11)
  <2>1. Bit(b \div 4096, 6, 0) = BlockBit(b, 6)
    BY SMT DEF Bit, Weights, BlockBit
  <2>2. Bit(b \div 4096, 6, 1) = BlockBit(b, 7)
    BY SMT DEF Bit, Weights, BlockBit
  <2>3. Bit(b \div 4096, 6, 2) = BlockBit(b, 8)
    BY SMT DEF Bit, Weights, BlockBit
  <2>4. Bit(b \div 4096, 6, 3) = BlockBit(b, 9)
    BY SMT DEF Bit, Weights, BlockBit
  <2>5. Bit(b \div 4096, 6, 4) = BlockBit(b, 10)
    BY SMT DEF Bit, Weights, BlockBit
  <2>6. Bit(b \div 4096, 6, 5) = BlockBit(b, 11)
    BY SMT DEF Bit, Weights, BlockBit
  <2> DEFINE x == b \div 4096
  <2>7. x \in Nat /\ CodeOf(b, 1) = x % 64
    BY SMT, CodeOfIs
  <2> HIDE DEF x
  <2>8. /\ Bit(x % 64, 6, 0) = Bit(x, 6, 0) /\ Bit(x % 64, 6, 1) = Bit(x, 6, 1)
        /\ Bit(x % 64, 6, 2) = Bit(x, 6, 2) /\ Bit(x % 64, 6, 3) = Bit(x, 6, 3)
        /\ Bit(x % 64, 6, 4) = Bit(x, 6, 4) /\ Bit(x % 64, 6, 5) = Bit(x, 6, 5)
    BY Zenon, <2>7, RestBits64
  <2> QED
    BY <2>1, <2>2, <2>3, <2>4, <2>5, <2>6, <2>7, <2>8 DEF x
<1>3. /\ Bit(CodeOf(b, 2), 6, 0) = BlockBit(b, 12) /\ Bit(CodeOf(b, 2), 6, 1) = BlockBit(b, 13)
      /\ Bit(CodeOf(b, 2), 6, 2) = BlockBit(b, 14) /\ Bit(CodeOf(b, 2), 6, 3) = BlockBit(b, 15)
      /\ Bit(CodeOf(b, 2), 6, 4) = BlockBit(b, 16) /\ Bit(CodeOf(b, 2), 6, 5) = BlockBit(b, 17)
  <2>1. Bit(b \div 64, 6, 0) = BlockBit(b, 12)
    BY SMT DEF Bit, Weights, BlockBit
  <2>2. Bit(b \div 64, 6, 1) = BlockBit(b, 13)
    BY SMT DEF Bit, Weights, BlockBit
  <2>3. Bit(b \div 64, 6, 2) = BlockBit(b, 14)
    BY SMT DEF Bit, Weights, BlockBit
  <2>4. Bit(b \div 64, 6, 3) = BlockBit(b, 15)
    BY SMT DEF Bit, Weights, BlockBit
  <2>5. Bit(b \div 64, 6, 4) = BlockBit(b, 16)
    BY SMT DEF Bit, Weights, BlockBit
  <2>6. Bit(b \div 64, 6, 5) = BlockBit(b, 17)
    BY SMT DEF Bit, Weights, BlockBit
  <2> DEFINE x == b \div 64
  <2>7. x \in Nat /\ CodeOf(b, 2) = x % 64
    BY SMT, CodeOfIs
  <2> HIDE DEF x
  <2>8. /\ Bit(x % 64, 6, 0) = Bit(x, 6, 0) /\ Bit(x % 64, 6, 1) = Bit(x, 6, 1)
        /\ Bit(x % 64, 6, 2) = Bit(x, 6, 2) /\ Bit(x % 64, 6, 3) = Bit(x, 6, 3)
        /\ Bit(x % 64, 6, 4) = Bit(x, 6, 4) /\ Bit(x % 64, 6, 5) = Bit(x, 6, 5)
    BY Zenon, <2>7, RestBits64
  <2> QED
    BY <2>1, <2>2, <2>3, <2>4, <2>5, <2>6, <2>7, <2>8 DEF x
<1>4. /\ Bit(CodeOf(b, 3), 6, 0) = BlockBit(b, 18) /\ Bit(CodeOf(b, 3), 6, 1) = BlockBit(b, 19)
      /\ Bit(CodeOf(b, 3), 6, 2) = BlockBit(b, 20) /\ Bit(CodeOf(b, 3), 6, 3) = BlockBit(b, 21)
      /\ Bit(CodeOf(b, 3), 6, 4) = BlockBit(b, 22) /\ Bit(CodeOf(b, 3), 6, 5) = BlockBit(b, 23)
  <2>1. Bit(b, 6, 0) = BlockBit(b, 18)
    BY SMT DEF Bit, Weights, BlockBit
  <2>2. Bit(b, 6, 1) = BlockBit(b, 19)
    BY SMT DEF Bit, Weights, BlockBit
  <2>3. Bit(b, 6, 2) = BlockBit(b, 20)
    BY SMT DEF Bit, Weights, BlockBit
  <2>4. Bit(b, 6, 3) = BlockBit(b, 21)
    BY SMT DEF Bit, Weights, BlockBit
  <2>5. Bit(b, 6, 4) = BlockBit(b, 22)
    BY SMT DEF Bit, Weights, BlockBit
  <2>6. Bit(b, 6, 5) = BlockBit(b, 23)
    BY SMT DEF Bit, Weights, BlockBit
  <2>7. CodeOf(b, 3) = b % 64
    BY SMT DEF CodeOf
  <2>8. /\ Bit(b % 64, 6, 0) = Bit(b, 6, 0) /\ Bit(b % 64, 6, 1) = Bit(b, 6, 1)
        /\ Bit(b % 64, 6, 2) = Bit(b, 6, 2) /\ Bit(b % 64, 6, 3) = Bit(b, 6, 3)
        /\ Bit(b % 64, 6, 4) = Bit(b, 6, 4) /\ Bit(b % 64, 6, 5) = Bit(b, 6, 5)
    BY RestBits64
  <2> QED
    BY <2>1, <2>2, <2>3, <2>4, <2>5, <2>6, <2>7, <2>8
<1> QED
  BY Zenon, <1>1, <1>2, <1>3, <1>4

\* The bits of the bytes of a block are those of the block, eight for each byte.
LEMMA BytesBits ==
  ASSUME NEW b \in Nat
  PROVE  /\ Bit(ByteOf(b, 0), 8, 0) = BlockBit(b, 0) /\ Bit(ByteOf(b, 0), 8, 1) = BlockBit(b, 1)
         /\ Bit(ByteOf(b, 0), 8, 2) = BlockBit(b, 2) /\ Bit(ByteOf(b, 0), 8, 3) = BlockBit(b, 3)
         /\ Bit(ByteOf(b, 0), 8, 4) = BlockBit(b, 4) /\ Bit(ByteOf(b, 0), 8, 5) = BlockBit(b, 5)
         /\ Bit(ByteOf(b, 0), 8, 6) = BlockBit(b, 6) /\ Bit(ByteOf(b, 0), 8, 7) = BlockBit(b, 7)
         /\ Bit(ByteOf(b, 1), 8, 0) = BlockBit(b, 8) /\ Bit(ByteOf(b, 1), 8, 1) = BlockBit(b, 9)
         /\ Bit(ByteOf(b, 1), 8, 2) = BlockBit(b, 10) /\ Bit(ByteOf(b, 1), 8, 3) = BlockBit(b, 11)
         /\ Bit(ByteOf(b, 1), 8, 4) = BlockBit(b, 12) /\ Bit(ByteOf(b, 1), 8, 5) = BlockBit(b, 13)
         /\ Bit(ByteOf(b, 1), 8, 6) = BlockBit(b, 14) /\ Bit(ByteOf(b, 1), 8, 7) = BlockBit(b, 15)
         /\ Bit(ByteOf(b, 2), 8, 0) = BlockBit(b, 16) /\ Bit(ByteOf(b, 2), 8, 1) = BlockBit(b, 17)
         /\ Bit(ByteOf(b, 2), 8, 2) = BlockBit(b, 18) /\ Bit(ByteOf(b, 2), 8, 3) = BlockBit(b, 19)
         /\ Bit(ByteOf(b, 2), 8, 4) = BlockBit(b, 20) /\ Bit(ByteOf(b, 2), 8, 5) = BlockBit(b, 21)
         /\ Bit(ByteOf(b, 2), 8, 6) = BlockBit(b, 22) /\ Bit(ByteOf(b, 2), 8, 7) = BlockBit(b, 23)
<1>1. /\ Bit(ByteOf(b, 0), 8, 0) = BlockBit(b, 0) /\ Bit(ByteOf(b, 0), 8, 1) = BlockBit(b, 1)
      /\ Bit(ByteOf(b, 0), 8, 2) = BlockBit(b, 2) /\ Bit(ByteOf(b, 0), 8, 3) = BlockBit(b, 3)
      /\ Bit(ByteOf(b, 0), 8, 4) = BlockBit(b, 4) /\ Bit(ByteOf(b, 0), 8, 5) = BlockBit(b, 5)
      /\ Bit(ByteOf(b, 0), 8, 6) = BlockBit(b, 6) /\ Bit(ByteOf(b, 0), 8, 7) = BlockBit(b, 7)
  <2>1. Bit(b \div 65536, 8, 0) = BlockBit(b, 0)
    BY SMT DEF Bit, Weights, BlockBit
  <2>2. Bit(b \div 65536, 8, 1) = BlockBit(b, 1)
    BY SMT DEF Bit, Weights, BlockBit
  <2>3. Bit(b \div 65536, 8, 2) = BlockBit(b, 2)
    BY SMT DEF Bit, Weights, BlockBit
  <2>4. Bit(b \div 65536, 8, 3) = BlockBit(b, 3)
    BY SMT DEF Bit, Weights, BlockBit
  <2>5. Bit(b \div 65536, 8, 4) = BlockBit(b, 4)
    BY SMT DEF Bit, Weights, BlockBit
  <2>6. Bit(b \div 65536, 8, 5) = BlockBit(b, 5)
    BY SMT DEF Bit, Weights, BlockBit
  <2>7. Bit(b \div 65536, 8, 6) = BlockBit(b, 6)
    BY SMT DEF Bit, Weights, BlockBit
  <2>8. Bit(b \div 65536, 8, 7) = BlockBit(b, 7)
    BY SMT DEF Bit, Weights, BlockBit
  <2> DEFINE x == b \div 65536
  <2>9. x \in Nat /\ ByteOf(b, 0) = x % 256
    BY SMT, ByteOfIs
  <2> HIDE DEF x
  <2>10. /\ Bit(x % 256, 8, 0) = Bit(x, 8, 0) /\ Bit(x % 256, 8, 1) = Bit(x, 8, 1)
         /\ Bit(x % 256, 8, 2) = Bit(x, 8, 2) /\ Bit(x % 256, 8, 3) = Bit(x, 8, 3)
         /\ Bit(x % 256, 8, 4) = Bit(x, 8, 4) /\ Bit(x % 256, 8, 5) = Bit(x, 8, 5)
         /\ Bit(x % 256, 8, 6) = Bit(x, 8, 6) /\ Bit(x % 256, 8, 7) = Bit(x, 8, 7)
    BY Zenon, <2>9, RestBits256
  <2> QED
    BY <2>1, <2>2, <2>3, <2>4, <2>5, <2>6, <2>7, <2>8, <2>9, <2>10 DEF x
<1>2. /\ Bit(ByteOf(b, 1), 8, 0) = BlockBit(b, 8) /\ Bit(ByteOf(b, 1), 8, 1) = BlockBit(b, 9)
      /\ Bit(ByteOf(b, 1), 8, 2) = BlockBit(b, 10) /\ Bit(ByteOf(b, 1), 8, 3) = BlockBit(b, 11)
      /\ Bit(ByteOf(b, 1), 8, 4) = BlockBit(b, 12) /\ Bit(ByteOf(b, 1), 8, 5) = BlockBit(b, 13)
      /\ Bit(ByteOf(b, 1), 8, 6) = BlockBit(b, 14) /\ Bit(ByteOf(b, 1), 8, 7) = BlockBit(b, 15)
  <2>1. Bit(b \div 256, 8, 0) = BlockBit(b, 8)
    BY SMT DEF Bit, Weights, BlockBit
  <2>2. Bit(b \div 256, 8, 1) = BlockBit(b, 9)
    BY SMT DEF Bit, Weights, BlockBit
  <2>3. Bit(b \div 256, 8, 2) = BlockBit(b, 10)
    BY SMT DEF Bit, Weights, BlockBit
  <2>4. Bit(b \div 256, 8, 3) = BlockBit(b, 11)
    BY SMT DEF Bit, Weights, BlockBit
  <2>5. Bit(b \div 256, 8, 4) = BlockBit(b, 12)
    BY SMT DEF Bit, Weights, BlockBit
  <2>6. Bit(b \div 256, 8, 5) = BlockBit(b, 13)
    BY SMT DEF Bit, Weights, BlockBit
  <2>7. Bit(b \div 256, 8, 6) = BlockBit(b, 14)
    BY SMT DEF Bit, Weights, BlockBit
  <2>8. Bit(b \div 256, 8, 7) = BlockBit(b, 15)
    BY SMT DEF Bit, Weights, BlockBit
  <2> DEFINE x == b \div 256
  <2>9. x \in Nat /\ ByteOf(b, 1) = x % 256
    BY SMT, ByteOfIs
  <2> HIDE DEF x
  <2>10. /\ Bit(x % 256, 8, 0) = Bit(x, 8, 0) /\ Bit(x % 256, 8, 1) = Bit(x, 8, 1)
         /\ Bit(x % 256, 8, 2) = Bit(x, 8, 2) /\ Bit(x % 256, 8, 3) = Bit(x, 8, 3)
         /\ Bit(x % 256, 8, 4) = Bit(x, 8, 4) /\ Bit(x % 256, 8, 5) = Bit(x, 8, 5)
         /\ Bit(x % 256, 8, 6) = Bit(x, 8, 6) /\ Bit(x % 256, 8, 7) = Bit(x, 8, 7)
    BY Zenon, <2>9, RestBits256
  <2> QED
    BY <2>1, <2>2, <2>3, <2>4, <2>5, <2>6, <2>7, <2>8, <2>9, <2>10 DEF x
<1>3. /\ Bit(ByteOf(b, 2), 8, 0) = BlockBit(b, 16) /\ Bit(ByteOf(b, 2), 8, 1) = BlockBit(b, 17)
      /\ Bit(ByteOf(b, 2), 8, 2) = BlockBit(b, 18) /\ Bit(ByteOf(b, 2), 8, 3) = BlockBit(b, 19)
      /\ Bit(ByteOf(b, 2), 8, 4) = BlockBit(b, 20) /\ Bit(ByteOf(b, 2), 8, 5) = BlockBit(b, 21)
      /\ Bit(ByteOf(b, 2), 8, 6) = BlockBit(b, 22) /\ Bit(ByteOf(b, 2), 8, 7) = BlockBit(b, 23)
  <2>1. Bit(b, 8, 0) = BlockBit(b, 16)
    BY SMT DEF Bit, Weights, BlockBit
  <2>2. Bit(b, 8, 1) = BlockBit(b, 17)
    BY SMT DEF Bit, Weights, BlockBit
  <2>3. Bit(b, 8, 2) = BlockBit(b, 18)
    BY SMT DEF Bit, Weights, BlockBit
  <2>4. Bit(b, 8, 3) = BlockBit(b, 19)
    BY SMT DEF Bit, Weights, BlockBit
  <2>5. Bit(b, 8, 4) = BlockBit(b, 20)
    BY SMT DEF Bit, Weights, BlockBit
  <2>6. Bit(b, 8, 5) = BlockBit(b, 21)
    BY SMT DEF Bit, Weights, BlockBit
  <2>7. Bit(b, 8, 6) = BlockBit(b, 22)
    BY SMT DEF Bit, Weights, BlockBit
  <2>8. Bit(b, 8, 7) = BlockBit(b, 23)
    BY SMT DEF Bit, Weights, BlockBit
  <2>9. ByteOf(b, 2) = b % 256
    BY SMT DEF ByteOf
  <2>10. /\ Bit(b % 256, 8, 0) = Bit(b, 8, 0) /\ Bit(b % 256, 8, 1) = Bit(b, 8, 1)
         /\ Bit(b % 256, 8, 2) = Bit(b, 8, 2) /\ Bit(b % 256, 8, 3) = Bit(b, 8, 3)
         /\ Bit(b % 256, 8, 4) = Bit(b, 8, 4) /\ Bit(b % 256, 8, 5) = Bit(b, 8, 5)
         /\ Bit(b % 256, 8, 6) = Bit(b, 8, 6) /\ Bit(b % 256, 8, 7) = Bit(b, 8, 7)
    BY RestBits256
  <2> QED
    BY <2>1, <2>2, <2>3, <2>4, <2>5, <2>6, <2>7, <2>8, <2>9, <2>10
<1> QED
  BY Zenon, <1>1, <1>2, <1>3

\* A bit is at the same place in the codes of a block and in its bytes.
LEMMA BlockBits ==
  ASSUME NEW b \in Nat, NEW p \in 0 .. 23
  PROVE  Bit(CodeOf(b, p \div 6), 6, p % 6) = Bit(ByteOf(b, p \div 8), 8, p % 8)
<1> DEFINE c == p \div 6
           i == p % 6
           y == p \div 8
           j == p % 8
<1>1. c \in {0, 1, 2, 3} /\ i \in {0, 1, 2, 3, 4, 5} /\ p = 6 * c + i
  BY SMT
<1>2. y \in {0, 1, 2} /\ j \in {0, 1, 2, 3, 4, 5, 6, 7} /\ p = 8 * y + j
  BY SMT
<1> HIDE DEF c, i, y, j
<1>3. Bit(CodeOf(b, c), 6, i) = BlockBit(b, p)
  <2>1. CASE c = 0
    <3>1. p = i
      BY SMT, <1>1, <2>1
    <3> QED
      BY <1>1, <2>1, <3>1, CodesBits
  <2>2. CASE c = 1
    <3>1. p = 6 + i
      BY SMT, <1>1, <2>2
    <3> QED
      BY <1>1, <2>2, <3>1, CodesBits
  <2>3. CASE c = 2
    <3>1. p = 12 + i
      BY SMT, <1>1, <2>3
    <3> QED
      BY <1>1, <2>3, <3>1, CodesBits
  <2>4. CASE c = 3
    <3>1. p = 18 + i
      BY SMT, <1>1, <2>4
    <3> QED
      BY <1>1, <2>4, <3>1, CodesBits
  <2> QED
    BY <1>1, <2>1, <2>2, <2>3, <2>4
<1>4. Bit(ByteOf(b, y), 8, j) = BlockBit(b, p)
  <2>1. CASE y = 0
    <3>1. p = j
      BY SMT, <1>2, <2>1
    <3> QED
      BY <1>2, <2>1, <3>1, BytesBits
  <2>2. CASE y = 1
    <3>1. p = 8 + j
      BY SMT, <1>2, <2>2
    <3> QED
      BY <1>2, <2>2, <3>1, BytesBits
  <2>3. CASE y = 2
    <3>1. p = 16 + j
      BY SMT, <1>2, <2>3
    <3> QED
      BY <1>2, <2>3, <3>1, BytesBits
  <2> QED
    BY <1>2, <2>1, <2>2, <2>3
<1> QED
  BY Zenon, <1>3, <1>4 DEF c, i, y, j

\* The table of RFC 4648 and code_to_char agree, and char_to_code looks a character up.
LEMMA AlphabetIs ==
  \A x \in 0 .. 63 : Alphabet[x + 1] = code_to_char(x)
BY DEF Alphabet, code_to_char, code_62, code_63

LEMMA LookedUp ==
  ASSUME NEW c \in CodeChar
  PROVE  /\ char_to_code(c) \in 0 .. 63
         /\ Alphabet[char_to_code(c) + 1] = c
         /\ (CHOOSE x \in 0 .. 63 : Alphabet[x + 1] = c) = char_to_code(c)
<1> DEFINE y == char_to_code(c)
           S == 0 .. 63
<1>1. y \in S /\ code_to_char(y) = c
  BY SMT DEF code_to_char, CodeChar, char_to_code, code_62, code_63
<1>2. \A x \in S : Alphabet[x + 1] = c => x = y
  BY AlphabetIs, CodesInverse
<1>3. Alphabet[y + 1] = c
  BY <1>1, AlphabetIs
<1> HIDE DEF y, S
<1>4. (CHOOSE x \in S : Alphabet[x + 1] = c) = y
  BY Zenon, <1>1, <1>2, <1>3
<1> QED
  BY Zenon, <1>1, <1>3, <1>4 DEF y, S

\* The bits of characters are those of their codes.
LEMMA CodeBitsAre ==
  ASSUME NEW data \in Seq(CodeChar)
  PROVE  /\ DOMAIN CodeBits(data) = 0 .. 6 * Len(data) - 1
         /\ \A k \in 0 .. 6 * Len(data) - 1 :
              /\ k \div 6 + 1 \in 1 .. Len(data)
              /\ CodeBits(data)[k] = Bit(char_to_code(data[k \div 6 + 1]), 6, k % 6)
<1> DEFINE n == Len(data)
           codes == [k \in DOMAIN data |-> CHOOSE x \in 0 .. 63 : Alphabet[x + 1] = data[k]]
<1>1. n \in Nat /\ DOMAIN data = 1 .. n
  OBVIOUS
<1>2. Len(codes) = n
  BY <1>1
<1>3. CodeBits(data) = [k \in 0 .. 6 * n - 1 |-> Bit(codes[k \div 6 + 1], 6, k % 6)]
  <2>1. CodeBits(data) = [k \in 0 .. 6 * Len(codes) - 1 |-> Bit(codes[k \div 6 + 1], 6, k % 6)]
    BY DEF CodeBits, Bits
  <2> HIDE DEF codes, n
  <2> QED
    BY <1>2, <2>1
<1>4. ASSUME NEW k \in 1 .. n PROVE codes[k] = char_to_code(data[k])
  <2>1. data[k] \in CodeChar
    BY <1>1
  <2>2. codes[k] = CHOOSE x \in 0 .. 63 : Alphabet[x + 1] = data[k]
    BY <1>1
  <2> QED
    BY Zenon, <2>1, <2>2, LookedUp
<1> HIDE DEF codes
<1>5. ASSUME NEW k \in 0 .. 6 * n - 1 PROVE k \div 6 + 1 \in 1 .. n
  BY <1>1, SMT
<1> HIDE DEF n
<1>6. ASSUME NEW k \in 0 .. 6 * n - 1
      PROVE  CodeBits(data)[k] = Bit(char_to_code(data[k \div 6 + 1]), 6, k % 6)
  <2>1. CodeBits(data)[k] = Bit(codes[k \div 6 + 1], 6, k % 6)
    BY Zenon, <1>3
  <2> QED
    BY Zenon, <1>4, <1>5, <2>1
<1>7. DOMAIN CodeBits(data) = 0 .. 6 * n - 1
  BY Zenon, <1>3
<1> QED
  BY Zenon, <1>5, <1>6, <1>7 DEF n

\* The bits of bytes.
LEMMA ByteBitsAre ==
  ASSUME NEW S, NEW bytes \in Seq(S)
  PROVE  /\ DOMAIN Bits(bytes, 8) = 0 .. 8 * Len(bytes) - 1
         /\ \A k \in 0 .. 8 * Len(bytes) - 1 :
              /\ k \div 8 + 1 \in 1 .. Len(bytes)
              /\ Bits(bytes, 8)[k] = Bit(bytes[k \div 8 + 1], 8, k % 8)
<1>1. Bits(bytes, 8) = [k \in 0 .. 8 * Len(bytes) - 1 |-> Bit(bytes[k \div 8 + 1], 8, k % 8)]
  BY DEF Bits
<1>2. \A k \in 0 .. 8 * Len(bytes) - 1 : k \div 8 + 1 \in 1 .. Len(bytes)
  BY SMT
<1> QED
  BY <1>1, <1>2

\* Where bit k of a text is, in the codes of its blocks and in their bytes.
LEMMA PlaceOfBit ==
  ASSUME NEW k \in Nat
  PROVE  \E g \in Nat, p \in 0 .. 23 :
           /\ (k \div 6) \div 4 = g /\ (k \div 6) % 4 = p \div 6 /\ k % 6 = p % 6
           /\ (k \div 8) \div 3 = g /\ (k \div 8) % 3 = p \div 8 /\ k % 8 = p % 8
           /\ k \div 6 = 4 * g + p \div 6 /\ k \div 8 = 3 * g + p \div 8
           /\ p \div 6 \in {0, 1, 2, 3} /\ p \div 8 \in {0, 1, 2}
<1> DEFINE g == k \div 24
           p == k % 24
<1>1. g \in Nat /\ p \in 0 .. 23 /\ k = 24 * g + p
  OBVIOUS
<1> HIDE DEF g, p
<1>2. k \div 6 = 4 * g + p \div 6 /\ k % 6 = p % 6 /\ p \div 6 \in {0, 1, 2, 3}
  BY <1>1
<1>3. k \div 8 = 3 * g + p \div 8 /\ k % 8 = p % 8 /\ p \div 8 \in {0, 1, 2}
  BY <1>1
<1>4. (k \div 6) \div 4 = g /\ (k \div 6) % 4 = p \div 6
  BY <1>1, <1>2
<1>5. (k \div 8) \div 3 = g /\ (k \div 8) % 3 = p \div 8
  BY <1>1, <1>3
<1> QED
  BY <1>1, <1>2, <1>3, <1>4, <1>5

\* Bit k of the codes of a payload is bit k of the payload, and 0 behind its end.
LEMMA PayloadBits ==
  ASSUME NEW in \in Seq(Byte), NEW k \in Nat
  PROVE  Bit(CodeOf(Block3(in, (k \div 6) \div 4), (k \div 6) % 4), 6, k % 6)
           = IF k < 8 * Len(in) THEN Bits(in, 8)[k] ELSE 0
<1>1. PICK g \in Nat, p \in 0 .. 23 :
        /\ (k \div 6) \div 4 = g /\ (k \div 6) % 4 = p \div 6 /\ k % 6 = p % 6
        /\ k % 8 = p % 8 /\ k \div 8 = 3 * g + p \div 8 /\ p \div 8 \in {0, 1, 2}
  BY Zenon, PlaceOfBit
<1> DEFINE b == Block3(in, g)
           y == p \div 8
<1>2. b \in Nat
  <2>1. b \in Bits24
    BY Zenon, BlockIs
  <2> HIDE DEF b
  <2> QED
    BY SMT, <2>1 DEF Bits24
<1>3. Bit(CodeOf(b, p \div 6), 6, p % 6) = Bit(ByteOf(b, y), 8, p % 8)
  BY <1>2, BlockBits
<1>4. ByteOf(b, y) = At(in, k \div 8 + 1)
  <2>1. /\ ByteOf(b, 0) = At(in, 3 * g + 1)
        /\ ByteOf(b, 1) = At(in, 3 * g + 2)
        /\ ByteOf(b, 2) = At(in, 3 * g + 3)
    BY BlockIs
  <2> HIDE DEF b, y
  <2>2. /\ y = 0 => 3 * g + y + 1 = 3 * g + 1
        /\ y = 1 => 3 * g + y + 1 = 3 * g + 2
        /\ y = 2 => 3 * g + y + 1 = 3 * g + 3
    OBVIOUS
  <2>3. y \in {0, 1, 2} /\ k \div 8 = 3 * g + y
    BY <1>1 DEF y
  <2> QED
    BY Zenon, <2>1, <2>2, <2>3
<1>5. CASE k < 8 * Len(in)
  <2>1. k \in 0 .. 8 * Len(in) - 1
    BY <1>5
  <2>2. k \div 8 + 1 \in DOMAIN in /\ Bits(in, 8)[k] = Bit(in[k \div 8 + 1], 8, k % 8)
    <3>1. k \div 8 + 1 \in 1 .. Len(in) /\ Bits(in, 8)[k] = Bit(in[k \div 8 + 1], 8, k % 8)
      BY Zenon, <2>1, ByteBitsAre
    <3> QED
      BY <3>1
  <2>3. At(in, k \div 8 + 1) = in[k \div 8 + 1]
    BY <2>2 DEF At
  <2> HIDE DEF b, y
  <2>4. Bit(CodeOf(b, p \div 6), 6, p % 6) = Bits(in, 8)[k]
    BY Zenon, <1>1, <1>3, <1>4, <2>2, <2>3
  <2> QED
    BY Zenon, <1>1, <1>5, <2>4 DEF b
<1>6. CASE ~(k < 8 * Len(in))
  <2>1. k \div 8 + 1 \notin DOMAIN in
    <3>1. Len(in) \in Nat /\ DOMAIN in = 1 .. Len(in)
      OBVIOUS
    <3>2. k \div 8 >= Len(in)
      BY <1>6, <3>1, SMT
    <3> QED
      BY <3>1, <3>2, SMT
  <2>2. At(in, k \div 8 + 1) = 0
    BY Zenon, <2>1 DEF At
  <2>3. \A j \in 0 .. 7 : Bit(0, 8, j) = 0
    BY SMT DEF Bit, Weights
  <2>4. k % 8 \in 0 .. 7
    BY SMT
  <2> HIDE DEF b, y
  <2>5. Bit(CodeOf(b, p \div 6), 6, p % 6) = 0
    BY Zenon, <1>1, <1>3, <1>4, <2>2, <2>3, <2>4
  <2> QED
    BY Zenon, <1>1, <1>6, <2>5 DEF b
<1> QED
  BY Zenon, <1>5, <1>6

\* A text and the padding behind it.
LEMMA Padded ==
  ASSUME NEW T \in Seq(CodeChar), NEW pads \in {1, 2}
  PROVE  /\ Len(T \o Padding(pads)) = Len(T) + pads
         /\ SubSeq(T \o Padding(pads), 1, Len(T)) = T
         /\ \A k \in 1 .. pads : (T \o Padding(pads))[Len(T) + k] = 61
<1> DEFINE S == CodeChar \cup {code_pad}
           P == Padding(pads)
           U == T \o P
<1>1. P \in Seq(S) /\ Len(P) = pads /\ \A k \in 1 .. pads : P[k] = 61
  BY DEF Padding, code_pad
<1>2. T \in Seq(S)
  OBVIOUS
<1> HIDE DEF S, P
<1>3. /\ Len(U) = Len(T) + pads
      /\ \A k \in 1 .. Len(T) + pads : U[k] = IF k <= Len(T) THEN T[k] ELSE P[k - Len(T)]
  BY <1>1, <1>2, ConcatProperties
<1>4. U \in Seq(S)
  BY <1>1, <1>2
<1> HIDE DEF U
<1>5. \A k \in 1 .. Len(T) : U[k] = T[k]
  BY <1>3
<1>6. SubSeq(U, 1, Len(T)) = T
  BY <1>2, <1>3, <1>4, <1>5
<1>7. \A k \in 1 .. pads : U[Len(T) + k] = 61
  <2> TAKE k \in 1 .. pads
  <2>1. Len(T) + k \in 1 .. Len(T) + pads /\ ~(Len(T) + k <= Len(T)) /\ (Len(T) + k) - Len(T) = k
    OBVIOUS
  <2> QED
    BY <1>1, <1>3, <2>1
<1> QED
  BY Zenon, <1>3, <1>6, <1>7 DEF U, P

\* The bits of the characters that stand for a payload.
LEMMA TextBits ==
  ASSUME NEW in \in Seq(Byte), Len(in) > 0,
         NEW T \in Seq(CodeChar), Len(T) = CharsFor(Len(in)),
         \A k \in 1 .. Len(T) :
           char_to_code(T[k]) = CodeOf(Block3(in, (k - 1) \div 4), (k - 1) % 4)
  PROVE  \A k \in DOMAIN CodeBits(T) :
           CodeBits(T)[k] = IF k \in DOMAIN Bits(in, 8) THEN Bits(in, 8)[k] ELSE 0
<1> SUFFICES ASSUME NEW k \in DOMAIN CodeBits(T)
             PROVE  CodeBits(T)[k] = IF k \in DOMAIN Bits(in, 8) THEN Bits(in, 8)[k] ELSE 0
  OBVIOUS
<1>1. k \in 0 .. 6 * Len(T) - 1
  BY CodeBitsAre
<1>2. /\ k \div 6 + 1 \in 1 .. Len(T)
      /\ CodeBits(T)[k] = Bit(char_to_code(T[k \div 6 + 1]), 6, k % 6)
  BY <1>1, CodeBitsAre
<1>3. k \in Nat /\ (k \div 6 + 1) - 1 = k \div 6
  BY <1>1
<1>4. char_to_code(T[k \div 6 + 1]) = CodeOf(Block3(in, (k \div 6) \div 4), (k \div 6) % 4)
  BY Zenon, <1>2, <1>3
<1>5. CodeBits(T)[k] = IF k < 8 * Len(in) THEN Bits(in, 8)[k] ELSE 0
  BY Zenon, <1>2, <1>3, <1>4, PayloadBits
<1>6. DOMAIN Bits(in, 8) = 0 .. 8 * Len(in) - 1
  BY ByteBitsAre
<1>7. k \in DOMAIN Bits(in, 8) <=> k < 8 * Len(in)
  BY <1>3, <1>6
<1> QED
  BY Zenon, <1>5, <1>7

\* The characters of a payload and its padding, in blocks of four.
LEMMA WholeBlocks ==
  ASSUME NEW n \in Nat
  PROVE  /\ n % 3 = 0 => (3 - (n % 3)) % 3 = 0 /\ 3 * CharsFor(n) = 4 * n
         /\ n % 3 = 1 => (3 - (n % 3)) % 3 = 2 /\ 3 * (CharsFor(n) + 2) = 4 * (n + 2)
         /\ n % 3 = 2 => (3 - (n % 3)) % 3 = 1 /\ 3 * (CharsFor(n) + 1) = 4 * (n + 1)
         /\ n % 3 \in {0, 1, 2}
<1> DEFINE q == n \div 3
           r == n % 3
           c == CharsFor(n)
<1>1. q \in Nat /\ n = 3 * q + r /\ r \in {0, 1, 2}
  OBVIOUS
<1>2. /\ r = 0 => c = 4 * q
      /\ r = 1 => c = 4 * q + 2
      /\ r = 2 => c = 4 * q + 3
  BY Zenon, CharsForIs
<1> HIDE DEF q, r, c
<1>3. /\ r = 0 => (3 - r) % 3 = 0 /\ 3 * c = 4 * n
      /\ r = 1 => (3 - r) % 3 = 2 /\ 3 * (c + 2) = 4 * (n + 2)
      /\ r = 2 => (3 - r) % 3 = 1 /\ 3 * (c + 1) = 4 * (n + 1)
  BY SMT, <1>1, <1>2
<1> QED
  BY Zenon, <1>1, <1>3 DEF q, r, c

\* What bin_to_b64 writes is the base64 text of RFC 4648, to the last bit and with its
\* padding, for payloads of every length (base64.c:98-170, 240-276): not only a text
\* that b64_to_bin reads back.
THEOREM PayloadText ==
  ASSUME NEW in \in Seq(Byte), NEW max_len \in Nat,
         max_len >= 4 * ((Len(in) + 2) \div 3) + 1
  PROVE  Encodes(bin_to_b64(in, max_len).out, in)
<1> DEFINE n == Len(in)
           text == bin_to_b64(in, max_len).out
           T == bin_to_b64_nopad(in, max_len).out
           pads == (3 - (n % 3)) % 3
           data == SubSeq(text, 1, Len(text) - pads)
<1>1. n \in Nat
  OBVIOUS
<1>2. CASE n = 0
  <2>1. text = <<>>
    BY <1>2 DEF bin_to_b64, bin_to_b64_nopad, Result
  <2>2. pads = 0
    BY <1>2
  <2> HIDE DEF pads
  <2>3. Len(text) = 0 /\ data = <<>>
    BY <2>1, <2>2
  <2>4. DOMAIN CodeBits(data) = {}
    <3>1. <<>> \in Seq(CodeChar) /\ Len(<<>>) = 0
      OBVIOUS
    <3>2. DOMAIN CodeBits(<<>>) = 0 .. 6 * 0 - 1
      BY Zenon, <3>1, CodeBitsAre
    <3>3. 0 .. 6 * 0 - 1 = {}
      OBVIOUS
    <3> QED
      BY Zenon, <2>3, <3>2, <3>3
  <2>5. 3 * Len(text) = 4 * (n + pads) /\ 1 .. pads = {} /\ DOMAIN data = {}
    BY <1>2, <2>2, <2>3
  <2> QED
    BY Zenon, <2>4, <2>5 DEF Encodes, pads
<1>3. CASE n > 0
  <2>0. T = bin_to_b64_nopad(in, max_len).out /\ text = bin_to_b64(in, max_len).out
    OBVIOUS
  <2> HIDE DEF T, text
  <2>1. /\ CharsFor(n) \in Nat /\ max_len >= CharsFor(n) + 1
        /\ n % 3 = 0 => text = T
        /\ n % 3 = 1 => text = T \o Padding(2)
        /\ n % 3 = 2 => text = T \o Padding(1)
    BY <1>3, TextIs DEF T, text
  <2>2. /\ T \in Seq(CodeChar) /\ Len(T) = CharsFor(n)
        /\ \A k \in 1 .. Len(T) :
             char_to_code(T[k]) = CodeOf(Block3(in, (k - 1) \div 4), (k - 1) % 4)
    BY Zenon, <1>3, <2>0, <2>1, TextCodes
  <2>3. /\ n % 3 = 0 => pads = 0 /\ 3 * CharsFor(n) = 4 * n
        /\ n % 3 = 1 => pads = 2 /\ 3 * (CharsFor(n) + 2) = 4 * (n + 2)
        /\ n % 3 = 2 => pads = 1 /\ 3 * (CharsFor(n) + 1) = 4 * (n + 1)
        /\ n % 3 \in {0, 1, 2}
    BY <1>1, WholeBlocks
  <2> HIDE DEF pads
  <2>4. /\ Len(text) = CharsFor(n) + pads
        /\ data = T
        /\ \A k \in 1 .. pads : text[Len(T) + k] = 61
        /\ 3 * Len(text) = 4 * (n + pads)
    <3>1. CASE n % 3 = 0
      <4>1. text = T /\ pads = 0 /\ Len(text) = CharsFor(n)
        BY <2>1, <2>2, <2>3, <3>1
      <4>2. data = T
        BY <2>2, <4>1
      <4>3. 1 .. pads = {}
        BY <4>1
      <4> HIDE DEF data
      <4> QED
        BY <2>3, <3>1, <4>1, <4>2, <4>3
    <3>2. CASE n % 3 = 1
      <4>1. text = T \o Padding(2) /\ pads = 2
        BY <2>1, <2>3, <3>2
      <4>2. /\ Len(text) = Len(T) + 2 /\ SubSeq(text, 1, Len(T)) = T
            /\ \A k \in 1 .. 2 : text[Len(T) + k] = 61
        BY <2>2, <4>1, Padded
      <4>3. Len(text) - pads = Len(T)
        BY <2>1, <2>2, <4>1, <4>2
      <4> QED
        BY <1>1, <2>1, <2>2, <2>3, <3>2, <4>1, <4>2, <4>3
    <3>3. CASE n % 3 = 2
      <4>1. text = T \o Padding(1) /\ pads = 1
        BY <2>1, <2>3, <3>3
      <4>2. /\ Len(text) = Len(T) + 1 /\ SubSeq(text, 1, Len(T)) = T
            /\ \A k \in 1 .. 1 : text[Len(T) + k] = 61
        BY <2>2, <4>1, Padded
      <4>3. Len(text) - pads = Len(T)
        BY <2>1, <2>2, <4>1, <4>2
      <4> QED
        BY <1>1, <2>1, <2>2, <2>3, <3>3, <4>1, <4>2, <4>3
    <3> QED
      BY <2>3, <3>1, <3>2, <3>3
  <2>5. \A k \in DOMAIN CodeBits(T) :
          CodeBits(T)[k] = IF k \in DOMAIN Bits(in, 8) THEN Bits(in, 8)[k] ELSE 0
    BY <1>3, <2>2, TextBits
  <2>6. \A k \in DOMAIN T : \E x \in DOMAIN Alphabet : Alphabet[x] = T[k]
    <3> TAKE k \in DOMAIN T
    <3>1. T[k] \in CodeChar
      BY <2>2
    <3>2. char_to_code(T[k]) \in 0 .. 63 /\ Alphabet[char_to_code(T[k]) + 1] = T[k]
      BY <3>1, LookedUp
    <3>3. DOMAIN Alphabet = 1 .. 64
      BY DEF Alphabet
    <3>4. \A x \in 0 .. 63 : x + 1 \in 1 .. 64
      OBVIOUS
    <3> QED
      BY Zenon, <3>2, <3>3, <3>4
  <2> HIDE DEF data
  <2>7. \A k \in 1 .. pads : text[Len(data) + k] = 61
    BY <2>4
  <2> QED
    <3>1. 3 * Len(text) = 4 * (Len(in) + pads)
      BY <2>4
    <3> HIDE DEF n
    <3>2. /\ \A k \in DOMAIN data : \E x \in DOMAIN Alphabet : Alphabet[x] = data[k]
          /\ \A k \in DOMAIN CodeBits(data) :
               CodeBits(data)[k] = IF k \in DOMAIN Bits(in, 8) THEN Bits(in, 8)[k] ELSE 0
      BY Zenon, <2>4, <2>5, <2>6
    <3> QED
      BY Zenon, <2>7, <3>1, <3>2 DEF Encodes, text, data, pads, n
<1> QED
  BY <1>1, <1>2, <1>3

-----------------------------------------------------------------------------
(* The same the other way, for any text: the bytes are those of its codes. *)

CodeValue == 0 .. 63

\* The codes of the block that four codes make.
LEMMA CodesOfBlock ==
  ASSUME NEW c0 \in CodeValue, NEW c1 \in CodeValue, NEW c2 \in CodeValue, NEW c3 \in CodeValue
  PROVE  LET b == FromCodes(c0, c1, c2, c3)
         IN  /\ b \in Nat
             /\ CodeOf(b, 0) = c0 /\ CodeOf(b, 1) = c1 /\ CodeOf(b, 2) = c2 /\ CodeOf(b, 3) = c3
<1> DEFINE b == FromCodes(c0, c1, c2, c3)
<1>0. c0 \in 0 .. 63 /\ c1 \in 0 .. 63 /\ c2 \in 0 .. 63 /\ c3 \in 0 .. 63
  BY Zenon DEF CodeValue
<1>1. b = c0 * 262144 + c1 * 4096 + c2 * 64 + c3
  BY SMT DEF FromCodes
<1> HIDE DEF b
<1>2. b \in Nat
  BY SMT, <1>0, <1>1
<1>3. /\ b \div 262144 = c0
      /\ b \div 4096 = c0 * 64 + c1
      /\ b \div 64 = (c0 * 64 + c1) * 64 + c2
  BY SMT, <1>0, <1>1
<1>4. /\ c0 % 64 = c0 /\ (c0 * 64 + c1) % 64 = c1
      /\ ((c0 * 64 + c1) * 64 + c2) % 64 = c2
  BY SMT, <1>0
<1>5. b % 64 = c3
  BY SMT, <1>0, <1>1
<1>6. /\ CodeOf(b, 0) = (b \div 262144) % 64
      /\ CodeOf(b, 1) = (b \div 4096) % 64
      /\ CodeOf(b, 2) = (b \div 64) % 64
      /\ CodeOf(b, 3) = b % 64
  BY SMT, <1>2 DEF CodeOf
<1> QED
  BY SMT, <1>0, <1>2, <1>3, <1>4, <1>5, <1>6 DEF b

\* A text without padding, and what counts as a code behind its end.
LEMMA CodesAre ==
  ASSUME NEW data \in Seq(CodeChar)
  PROVE  \A k \in Nat : /\ Code(data, k) \in 0 .. 63
                        /\ k \in 1 .. Len(data) => Code(data, k) = char_to_code(data[k])
<1> TAKE k \in Nat
<1>1. CASE k \in DOMAIN data
  <2>1. data[k] \in CodeChar
    BY <1>1
  <2>2. char_to_code(data[k]) \in 0 .. 63
    BY Zenon, <2>1, LookedUp
  <2> QED
    BY Zenon, <1>1, <2>2 DEF Code
<1>2. CASE k \notin DOMAIN data
  <2>1. 0 \in 0 .. 63 /\ DOMAIN data = 1 .. Len(data)
    OBVIOUS
  <2> QED
    BY Zenon, <1>2, <2>1 DEF Code
<1> QED
  BY Zenon, <1>1, <1>2

\* The four codes in the block at index g of a text.
LEMMA TextBlockIs ==
  ASSUME NEW data \in Seq(CodeChar), NEW g \in Nat
  PROVE  /\ Block4(data, g) \in Nat
         /\ \A j \in {0, 1, 2, 3} : CodeOf(Block4(data, g), j) = Code(data, 4 * g + j + 1)
<1> DEFINE c0 == Code(data, 4 * g + 1)
           c1 == Code(data, 4 * g + 2)
           c2 == Code(data, 4 * g + 3)
           c3 == Code(data, 4 * g + 4)
           b == Block4(data, g)
<1>1. 4 * g + 1 \in Nat /\ 4 * g + 2 \in Nat /\ 4 * g + 3 \in Nat /\ 4 * g + 4 \in Nat
  OBVIOUS
<1>2. c0 \in CodeValue /\ c1 \in CodeValue /\ c2 \in CodeValue /\ c3 \in CodeValue
  BY Zenon, <1>1, CodesAre DEF CodeValue
<1>3. b = FromCodes(c0, c1, c2, c3)
  BY SMT DEF Block4, FromCodes
<1>4. /\ 4 * g + 0 + 1 = 4 * g + 1 /\ 4 * g + 1 + 1 = 4 * g + 2
      /\ 4 * g + 2 + 1 = 4 * g + 3 /\ 4 * g + 3 + 1 = 4 * g + 4
  OBVIOUS
<1> HIDE DEF c0, c1, c2, c3, b
<1>5. b \in Nat /\ CodeOf(b, 0) = c0 /\ CodeOf(b, 1) = c1 /\ CodeOf(b, 2) = c2 /\ CodeOf(b, 3) = c3
  <2> DEFINE f == FromCodes(c0, c1, c2, c3)
  <2>1. f \in Nat /\ CodeOf(f, 0) = c0 /\ CodeOf(f, 1) = c1 /\ CodeOf(f, 2) = c2 /\ CodeOf(f, 3) = c3
    BY <1>2, CodesOfBlock
  <2> QED
    BY <1>3, <2>1
<1> QED
  BY Zenon, <1>4, <1>5 DEF c0, c1, c2, c3, b

\* The bytes in n characters are as many as their bits fill.
LEMMA WholeBytes ==
  ASSUME NEW n \in Nat
  PROVE  /\ BytesFor(n) \in Nat /\ BytesFor(n) = (6 * n) \div 8
         /\ 8 * BytesFor(n) <= 6 * n
<1> DEFINE q == n \div 4
           r == n % 4
<1>1. q \in Nat /\ n = 4 * q + r /\ r \in {0, 1, 2, 3}
  OBVIOUS
<1>2. /\ <<0, 0, 1, 2>>[1] = 0 /\ <<0, 0, 1, 2>>[2] = 0
      /\ <<0, 0, 1, 2>>[3] = 1 /\ <<0, 0, 1, 2>>[4] = 2
  OBVIOUS
<1>3. BytesFor(n) = 3 * q + <<0, 0, 1, 2>>[r + 1]
  BY DEF BytesFor
<1> HIDE DEF q, r
<1>4. /\ r = 0 => BytesFor(n) = 3 * q /\ 6 * n = 24 * q
      /\ r = 1 => BytesFor(n) = 3 * q /\ 6 * n = 24 * q + 6
      /\ r = 2 => BytesFor(n) = 3 * q + 1 /\ 6 * n = 24 * q + 12
      /\ r = 3 => BytesFor(n) = 3 * q + 2 /\ 6 * n = 24 * q + 18
  BY <1>1, <1>2, <1>3
<1> QED
  BY <1>1, <1>4

\* Bit k of the bytes that b64_to_bin_nopad finds in a text is bit k of the text's codes.
LEMMA DataBits ==
  ASSUME NEW data \in Seq(CodeChar), NEW k \in 0 .. 6 * Len(data) - 1
  PROVE  Bit(ByteOf(Block4(data, (k \div 8) \div 3), (k \div 8) % 3), 8, k % 8) = CodeBits(data)[k]
<1>0. k \in Nat
  OBVIOUS
<1>1. PICK g \in Nat, p \in 0 .. 23 :
        /\ k % 6 = p % 6 /\ k \div 6 = 4 * g + p \div 6 /\ p \div 6 \in {0, 1, 2, 3}
        /\ (k \div 8) \div 3 = g /\ (k \div 8) % 3 = p \div 8 /\ k % 8 = p % 8
  BY Zenon, <1>0, PlaceOfBit
<1> DEFINE b == Block4(data, g)
           c == p \div 6
<1>2. b \in Nat /\ CodeOf(b, c) = Code(data, 4 * g + c + 1)
  BY Zenon, <1>1, TextBlockIs
<1>3. Bit(CodeOf(b, c), 6, p % 6) = Bit(ByteOf(b, p \div 8), 8, p % 8)
  BY Zenon, <1>2, BlockBits
<1>4. /\ k \div 6 + 1 \in 1 .. Len(data)
      /\ CodeBits(data)[k] = Bit(char_to_code(data[k \div 6 + 1]), 6, k % 6)
  BY Zenon, CodeBitsAre
<1>5. 1 .. Len(data) \subseteq Nat
  OBVIOUS
<1>6. Code(data, k \div 6 + 1) = char_to_code(data[k \div 6 + 1])
  BY Zenon, <1>4, <1>5, CodesAre
<1> HIDE DEF b, c
<1>7. CodeBits(data)[k] = Bit(ByteOf(b, p \div 8), 8, p % 8)
  BY Zenon, <1>1, <1>2, <1>3, <1>4, <1>6 DEF c
<1> QED
  BY Zenon, <1>1, <1>7 DEF b

\* What b64_to_bin_nopad writes are the whole bytes in the bits of the text by RFC 4648,
\* for texts of every length that have a meaning (base64.c:172-237).
THEOREM DataRead ==
  ASSUME NEW data \in Seq(CodeChar), NEW max_len \in Nat,
         Len(data) % 4 # 1, BytesFor(Len(data)) <= max_len
  PROVE  LET read == b64_to_bin_nopad(data, max_len)
         IN  /\ read.ret = (6 * Len(data)) \div 8
             /\ Denotes(data, read.out)
<1> DEFINE m == Len(data)
           n == BytesFor(m)
           out == b64_to_bin_nopad(data, max_len).out
           byte(k) == ByteOf(Block4(data, (k - 1) \div 3), (k - 1) % 3)
<1>0. m \in Nat
  OBVIOUS
<1>1. m \in Nat /\ n \in Nat /\ n = (6 * m) \div 8 /\ 8 * n <= 6 * m
  BY Zenon, <1>0, WholeBytes
<1>2. b64_to_bin_nopad(data, max_len).ret = n /\ out = [k \in 1 .. n |-> byte(k)]
  <2>1. CASE m = 0
    <3>1. n = 0
      BY <1>1, <2>1
    <3>2. b64_to_bin_nopad(data, max_len) = Result(0, <<>>)
      BY Zenon, <2>1 DEF b64_to_bin_nopad
    <3> HIDE DEF n, byte
    <3>3. [k \in 1 .. n |-> byte(k)] = <<>>
      BY <3>1
    <3> QED
      BY <3>1, <3>2, <3>3 DEF Result
  <2>2. CASE m # 0
    <3> HIDE DEF n
    <3>1. ~(Len(data) % 4 = 1 \/ max_len < n)
      BY <1>1 DEF n
    <3>2. b64_to_bin_nopad(data, max_len) = Result(n, [k \in 1 .. n |-> byte(k)])
      BY Zenon, <2>2, <3>1 DEF b64_to_bin_nopad, n
    <3> HIDE DEF byte
    <3> QED
      BY <3>2 DEF Result
  <2> QED
    BY <2>1, <2>2
<1> HIDE DEF n, out, byte
<1>3. Len(out) = n /\ out \in Seq({byte(k) : k \in 1 .. n})
  BY <1>1, <1>2
<1>4. /\ DOMAIN Bits(out, 8) = 0 .. 8 * n - 1
      /\ \A k \in 0 .. 8 * n - 1 :
           k \div 8 + 1 \in 1 .. n /\ Bits(out, 8)[k] = Bit(out[k \div 8 + 1], 8, k % 8)
  BY Zenon, <1>3, ByteBitsAre
<1>5. ASSUME NEW k \in 0 .. 8 * n - 1
      PROVE  Bits(out, 8)[k] = CodeBits(data)[k]
  <2>1. out[k \div 8 + 1] = byte(k \div 8 + 1)
    BY Zenon, <1>2, <1>4
  <2>2. (k \div 8 + 1) - 1 = k \div 8 /\ k \in 0 .. 6 * m - 1
    BY <1>1
  <2>3. byte(k \div 8 + 1) = ByteOf(Block4(data, (k \div 8) \div 3), (k \div 8) % 3)
    BY Zenon, <2>2 DEF byte
  <2>4. Bit(byte(k \div 8 + 1), 8, k % 8) = CodeBits(data)[k]
    BY Zenon, <2>2, <2>3, DataBits DEF m
  <2> QED
    BY Zenon, <1>4, <2>1, <2>4
<1>6. Denotes(data, out)
  BY Zenon, <1>1, <1>3, <1>4, <1>5 DEF Denotes, m
<1> QED
  BY Zenon, <1>1, <1>2, <1>6 DEF out, m
=============================================================================
