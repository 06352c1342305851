-------------------------------- MODULE Wire --------------------------------
(***************************************************************************)
(* The primitives that the binary codecs of the workspace share: integers  *)
(* laid out in bytes, cursors over a buffer, padding and UTF-16 text.  A   *)
(* buffer is a sequence of bytes and positions count from 0, as in the     *)
(* code.  Integers of up to 32 bits are numbers below Limit; a 64-bit      *)
(* integer is the sequence of its eight base-256 digits, the least         *)
(* significant first, and a text is the sequence of its UTF-16 units.      *)
(***************************************************************************)
EXTENDS Integers, Sequences, SequencesExt

Limit == 2^31 - 1

(* What a decoder returns: Ok(value), or Bad for any of its errors. *)
Ok(v) == [ok |-> TRUE, val |-> v]

Bad == [ok |-> FALSE]

(* The `?` operator: go on with what was read, or return the error. *)
Then(r, F(_)) == IF r.ok THEN F(r) ELSE Bad

Require(c, r) == IF c THEN r ELSE Bad

(* to_le_bytes and to_be_bytes of an n-byte integer. *)
LE(v, n) == [i \in 1..n |-> (v \div 256^(i - 1)) % 256]

BE(v, n) == Reverse(LE(v, n))

LE64(d) == d

Take(b, pos, n) == SubSeq(b, pos + 1, IF pos + n <= Len(b) THEN pos + n ELSE Len(b))

From(b, pos) == SubSeq(b, pos + 1, Len(b))

StartsWith(s, prefix) == Take(s, 0, Len(prefix)) = prefix

EndsWith(s, suffix) == Len(s) >= Len(suffix) /\ From(s, Len(s) - Len(suffix)) = suffix

(* The order of strings. *)
Leq(a, b) ==
  LET differ == {i \in DOMAIN a \cap DOMAIN b : a[i] # b[i]}
      first == CHOOSE i \in differ : \A j \in differ : i <= j
  IN IF differ = {} THEN Len(a) <= Len(b) ELSE a[first] < b[first]

(* step applied along a sequence, position by position (a byte string is too
   long for a fold over the sets of its positions). *)
Accumulate(step(_, _), init, seq) ==
  LET upto[i \in 0..Len(seq)] == IF i = 0 THEN init ELSE step(upto[i - 1], seq[i])
  IN upto[Len(seq)]

(* from_le_bytes and from_be_bytes of the n bytes at pos. *)
RdLE(b, pos, n) ==
  LET Digit(i) == IF i < n /\ pos + i < Len(b) THEN 256^i * b[pos + i + 1] ELSE 0
  IN Digit(0) + Digit(1) + Digit(2) + Digit(3)

RdBE(b, pos, n) == RdLE(Reverse(Take(b, pos, n)), 0, n)

Has(b, pos, n) == pos + n <= Len(b)

Zeros(n) == [i \in 1..n |-> 0]

(* The number of bytes that align the position to a multiple of n. *)
PadTo(pos, n) == (n - (pos % n)) % n

Align(b, n) == b \o Zeros(PadTo(Len(b), n))

(* UTF-16 little endian.  A buffer of odd length is read byte by byte. *)
Utf16(s) == [i \in 1..(2 * Len(s)) |-> IF i % 2 = 1 THEN s[(i + 1) \div 2] % 256 ELSE s[i \div 2] \div 256]

FromUtf16(b) ==
  IF Len(b) % 2 = 1 THEN b
  ELSE [i \in 1..(Len(b) \div 2) |-> RdLE(b, 2 * (i - 1), 2)]

(* std::str::from_utf8 accepts b. *)
RECURSIVE IsUtf8(_)
IsUtf8(b) ==
  b = <<>> \/ LET n == CASE b[1] < 128 -> 1
                       [] b[1] \in 194..223 -> 2
                       [] b[1] \in 224..239 -> 3
                       [] b[1] \in 240..244 -> 4
                       [] OTHER -> Len(b) + 1
             IN /\ n <= Len(b)
                /\ \A i \in 2..n : b[i] \in 128..191
                /\ b[1] \in {224, 240} => b[2] >= (IF b[1] = 224 THEN 160 ELSE 144)
                /\ b[1] \in {237, 244} => b[2] < (IF b[1] = 237 THEN 160 ELSE 144)
                /\ IsUtf8(From(b, n))

(* String::from_utf16 accepts the units: surrogates come in pairs. *)
IsUtf16(units) ==
  LET High(u) == u \in 55296..56319
      Low(u) == u \in 56320..57343
  IN \A i \in DOMAIN units :
       /\ High(units[i]) => i < Len(units) /\ Low(units[i + 1])
       /\ Low(units[i]) => i > 1 /\ High(units[i - 1])

-----------------------------------------------------------------------------
(* The digits of a number in the base, and the number of the digits. *)
RECURSIVE Digits(_, _)
Digits(v, base) == (IF v < base THEN <<>> ELSE Digits(v \div base, base)) \o <<v % base>>

DigitChar(d) == IF d < 10 THEN 48 + d ELSE 55 + d

DigitValue(c) ==
  CASE c \in 48..57 -> c - 48 [] c \in 65..70 -> c - 55 [] c \in 97..102 -> c - 87 [] OTHER -> 99

Decimal(v) == [i \in DOMAIN Digits(v, 10) |-> DigitChar(Digits(v, 10)[i])]

(* str::parse of an integer: an optional '+', then at most ten digits here. *)
ParseDecimal(s) ==
  LET t == IF s # <<>> /\ s[1] = 43 THEN Tail(s) ELSE s
  IN IF t = <<>> \/ Len(t) > 10 \/ \E i \in DOMAIN t : DigitValue(t[i]) > 9 THEN Bad
     ELSE Ok(Accumulate(LAMBDA v, c : 10 * v + DigitValue(c), 0, t))

(* What the codecs need of a cryptographic hash: a number that the change of
   any one byte changes, and that is not linear in the bytes (cubing permutes
   the numbers modulo this prime). *)
RECURSIVE Digest(_, _)
Digest(m, b) ==
  LET half == Len(b) \div 2
      Cube(x) == (((x * x) % 32717) * x) % 32717
  IN CASE b = <<>> -> 1
       [] Len(b) = 1 -> b[1] + 2
       [] OTHER -> (m * Cube(Digest(m, Take(b, 0, half))) + 7 * Digest(m, From(b, half)) + Len(b)) % 32717

-----------------------------------------------------------------------------
(* A cursor's answer: the value read and the position behind it. *)
Got(pos, v) == [ok |-> TRUE, pos |-> pos, val |-> v]

(* Consecutive little-endian integers of the given widths. *)
Ints(b, pos, widths) ==
  [i \in DOMAIN widths |-> RdLE(b, pos + Accumulate(+, 0, SubSeq(widths, 1, i - 1)), widths[i])]

(* n elements one after the other, each read by Read(b, pos). *)
Repeat(b, pos, n, Read(_, _)) ==
  LET upto[i \in 0..n] ==
        IF i = 0 THEN Got(pos, <<>>)
        ELSE Then(upto[i - 1], LAMBDA c :
             Then(Read(b, c.pos), LAMBDA x : Got(x.pos, Append(c.val, x.val))))
  IN upto[n]

(* A decoder that ignores what follows the value. *)
Result(c) == IF c.ok THEN Ok(c.val) ELSE Bad
=============================================================================
