--------------------------- MODULE TerminalProofs ---------------------------
(***************************************************************************)
(* Theorems about module Terminal, for any readers, CPUs, ring size and    *)
(* counter width: interrupts and locks, sleepers, and the line editor.     *)
(***************************************************************************)
EXTENDS Terminal, TLAPS

Counters == 0 .. UintSize - 1
Chars == {"x", "nl", "eof"}
Keys == {"x", "cr", "eof", "erase", "kill"}
Places == {"idle", "acquire", "locked", "sleep", "prepare", "lsr", "thr"}
CPUs == [noff : Nat, intena : BOOLEAN, sie : BOOLEAN]
ThreadStates == [pc : Places, n : Nat, got : BOOLEAN, chan : {"none", "cons", "tx"},
                 asleep : BOOLEAN, intena : BOOLEAN, trap : BOOLEAN]

-----------------------------------------------------------------------------
(* Sequences.                                                              *)

\* What a sequence has.
LEMMA TextHas ==
    ASSUME NEW S, NEW q \in Seq(S)
    PROVE  Len(q) \in Nat /\ DOMAIN q = 1 .. Len(q) /\ \A i \in 1 .. Len(q) : q[i] \in S
  OBVIOUS

\* A function on 1 .. n is a sequence.
LEMMA TextMade ==
    ASSUME NEW S, NEW n \in Nat, NEW f \in [1 .. n -> S]
    PROVE  f \in Seq(S) /\ Len(f) = n
  OBVIOUS

\* The empty sequence is the one of length 0.
LEMMA TextEmpty ==
    ASSUME NEW S, NEW q \in Seq(S)
    PROVE  (q = <<>>) <=> (Len(q) = 0)
  OBVIOUS

\* Sequences are equal that agree at every place.
LEMMA TextEqual ==
    ASSUME NEW S, NEW q \in Seq(S), NEW s \in Seq(S), Len(q) = Len(s), \A i \in 1 .. Len(q) : q[i] = s[i]
    PROVE  q = s
  OBVIOUS

\* A part of a sequence.
LEMMA TextPart ==
    ASSUME NEW S, NEW q \in Seq(S), NEW m \in Nat, NEW n \in 0 .. Len(q), m <= n
    PROVE  /\ SubSeq(q, m + 1, n) \in Seq(S) /\ Len(SubSeq(q, m + 1, n)) = n - m
           /\ \A i \in 1 .. n - m : SubSeq(q, m + 1, n)[i] = q[m + i]
  OBVIOUS

\* The start of a sequence.
LEMMA TextStart ==
    ASSUME NEW S, NEW q \in Seq(S), NEW n \in 0 .. Len(q)
    PROVE  /\ SubSeq(q, 1, n) \in Seq(S) /\ Len(SubSeq(q, 1, n)) = n
           /\ \A i \in 1 .. n : SubSeq(q, 1, n)[i] = q[i]
  OBVIOUS

\* The whole of a sequence as a part of it.
LEMMA TextFull ==
    ASSUME NEW S, NEW q \in Seq(S)
    PROVE  SubSeq(q, 1, Len(q)) = q
  OBVIOUS

\* A sequence with one more element.
LEMMA TextAppend ==
    ASSUME NEW S, NEW q \in Seq(S), NEW ch \in S
    PROVE  /\ Append(q, ch) \in Seq(S) /\ Len(Append(q, ch)) = Len(q) + 1
           /\ \A i \in 1 .. Len(q) : Append(q, ch)[i] = q[i]
           /\ Append(q, ch)[Len(q) + 1] = ch
  OBVIOUS

\* Two sequences, one after the other.
LEMMA TextJoined ==
    ASSUME NEW S, NEW q \in Seq(S), NEW s \in Seq(S)
    PROVE  /\ q \o s \in Seq(S) /\ Len(q \o s) = Len(q) + Len(s)
           /\ \A i \in 1 .. Len(q) : (q \o s)[i] = q[i]
           /\ \A i \in 1 .. Len(s) : (q \o s)[Len(q) + i] = s[i]
  OBVIOUS

\* A sequence is a part of it and the rest.
LEMMA TextJoin ==
    ASSUME NEW S, NEW q \in Seq(S), NEW m \in 0 .. Len(q)
    PROVE  SubSeq(q, 1, m) \o SubSeq(q, m + 1, Len(q)) = q
  <1> DEFINE a == SubSeq(q, 1, m)
             z == SubSeq(q, m + 1, Len(q))
  <1>1. a \in Seq(S) /\ Len(a) = m /\ \A i \in 1 .. m : a[i] = q[i]
    OBVIOUS
  <1>2. z \in Seq(S) /\ Len(z) = Len(q) - m /\ \A i \in 1 .. Len(q) - m : z[i] = q[m + i]
    OBVIOUS
  <1> HIDE DEF a, z
  <1>3. /\ a \o z \in Seq(S) /\ Len(a \o z) = Len(q)
        /\ \A i \in 1 .. m : (a \o z)[i] = q[i]
        /\ \A i \in 1 .. Len(q) - m : (a \o z)[m + i] = q[m + i]
    <2>0. a \in Seq(S) /\ z \in Seq(S)
      BY Zenon, <1>1, <1>2
    <2>1. /\ a \o z \in Seq(S) /\ Len(a \o z) = Len(a) + Len(z)
          /\ \A i \in 1 .. Len(a) : (a \o z)[i] = a[i]
          /\ \A i \in 1 .. Len(z) : (a \o z)[Len(a) + i] = z[i]
      BY SMTT(30), <2>0, TextJoined
    <2>2. m + (Len(q) - m) = Len(q)
      OBVIOUS
    <2> QED BY Zenon, <1>1, <1>2, <2>1, <2>2
  <1>4. ASSUME NEW i \in 1 .. Len(q), i > m PROVE (a \o z)[i] = q[i]
    <2>1. i - m \in 1 .. Len(q) - m /\ m + (i - m) = i
      BY <1>4
    <2> QED BY Zenon, <1>3, <2>1
  <1>5. \A i \in 1 .. Len(q) : (a \o z)[i] = q[i]
    BY <1>3, <1>4
  <1>6. a \o z = q
    BY Zenon, <1>3, <1>5, TextEqual
  <1> QED BY Zenon, <1>6 DEF a, z

-----------------------------------------------------------------------------
(* Remainders, and the distance of two indices.                            *)

\* A number is a multiple of P and its remainder.
LEMMA Quotient ==
    ASSUME NEW P \in Nat, P > 0, NEW a \in Nat
    PROVE  \E m \in Nat : a = P * m + (a % P) /\ (a % P) \in 0 .. P - 1
  <1>1. (a \div P) \in Nat /\ a = P * (a \div P) + (a % P) /\ (a % P) \in 0 .. P - 1
    OBVIOUS
  <1> QED BY <1>1

\* The remainder of a multiple of P and a rest.
LEMMA Remainder ==
    ASSUME NEW P \in Nat, P > 0, NEW m \in Nat, NEW x \in 0 .. P - 1
    PROVE  (P * m + x) % P = x
  OBVIOUS

\* A multiple of P added changes no remainder.
LEMMA AddMultiple ==
    ASSUME NEW P \in Nat, P > 0, NEW U \in Nat, U % P = 0, NEW a \in Nat
    PROVE  (a + U) % P = a % P
  <1>1. PICK m \in Nat : U = P * m
    BY Quotient
  <1>2. PICK x \in Nat : a = P * x + (a % P) /\ (a % P) \in 0 .. P - 1
    BY Quotient
  <1>3. a + U = P * (x + m) + (a % P)
    BY <1>1, <1>2
  <1>4. \A t \in Nat, y \in 0 .. P - 1 : (P * t + y) % P = y
    BY Remainder
  <1>5. x + m \in Nat
    OBVIOUS
  <1> QED BY Zenon, <1>2, <1>3, <1>4, <1>5

\* Numbers less than P apart have different remainders.
LEMMA NearDiffer ==
    ASSUME NEW P \in Nat, P > 0, NEW a \in Nat, NEW b \in Nat, a < b, b < a + P
    PROVE  a % P # b % P
  <1> SUFFICES ASSUME a % P = b % P PROVE FALSE
    OBVIOUS
  <1>1. PICK x \in Nat : a = P * x + (a % P) /\ (a % P) \in 0 .. P - 1
    BY Zenon, Quotient
  <1>2. PICK m \in Nat : b = P * m + (b % P) /\ (b % P) \in 0 .. P - 1
    BY Zenon, Quotient
  <1>3. b - a = P * (m - x)
    BY <1>1, <1>2
  <1>4. m - x \in Int /\ P * (m - x) > 0 /\ P * (m - x) < P
    BY <1>3
  <1>5. m - x >= 1
    BY <1>4
  <1>6. P * (m - x) >= P
    BY <1>5
  <1> QED BY <1>4, <1>6

\* The sizes of the ring and of its indices.
LEMMA Sizes ==
    /\ INPUT_BUF_SIZE \in Nat /\ INPUT_BUF_SIZE > 0
    /\ UintSize \in Nat /\ UintSize > INPUT_BUF_SIZE /\ UintSize % INPUT_BUF_SIZE = 0
  BY TerminalAssumption

\* Unsigned arithmetic loses or borrows UintSize at most once.
LEMMA WrapIs ==
    ASSUME NEW x \in Int, x + UintSize >= 0, x < 2 * UintSize
    PROVE  /\ Wrap(x) = IF x < 0 THEN x + UintSize ELSE IF x < UintSize THEN x ELSE x - UintSize
           /\ Wrap(x) \in Counters
  <1>1. CASE x < 0
    <2>1. x + UintSize \in Nat /\ x + UintSize < UintSize
      BY <1>1, Sizes
    <2>2. (x + UintSize) % UintSize = x + UintSize
      BY <2>1, Sizes
    <2> QED BY <1>1, <2>1, <2>2, Sizes DEF Wrap, Counters
  <1>2. CASE x >= 0 /\ x < UintSize
    <2>1. x + UintSize = UintSize * 1 + x /\ x \in 0 .. UintSize - 1
      BY <1>2, Sizes
    <2>2. (UintSize * 1 + x) % UintSize = x
      BY <2>1, Sizes, Remainder
    <2> QED BY <1>2, <2>1, <2>2, Sizes DEF Wrap, Counters
  <1>3. CASE x >= UintSize
    <2>1. x + UintSize = UintSize * 2 + (x - UintSize) /\ x - UintSize \in 0 .. UintSize - 1
      BY <1>3, Sizes
    <2>2. (UintSize * 2 + (x - UintSize)) % UintSize = x - UintSize
      BY <2>1, Sizes, Remainder
    <2> QED BY <1>3, <2>1, <2>2, Sizes DEF Wrap, Counters
  <1> QED BY <1>1, <1>2, <1>3, Sizes

\* How far one index is ahead of another.
LEMMA AheadIs ==
    ASSUME NEW i \in Counters, NEW j \in Counters
    PROVE  /\ Ahead(i, j) = IF i >= j THEN i - j ELSE i + UintSize - j
           /\ Ahead(i, j) \in Counters /\ Ahead(i, j) \in Nat
  <1>1. i - j \in Int /\ (i - j) + UintSize >= 0 /\ i - j < 2 * UintSize
    BY Sizes DEF Counters
  <1> QED BY <1>1, WrapIs, Sizes DEF Ahead, Counters

\* An index that has wrapped around still denotes its place in the ring.
LEMMA PlaceIs ==
    ASSUME NEW x \in Nat, x < 2 * UintSize
    PROVE  Wrap(x) % INPUT_BUF_SIZE = x % INPUT_BUF_SIZE
  <1>1. CASE x < UintSize
    BY <1>1, WrapIs, Sizes
  <1>2. CASE x >= UintSize
    <2>1. x - UintSize \in Nat /\ Wrap(x) = x - UintSize /\ (x - UintSize) + UintSize = x
      BY <1>2, WrapIs, Sizes
    <2>2. \A P \in Nat, U \in Nat, a \in Nat : P > 0 /\ U % P = 0 => (a + U) % P = a % P
      BY Zenon, AddMultiple
    <2>3. ((x - UintSize) + UintSize) % INPUT_BUF_SIZE = (x - UintSize) % INPUT_BUF_SIZE
      BY Zenon, <2>1, <2>2, Sizes
    <2> QED BY <2>1, <2>3
  <1> QED BY <1>1, <1>2, Sizes

Rings == [0 .. INPUT_BUF_SIZE - 1 -> Chars]

\* The characters of ring b from index i to index j.
TextOf(b, i, j) == [k \in 1 .. Ahead(j, i) |-> b[Wrap(i + k - 1) % INPUT_BUF_SIZE]]

\* The text between two indices: as long as they are apart, with the characters
\* of the places from the first index on.
LEMMA TextIs ==
    ASSUME NEW b \in Rings, NEW i \in Counters, NEW j \in Counters
    PROVE  /\ TextOf(b, i, j) \in Seq(Chars) /\ Len(TextOf(b, i, j)) = Ahead(j, i)
           /\ \A k \in 1 .. Ahead(j, i) :
                 /\ TextOf(b, i, j)[k] = b[(i + k - 1) % INPUT_BUF_SIZE]
                 /\ TextOf(b, i, j)[k] \in Chars
  <1>1. Ahead(j, i) \in Nat /\ Ahead(j, i) \in Counters
    BY AheadIs
  <1>2. ASSUME NEW k \in 1 .. Ahead(j, i)
        PROVE  /\ Wrap(i + k - 1) % INPUT_BUF_SIZE = (i + k - 1) % INPUT_BUF_SIZE
               /\ (i + k - 1) % INPUT_BUF_SIZE \in 0 .. INPUT_BUF_SIZE - 1
    <2>1. i + k - 1 \in Nat /\ i + k - 1 < 2 * UintSize
      BY <1>1, Sizes DEF Counters
    <2>2. (i + k - 1) % INPUT_BUF_SIZE \in 0 .. INPUT_BUF_SIZE - 1
      BY <2>1, Sizes
    <2> QED BY <2>1, <2>2, PlaceIs
  <1>3. TextOf(b, i, j) \in [1 .. Ahead(j, i) -> Chars]
    BY <1>2 DEF TextOf, Rings
  <1>4. \A k \in 1 .. Ahead(j, i) : TextOf(b, i, j)[k] = b[(i + k - 1) % INPUT_BUF_SIZE]
    BY <1>2 DEF TextOf
  <1>5. TextOf(b, i, j) \in Seq(Chars)
    BY <1>1, <1>3, TextMade
  <1> QED BY <1>1, <1>3, <1>4, TextMade

-----------------------------------------------------------------------------
(* The text between two indices, when one of them moves.                   *)

\* An index is not ahead of itself.
LEMMA AheadSelf == ASSUME NEW i \in Counters PROVE Ahead(i, i) = 0
  BY AheadIs, Sizes DEF Counters

\* The first index moves on.
LEMMA Advance ==
    ASSUME NEW b \in Rings, NEW i \in Counters, NEW j \in Counters, NEW k \in 0 .. Ahead(j, i)
    PROVE  /\ Wrap(i + k) \in Counters /\ Ahead(j, Wrap(i + k)) = Ahead(j, i) - k
           /\ TextOf(b, Wrap(i + k), j) = SubSeq(TextOf(b, i, j), k + 1, Ahead(j, i))
  <1> DEFINE h == Wrap(i + k)
             d == Ahead(j, i)
             s == SubSeq(TextOf(b, i, j), k + 1, d)
  <1>1. d \in Nat /\ d \in Counters /\ d = IF j >= i THEN j - i ELSE j + UintSize - i
    BY AheadIs
  <1> HIDE DEF d
  <1>2. k \in Nat /\ k <= d /\ i + k < 2 * UintSize /\ i + k + UintSize >= 0
    BY <1>1, Sizes DEF Counters, d
  <1>3. h \in Counters /\ h = IF i + k < UintSize THEN i + k ELSE i + k - UintSize
    BY <1>2, WrapIs, Sizes DEF Counters
  <1> HIDE DEF h
  <1>4. Ahead(j, h) = d - k
    <2>1. Ahead(j, h) = IF j >= h THEN j - h ELSE j + UintSize - h
      BY Zenon, <1>3, AheadIs
    <2>2. i \in Nat /\ i < UintSize /\ j \in Nat /\ j < UintSize
      BY Sizes DEF Counters
    <2>3. CASE i + k < UintSize
      BY <1>1, <1>2, <1>3, <2>1, <2>2, <2>3, Sizes
    <2>4. CASE ~(i + k < UintSize)
      BY <1>1, <1>2, <1>3, <2>1, <2>2, <2>4, Sizes
    <2> QED BY <2>3, <2>4
  <1>5. /\ TextOf(b, i, j) \in Seq(Chars) /\ Len(TextOf(b, i, j)) = d
        /\ \A x \in 1 .. d : TextOf(b, i, j)[x] = b[(i + x - 1) % INPUT_BUF_SIZE]
    BY TextIs DEF d
  <1>6. /\ s \in Seq(Chars) /\ Len(s) = d - k
        /\ \A x \in 1 .. d - k : s[x] = TextOf(b, i, j)[k + x]
    <2>1. d \in 0 .. Len(TextOf(b, i, j))
      BY <1>1, <1>5
    <2> QED BY <1>2, <1>5, <2>1, TextPart
  <1>7. /\ TextOf(b, h, j) \in Seq(Chars) /\ Len(TextOf(b, h, j)) = d - k
        /\ \A x \in 1 .. d - k : TextOf(b, h, j)[x] = b[(h + x - 1) % INPUT_BUF_SIZE]
    <2>1. /\ TextOf(b, h, j) \in Seq(Chars) /\ Len(TextOf(b, h, j)) = Ahead(j, h)
          /\ \A x \in 1 .. Ahead(j, h) : TextOf(b, h, j)[x] = b[(h + x - 1) % INPUT_BUF_SIZE]
      BY ZenonT(60), <1>3, TextIs
    <2> QED BY <1>4, <2>1
  <1>8. ASSUME NEW x \in 1 .. d - k PROVE TextOf(b, h, j)[x] = s[x]
    <2>1. s[x] = b[(i + k + x - 1) % INPUT_BUF_SIZE]
      <3>1. k + x \in 1 .. d /\ i + (k + x) - 1 = i + k + x - 1
        BY <1>1, <1>2 DEF Counters
      <3> QED BY <1>5, <1>6, <3>1
    <2>2. (h + x - 1) % INPUT_BUF_SIZE = (i + k + x - 1) % INPUT_BUF_SIZE
      <3>1. CASE i + k < UintSize
        <4>1. h + x - 1 = i + k + x - 1
          BY <1>3, <3>1
        <4> QED BY <4>1
      <3>2. CASE i + k >= UintSize
        <4>1. h + x - 1 \in Nat /\ (h + x - 1) + UintSize = i + k + x - 1
          BY <1>1, <1>2, <1>3, <3>2, Sizes DEF Counters
        <4>2. \A P \in Nat, U \in Nat, a \in Nat : P > 0 /\ U % P = 0 => (a + U) % P = a % P
          BY Zenon, AddMultiple
        <4>3. ((h + x - 1) + UintSize) % INPUT_BUF_SIZE = (h + x - 1) % INPUT_BUF_SIZE
          BY Zenon, <4>1, <4>2, Sizes
        <4> QED BY <4>1, <4>3
      <3> QED BY <1>1, <1>2, <3>1, <3>2, Sizes DEF Counters
    <2> QED BY Zenon, <1>7, <2>1, <2>2
  <1>9. TextOf(b, h, j) = s
    BY <1>6, <1>7, <1>8, TextEqual
  <1> QED BY <1>3, <1>4, <1>9 DEF h, d

\* Two indices are less than a full round apart.
LEMMA AheadBound ==
    ASSUME NEW i \in Counters, NEW j \in Counters
    PROVE  Ahead(i, j) \in Nat /\ Ahead(i, j) < UintSize
  <1>1. Ahead(i, j) \in Counters
    BY AheadIs
  <1> QED BY <1>1, Sizes DEF Counters

\* The index that is k ahead of i.
LEMMA Reached ==
    ASSUME NEW i \in Counters, NEW k \in Nat, k < UintSize
    PROVE  Wrap(i + k) \in Counters /\ Ahead(Wrap(i + k), i) = k
  <1> DEFINE h == Wrap(i + k)
  <1>1. i \in Nat /\ i < UintSize
    BY Sizes DEF Counters
  <1>2. h \in Counters /\ h = IF i + k < UintSize THEN i + k ELSE i + k - UintSize
    BY <1>1, WrapIs, Sizes
  <1> HIDE DEF h
  <1>3. h \in Nat /\ h < UintSize
    BY <1>2, Sizes DEF Counters
  <1>4. Ahead(h, i) = IF h >= i THEN h - i ELSE h + UintSize - i
    BY Zenon, <1>2, AheadIs
  <1>5. Ahead(h, i) = k
    BY <1>1, <1>2, <1>3, <1>4, Sizes
  <1> QED BY <1>2, <1>5 DEF h

\* An index is found again from the distance to it.
LEMMA Return ==
    ASSUME NEW i \in Counters, NEW j \in Counters
    PROVE  Wrap(i + Ahead(j, i)) = j
  <1> DEFINE d == Ahead(j, i)
  <1>1. i \in Nat /\ i < UintSize /\ j \in Nat /\ j < UintSize
    BY Sizes DEF Counters
  <1>2. d \in Nat /\ d < UintSize /\ d = IF j >= i THEN j - i ELSE j + UintSize - i
    BY AheadIs, AheadBound
  <1> HIDE DEF d
  <1>3. Wrap(i + d) = IF i + d < UintSize THEN i + d ELSE i + d - UintSize
    BY <1>1, <1>2, WrapIs, Sizes
  <1>4. Wrap(i + d) = j
    BY <1>1, <1>2, <1>3, Sizes
  <1> QED BY <1>4 DEF d

\* The second index moves back.
LEMMA Prefix ==
    ASSUME NEW b \in Rings, NEW i \in Counters, NEW j \in Counters, NEW k \in 0 .. Ahead(j, i)
    PROVE  TextOf(b, i, Wrap(i + k)) = SubSeq(TextOf(b, i, j), 1, k)
  <1> DEFINE h == Wrap(i + k)
             d == Ahead(j, i)
             s == SubSeq(TextOf(b, i, j), 1, k)
  <1>1. d \in Nat /\ d < UintSize
    BY AheadBound
  <1>2. /\ TextOf(b, i, j) \in Seq(Chars) /\ Len(TextOf(b, i, j)) = d
        /\ \A x \in 1 .. d : TextOf(b, i, j)[x] = b[(i + x - 1) % INPUT_BUF_SIZE]
    BY TextIs
  <1>3. k \in 0 .. d
    OBVIOUS
  <1> HIDE DEF d
  <1>4. k \in Nat /\ k < UintSize /\ k <= d
    BY <1>1, <1>3, Sizes
  <1>5. h \in Counters /\ Ahead(h, i) = k
    BY <1>4, Reached
  <1> HIDE DEF h
  <1>6. /\ TextOf(b, i, h) \in Seq(Chars) /\ Len(TextOf(b, i, h)) = Ahead(h, i)
        /\ \A x \in 1 .. Ahead(h, i) : TextOf(b, i, h)[x] = b[(i + x - 1) % INPUT_BUF_SIZE]
    BY Zenon, <1>5, TextIs
  <1>7. /\ s \in Seq(Chars) /\ Len(s) = k
        /\ \A x \in 1 .. k : s[x] = TextOf(b, i, j)[x]
    <2>1. k \in 0 .. Len(TextOf(b, i, j))
      BY <1>2, <1>3
    <2> QED BY <1>2, <2>1, TextStart
  <1> HIDE DEF s
  <1>8. \A x \in 1 .. k : TextOf(b, i, h)[x] = s[x]
    <2>1. \A x \in 1 .. k : x \in 1 .. d
      BY <1>1, <1>4
    <2> QED BY Zenon, <1>2, <1>5, <1>6, <1>7, <2>1
  <1>9. TextOf(b, i, h) = s
    BY Zenon, <1>5, <1>6, <1>7, <1>8, TextEqual
  <1> QED BY <1>9 DEF h, s

\* Two texts, one after the other.
LEMMA Joined ==
    ASSUME NEW b \in Rings, NEW r \in Counters, NEW w \in Counters, NEW e \in Counters,
           Ahead(w, r) + Ahead(e, w) < UintSize
    PROVE  /\ Ahead(e, r) = Ahead(w, r) + Ahead(e, w)
           /\ TextOf(b, r, e) = TextOf(b, r, w) \o TextOf(b, w, e)
  <1> DEFINE a == Ahead(w, r)
             d == Ahead(e, w)
             s == TextOf(b, r, e)
  <1>1. a \in Nat /\ d \in Nat /\ a + d < UintSize
    BY AheadIs
  <1>2. Ahead(e, r) = a + d
    <2>1. /\ r \in Nat /\ r < UintSize /\ w \in Nat /\ w < UintSize /\ e \in Nat /\ e < UintSize
      BY Sizes DEF Counters
    <2>2. /\ a = IF w >= r THEN w - r ELSE w + UintSize - r
          /\ d = IF e >= w THEN e - w ELSE e + UintSize - w
          /\ Ahead(e, r) = IF e >= r THEN e - r ELSE e + UintSize - r
      BY AheadIs
    <2> HIDE DEF a, d
    <2> QED BY <1>1, <2>1, <2>2, Sizes
  <1>3. Wrap(r + a) = w
    BY Return
  <1> HIDE DEF a, d
  <1>4. a \in 0 .. Ahead(e, r)
    BY <1>1, <1>2
  <1>5. TextOf(b, w, e) = SubSeq(s, a + 1, Ahead(e, r))
    BY <1>3, <1>4, Advance
  <1>6. TextOf(b, r, w) = SubSeq(s, 1, a)
    BY <1>3, <1>4, Prefix
  <1>7. s \in Seq(Chars) /\ Len(s) = Ahead(e, r)
    BY TextIs
  <1> HIDE DEF s
  <1>8. SubSeq(s, 1, a) \o SubSeq(s, a + 1, Len(s)) = s
    BY SMTT(30), <1>4, <1>7, TextJoin
  <1> QED BY Zenon, <1>2, <1>5, <1>6, <1>7, <1>8 DEF a, d, s

\* The place of an index, from another one and the distance.
LEMMA EndPlace ==
    ASSUME NEW i \in Counters, NEW e \in Counters
    PROVE  e % INPUT_BUF_SIZE = (i + Ahead(e, i)) % INPUT_BUF_SIZE
  <1> DEFINE d == Ahead(e, i)
  <1>1. Wrap(i + d) = e
    BY Return
  <1>2. d \in Nat /\ d < UintSize
    BY AheadBound
  <1> HIDE DEF d
  <1>3. i \in Nat /\ i < UintSize
    BY Sizes DEF Counters
  <1>4. i + d \in Nat /\ i + d < 2 * UintSize
    BY <1>2, <1>3, Sizes
  <1>5. Wrap(i + d) % INPUT_BUF_SIZE = (i + d) % INPUT_BUF_SIZE
    BY <1>4, PlaceIs
  <1> QED BY <1>1, <1>5 DEF d

\* While the ring is not full the place of e is none of a character before e.
LEMMA Untouched ==
    ASSUME NEW i \in Counters, NEW e \in Counters, Ahead(e, i) < INPUT_BUF_SIZE,
           NEW x \in 1 .. Ahead(e, i)
    PROVE  (i + x - 1) % INPUT_BUF_SIZE # e % INPUT_BUF_SIZE
  <1> DEFINE d == Ahead(e, i)
  <1>1. e % INPUT_BUF_SIZE = (i + d) % INPUT_BUF_SIZE
    BY EndPlace
  <1>2. d \in Nat /\ x \in 1 .. d /\ d < INPUT_BUF_SIZE
    BY AheadBound
  <1> HIDE DEF d
  <1>3. i \in Nat
    BY Sizes DEF Counters
  <1>4. i + x - 1 \in Nat /\ i + d \in Nat /\ i + x - 1 < i + d /\ i + d < (i + x - 1) + INPUT_BUF_SIZE
    BY <1>2, <1>3, Sizes
  <1>5. \A P, u, v \in Nat : P > 0 /\ u < v /\ v < u + P => u % P # v % P
    BY Zenon, NearDiffer
  <1> QED BY Zenon, <1>1, <1>4, <1>5, Sizes

\* A character that is put at the place of e, before e moves on.
LEMMA Extend ==
    ASSUME NEW b \in Rings, NEW i \in Counters, NEW e \in Counters, NEW ch \in Chars,
           Ahead(e, i) < INPUT_BUF_SIZE
    PROVE  /\ Ahead(Wrap(e + 1), i) = Ahead(e, i) + 1
           /\ TextOf([b EXCEPT ![e % INPUT_BUF_SIZE] = ch], i, Wrap(e + 1)) = Append(TextOf(b, i, e), ch)
  <1> DEFINE p == e % INPUT_BUF_SIZE
             b1 == [b EXCEPT ![p] = ch]
             d == Ahead(e, i)
             f == Wrap(e + 1)
             s == TextOf(b, i, e)
             t == TextOf(b1, i, f)
  <1>1. /\ i \in Nat /\ i < UintSize /\ e \in Nat /\ e < UintSize
        /\ d \in Nat /\ d < INPUT_BUF_SIZE /\ INPUT_BUF_SIZE < UintSize
    BY AheadBound, Sizes DEF Counters
  <1>2. p \in 0 .. INPUT_BUF_SIZE - 1
    BY <1>1, Sizes
  <1>3. b1 \in Rings /\ b1[p] = ch /\ \A y \in 0 .. INPUT_BUF_SIZE - 1 : y # p => b1[y] = b[y]
    BY <1>2 DEF Rings
  <1>4. \A x \in 1 .. d : (i + x - 1) % INPUT_BUF_SIZE # p
    BY Untouched
  <1>5. (i + d) % INPUT_BUF_SIZE = p
    BY EndPlace
  <1>6. s \in Seq(Chars) /\ Len(s) = d /\ \A x \in 1 .. d : s[x] = b[(i + x - 1) % INPUT_BUF_SIZE]
    BY TextIs
  <1>7. f \in Counters
    BY <1>1, WrapIs, Sizes
  <1>8. Ahead(f, i) = d + 1
    <2>1. f = IF e + 1 < UintSize THEN e + 1 ELSE e + 1 - UintSize
      BY <1>1, WrapIs, Sizes
    <2>2. d = IF e >= i THEN e - i ELSE e + UintSize - i
      BY AheadIs
    <2>3. Ahead(f, i) = IF f >= i THEN f - i ELSE f + UintSize - i
      BY <1>7, AheadIs
    <2> HIDE DEF d, f
    <2> QED BY <1>1, <2>1, <2>2, <2>3, Sizes
  <1> HIDE DEF p, b1, d, f
  <1>9. t \in Seq(Chars) /\ Len(t) = d + 1 /\ \A x \in 1 .. d + 1 : t[x] = b1[(i + x - 1) % INPUT_BUF_SIZE]
    <2>1. /\ t \in Seq(Chars) /\ Len(t) = Ahead(f, i)
          /\ \A x \in 1 .. Ahead(f, i) : t[x] = b1[(i + x - 1) % INPUT_BUF_SIZE]
      BY <1>3, <1>7, TextIs
    <2> QED BY <1>8, <2>1
  <1> HIDE DEF s, t
  <1>10. /\ Append(s, ch) \in Seq(Chars) /\ Len(Append(s, ch)) = d + 1
         /\ \A x \in 1 .. d : Append(s, ch)[x] = s[x]
         /\ Append(s, ch)[d + 1] = ch
    BY <1>6, TextAppend
  <1>11. ASSUME NEW x \in 1 .. d + 1 PROVE t[x] = Append(s, ch)[x]
    <2>1. CASE x = d + 1
      <3>1. i + x - 1 = i + d
        BY <1>1, <2>1
      <3> QED BY <1>3, <1>5, <1>9, <1>10, <2>1, <3>1
    <2>2. CASE x # d + 1
      <3>1. x \in 1 .. d /\ i + x - 1 \in Nat
        BY <1>1, <2>2
      <3>2. (i + x - 1) % INPUT_BUF_SIZE \in 0 .. INPUT_BUF_SIZE - 1
        BY <3>1, Sizes
      <3>3. b1[(i + x - 1) % INPUT_BUF_SIZE] = b[(i + x - 1) % INPUT_BUF_SIZE]
        BY <1>3, <1>4, <3>1, <3>2
      <3> QED BY <1>6, <1>9, <1>10, <3>1, <3>3
    <2> QED BY Zenon, <2>1, <2>2
  <1>12. t = Append(s, ch)
    BY <1>9, <1>10, <1>11, TextEqual
  <1> QED BY Zenon, <1>8, <1>12 DEF t, s, b1, p, f, d

\* What was complete before is not changed.
LEMMA Kept ==
    ASSUME NEW b \in Rings, NEW r \in Counters, NEW w \in Counters, NEW e \in Counters, NEW ch \in Chars,
           Ahead(w, r) <= Ahead(e, r), Ahead(e, r) < INPUT_BUF_SIZE
    PROVE  TextOf([b EXCEPT ![e % INPUT_BUF_SIZE] = ch], r, w) = TextOf(b, r, w)
  <1> DEFINE p == e % INPUT_BUF_SIZE
             b1 == [b EXCEPT ![p] = ch]
             a == Ahead(w, r)
             s == TextOf(b, r, w)
             t == TextOf(b1, r, w)
  <1>1. r \in Nat /\ e \in Nat /\ a \in Nat /\ Ahead(e, r) \in Nat
    BY AheadBound, Sizes DEF Counters
  <1>2. p \in 0 .. INPUT_BUF_SIZE - 1
    BY <1>1, Sizes
  <1>3. b1 \in Rings /\ \A y \in 0 .. INPUT_BUF_SIZE - 1 : y # p => b1[y] = b[y]
    BY <1>2 DEF Rings
  <1>4. \A x \in 1 .. Ahead(e, r) : (r + x - 1) % INPUT_BUF_SIZE # p
    BY Untouched
  <1> HIDE DEF p, b1
  <1>5. /\ s \in Seq(Chars) /\ Len(s) = a /\ \A x \in 1 .. a : s[x] = b[(r + x - 1) % INPUT_BUF_SIZE]
        /\ t \in Seq(Chars) /\ Len(t) = a /\ \A x \in 1 .. a : t[x] = b1[(r + x - 1) % INPUT_BUF_SIZE]
    BY Zenon, <1>3, TextIs
  <1> HIDE DEF s, t
  <1>6. ASSUME NEW x \in 1 .. a PROVE t[x] = s[x]
    <2>1. x \in 1 .. Ahead(e, r) /\ r + x - 1 \in Nat
      BY <1>1
    <2>2. (r + x - 1) % INPUT_BUF_SIZE \in 0 .. INPUT_BUF_SIZE - 1
      BY <2>1, Sizes
    <2> QED BY <1>3, <1>4, <1>5, <2>1, <2>2
  <1>7. t = s
    BY <1>5, <1>6, TextEqual
  <1> QED BY <1>7 DEF s, t, b1, p

Q(c) == TextOf(c.buf, c.r, c.w)
M(c) == TextOf(c.buf, c.w, c.e)

\* The ring c: its text fits, and the line that is typed has no end.
RingOK(c) ==
    /\ c \in [buf : Rings, r : Counters, w : Counters, e : Counters]
    /\ Ahead(c.w, c.r) + Ahead(c.e, c.w) <= INPUT_BUF_SIZE
    /\ \A k \in 1 .. Ahead(c.e, c.w) : M(c)[k] = "x"

\* The facts of a sound ring.
LEMMA RingFacts ==
    ASSUME NEW c, RingOK(c)
    PROVE  /\ c.buf \in Rings /\ c.r \in Counters /\ c.w \in Counters /\ c.e \in Counters
           /\ Q(c) \in Seq(Chars) /\ Len(Q(c)) = Ahead(c.w, c.r) /\ Ahead(c.w, c.r) \in Nat
           /\ M(c) \in Seq(Chars) /\ Len(M(c)) = Ahead(c.e, c.w) /\ Ahead(c.e, c.w) \in Nat
           /\ Ahead(c.e, c.r) = Ahead(c.w, c.r) + Ahead(c.e, c.w)
           /\ TextOf(c.buf, c.r, c.e) = Q(c) \o M(c)
  <1>1. c.buf \in Rings /\ c.r \in Counters /\ c.w \in Counters /\ c.e \in Counters
    BY DEF RingOK
  <1>2. /\ Q(c) \in Seq(Chars) /\ Len(Q(c)) = Ahead(c.w, c.r)
        /\ M(c) \in Seq(Chars) /\ Len(M(c)) = Ahead(c.e, c.w)
    BY ZenonT(30), <1>1, TextIs DEF Q, M
  <1>3. Ahead(c.w, c.r) \in Nat /\ Ahead(c.e, c.w) \in Nat
    BY <1>1, AheadBound
  <1>4. Ahead(c.w, c.r) + Ahead(c.e, c.w) <= INPUT_BUF_SIZE
    BY DEF RingOK
  <1>5. Ahead(c.w, c.r) + Ahead(c.e, c.w) < UintSize
    BY <1>3, <1>4, Sizes
  <1>6. /\ Ahead(c.e, c.r) = Ahead(c.w, c.r) + Ahead(c.e, c.w)
        /\ TextOf(c.buf, c.r, c.e) = Q(c) \o M(c)
    BY <1>1, <1>5, Joined DEF Q, M
  <1> QED BY <1>1, <1>2, <1>3, <1>6

\* A text between equal indices is empty.
LEMMA NoText ==
    ASSUME NEW b \in Rings, NEW i \in Counters PROVE TextOf(b, i, i) = <<>>
  <1>1. TextOf(b, i, i) \in Seq(Chars) /\ Len(TextOf(b, i, i)) = 0
    BY AheadSelf, TextIs
  <1> QED BY <1>1, TextEmpty

\* Characters are taken from the front of the complete lines.
LEMMA ReadIs ==
    ASSUME NEW c, RingOK(c), NEW j \in 0 .. Len(Q(c)), NEW new, new = [c EXCEPT !.r = Wrap(c.r + j)]
    PROVE  /\ RingOK(new) /\ M(new) = M(c)
           /\ Q(new) = SubSeq(Q(c), j + 1, Len(Q(c)))
           /\ j = Len(Q(c)) => new.r = new.w
           /\ j = 0 => new.r = c.r
  <1>1. /\ c.buf \in Rings /\ c.r \in Counters /\ c.w \in Counters /\ c.e \in Counters
        /\ Len(Q(c)) = Ahead(c.w, c.r) /\ Ahead(c.w, c.r) \in Nat /\ Ahead(c.e, c.w) \in Nat
    BY RingFacts
  <1>2. c \in [buf : Rings, r : Counters, w : Counters, e : Counters]
    BY DEF RingOK
  <1>3. new.r = Wrap(c.r + j) /\ new.buf = c.buf /\ new.w = c.w /\ new.e = c.e
    BY <1>2
  <1>4. j \in 0 .. Ahead(c.w, c.r)
    BY <1>1
  <1>5. /\ Wrap(c.r + j) \in Counters /\ Ahead(c.w, Wrap(c.r + j)) = Ahead(c.w, c.r) - j
        /\ TextOf(c.buf, Wrap(c.r + j), c.w) = SubSeq(Q(c), j + 1, Ahead(c.w, c.r))
    BY <1>1, <1>4, Advance DEF Q
  <1>6. new \in [buf : Rings, r : Counters, w : Counters, e : Counters]
    BY <1>2, <1>5
  <1>7. M(new) = M(c)
    BY <1>3 DEF M
  <1>8. Ahead(new.w, new.r) + Ahead(new.e, new.w) <= INPUT_BUF_SIZE
    <2>1. Ahead(c.w, c.r) + Ahead(c.e, c.w) <= INPUT_BUF_SIZE
      BY DEF RingOK
    <2> QED BY <1>1, <1>3, <1>4, <1>5, <2>1, Sizes
  <1>9. RingOK(new)
    BY <1>3, <1>6, <1>7, <1>8 DEF RingOK
  <1>10. j = Len(Q(c)) => new.r = new.w
    BY <1>1, <1>3, Return
  <1>11. j = 0 => new.r = c.r
    <2>1. c.r \in Nat /\ c.r < UintSize
      BY <1>1, Sizes DEF Counters
    <2>2. Wrap(c.r) = c.r
      BY <2>1, WrapIs, Sizes
    <2>3. j = 0 => c.r + j = c.r
      BY <2>1
    <2> QED BY <1>3, <2>2, <2>3
  <1> QED BY <1>1, <1>3, <1>5, <1>7, <1>9, <1>10, <1>11 DEF Q

\* The key that erases the line.
LEMMA KillIs ==
    ASSUME RingOK(cons), NEW new, new = Key("kill")
    PROVE  RingOK(new) /\ Q(new) = Q(cons) /\ M(new) = <<>> /\ new.r = cons.r /\ new.w = cons.w
  <1> DEFINE line == Text(cons.w, cons.e)
             nls == {i \in 1 .. Len(line) : line[i] = "nl"}
             keep == IF nls = {} THEN 0 ELSE CHOOSE i \in nls : \A j \in nls : j <= i
  <1>1. cons \in [buf : Rings, r : Counters, w : Counters, e : Counters]
    BY DEF RingOK
  <1>2. line = M(cons)
    BY <1>1 DEF Text, At, M, TextOf
  <1>3. nls = {}
    <2>1. Len(M(cons)) = Ahead(cons.e, cons.w) /\ \A k \in 1 .. Ahead(cons.e, cons.w) : M(cons)[k] = "x"
      BY RingFacts DEF RingOK
    <2> HIDE DEF line
    <2> QED BY <1>2, <2>1
  <1>4. keep = 0
    BY <1>3
  <1>5. new = [cons EXCEPT !.e = Wrap(cons.w + keep)]
    BY DEF Key
  <1> HIDE DEF keep
  <1>6. Wrap(cons.w + 0) = cons.w
    <2>1. cons.w \in Nat /\ cons.w < UintSize /\ cons.w + 0 = cons.w
      BY <1>1, Sizes DEF Counters
    <2> QED BY <2>1, WrapIs, Sizes
  <1>7. new = [cons EXCEPT !.e = cons.w]
    BY <1>4, <1>5, <1>6
  <1>8. /\ new \in [buf : Rings, r : Counters, w : Counters, e : Counters]
        /\ new.buf = cons.buf /\ new.r = cons.r /\ new.w = cons.w /\ new.e = cons.w
    BY <1>1, <1>7
  <1>9. Ahead(new.e, new.w) = 0 /\ M(new) = <<>> /\ Q(new) = Q(cons)
    BY <1>1, <1>8, AheadSelf, NoText DEF M, Q
  <1>10. Ahead(new.w, new.r) + Ahead(new.e, new.w) <= INPUT_BUF_SIZE
    <2>1. /\ Ahead(cons.w, cons.r) + Ahead(cons.e, cons.w) <= INPUT_BUF_SIZE
          /\ Ahead(cons.w, cons.r) \in Nat /\ Ahead(cons.e, cons.w) \in Nat
      BY RingFacts DEF RingOK
    <2> QED BY <1>8, <1>9, <2>1, Sizes
  <1> QED BY <1>8, <1>9, <1>10 DEF RingOK

\* The key that erases a character.
LEMMA EraseIs ==
    ASSUME RingOK(cons), NEW new, new = Key("erase")
    PROVE  /\ RingOK(new) /\ Q(new) = Q(cons) /\ new.r = cons.r /\ new.w = cons.w
           /\ \/ new = cons
              \/ M(cons) # <<>> /\ M(new) = SubSeq(M(cons), 1, Len(M(cons)) - 1)
  <1>1. cons \in [buf : Rings, r : Counters, w : Counters, e : Counters]
    BY DEF RingOK
  <1>2. new = [cons EXCEPT !.e = IF cons.e # cons.w THEN Wrap(cons.e - 1) ELSE cons.e]
    BY DEF Key
  <1>3. CASE cons.e = cons.w
    <2>1. new = cons
      BY <1>1, <1>2, <1>3
    <2> QED BY <2>1
  <1>4. CASE cons.e # cons.w
    <2> DEFINE w == cons.w
               e == cons.e
               d == Ahead(e, w)
               k == d - 1
    <2>1. w \in Counters /\ e \in Counters /\ w \in Nat /\ w < UintSize /\ e \in Nat /\ e < UintSize
      BY <1>1, Sizes DEF Counters
    <2>2. d = IF e >= w THEN e - w ELSE e + UintSize - w
      BY <2>1, AheadIs
    <2>3. d \in Nat /\ d > 0 /\ d < UintSize
      <3>1. d \in Nat /\ d < UintSize
        BY <2>1, AheadBound
      <3>2. e # w
        BY <1>4
      <3> HIDE DEF w, e, d
      <3> QED BY <2>1, <2>2, <3>1, <3>2, Sizes
    <2>4. k \in 0 .. d /\ k \in Nat /\ k < UintSize
      <3> HIDE DEF d
      <3> QED BY <2>3, Sizes
    <2>5. Wrap(w + k) = Wrap(e - 1)
      <3>1. Wrap(w + k) = IF w + k < UintSize THEN w + k ELSE w + k - UintSize
        BY <2>1, <2>4, WrapIs, Sizes
      <3>2. Wrap(e - 1) = IF e - 1 < 0 THEN e - 1 + UintSize ELSE e - 1
        BY <2>1, WrapIs, Sizes
      <3> HIDE DEF w, e, d
      <3> QED BY <2>1, <2>2, <2>3, <3>1, <3>2, Sizes
    <2>6. new = [cons EXCEPT !.e = Wrap(w + k)]
      BY <1>2, <1>4, <2>5
    <2>7. Wrap(w + k) \in Counters /\ Ahead(Wrap(w + k), w) = k
      BY <2>1, <2>4, Reached
    <2>8. TextOf(cons.buf, w, Wrap(w + k)) = SubSeq(M(cons), 1, k)
      BY <1>1, <2>1, <2>4, Prefix DEF M
    <2> HIDE DEF k
    <2>9. /\ new \in [buf : Rings, r : Counters, w : Counters, e : Counters]
          /\ new.buf = cons.buf /\ new.r = cons.r /\ new.w = cons.w /\ new.e = Wrap(w + k)
      BY <1>1, <2>6, <2>7
    <2>10. Q(new) = Q(cons) /\ M(new) = SubSeq(M(cons), 1, k) /\ Ahead(new.e, new.w) = k
      BY <2>7, <2>8, <2>9 DEF Q, M
    <2>11. /\ M(cons) \in Seq(Chars) /\ Len(M(cons)) = d /\ \A x \in 1 .. d : M(cons)[x] = "x"
           /\ Ahead(cons.w, cons.r) + d <= INPUT_BUF_SIZE /\ Ahead(cons.w, cons.r) \in Nat
      BY RingFacts DEF RingOK
    <2>12. M(cons) # <<>> /\ k = Len(M(cons)) - 1
      BY <2>3, <2>11, TextEmpty DEF k
    <2>13. Ahead(new.w, new.r) + Ahead(new.e, new.w) <= INPUT_BUF_SIZE
      BY <2>3, <2>9, <2>10, <2>11, Sizes DEF k
    <2>14. \A x \in 1 .. k : M(new)[x] = "x"
      <3>1. k \in 0 .. Len(M(cons)) /\ \A x \in 1 .. k : x \in 1 .. d
        BY <2>3, <2>11 DEF k
      <3>2. \A x \in 1 .. k : SubSeq(M(cons), 1, k)[x] = M(cons)[x]
        BY <2>11, <3>1, TextStart
      <3> QED BY <2>10, <2>11, <3>1, <3>2
    <2> QED BY <2>9, <2>10, <2>12, <2>13, <2>14 DEF RingOK
  <1> QED BY <1>3, <1>4

\* A key that is a character.
LEMMA CharIs ==
    ASSUME RingOK(cons), NEW k \in {"x", "cr", "eof"}, NEW new, new = Key(k)
    PROVE  /\ RingOK(new) /\ new.r = cons.r
           /\ \/ new = cons
              \/ \E ch \in Chars :
                    /\ Len(Q(cons)) + Len(M(cons)) < INPUT_BUF_SIZE
                    /\ IF ch \in {"nl", "eof"} \/ Len(Q(cons)) + Len(Append(M(cons), ch)) = INPUT_BUF_SIZE
                       THEN Q(new) = Q(cons) \o Append(M(cons), ch) /\ M(new) = <<>>
                       ELSE Q(new) = Q(cons) /\ M(new) = Append(M(cons), ch)
  <1> DEFINE ch == IF k = "cr" THEN "nl" ELSE k
             p == cons.e % INPUT_BUF_SIZE
             f == Wrap(cons.e + 1)
             full == ch \in {"nl", "eof"} \/ Ahead(f, cons.r) = INPUT_BUF_SIZE
             b1 == [cons.buf EXCEPT ![p] = ch]
  <1>1. cons \in [buf : Rings, r : Counters, w : Counters, e : Counters]
    BY DEF RingOK
  <1>2. ch \in Chars /\ (ch = "x" \/ ch \in {"nl", "eof"})
    BY DEF Chars
  <1>3. new = IF ~Fits THEN cons
              ELSE [cons EXCEPT !.buf[p] = ch, !.e = f, !.w = IF full THEN f ELSE cons.w]
    BY DEF Key
  <1>4. CASE ~Fits
    BY <1>3, <1>4
  <1>5. CASE Fits
    <2>1. /\ cons.buf \in Rings /\ cons.r \in Counters /\ cons.w \in Counters /\ cons.e \in Counters
          /\ Q(cons) \in Seq(Chars) /\ Len(Q(cons)) = Ahead(cons.w, cons.r) /\ Ahead(cons.w, cons.r) \in Nat
          /\ M(cons) \in Seq(Chars) /\ Len(M(cons)) = Ahead(cons.e, cons.w) /\ Ahead(cons.e, cons.w) \in Nat
          /\ Ahead(cons.e, cons.r) = Ahead(cons.w, cons.r) + Ahead(cons.e, cons.w)
          /\ TextOf(cons.buf, cons.r, cons.e) = Q(cons) \o M(cons)
      BY RingFacts
    <2>2. Ahead(cons.e, cons.r) < INPUT_BUF_SIZE
      BY <1>5 DEF Fits
    <2>3. cons.e \in Nat /\ cons.e < UintSize /\ p \in 0 .. INPUT_BUF_SIZE - 1 /\ f \in Counters
      <3>1. cons.e \in Nat /\ cons.e < UintSize
        <4>1. cons.e \in Counters
          BY <2>1
        <4> QED BY <4>1, Sizes DEF Counters
      <3>2. p \in 0 .. INPUT_BUF_SIZE - 1
        BY <3>1, Sizes
      <3>3. f \in Counters
        BY <3>1, WrapIs, Sizes
      <3> QED BY <3>1, <3>2, <3>3
    <2>4. b1 \in Rings
      BY <1>2, <2>1, <2>3 DEF Rings
    <2>5. /\ new \in [buf : Rings, r : Counters, w : Counters, e : Counters]
          /\ new.buf = b1 /\ new.r = cons.r /\ new.e = f /\ new.w = IF full THEN f ELSE cons.w
      <3>1. new = [cons EXCEPT !.buf = b1, !.e = f, !.w = IF full THEN f ELSE cons.w]
        BY <1>1, <1>3, <1>5
      <3> HIDE DEF b1, f, full
      <3> QED BY Zenon, <1>1, <2>1, <2>3, <2>4, <3>1
    <2>6. /\ Ahead(f, cons.r) = Ahead(cons.e, cons.r) + 1
          /\ TextOf(b1, cons.r, f) = Append(Q(cons) \o M(cons), ch)
      <3>1. /\ Ahead(f, cons.r) = Ahead(cons.e, cons.r) + 1
            /\ TextOf(b1, cons.r, f) = Append(TextOf(cons.buf, cons.r, cons.e), ch)
        BY Zenon, <1>2, <2>1, <2>2, Extend
      <3> QED BY Zenon, <2>1, <3>1
    <2>7. /\ Ahead(f, cons.w) = Ahead(cons.e, cons.w) + 1
          /\ TextOf(b1, cons.w, f) = Append(M(cons), ch)
      <3>1. Ahead(cons.e, cons.w) < INPUT_BUF_SIZE
        BY <2>1, <2>2, Sizes
      <3> QED BY Zenon, <1>2, <2>1, <3>1, Extend DEF M
    <2>8. TextOf(b1, cons.r, cons.w) = Q(cons)
      <3>1. Ahead(cons.w, cons.r) <= Ahead(cons.e, cons.r)
        BY <2>1
      <3> QED BY <1>2, <2>1, <2>2, <3>1, Kept DEF Q
    <2>9. Append(Q(cons) \o M(cons), ch) = Q(cons) \o Append(M(cons), ch)
      <3>1. \A s, t \in Seq(Chars), c \in Chars : Append(s \o t, c) = s \o Append(t, c)
        OBVIOUS
      <3> QED BY Zenon, <1>2, <2>1, <3>1
    <2>10. Len(Append(M(cons), ch)) = Len(M(cons)) + 1
      BY <1>2, <2>1, TextAppend
    <2>11. full <=> ch \in {"nl", "eof"} \/ Len(Q(cons)) + Len(Append(M(cons), ch)) = INPUT_BUF_SIZE
      BY SMTT(30), <2>1, <2>6, <2>10, Sizes
    <2>12. Len(Q(cons)) + Len(M(cons)) < INPUT_BUF_SIZE
      BY <2>1, <2>2
    <2> HIDE DEF b1, f, p, ch
    <2>13. CASE full
      <3>1. new.w = f /\ Q(new) = Q(cons) \o Append(M(cons), ch)
        BY <2>5, <2>6, <2>9, <2>13 DEF Q
      <3>2. M(new) = <<>> /\ Ahead(new.e, new.w) = 0
        BY <2>3, <2>4, <2>5, <3>1, AheadSelf, NoText DEF M
      <3>3. Ahead(new.w, new.r) + Ahead(new.e, new.w) <= INPUT_BUF_SIZE
        BY <2>1, <2>2, <2>5, <2>6, <3>1, <3>2, Sizes
      <3>4. RingOK(new)
        BY <2>5, <3>2, <3>3 DEF RingOK
      <3> HIDE DEF full
      <3> QED BY <1>2, <2>5, <2>11, <2>12, <2>13, <3>1, <3>2, <3>4
    <2>14. CASE ~full
      <3>1. new.w = cons.w /\ Q(new) = Q(cons) /\ M(new) = Append(M(cons), ch)
        BY <2>5, <2>7, <2>8, <2>14 DEF Q, M
      <3>2. Ahead(new.e, new.w) = Ahead(cons.e, cons.w) + 1
        BY <2>5, <2>7, <3>1
      <3>3. Ahead(new.w, new.r) + Ahead(new.e, new.w) <= INPUT_BUF_SIZE
        BY <2>1, <2>2, <2>5, <3>1, <3>2, Sizes
      <3>4. \A y \in 1 .. Ahead(new.e, new.w) : M(new)[y] = "x"
        <4>1. ch = "x"
          BY <1>2, <2>14
        <4>2. /\ \A y \in 1 .. Len(M(cons)) : Append(M(cons), ch)[y] = M(cons)[y]
              /\ Append(M(cons), ch)[Len(M(cons)) + 1] = ch
          BY <1>2, <2>1, TextAppend
        <4>3. \A y \in 1 .. Ahead(cons.e, cons.w) : M(cons)[y] = "x"
          BY DEF RingOK
        <4>4. \A y \in 1 .. Ahead(cons.e, cons.w) + 1 : y \in 1 .. Ahead(cons.e, cons.w) \/ y = Ahead(cons.e, cons.w) + 1
          BY <2>1
        <4> QED BY Zenon, <2>1, <3>1, <3>2, <4>1, <4>2, <4>3, <4>4
      <3>5. RingOK(new)
        BY <2>5, <3>3, <3>4 DEF RingOK
      <3> HIDE DEF full
      <3> QED BY <1>2, <2>5, <2>11, <2>12, <2>14, <3>1, <3>5
    <2> QED BY Zenon, <2>13, <2>14
  <1> QED BY Zenon, <1>4, <1>5

-----------------------------------------------------------------------------
(* The invariant.                                                          *)

\* The types of what the locks, the threads and the uart are about.
TypeOK ==
    /\ lock \in CPU \cup {None}
    /\ cpu \in [CPU -> CPUs]
    /\ run \in [CPU -> Threads \cup {None}]
    /\ intr \in [CPU -> {"no", "tx", "rx"}]
    /\ th \in [Threads -> ThreadStates]
    /\ tx \in Nat /\ txint \in BOOLEAN

\* A thread that reads or writes has something left to do.
Counting == \A t \in Threads : th[t].pc # "idle" => th[t].n > 0

\* A CPU that holds cons.lock has one lock and runs the thread that took it,
\* with interrupts off; a thread runs on one CPU; interrupts are off without
\* a lock only during a trap, and a thread that is not on a CPU will have them
\* on again when it returns from its trap, or at once.
LockInv ==
    /\ \A c \in CPU : lock = c =>
          /\ run[c] \in Threads /\ th[run[c]].pc = "locked" /\ ~th[run[c]].trap
          /\ intr[c] = "no" /\ ~cpu[c].sie /\ cpu[c].noff = 1 /\ cpu[c].intena
    /\ \A c \in CPU : lock # c => cpu[c].noff = 0
    /\ \A t \in Threads : th[t].pc = "locked" => \E c \in CPU : lock = c /\ run[c] = t
    /\ \A c, d \in CPU : run[c] = run[d] /\ run[c] # None => c = d
    /\ \A c \in CPU : intr[c] # "no" => ~cpu[c].sie
    /\ \A c \in CPU : lock # c /\ intr[c] = "no" =>
          cpu[c].sie \/ (run[c] # None /\ th[run[c]].trap)
    /\ \A t \in Threads : (\A c \in CPU : run[c] # t) => th[t].trap \/ th[t].intena

\* Nobody has begun to read or write, and no lock is taken.
LEMMA InitType == Init => TypeOK /\ Counting /\ LockInv
  <1> SUFFICES ASSUME Init PROVE TypeOK /\ Counting /\ LockInv
    OBVIOUS
  <1>1. Looking \in CPUs /\ Looking.noff = 0 /\ Looking.sie
    BY DEF Looking, CPUs
  <1>2. /\ \A t \in Threads : th[t] \in ThreadStates
        /\ \A t \in Threads : th[t].pc = "idle" /\ th[t].intena
    BY DEF Init, ThreadStates, Places
  <1>3. TypeOK
    BY Zenon, <1>1, <1>2 DEF Init, TypeOK
  <1> QED BY Zenon, <1>1, <1>2, <1>3, TerminalAssumption DEF Init, LockInv, Counting

\* wakeup() changes chan and asleep only.
LEMMA Wakes ==
    ASSUME TypeOK, NEW ch \in {"cons", "tx"}, NEW u \in Threads
    PROVE  /\ wakeup(ch, th)[u].pc = th[u].pc /\ wakeup(ch, th)[u].n = th[u].n
           /\ wakeup(ch, th)[u].trap = th[u].trap /\ wakeup(ch, th)[u].intena = th[u].intena
           /\ wakeup(ch, th)[u].chan = IF th[u].chan = ch THEN "none" ELSE th[u].chan
           /\ wakeup(ch, th)[u].asleep = IF th[u].chan = ch THEN FALSE ELSE th[u].asleep
           /\ wakeup(ch, th)[u] \in ThreadStates
  <1>1. th[u] \in ThreadStates
    BY DEF TypeOK
  <1>2. CASE th[u].chan = ch
    <2>1. wakeup(ch, th)[u] = [th[u] EXCEPT !.chan = "none", !.asleep = FALSE]
      BY <1>2 DEF wakeup
    <2> QED BY Zenon, <1>1, <1>2, <2>1 DEF ThreadStates
  <1>3. CASE th[u].chan # ch
    <2>1. wakeup(ch, th)[u] = th[u]
      BY <1>3 DEF wakeup
    <2> QED BY <1>1, <1>3, <2>1
  <1> QED BY Zenon, <1>2, <1>3

\* How a critical section of consoleread() ends for its thread.
LEMMA ReadOutcome ==
    ASSUME NEW c \in CPU, NEW t \in Readers, consoleread(c, t)
    PROVE  \/ \E a, b : th' = [th EXCEPT ![t].n = a, ![t].got = b, ![t].chan = "cons", ![t].pc = "sleep"]
           \/ th' = [th EXCEPT ![t] = Idle(t)]
  BY Zenon DEF consoleread

\* acquire(), release(), sched() and the traps keep interrupts and locks in step.
LEMMA NextLock == TypeOK /\ LockInv /\ [Next]_vars => LockInv'
  <1> SUFFICES ASSUME TypeOK, LockInv, [Next]_vars PROVE LockInv'
    OBVIOUS
  <1> USE TerminalAssumption
  <1>1. ASSUME NEW c \in CPU, NEW t \in Threads, Dispatch(c, t) PROVE LockInv'
    BY <1>1 DEF Dispatch, TypeOK, LockInv, CPUs, ThreadStates, Places, Resumed, push_off, pop_off, release
  <1>2. ASSUME NEW c \in CPU, NEW t \in Threads, Sret(c, t) PROVE LockInv'
    BY <1>2 DEF Sret, TypeOK, LockInv, CPUs, ThreadStates, Places
  <1>3. ASSUME NEW c \in CPU, NEW t \in Threads, Preempt(c, t) PROVE LockInv'
    BY <1>3 DEF Preempt, On, TypeOK, LockInv, CPUs, ThreadStates, Places, Looking
  <1>4. ASSUME NEW c \in CPU, NEW t \in Threads, sleep(c, t) PROVE LockInv'
    <2> DEFINE q == IF t = Writer THEN "prepare" ELSE "acquire"
    <2>1. On(c, t) /\ th[t].pc = "sleep" /\ UNCHANGED <<lock, intr>>
      BY <1>4 DEF sleep
    <2>2. CASE th[t].chan = "none"
      <3>1. th' = [th EXCEPT ![t].pc = q] /\ UNCHANGED <<run, cpu>>
        BY <1>4, <2>2 DEF sleep
      <3>2. q # "locked"
        OBVIOUS
      <3> QED BY <2>1, <3>1, <3>2 DEF On, TypeOK, LockInv, CPUs, ThreadStates, Places
    <2>3. CASE th[t].chan # "none"
      <3>1. /\ th' = [[[th EXCEPT ![t].pc = q] EXCEPT ![t].asleep = TRUE] EXCEPT ![t].intena = acquire(cpu[c]).intena]
            /\ run' = [run EXCEPT ![c] = None] /\ cpu' = [cpu EXCEPT ![c] = Looking]
        BY <1>4, <2>3 DEF sleep, GiveUp
      <3>2. lock # c /\ cpu[c].sie /\ cpu[c].noff = 0
        BY <2>1 DEF On, TypeOK, LockInv
      <3>3. acquire(cpu[c]).intena = TRUE
        BY <3>2 DEF acquire, push_off
      <3>4. /\ \A u \in Threads : u # t => th'[u] = th[u]
            /\ th'[t].pc = q /\ th'[t].trap = th[t].trap /\ th'[t].intena = TRUE
        BY <3>1, <3>3 DEF TypeOK, ThreadStates
      <3>5. q # "locked"
        OBVIOUS
      <3> HIDE DEF q
      <3> QED BY <2>1, <3>1, <3>2, <3>4, <3>5 DEF On, TypeOK, LockInv, CPUs, Looking
    <2> QED BY <2>2, <2>3
  <1>5. ASSUME NEW c \in CPU, NEW t \in Readers, Read(c, t) PROVE LockInv'
    BY <1>5 DEF Read, On, Threads, TypeOK, LockInv, ThreadStates, Places
  <1>6. ASSUME NEW c \in CPU, NEW t \in Readers, AcquireCons(c, t) PROVE LockInv'
    BY SMTT(30), <1>6 DEF AcquireCons, On, Threads, TypeOK, LockInv, CPUs, ThreadStates, Places, acquire, push_off
  <1>7. ASSUME NEW c \in CPU, NEW t \in Readers, consoleread(c, t) PROVE LockInv'
    <2>1. /\ On(c, t) /\ th[t].pc = "locked" /\ lock' = None
          /\ cpu' = [cpu EXCEPT ![c] = release(@)] /\ UNCHANGED <<run, intr>>
      BY Zenon, <1>7 DEF consoleread
    <2>2. /\ \A u \in Threads : u # t => th'[u] = th[u]
          /\ th'[t].pc \in {"sleep", "idle"} /\ th'[t].trap = th[t].trap /\ th'[t].intena = th[t].intena
      <3>1. t \in Threads /\ th[t] \in ThreadStates
        BY DEF Threads, TypeOK
      <3>2. CASE th' = [th EXCEPT ![t] = Idle(t)]
        <4>1. th'[t] = Idle(t) /\ \A u \in Threads : u # t => th'[u] = th[u]
          BY <3>1, <3>2 DEF TypeOK
        <4> QED BY <3>1, <4>1 DEF Idle, ThreadStates
      <3>3. ASSUME NEW a, NEW b, th' = [th EXCEPT ![t].n = a, ![t].got = b, ![t].chan = "cons", ![t].pc = "sleep"]
            PROVE  /\ \A u \in Threads : u # t => th'[u] = th[u]
                   /\ th'[t].pc = "sleep" /\ th'[t].trap = th[t].trap /\ th'[t].intena = th[t].intena
        BY <3>1, <3>3 DEF TypeOK, ThreadStates
      <3> QED BY Zenon, <1>7, <3>2, <3>3, ReadOutcome
    <2>3. t \in Threads /\ lock = c
      BY <2>1 DEF On, Threads, LockInv
    <2>4. cpu'[c].noff = 0 /\ cpu'[c].sie /\ \A d \in CPU : d # c => cpu'[d] = cpu[d]
      BY <2>1, <2>3 DEF release, pop_off, TypeOK, LockInv, CPUs
    <2> QED BY SMTT(30), <2>1, <2>2, <2>3, <2>4 DEF On, TypeOK, LockInv
  <1>8. ASSUME NEW c \in CPU, Write(c) PROVE LockInv'
    BY <1>8 DEF Write, On, Threads, TypeOK, LockInv, ThreadStates, Places
  <1>9. ASSUME NEW c \in CPU, WriterStep(c) PROVE LockInv'
    <2>1. UNCHANGED <<lock, cpu, run, intr>> /\ th[Writer].pc # "locked" /\ Writer \in Threads
      BY SMTT(30), <1>9 DEF WriterStep, sleep_prepare, ReadLSR, WriteTHR, Threads
    <2>2. /\ \A u \in Threads : u # Writer => th'[u] = th[u]
          /\ th'[Writer].pc # "locked" /\ th'[Writer].trap = th[Writer].trap
          /\ th'[Writer].intena = th[Writer].intena
      <3>1. th[Writer] \in ThreadStates
        BY <2>1 DEF TypeOK
      <3>2. CASE sleep_prepare(c)
        BY <2>1, <3>1, <3>2 DEF sleep_prepare, TypeOK, ThreadStates
      <3>3. CASE ReadLSR(c)
        BY <2>1, <3>1, <3>3 DEF ReadLSR, TypeOK, ThreadStates
      <3>4. CASE WriteTHR(c)
        <4>1. CASE th[Writer].n = 1
          <5>1. th' = [th EXCEPT ![Writer] = Idle(Writer)]
            BY <3>4, <4>1 DEF WriteTHR
          <5>2. th'[Writer] = Idle(Writer) /\ \A u \in Threads : u # Writer => th'[u] = th[u]
            BY <2>1, <5>1 DEF TypeOK
          <5> QED BY <3>1, <5>2 DEF Idle, ThreadStates
        <4>2. CASE th[Writer].n # 1
          <5>1. th' = [th EXCEPT ![Writer].n = @ - 1, ![Writer].pc = "prepare"]
            BY <3>4, <4>2 DEF WriteTHR
          <5> QED BY <2>1, <3>1, <5>1 DEF TypeOK, ThreadStates
        <4> QED BY <4>1, <4>2
      <3> QED BY <1>9, <3>2, <3>3, <3>4 DEF WriterStep
    <2> QED BY SMTT(30), <2>1, <2>2 DEF LockInv, TypeOK
  <1>10. ASSUME NEW c \in CPU, Interrupt(c) PROVE LockInv'
    <2>1. CASE Claim(c)
      BY SMTT(30), <2>1 DEF Claim, TypeOK, LockInv, CPUs
    <2>2. CASE TxIdle(c)
      <3>1. \A u \in Threads : th'[u].pc = th[u].pc /\ th'[u].trap = th[u].trap /\ th'[u].intena = th[u].intena
        BY Zenon, <2>2, Wakes DEF TxIdle
      <3> QED BY SMTT(30), <2>2, <3>1 DEF TxIdle, TypeOK, LockInv
    <2>3. CASE Complete(c)
      BY <2>3 DEF Complete, TypeOK, LockInv, CPUs
    <2>4. CASE consoleintr(c)
      <3>1. \A u \in Threads : th'[u].pc = th[u].pc /\ th'[u].trap = th[u].trap /\ th'[u].intena = th[u].intena
        BY Zenon, <2>4, Wakes DEF consoleintr
      <3>2. UNCHANGED <<lock, cpu, run, intr>>
        BY <2>4 DEF consoleintr
      <3> QED BY SMTT(30), <3>1, <3>2 DEF TypeOK, LockInv
    <2> QED BY <1>10, <2>1, <2>2, <2>3, <2>4 DEF Interrupt
  <1>11. ASSUME NEW t \in Threads, kkill(t) PROVE LockInv'
    BY <1>11 DEF kkill, TypeOK, LockInv, ThreadStates
  <1>12. CASE Transmit \/ TypeKey \/ UNCHANGED vars
    <2>1. UNCHANGED <<lock, cpu, run, intr, th>>
      BY <1>12 DEF Transmit, TypeKey, vars
    <2> QED BY SMTT(30), <2>1 DEF LockInv
  <1> QED BY Zenon, <1>1, <1>2, <1>3, <1>4, <1>5, <1>6, <1>7, <1>8, <1>9, <1>10, <1>11, <1>12 DEF Next, ReaderStep

\* The ring is sound, and only keys are typed.
RingInv == RingOK(cons) /\ rx \in Seq(Keys) /\ mix \in Mixes

\* What is read is what the line editor has.
LEMMA TextsAre ==
    /\ Queue = Q(cons) /\ Line = M(cons) /\ Queue' = Q(cons') /\ Line' = M(cons')
  BY DEF Queue, Line, Text, At, Q, M, TextOf

\* The ring is empty at first, as the line editor is.
LEMMA InitRing == Init => RingInv /\ L!Init
  <1> SUFFICES ASSUME Init PROVE RingInv /\ L!Init
    OBVIOUS
  <1> DEFINE b == [i \in 0 .. INPUT_BUF_SIZE - 1 |-> "nl"]
  <1>1. b \in Rings /\ Start \in Counters
    BY TerminalAssumption DEF Rings, Chars, Counters
  <1>2. cons = [buf |-> b, r |-> Start, w |-> Start, e |-> Start] /\ rx = <<>> /\ mix \in Mixes
    BY DEF Init
  <1> HIDE DEF b
  <1>3. Ahead(Start, Start) = 0 /\ TextOf(b, Start, Start) = <<>>
    BY <1>1, AheadSelf, NoText
  <1>4. Q(cons) = <<>> /\ M(cons) = <<>>
    BY <1>2, <1>3 DEF Q, M
  <1>5. RingOK(cons)
    BY <1>1, <1>2, <1>3, Sizes DEF RingOK
  <1>6. rx \in Seq(Keys)
    BY <1>2
  <1> QED BY <1>2, <1>4, <1>5, <1>6, TextsAre DEF RingInv, L!Init

\* What a reader takes, and how it ends: it waits for more, or it is done.
LEMMA ReadStep ==
    ASSUME TypeOK, Counting, RingInv, NEW c \in CPU, NEW t \in Readers, consoleread(c, t)
    PROVE  \E j \in 0 .. Len(Q(cons)) :
              /\ cons' = [cons EXCEPT !.r = Wrap(cons.r + j)]
              /\ \A i \in 1 .. j - 1 : Q(cons)[i] \notin {"nl", "eof"}
              /\ j > 1 => Q(cons)[j] # "eof"
              /\ \/ /\ j = Len(Q(cons))
                    /\ \E a \in Nat, g \in BOOLEAN : a > 0
                          /\ th' = [th EXCEPT ![t].n = a, ![t].got = g, ![t].chan = "cons", ![t].pc = "sleep"]
                 \/ th' = [th EXCEPT ![t] = Idle(t)]
  <1> DEFINE q == Text(cons.r, cons.w)
             m == IF Len(q) < th[t].n THEN Len(q) ELSE th[t].n
  <1>1. q = Q(cons) /\ Q(cons) \in Seq(Chars) /\ Len(Q(cons)) \in Nat
    <2>1. q = Q(cons)
      BY DEF Text, At, Q, TextOf
    <2>2. Q(cons) \in Seq(Chars)
      BY RingFacts DEF RingInv
    <2> QED BY <2>1, <2>2, TextHas
  <1>2. th[t].n \in Nat /\ th[t].got \in BOOLEAN
    BY DEF TypeOK, Threads, ThreadStates
  <1> DEFINE waits(j) == j = Len(q) /\ th[t].n - j > 0 /\ (j > 0 => q[j] \notin {"nl", "eof"})
             more(j) == [th EXCEPT ![t].n = th[t].n - j, ![t].got = th[t].got \/ j > 0, ![t].chan = "cons", ![t].pc = "sleep"]
  <1>3. PICK j \in Taken(q, th[t].n, th[t].got) :
        \/ /\ cons' = [cons EXCEPT !.r = Wrap(cons.r + j)]
           /\ (waits(j) /\ th' = more(j)) \/ th' = [th EXCEPT ![t] = Idle(t)]
        \/ \E k \in 1 .. j :
              /\ q[k] # "eof"
              /\ cons' = [cons EXCEPT !.r = Wrap(cons.r + k)]
              /\ th' = [th EXCEPT ![t] = Idle(t)]
    BY Zenon DEF consoleread
  <1> DEFINE rest == th[t].n - j
  <1> HIDE DEF q
  <1>4. /\ j \in Nat /\ j <= Len(q) /\ j <= th[t].n
        /\ \A i \in 1 .. j - 1 : q[i] \notin {"nl", "eof"}
        /\ j > 1 => q[j] # "eof"
    <2>1. /\ j \in 0 .. m /\ \A i \in 1 .. j - 1 : q[i] \notin {"nl", "eof"}
          /\ j > 0 /\ q[j] = "eof" => j = 1
      BY Zenon DEF Taken
    <2>2. m \in Nat /\ m <= Len(q) /\ m <= th[t].n
      BY <1>1, <1>2
    <2> HIDE DEF m
    <2>3. j \in Nat /\ j <= Len(q) /\ j <= th[t].n
      BY <1>1, <1>2, <2>1, <2>2
    <2>4. j > 1 => j > 0 /\ j # 1
      BY <2>3
    <2> QED BY Zenon, <2>1, <2>3, <2>4
  <1> HIDE DEF m
  <1>5. CASE /\ cons' = [cons EXCEPT !.r = Wrap(cons.r + j)]
             /\ (waits(j) /\ th' = more(j)) \/ th' = [th EXCEPT ![t] = Idle(t)]
    <2>1. j \in 0 .. Len(Q(cons))
      BY <1>1, <1>4
    <2>2. waits(j) => j = Len(q) /\ rest \in Nat /\ rest > 0
      BY <1>2, <1>4
    <2>3. (th[t].got \/ j > 0) \in BOOLEAN
      BY <1>2
    <2> HIDE DEF rest, waits
    <2>4. CASE th' = [th EXCEPT ![t] = Idle(t)]
      BY Zenon, <1>1, <1>4, <1>5, <2>1, <2>4
    <2>5. CASE waits(j) /\ th' = more(j)
      <3>1. \E a \in Nat, g \in BOOLEAN : a > 0
                /\ th' = [th EXCEPT ![t].n = a, ![t].got = g, ![t].chan = "cons", ![t].pc = "sleep"]
        <4>1. th' = [th EXCEPT ![t].n = rest, ![t].got = th[t].got \/ j > 0, ![t].chan = "cons", ![t].pc = "sleep"]
          BY <2>5 DEF rest
        <4> QED BY Zenon, <2>2, <2>3, <2>5, <4>1
      <3> QED BY Zenon, <1>1, <1>4, <1>5, <2>1, <2>2, <2>5, <3>1
    <2> QED BY Zenon, <1>5, <2>4, <2>5
  <1>6. ASSUME NEW k \in 1 .. j, q[k] # "eof", cons' = [cons EXCEPT !.r = Wrap(cons.r + k)],
               th' = [th EXCEPT ![t] = Idle(t)]
        PROVE  \E i \in 0 .. Len(Q(cons)) :
                 /\ cons' = [cons EXCEPT !.r = Wrap(cons.r + i)]
                 /\ \A x \in 1 .. i - 1 : Q(cons)[x] \notin {"nl", "eof"}
                 /\ i > 1 => Q(cons)[i] # "eof"
    <2>1. k \in 0 .. Len(Q(cons)) /\ \A x \in 1 .. k - 1 : x \in 1 .. j - 1
      BY <1>1, <1>4
    <2> QED BY Zenon, <1>1, <1>4, <1>6, <2>1
  <1> QED BY Zenon, <1>3, <1>5, <1>6

\* A step keeps the ring sound, and is a step of the line editor or none.
LEMMA NextRing ==
    TypeOK /\ Counting /\ RingInv /\ [Next]_vars => RingInv' /\ [L!Next]_<<Queue, Line>>
  <1> SUFFICES ASSUME TypeOK, Counting, RingInv, [Next]_vars
               PROVE  RingInv' /\ [L!Next]_<<Queue, Line>>
    OBVIOUS
  <1>1. ASSUME NEW c \in CPU, NEW t \in Readers, consoleread(c, t)
        PROVE  RingInv' /\ [L!Next]_<<Queue, Line>>
    <2>1. PICK j \in 0 .. Len(Q(cons)) :
              /\ cons' = [cons EXCEPT !.r = Wrap(cons.r + j)]
              /\ \A i \in 1 .. j - 1 : Q(cons)[i] \notin {"nl", "eof"}
              /\ j > 1 => Q(cons)[j] # "eof"
      BY Zenon, <1>1, ReadStep
    <2>2. /\ RingOK(cons') /\ M(cons') = M(cons)
          /\ Q(cons') = SubSeq(Q(cons), j + 1, Len(Q(cons)))
      BY Zenon, <2>1, ReadIs DEF RingInv
    <2>3. UNCHANGED <<rx, mix>>
      BY Zenon, <1>1 DEF consoleread, device
    <2>4. RingInv'
      BY <2>2, <2>3 DEF RingInv
    <2>5. Q(cons) \in Seq(Chars) /\ Len(Q(cons)) \in Nat
      BY RingFacts, TextHas DEF RingInv
    <2>6. CASE j = 0
      <3>1. SubSeq(Q(cons), j + 1, Len(Q(cons))) = Q(cons)
        BY <2>5, <2>6, TextFull
      <3> QED BY <2>2, <2>4, <3>1, TextsAre
    <2>7. CASE j # 0
      <3>1. j \in 1 .. Len(Q(cons))
        BY <2>5, <2>7
      <3>2. /\ \A i \in 1 .. j - 1 : Queue[i] \notin {"nl", "eof"}
            /\ j > 1 => Queue[j] # "eof"
            /\ Queue' = SubSeq(Queue, j + 1, Len(Queue)) /\ Line' = Line /\ j \in 1 .. Len(Queue)
        BY <2>1, <2>2, <3>1, TextsAre
      <3>3. L!Read
        BY <3>2 DEF L!Read, L!Ends
      <3> QED BY <2>4, <3>3 DEF L!Next
    <2> QED BY <2>6, <2>7
  <1>2. ASSUME NEW c \in CPU, consoleintr(c)
        PROVE  RingInv' /\ [L!Next]_<<Queue, Line>>
    <2>1. rx # <<>> /\ cons' = Key(Head(rx)) /\ rx' = Tail(rx) /\ mix' = mix
      BY <1>2 DEF consoleintr
    <2>2. Head(rx) \in Keys /\ Tail(rx) \in Seq(Keys)
      BY <2>1 DEF RingInv
    <2>3. CASE Head(rx) = "kill"
      <3>1. RingOK(cons') /\ Q(cons') = Q(cons) /\ M(cons') = <<>>
        BY <2>1, <2>3, KillIs DEF RingInv
      <3>2. L!Kill
        BY <3>1, TextsAre DEF L!Kill
      <3> QED BY <2>1, <2>2, <3>1, <3>2 DEF RingInv, L!Next
    <2>4. CASE Head(rx) = "erase"
      <3>1. /\ RingOK(cons') /\ Q(cons') = Q(cons)
            /\ \/ cons' = cons
               \/ M(cons) # <<>> /\ M(cons') = SubSeq(M(cons), 1, Len(M(cons)) - 1)
        BY <2>1, <2>4, EraseIs DEF RingInv
      <3>2. RingInv'
        BY <2>1, <2>2, <3>1 DEF RingInv
      <3>3. CASE cons' = cons
        BY <3>2, <3>3, TextsAre
      <3>4. CASE M(cons) # <<>> /\ M(cons') = SubSeq(M(cons), 1, Len(M(cons)) - 1)
        <4>1. L!Erase
          BY <3>1, <3>4, TextsAre DEF L!Erase
        <4> QED BY <3>2, <4>1 DEF L!Next
      <3> QED BY <3>1, <3>3, <3>4
    <2>5. CASE Head(rx) \in {"x", "cr", "eof"}
      <3>1. /\ RingOK(cons')
            /\ \/ cons' = cons
               \/ \E ch \in Chars :
                    /\ Len(Q(cons)) + Len(M(cons)) < INPUT_BUF_SIZE
                    /\ IF ch \in {"nl", "eof"} \/ Len(Q(cons)) + Len(Append(M(cons), ch)) = INPUT_BUF_SIZE
                       THEN Q(cons') = Q(cons) \o Append(M(cons), ch) /\ M(cons') = <<>>
                       ELSE Q(cons') = Q(cons) /\ M(cons') = Append(M(cons), ch)
        BY Zenon, <2>1, <2>5, CharIs DEF RingInv
      <3>2. RingInv'
        BY <2>1, <2>2, <3>1 DEF RingInv
      <3>3. CASE cons' = cons
        BY <3>2, <3>3, TextsAre
      <3>4. ASSUME NEW ch \in Chars,
                   Len(Q(cons)) + Len(M(cons)) < INPUT_BUF_SIZE,
                   IF ch \in {"nl", "eof"} \/ Len(Q(cons)) + Len(Append(M(cons), ch)) = INPUT_BUF_SIZE
                   THEN Q(cons') = Q(cons) \o Append(M(cons), ch) /\ M(cons') = <<>>
                   ELSE Q(cons') = Q(cons) /\ M(cons') = Append(M(cons), ch)
            PROVE  L!Next
        <4>1. L!Type(ch)
          BY <3>4, TextsAre DEF L!Type, L!Ends
        <4> QED BY <4>1 DEF L!Next, Chars
      <3> QED BY <3>1, <3>2, <3>3, <3>4
    <2> QED BY <2>2, <2>3, <2>4, <2>5 DEF Keys
  <1>3. CASE TypeKey
    <2>1. cons' = cons /\ mix' = mix /\ \E k \in mix.keys : rx' = <<k>>
      BY <1>3 DEF TypeKey
    <2>2. rx' \in Seq(Keys)
      <3>1. PICK k \in Keys : rx' = <<k>>
        BY <2>1, TerminalAssumption DEF RingInv, Keys
      <3> QED BY <3>1
    <2> QED BY <2>1, <2>2, TextsAre DEF RingInv
  <1>4. CASE UNCHANGED <<cons, rx, mix>>
    BY <1>4, TextsAre DEF RingInv
  <1>5. \/ \E c \in CPU, t \in Readers : consoleread(c, t)
        \/ \E c \in CPU : consoleintr(c)
        \/ TypeKey
        \/ UNCHANGED <<cons, rx, mix>>
    <2>1. ASSUME NEW c \in CPU, NEW t \in Threads,
                 Dispatch(c, t) \/ Sret(c, t) \/ Preempt(c, t) \/ sleep(c, t) \/ kkill(t)
          PROVE  UNCHANGED <<cons, rx, mix>>
      BY <2>1 DEF Dispatch, Sret, Preempt, sleep, kkill, device
    <2>2. ASSUME NEW c \in CPU, NEW t \in Readers, Read(c, t) \/ AcquireCons(c, t)
          PROVE  UNCHANGED <<cons, rx, mix>>
      BY <2>2 DEF Read, AcquireCons, device
    <2>3. ASSUME NEW c \in CPU, Write(c) \/ WriterStep(c) \/ Claim(c) \/ TxIdle(c) \/ Complete(c)
          PROVE  UNCHANGED <<cons, rx, mix>>
      BY <2>3 DEF Write, WriterStep, sleep_prepare, ReadLSR, WriteTHR, Claim, TxIdle, Complete, device
    <2>4. ASSUME NEW t \in Threads, kkill(t) PROVE UNCHANGED <<cons, rx, mix>>
      BY <2>4 DEF kkill, device
    <2>5. Transmit \/ UNCHANGED vars => UNCHANGED <<cons, rx, mix>>
      BY DEF Transmit, vars, device
    <2> QED BY <2>1, <2>2, <2>3, <2>4, <2>5 DEF Next, ReaderStep, Interrupt
  <1> QED BY <1>1, <1>2, <1>3, <1>4, <1>5

\* Leaving and resuming keep the fields of a CPU.
LEMMA Popped ==
    ASSUME NEW x \in CPUs, x.noff > 0 PROVE pop_off(x) \in CPUs
  <1> DEFINE v == x.noff = 1 /\ x.intena
  <1>1. v \in BOOLEAN
    OBVIOUS
  <1>2. pop_off(x) = [x EXCEPT !.noff = x.noff - 1, !.sie = v]
    BY DEF pop_off
  <1> HIDE DEF v
  <1>3. x.noff - 1 \in Nat
    BY DEF CPUs
  <1> QED BY Zenon, <1>1, <1>2, <1>3 DEF CPUs

\* scheduler() resumes a thread.
LEMMA Resuming ==
    ASSUME NEW x \in CPUs, NEW i \in BOOLEAN PROVE Resumed(x, i) \in CPUs
  <1> DEFINE h == push_off([x EXCEPT !.sie = FALSE])
             g == [h EXCEPT !.intena = i]
  <1>1. [x EXCEPT !.sie = FALSE] \in CPUs /\ [x EXCEPT !.sie = FALSE].noff \in Nat
    BY Zenon DEF CPUs
  <1>2. h \in CPUs /\ h.noff > 0
    <2> DEFINE y == [x EXCEPT !.sie = FALSE]
               v == IF y.noff = 0 THEN y.sie ELSE y.intena
    <2> HIDE DEF y
    <2>1. y \in CPUs /\ y.noff \in Nat /\ y.sie \in BOOLEAN /\ y.intena \in BOOLEAN
      BY <1>1 DEF CPUs, y
    <2>2. v \in BOOLEAN
      BY <2>1
    <2>3. h = [noff |-> y.noff + 1, intena |-> v, sie |-> FALSE]
      BY DEF push_off, y
    <2> HIDE DEF v, h
    <2> QED BY <2>1, <2>2, <2>3 DEF CPUs
  <1> HIDE DEF h
  <1>3. g \in CPUs /\ g.noff > 0
    BY <1>2 DEF CPUs
  <1> HIDE DEF g
  <1>4. Resumed(x, i) = pop_off(g)
    BY DEF Resumed, release, g, h
  <1> QED BY <1>3, <1>4, Popped

\* A thread whose fields change is still one.
LEMMA ThreadChanged ==
    ASSUME TypeOK, NEW t \in Threads, NEW x \in ThreadStates
    PROVE  [th EXCEPT ![t] = x] \in [Threads -> ThreadStates]
  BY DEF TypeOK

\* A trap switches the interrupts of a CPU off, or on again.
LEMMA Switched ==
    ASSUME TypeOK, NEW c \in CPU, NEW b \in BOOLEAN
    PROVE  [cpu EXCEPT ![c].sie = b] \in [CPU -> CPUs]
  <1>1. cpu \in [CPU -> CPUs] /\ cpu[c] \in CPUs
    BY DEF TypeOK
  <1>2. [cpu[c] EXCEPT !.sie = b] \in CPUs
    BY <1>1 DEF CPUs
  <1> HIDE DEF CPUs
  <1> QED BY <1>1, <1>2

\* A thread that is interrupted, killed or goes to sleep is still one.
LEMMA Changes ==
    ASSUME TypeOK, NEW t \in Threads
    PROVE  \A v, i \in BOOLEAN :
              /\ [th EXCEPT ![t].trap = v] \in [Threads -> ThreadStates]
              /\ [th EXCEPT ![t].asleep = v] \in [Threads -> ThreadStates]
              /\ [th EXCEPT ![t].intena = i, ![t].trap = v] \in [Threads -> ThreadStates]
              /\ \A p \in Places :
                    [th EXCEPT ![t].pc = p, ![t].asleep = v, ![t].intena = i] \in [Threads -> ThreadStates]
  <1> TAKE v, i \in BOOLEAN
  <1>0. th[t] \in ThreadStates
    BY DEF TypeOK
  <1>1. [th[t] EXCEPT !.trap = v] \in ThreadStates
    BY <1>0 DEF ThreadStates
  <1>2. [th[t] EXCEPT !.asleep = v] \in ThreadStates
    BY <1>0 DEF ThreadStates
  <1>3. [th[t] EXCEPT !.intena = i, !.trap = v] \in ThreadStates
    BY Zenon, <1>0 DEF ThreadStates
  <1>4. \A p \in Places : [th[t] EXCEPT !.pc = p, !.asleep = v, !.intena = i] \in ThreadStates
    BY Zenon, <1>0 DEF ThreadStates
  <1>5. [th EXCEPT ![t].trap = v] = [th EXCEPT ![t] = [th[t] EXCEPT !.trap = v]]
    BY DEF TypeOK
  <1>6. [th EXCEPT ![t].asleep = v] = [th EXCEPT ![t] = [th[t] EXCEPT !.asleep = v]]
    BY DEF TypeOK
  <1>7. [th EXCEPT ![t].intena = i, ![t].trap = v] = [th EXCEPT ![t] = [th[t] EXCEPT !.intena = i, !.trap = v]]
    BY Zenon DEF TypeOK
  <1>8. \A p \in Places : [th EXCEPT ![t].pc = p, ![t].asleep = v, ![t].intena = i]
           = [th EXCEPT ![t] = [th[t] EXCEPT !.pc = p, !.asleep = v, !.intena = i]]
    BY Zenon DEF TypeOK
  <1>9. ASSUME NEW p \in Places
        PROVE  [th EXCEPT ![t].pc = p, ![t].asleep = v, ![t].intena = i] \in [Threads -> ThreadStates]
    <2> DEFINE r == [th[t] EXCEPT !.pc = p, !.asleep = v, !.intena = i]
    <2>1. r \in ThreadStates
      BY Zenon, <1>4
    <2>2. [th EXCEPT ![t].pc = p, ![t].asleep = v, ![t].intena = i] = [th EXCEPT ![t] = r]
      BY Zenon, <1>8
    <2> HIDE DEF r
    <2> QED BY <2>1, <2>2, ThreadChanged
  <1> QED BY ZenonT(30), <1>1, <1>2, <1>3, <1>5, <1>6, <1>7, <1>9, ThreadChanged

\* Every step keeps the types, and a read or write that goes on has n > 0.
LEMMA NextType ==
    TypeOK /\ Counting /\ LockInv /\ RingInv /\ [Next]_vars => TypeOK' /\ Counting'
  <1> SUFFICES ASSUME TypeOK, Counting, LockInv, RingInv, [Next]_vars
               PROVE  TypeOK' /\ Counting'
    OBVIOUS
  <1> USE TerminalAssumption
  <1>1. ASSUME NEW c \in CPU, NEW t \in Threads, Dispatch(c, t) PROVE TypeOK' /\ Counting'
    <2>1. cpu[c] \in CPUs /\ th[t].intena \in BOOLEAN
      BY DEF TypeOK, ThreadStates
    <2>2. Resumed(cpu[c], th[t].intena) \in CPUs
      BY <2>1, Resuming
    <2>3. cpu' = [cpu EXCEPT ![c] = Resumed(cpu[c], th[t].intena)] /\ run' = [run EXCEPT ![c] = t]
      BY <1>1 DEF Dispatch
    <2>4. cpu' \in [CPU -> CPUs] /\ run' \in [CPU -> Threads \cup {None}]
      BY <2>2, <2>3 DEF TypeOK
    <2> QED BY Zenon, <1>1, <2>4 DEF Dispatch, TypeOK, Counting, device
  <1>2. ASSUME NEW c \in CPU, NEW t \in Threads, Sret(c, t) PROVE TypeOK' /\ Counting'
    <2>1. th' = [th EXCEPT ![t].trap = FALSE] /\ cpu' = [cpu EXCEPT ![c].sie = TRUE]
      BY <1>2 DEF Sret
    <2>2. cpu' \in [CPU -> CPUs]
      BY Zenon, <2>1, Switched
    <2>3. th' \in [Threads -> ThreadStates]
      BY Zenon, <2>1, Changes
    <2>4. \A u \in Threads : th'[u].pc = th[u].pc /\ th'[u].n = th[u].n
      BY <2>1 DEF TypeOK, ThreadStates
    <2> QED BY <1>2, <2>2, <2>3, <2>4 DEF Sret, TypeOK, Counting, device
  <1>3. ASSUME NEW c \in CPU, NEW t \in Threads, Preempt(c, t) PROVE TypeOK' /\ Counting'
    <2>1. /\ th' = [th EXCEPT ![t].intena = FALSE, ![t].trap = TRUE]
          /\ run' = [run EXCEPT ![c] = None] /\ cpu' = [cpu EXCEPT ![c] = Looking]
      BY <1>3 DEF Preempt
    <2>2. cpu' \in [CPU -> CPUs] /\ run' \in [CPU -> Threads \cup {None}]
      BY <2>1 DEF TypeOK, CPUs, Looking
    <2>3. th' \in [Threads -> ThreadStates]
      BY Zenon, <2>1, Changes
    <2>4. \A u \in Threads : th'[u].pc = th[u].pc /\ th'[u].n = th[u].n
      BY <2>1 DEF TypeOK, ThreadStates
    <2> QED BY <1>3, <2>2, <2>3, <2>4 DEF Preempt, TypeOK, Counting, device
  <1>4. ASSUME NEW c \in CPU, NEW t \in Threads, sleep(c, t) PROVE TypeOK' /\ Counting'
    <2> DEFINE q == IF t = Writer THEN "prepare" ELSE "acquire"
    <2>1. On(c, t) /\ th[t].pc = "sleep" /\ UNCHANGED <<lock, intr, tx, txint>> /\ q \in Places
      BY <1>4 DEF sleep, device, Places
    <2>2. CASE th[t].chan = "none"
      <3>1. th' = [th EXCEPT ![t].pc = q] /\ UNCHANGED <<run, cpu>>
        BY <1>4, <2>2 DEF sleep
      <3> HIDE DEF q
      <3> QED BY <2>1, <3>1 DEF TypeOK, Counting, ThreadStates
    <2>3. CASE th[t].chan # "none"
      <3>1. /\ th' = [[[th EXCEPT ![t].pc = q] EXCEPT ![t].asleep = TRUE] EXCEPT ![t].intena = acquire(cpu[c]).intena]
            /\ run' = [run EXCEPT ![c] = None] /\ cpu' = [cpu EXCEPT ![c] = Looking]
        BY <1>4, <2>3 DEF sleep, GiveUp
      <3>2. acquire(cpu[c]).intena \in BOOLEAN
        BY Zenon DEF acquire, push_off, TypeOK, CPUs
      <3> DEFINE i == acquire(cpu[c]).intena
      <3> HIDE DEF q, i
      <3>3. th' = [th EXCEPT ![t].pc = q, ![t].asleep = TRUE, ![t].intena = i]
        BY <3>1 DEF i
      <3>4. i \in BOOLEAN
        BY <3>2 DEF i
      <3>5. th' \in [Threads -> ThreadStates]
        BY Zenon, <2>1, <3>3, <3>4, Changes
      <3>7. \A u \in Threads : th'[u].n = th[u].n /\ (th'[u].pc = th[u].pc \/ u = t)
        BY <3>3 DEF TypeOK, ThreadStates
      <3>6. run' \in [CPU -> Threads \cup {None}] /\ cpu' \in [CPU -> CPUs]
        BY <3>1 DEF TypeOK, Looking, CPUs
      <3> QED BY Zenon, <2>1, <3>5, <3>6, <3>7 DEF TypeOK, Counting
    <2> QED BY <2>2, <2>3
  <1>5. ASSUME NEW c \in CPU, NEW t \in Readers, Read(c, t) PROVE TypeOK' /\ Counting'
    <2>1. PICK n \in 1 .. MaxCount : th' = [th EXCEPT ![t].n = n, ![t].pc = "acquire"]
      BY Zenon, <1>5 DEF Read
    <2>2. n \in Nat /\ n > 0 /\ t \in Threads
      BY DEF Threads
    <2> QED BY <1>5, <2>1, <2>2 DEF Read, TypeOK, Counting, ThreadStates, Places, device
  <1>6. ASSUME NEW c \in CPU, NEW t \in Readers, AcquireCons(c, t) PROVE TypeOK' /\ Counting'
    BY SMTT(30), <1>6 DEF AcquireCons, Threads, TypeOK, Counting, CPUs, ThreadStates, Places, acquire, push_off, device
  <1>7. ASSUME NEW c \in CPU, NEW t \in Readers, consoleread(c, t) PROVE TypeOK' /\ Counting'
    <2>1. /\ On(c, t) /\ th[t].pc = "locked" /\ lock' = None
          /\ cpu' = [cpu EXCEPT ![c] = release(cpu[c])] /\ UNCHANGED <<run, intr, tx, txint>>
      BY Zenon, <1>7 DEF consoleread, device
    <2>2. t \in Threads /\ lock = c /\ th[t] \in ThreadStates
      BY SMTT(30), <2>1 DEF On, Threads, LockInv, TypeOK
    <2>3. release(cpu[c]) \in CPUs
      <3>1. cpu[c] \in CPUs /\ cpu[c].noff > 0
        BY SMTT(30), <2>2 DEF TypeOK, LockInv
      <3> QED BY SMTT(30), <3>1, Popped DEF release
    <2>4. /\ th' \in [Threads -> ThreadStates]
          /\ \A u \in Threads : th'[u].pc # "idle" => th'[u].n > 0
      <3>1. CASE th' = [th EXCEPT ![t] = Idle(t)]
        <4>1. Idle(t) \in ThreadStates /\ Idle(t).pc = "idle"
          BY Zenon, <2>2 DEF Idle, ThreadStates, Places
        <4> QED BY <2>2, <3>1, <4>1 DEF TypeOK, Counting
      <3>2. ASSUME NEW a \in Nat, NEW g \in BOOLEAN, a > 0,
                   th' = [th EXCEPT ![t].n = a, ![t].got = g, ![t].chan = "cons", ![t].pc = "sleep"]
            PROVE  /\ th' \in [Threads -> ThreadStates]
                   /\ \A u \in Threads : th'[u].pc # "idle" => th'[u].n > 0
        BY Zenon, <2>2, <3>2 DEF TypeOK, Counting, ThreadStates, Places
      <3> QED BY Zenon, <1>7, <3>1, <3>2, ReadStep
    <2> QED BY Zenon, <2>1, <2>2, <2>3, <2>4 DEF TypeOK, Counting
  <1>8. ASSUME NEW c \in CPU, Write(c) PROVE TypeOK' /\ Counting'
    <2>1. PICK n \in 1 .. MaxCount : th' = [th EXCEPT ![Writer].n = n, ![Writer].pc = "prepare"]
      BY Zenon, <1>8 DEF Write
    <2>2. n \in Nat /\ n > 0 /\ Writer \in Threads
      BY DEF Threads
    <2> QED BY <1>8, <2>1, <2>2 DEF Write, TypeOK, Counting, ThreadStates, Places, device
  <1>9. ASSUME NEW c \in CPU, WriterStep(c) PROVE TypeOK' /\ Counting'
    <2>1. UNCHANGED <<lock, cpu, run, intr, txint>> /\ Writer \in Threads /\ th[Writer] \in ThreadStates
      BY <1>9 DEF WriterStep, sleep_prepare, ReadLSR, WriteTHR, Threads, TypeOK, device
    <2>2. tx' \in Nat
      BY <1>9 DEF WriterStep, sleep_prepare, ReadLSR, WriteTHR, TypeOK, device
    <2>3. /\ th' \in [Threads -> ThreadStates]
          /\ \A u \in Threads : th'[u].pc # "idle" => th'[u].n > 0
      <3>1. CASE sleep_prepare(c)
        BY <2>1, <3>1 DEF sleep_prepare, TypeOK, Counting, ThreadStates, Places
      <3>2. CASE ReadLSR(c)
        BY <2>1, <3>2 DEF ReadLSR, TypeOK, Counting, ThreadStates, Places
      <3>3. CASE WriteTHR(c)
        <4>1. CASE th[Writer].n = 1
          <5>1. th' = [th EXCEPT ![Writer] = Idle(Writer)]
            BY <3>3, <4>1 DEF WriteTHR
          <5>2. Idle(Writer) \in ThreadStates /\ Idle(Writer).pc = "idle"
            BY Zenon, <2>1 DEF Idle, ThreadStates, Places
          <5> QED BY <2>1, <5>1, <5>2 DEF TypeOK, Counting
        <4>2. CASE th[Writer].n # 1
          <5>1. th' = [th EXCEPT ![Writer].n = th[Writer].n - 1, ![Writer].pc = "prepare"]
            BY <3>3, <4>2 DEF WriteTHR
          <5>2. th[Writer].n > 0 /\ th[Writer].n \in Nat
            BY <2>1, <3>3 DEF WriteTHR, Counting, ThreadStates
          <5>3. th[Writer].n - 1 \in Nat /\ th[Writer].n - 1 > 0
            BY <4>2, <5>2
          <5> QED BY Zenon, <2>1, <5>1, <5>3 DEF TypeOK, Counting, ThreadStates, Places
        <4> QED BY <4>1, <4>2
      <3> QED BY Zenon, <1>9, <3>1, <3>2, <3>3 DEF WriterStep
    <2> QED BY Zenon, <2>1, <2>2, <2>3 DEF TypeOK, Counting
  <1>10. ASSUME NEW c \in CPU, Interrupt(c) PROVE TypeOK' /\ Counting'
    <2> DEFINE Woken(T) == \A u \in Threads : T[u] \in ThreadStates /\ T[u].pc = th[u].pc /\ T[u].n = th[u].n
    <2>1. ASSUME NEW ch \in {"cons", "tx"}
          PROVE  wakeup(ch, th) \in [Threads -> ThreadStates] /\ Woken(wakeup(ch, th))
      <3>1. Woken(wakeup(ch, th))
        BY ZenonT(30), Wakes
      <3>2. wakeup(ch, th) = [u \in Threads |-> wakeup(ch, th)[u]]
        BY DEF wakeup
      <3> QED BY <3>1, <3>2
    <2>2. th \in [Threads -> ThreadStates] /\ Woken(th)
      BY DEF TypeOK
    <2>3. th' \in [Threads -> ThreadStates] /\ Woken(th')
      <3>1. th' \in {th, wakeup("cons", th), wakeup("tx", th)}
        BY <1>10 DEF Interrupt, Claim, TxIdle, Complete, consoleintr
      <3> HIDE DEF Woken
      <3> QED BY <2>1, <2>2, <3>1
    <2>4. /\ lock' = lock /\ run' = run /\ cpu' \in [CPU -> CPUs] /\ intr' \in [CPU -> {"no", "tx", "rx"}]
          /\ tx' \in Nat /\ txint' \in BOOLEAN
      <3>1. CASE Claim(c)
        <4>1. cpu' = [cpu EXCEPT ![c].sie = FALSE] /\ intr' = [intr EXCEPT ![c] = "tx"]
          BY <3>1 DEF Claim
        <4>2. cpu' \in [CPU -> CPUs]
          BY Zenon, <4>1, Switched
        <4> QED BY Zenon, <3>1, <4>1, <4>2 DEF Claim, TypeOK
      <3>2. CASE TxIdle(c)
        BY Zenon, <3>2 DEF TxIdle, TypeOK, device
      <3>3. CASE Complete(c)
        <4>1. cpu' = [cpu EXCEPT ![c].sie = TRUE] /\ intr' = [intr EXCEPT ![c] = "no"]
          BY <3>3 DEF Complete
        <4>2. cpu' \in [CPU -> CPUs]
          BY Zenon, <4>1, Switched
        <4> QED BY <3>3, <4>1, <4>2 DEF Complete, TypeOK, device
      <3>4. CASE consoleintr(c)
        <4>1. /\ UNCHANGED <<lock, cpu, run, intr>>
              /\ UNCHANGED <<tx, txint>> \/ (tx' = 1 /\ txint' = (txint \/ Head(rx) \in {"kill", "erase"}))
          BY <3>4 DEF consoleintr
        <4>2. tx' \in Nat
          BY <4>1 DEF TypeOK
        <4>3. txint' \in BOOLEAN
          <5>1. txint \in BOOLEAN /\ (txint \/ Head(rx) \in {"kill", "erase"}) \in BOOLEAN
            BY DEF TypeOK
          <5> QED BY Zenon, <4>1, <5>1
        <4> QED BY Zenon, <4>1, <4>2, <4>3 DEF TypeOK
      <3> QED BY Zenon, <1>10, <3>1, <3>2, <3>3, <3>4 DEF Interrupt
    <2> QED BY Zenon, <2>3, <2>4 DEF TypeOK, Counting
  <1>11. ASSUME NEW t \in Threads, kkill(t) PROVE TypeOK' /\ Counting'
    <2>1. th' = [th EXCEPT ![t].asleep = FALSE]
      BY <1>11 DEF kkill
    <2>2. th' \in [Threads -> ThreadStates]
      BY Zenon, <2>1, Changes
    <2>3. \A u \in Threads : th'[u].pc = th[u].pc /\ th'[u].n = th[u].n
      BY <2>1 DEF TypeOK, ThreadStates
    <2> QED BY <1>11, <2>2, <2>3 DEF kkill, TypeOK, Counting, device
  <1>12. CASE Transmit \/ TypeKey \/ UNCHANGED vars
    <2>1. UNCHANGED <<lock, cpu, run, intr, th>>
      BY ZenonT(30), <1>12 DEF Transmit, TypeKey, vars
    <2>2. tx' \in Nat
      BY SMTT(30), <1>12 DEF Transmit, TypeKey, vars, device, TypeOK
    <2>3. txint' \in BOOLEAN
      BY Zenon, <1>12 DEF Transmit, TypeKey, vars, device, TypeOK
    <2> QED BY Zenon, <2>1, <2>2, <2>3 DEF TypeOK, Counting
  <1> QED BY Zenon, <1>1, <1>2, <1>3, <1>4, <1>5, <1>6, <1>7, <1>8, <1>9, <1>10, <1>11, <1>12 DEF Next, ReaderStep

\* The uart will still tell that it is idle.
Busy == tx > 0 \/ txint \/ \E c \in CPU : intr[c] = "tx"

\* A thread sleeps where it is registered; a reader is registered only while
\* there is nothing to read, and a writer that goes to sleep only while the
\* uart is busy.
SleepInv ==
    /\ \A t \in Readers :
          /\ th[t].chan \in {"none", "cons"}
          /\ th[t].asleep => th[t].chan = "cons"
          /\ th[t].chan = "cons" => cons.r = cons.w
    /\ th[Writer].chan \in {"none", "tx"}
    /\ th[Writer].asleep => th[Writer].chan = "tx"
    /\ th[Writer].asleep => Busy
    /\ th[Writer].pc = "sleep" /\ th[Writer].chan = "tx" => Busy

\* Nobody sleeps at first.
LEMMA InitSleep == Init => SleepInv
  <1> SUFFICES ASSUME Init PROVE SleepInv
    OBVIOUS
  <1>1. Writer \in Threads /\ Readers \subseteq Threads
    BY DEF Threads
  <1>2. \A t \in Threads : th[t].chan = "none" /\ th[t].asleep = FALSE
    BY Zenon DEF Init
  <1> QED BY <1>1, <1>2 DEF SleepInv

\* A step that registers nobody, lets nobody sleep and moves no index.
LEMMA Framed ==
    ASSUME SleepInv, cons'.r = cons.r, cons'.w = cons.w, Busy => Busy',
           \A u \in Threads : th'[u].chan = th[u].chan /\ (th'[u].asleep => th[u].asleep),
           th'[Writer].pc = "sleep" => th[Writer].pc = "sleep"
    PROVE  SleepInv'
  <1>1. Writer \in Threads /\ Readers \subseteq Threads
    BY DEF Threads
  <1> HIDE DEF Busy
  <1> QED BY Zenon, <1>1 DEF SleepInv

\* A step that only wakes threads at a channel.
LEMMA WakeFrame ==
    ASSUME TypeOK, SleepInv, NEW ch \in {"cons", "tx"}, th' = wakeup(ch, th),
           ch # "cons" => cons'.r = cons.r /\ cons'.w = cons.w,
           ch # "tx" => (Busy => Busy')
    PROVE  SleepInv'
  <1>1. Writer \in Threads /\ Readers \subseteq Threads
    BY DEF Threads
  <1>2. \A u \in Threads :
           /\ th'[u].pc = th[u].pc
           /\ th'[u].chan = IF th[u].chan = ch THEN "none" ELSE th[u].chan
           /\ th'[u].asleep = IF th[u].chan = ch THEN FALSE ELSE th[u].asleep
    BY Zenon, Wakes
  <1> HIDE DEF Busy
  <1>3. CASE ch = "cons"
    BY Zenon, <1>1, <1>2, <1>3 DEF SleepInv
  <1>4. CASE ch = "tx"
    BY ZenonT(30), <1>1, <1>2, <1>4 DEF SleepInv
  <1> QED BY <1>3, <1>4

\* consoleread(), uartwrite() and the interrupt handlers lose no wakeup.
LEMMA NextSleep ==
    TypeOK /\ Counting /\ RingInv /\ SleepInv /\ [Next]_vars => SleepInv'
  <1> SUFFICES ASSUME TypeOK, Counting, RingInv, SleepInv, [Next]_vars PROVE SleepInv'
    OBVIOUS
  <1>0. Writer \in Threads /\ Readers \subseteq Threads /\ Writer \notin Readers
    BY TerminalAssumption DEF Threads
  <1>1. ASSUME NEW c \in CPU, NEW t \in Threads, Dispatch(c, t) PROVE SleepInv'
    BY Zenon, <1>1, Framed DEF Dispatch, Busy, device
  <1>2. ASSUME NEW c \in CPU, NEW t \in Threads, Sret(c, t) \/ Preempt(c, t) PROVE SleepInv'
    <2>1. \A u \in Threads : /\ th'[u].chan = th[u].chan /\ th'[u].asleep = th[u].asleep
                             /\ th'[u].pc = th[u].pc
      <3>1. CASE Sret(c, t)
        BY <3>1 DEF Sret, TypeOK, ThreadStates
      <3>2. CASE Preempt(c, t)
        BY <3>2 DEF Preempt, TypeOK, ThreadStates
      <3> QED BY Zenon, <1>2, <3>1, <3>2
    <2>2. UNCHANGED <<cons, tx, txint, intr>>
      BY <1>2 DEF Sret, Preempt, device
    <2> QED BY <1>0, <2>1, <2>2, Framed DEF Busy
  <1>3. ASSUME NEW c \in CPU, NEW t \in Threads, sleep(c, t) PROVE SleepInv'
    <2> DEFINE q == IF t = Writer THEN "prepare" ELSE "acquire"
    <2>1. On(c, t) /\ th[t].pc = "sleep" /\ UNCHANGED <<cons, intr, tx, txint>>
      BY <1>3 DEF sleep, device
    <2>2. /\ \A u \in Threads : u # t => th'[u] = th[u]
          /\ th'[t].pc = q /\ th'[t].chan = th[t].chan
          /\ th'[t].asleep => th[t].asleep \/ th[t].chan # "none"
      <3>1. CASE th[t].chan = "none"
        <4>1. th' = [th EXCEPT ![t].pc = q]
          BY <1>3, <3>1 DEF sleep
        <4> HIDE DEF q
        <4> QED BY <4>1 DEF TypeOK, ThreadStates
      <3>2. CASE th[t].chan # "none"
        <4>1. th' = [[[th EXCEPT ![t].pc = q] EXCEPT ![t].asleep = TRUE] EXCEPT ![t].intena = acquire(cpu[c]).intena]
          BY <1>3, <3>2 DEF sleep, GiveUp
        <4> HIDE DEF q
        <4> QED BY <3>2, <4>1 DEF TypeOK, ThreadStates
      <3> QED BY Zenon, <3>1, <3>2
    <2>3. Busy' <=> Busy
      BY <2>1 DEF Busy
    <2>4. q # "sleep"
      OBVIOUS
    <2> HIDE DEF q, Busy
    <2>5. CASE t = Writer
      BY Zenon, <1>0, <2>1, <2>2, <2>3, <2>4, <2>5 DEF SleepInv
    <2>6. CASE t # Writer
      BY ZenonT(30), <1>0, <2>1, <2>2, <2>3, <2>4, <2>6 DEF SleepInv, Threads
    <2> QED BY <2>5, <2>6
  <1>4. ASSUME NEW c \in CPU, NEW t \in Readers, Read(c, t) \/ AcquireCons(c, t) PROVE SleepInv'
    <2>1. \A u \in Threads : th'[u].chan = th[u].chan /\ th'[u].asleep = th[u].asleep
      <3>1. CASE Read(c, t)
        <4>1. PICK n : th' = [th EXCEPT ![t].n = n, ![t].pc = "acquire"]
          BY Zenon, <3>1 DEF Read
        <4> QED BY <1>0, <4>1 DEF TypeOK, ThreadStates
      <3>2. CASE AcquireCons(c, t)
        BY <1>0, <3>2 DEF AcquireCons, TypeOK, ThreadStates
      <3> QED BY <1>4, <3>1, <3>2
    <2>2. th'[Writer] = th[Writer]
      BY Zenon, <1>0, <1>4 DEF Read, AcquireCons, TypeOK
    <2>3. UNCHANGED <<cons, tx, txint, intr>>
      BY <1>4 DEF Read, AcquireCons, device
    <2> QED BY <1>0, <2>1, <2>2, <2>3, Framed DEF Busy
  <1>5. ASSUME NEW c \in CPU, NEW t \in Readers, consoleread(c, t) PROVE SleepInv'
    <2>1. PICK j \in 0 .. Len(Q(cons)) :
              /\ cons' = [cons EXCEPT !.r = Wrap(cons.r + j)]
              /\ \/ /\ j = Len(Q(cons))
                    /\ \E a \in Nat, g \in BOOLEAN : a > 0
                          /\ th' = [th EXCEPT ![t].n = a, ![t].got = g, ![t].chan = "cons", ![t].pc = "sleep"]
                 \/ th' = [th EXCEPT ![t] = Idle(t)]
      BY Zenon, <1>5, ReadStep
    <2>2. /\ j = Len(Q(cons)) => cons'.r = cons'.w
          /\ j = 0 => cons'.r = cons.r
      BY Zenon, <2>1, ReadIs DEF RingInv
    <2>3. cons'.w = cons.w
      BY Zenon, <2>1 DEF RingInv, RingOK
    <2>4. cons.r = cons.w => Len(Q(cons)) = 0
      <3>1. Len(Q(cons)) = Ahead(cons.w, cons.r) /\ cons.w \in Counters
        BY Zenon, RingFacts DEF RingInv
      <3> QED BY <3>1, AheadSelf
    <2>5. cons.r = cons.w => cons'.r = cons'.w
      BY <2>2, <2>3, <2>4
    <2>6. UNCHANGED <<tx, txint, intr>>
      BY Zenon, <1>5 DEF consoleread, device
    <2>7. \A u \in Threads : u # t => th'[u] = th[u]
      BY Zenon, <2>1 DEF TypeOK
    <2>8. /\ th'[t].asleep = th[t].asleep
          /\ \/ th'[t].chan = "cons" /\ cons'.r = cons'.w
             \/ th'[t].chan = th[t].chan
      <3>1. CASE th' = [th EXCEPT ![t] = Idle(t)]
        BY <1>0, <3>1 DEF Idle, TypeOK, ThreadStates
      <3>2. ASSUME j = Len(Q(cons)), NEW a \in Nat, NEW g \in BOOLEAN,
                   th' = [th EXCEPT ![t].n = a, ![t].got = g, ![t].chan = "cons", ![t].pc = "sleep"]
            PROVE  th'[t].asleep = th[t].asleep /\ th'[t].chan = "cons" /\ cons'.r = cons'.w
        BY <1>0, <2>2, <3>2 DEF TypeOK, ThreadStates
      <3> QED BY Zenon, <2>1, <3>1, <3>2
    <2>9. Busy' <=> Busy
      BY <2>6 DEF Busy
    <2> HIDE DEF Busy
    <2> QED BY Zenon, <1>0, <2>5, <2>7, <2>8, <2>9 DEF SleepInv
  <1>6. ASSUME NEW c \in CPU, Write(c) PROVE SleepInv'
    <2>1. \A u \in Threads : th'[u].chan = th[u].chan /\ th'[u].asleep = th[u].asleep
      BY <1>0, <1>6 DEF Write, TypeOK, ThreadStates
    <2>2. th'[Writer].pc = "prepare"
      BY <1>0, <1>6 DEF Write, TypeOK, ThreadStates
    <2>3. UNCHANGED <<cons, tx, txint, intr>>
      BY <1>6 DEF Write, device
    <2> QED BY Zenon, <1>0, <2>1, <2>2, <2>3, Framed DEF Busy
  <1>7. ASSUME NEW c \in CPU, WriterStep(c) PROVE SleepInv'
    <2>1. UNCHANGED <<cons, txint, intr>> /\ \A u \in Threads : u # Writer => th'[u] = th[u]
      BY <1>7 DEF WriterStep, sleep_prepare, ReadLSR, WriteTHR, TypeOK, device
    <2>2. CASE sleep_prepare(c)
      <3>1. th'[Writer].chan = "tx" /\ th'[Writer].pc = "lsr" /\ th'[Writer].asleep = th[Writer].asleep
        BY <1>0, <2>2 DEF sleep_prepare, TypeOK, ThreadStates
      <3>2. Busy' <=> Busy
        BY <2>1, <2>2 DEF sleep_prepare, Busy, device
      <3> HIDE DEF Busy
      <3> QED BY Zenon, <1>0, <2>1, <3>1, <3>2 DEF SleepInv
    <2>3. CASE ReadLSR(c)
      <3>1. th'[Writer].chan = th[Writer].chan /\ th'[Writer].asleep = th[Writer].asleep
        BY <1>0, <2>3 DEF ReadLSR, TypeOK, ThreadStates
      <3>2. th'[Writer].pc = "sleep" => Busy'
        BY <1>0, <2>1, <2>3 DEF ReadLSR, TypeOK, ThreadStates, Busy, device
      <3>3. Busy => Busy'
        BY <2>1, <2>3 DEF ReadLSR, Busy, device
      <3> HIDE DEF Busy
      <3> QED BY Zenon, <1>0, <2>1, <3>1, <3>2, <3>3 DEF SleepInv
    <2>4. CASE WriteTHR(c)
      <3>1. tx' > 0
        BY <2>4 DEF WriteTHR, TypeOK
      <3>2. Busy'
        BY <3>1 DEF Busy
      <3>3. th'[Writer].chan = th[Writer].chan /\ th'[Writer].asleep = th[Writer].asleep
        <4>1. CASE th[Writer].n = 1
          BY <1>0, <2>4, <4>1 DEF WriteTHR, Idle, TypeOK, ThreadStates
        <4>2. CASE th[Writer].n # 1
          BY <1>0, <2>4, <4>2 DEF WriteTHR, TypeOK, ThreadStates
        <4> QED BY <4>1, <4>2
      <3> HIDE DEF Busy
      <3> QED BY Zenon, <1>0, <2>1, <3>2, <3>3 DEF SleepInv
    <2> QED BY <1>7, <2>2, <2>3, <2>4 DEF WriterStep
  <1>8. ASSUME NEW c \in CPU, Interrupt(c) PROVE SleepInv'
    <2>1. CASE Claim(c)
      <3>1. UNCHANGED <<cons, th>> /\ Busy'
        BY <2>1 DEF Claim, Busy, TypeOK
      <3> QED BY Zenon, <3>1, Framed
    <2>2. CASE TxIdle(c)
      <3>1. UNCHANGED <<cons, tx>>
        BY <2>2 DEF TxIdle, device
      <3>2. CASE tx = 0
        <4>1. th' = wakeup("tx", th)
          BY <2>2, <3>2 DEF TxIdle
        <4> QED BY <3>1, <4>1, WakeFrame
      <3>3. CASE tx # 0
        <4>1. th' = th /\ Busy'
          BY <2>2, <3>1, <3>3 DEF TxIdle, TypeOK, Busy
        <4> QED BY <3>1, <4>1, Framed
      <3> QED BY <3>2, <3>3
    <2>3. CASE Complete(c)
      <3>1. UNCHANGED <<cons, th, tx, txint>>
        BY <2>3 DEF Complete, device
      <3>2. \A d \in CPU : intr[d] = "tx" => intr'[d] = "tx"
        BY <2>3 DEF Complete, TypeOK
      <3>3. Busy => Busy'
        BY <3>1, <3>2 DEF Busy
      <3> QED BY <3>1, <3>3, Framed
    <2>4. CASE consoleintr(c)
      <3>1. rx # <<>> /\ cons' = Key(Head(rx)) /\ intr' = intr
        BY Zenon, <2>4 DEF consoleintr
      <3>2. Busy => Busy'
        <4>1. UNCHANGED <<tx, txint>> \/ tx' = 1
          BY <2>4 DEF consoleintr
        <4> QED BY SMTT(30), <3>1, <4>1 DEF Busy
      <3>3. CASE cons'.w # cons.w
        <4>1. th' = wakeup("cons", th)
          BY <2>4, <3>3 DEF consoleintr, Announced
        <4> HIDE DEF Busy
        <4> QED BY Zenon, <3>2, <4>1, WakeFrame
      <3>4. CASE cons'.w = cons.w
        <4>1. th' = th
          BY <2>4, <3>4 DEF consoleintr, Announced
        <4>2. cons'.r = cons.r
          <5>1. Head(rx) \in Keys
            BY <3>1 DEF RingInv
          <5> QED BY <3>1, <5>1, KillIs, EraseIs, CharIs DEF RingInv, Keys
        <4> HIDE DEF Busy
        <4> QED BY <3>2, <3>4, <4>1, <4>2, Framed
      <3> QED BY <3>3, <3>4
    <2> QED BY <1>8, <2>1, <2>2, <2>3, <2>4 DEF Interrupt
  <1>9. ASSUME NEW t \in Threads, kkill(t) PROVE SleepInv'
    <2>1. \A u \in Threads : /\ th'[u].chan = th[u].chan /\ (th'[u].asleep => th[u].asleep)
                             /\ th'[u].pc = th[u].pc
      BY <1>9 DEF kkill, TypeOK, ThreadStates
    <2>2. UNCHANGED <<cons, tx, txint, intr>>
      BY <1>9 DEF kkill, device
    <2> QED BY <1>0, <2>1, <2>2, Framed DEF Busy
  <1>10. CASE Transmit \/ TypeKey \/ UNCHANGED vars
    <2>1. UNCHANGED <<cons, th, intr>>
      BY <1>10 DEF Transmit, TypeKey, vars
    <2>2. Busy => Busy'
      <3>1. CASE Transmit
        <4>1. tx' > 0 \/ tx = 1
          BY <3>1 DEF Transmit, TypeOK
        <4>2. txint' = (txint \/ tx = 1)
          BY <3>1 DEF Transmit
        <4>3. txint' \/ tx' > 0
          BY Zenon, <4>1, <4>2
        <4> QED BY <4>3 DEF Busy
      <3>2. CASE TypeKey \/ UNCHANGED vars
        BY <2>1, <3>2 DEF TypeKey, vars, device, Busy
      <3> QED BY <1>10, <3>1, <3>2
    <2> HIDE DEF Busy
    <2> QED BY <2>1, <2>2, Framed
  <1> QED BY <1>1, <1>2, <1>3, <1>4, <1>5, <1>6, <1>7, <1>8, <1>9, <1>10 DEF Next, ReaderStep

-----------------------------------------------------------------------------
IInv == TypeOK /\ Counting /\ LockInv /\ RingInv /\ SleepInv

\* The invariant of the console holds always.
THEOREM Inductive == Spec => []IInv
  <1>1. Init => IInv
    BY InitType, InitRing, InitSleep DEF IInv
  <1>2. IInv /\ [Next]_vars => IInv'
    BY NextType, NextLock, NextRing, NextSleep DEF IInv
  <1> QED BY <1>1, <1>2, PTL DEF Spec

\* consoleread() and consoleintr(), with push_off() and pop_off(): interrupts
\* are off while a CPU holds a lock, and on again as soon as it has none.
THEOREM Interrupts == Spec => []InterruptsMatchLocks
  <1>1. IInv => InterruptsMatchLocks
    <2> SUFFICES ASSUME TypeOK, LockInv, NEW c \in CPU
                 PROVE  /\ lock = c => ~cpu[c].sie /\ intr[c] = "no"
                        /\ cpu[c].noff = (IF lock = c THEN 1 ELSE 0)
                        /\ \A t \in Threads : On(c, t) /\ cpu[c].noff = 0 => cpu[c].sie
      BY Zenon DEF IInv, InterruptsMatchLocks
    <2>1. /\ lock = c => ~cpu[c].sie /\ intr[c] = "no" /\ cpu[c].noff = 1
          /\ lock # c => cpu[c].noff = 0
      BY Zenon DEF LockInv
    <2>2. ASSUME NEW t \in Threads, On(c, t), cpu[c].noff = 0 PROVE cpu[c].sie
      BY SMTT(30), <2>1, <2>2, TerminalAssumption DEF On, LockInv
    <2> QED BY Zenon, <2>1, <2>2
  <1> QED BY <1>1, Inductive, PTL

\* sleep_prepare() and wakeup(): nobody sleeps through what it waits for.
THEOREM Sleepers == Spec => []SleepersHaveReason
  <1>1. IInv => SleepersHaveReason
    BY Zenon DEF IInv, SleepInv, SleepersHaveReason, Busy
  <1> QED BY <1>1, Inductive, PTL

\* The ring of the console, its indices wrapping around, is a line editor.
THEOREM Editor == Spec => ImplementsLineEditor
  <1>1. Init => L!Init
    BY InitRing
  <1>2. IInv /\ [Next]_vars => [L!Next]_<<Queue, Line>>
    BY NextRing DEF IInv
  <1> QED BY <1>1, <1>2, Inductive, PTL DEF Spec, ImplementsLineEditor, L!Spec
=============================================================================
