---------------------------- MODULE FollowingProofs ----------------------------
(***************************************************************************)
(* A client that follows the event log of a run gets every line once and   *)
(* in order, and a foreach task is expanded once, for every number of      *)
(* events, crashes and tears.                                              *)
(***************************************************************************)
EXTENDS Following, FiniteSetTheorems, WellFoundedInduction, TLAPS

-----------------------------------------------------------------------------
(* Induction over the length of a sequence                                 *)

\* What holds of 0, and of n + 1 whenever of n, holds of every natural number.
LEMMA NaturalInduction ==
  ASSUME NEW Y, 0 \in Y, \A n \in Nat : n \in Y => n + 1 \in Y
  PROVE  Nat \subseteq Y
<1> DEFINE R == {ss \in Nat \X Nat : ss[1] < ss[2]}
           T == Nat \ Y
<1>1. IsWellFoundedOn(R, Nat)
  BY NatLessThanWellFounded DEF OpToRel
<1> SUFFICES ASSUME T # {} PROVE FALSE
  OBVIOUS
<1>2. T \subseteq Nat /\ T # {}
  OBVIOUS
<1> HIDE DEF R, T
<1>3. PICK x \in T : \A y \in T : ~ (<<y, x>> \in R)
  BY <1>1, <1>2, WFMin
<1>4. x \in Nat /\ x \notin Y /\ x # 0
  BY <1>3 DEF T
<1>5. x - 1 \in Nat /\ x - 1 \notin Y
  BY <1>4
<1>6. x - 1 \in T /\ <<x - 1, x>> \in R
  BY <1>4, <1>5 DEF T, R
<1> QED BY <1>3, <1>6

-----------------------------------------------------------------------------
(* Pieces of sequences                                                     *)

\* Two sequences in a row, and what makes a sequence that
LEMMA ConcatPointwise ==
  ASSUME NEW S, NEW x \in Seq(S), NEW y \in Seq(S)
  PROVE  /\ x \o y \in Seq(S) /\ Len(x \o y) = Len(x) + Len(y)
         /\ \A k \in 1 .. Len(x) : (x \o y)[k] = x[k]
         /\ \A k \in 1 .. Len(y) : (x \o y)[Len(x) + k] = y[k]
OBVIOUS

\* A sequence with one more place
LEMMA OneMore ==
  ASSUME NEW S, NEW x \in Seq(S), NEW y \in S
  PROVE  /\ Append(x, y) \in Seq(S) /\ Len(Append(x, y)) = Len(x) + 1
         /\ Append(x, y)[Len(x) + 1] = y
         /\ \A i \in 1 .. Len(x) : Append(x, y)[i] = x[i]
OBVIOUS

\* A sequence that is x and then y is x with y behind it.
LEMMA IsAppend ==
  ASSUME NEW S, NEW x \in Seq(S), NEW y \in S, NEW z \in Seq(S),
         Len(z) = Len(x) + 1, z[Len(x) + 1] = y,
         \A i \in 1 .. Len(x) : z[i] = x[i]
  PROVE  z = Append(x, y)
<1> DEFINE w == Append(x, y)
<1>1. /\ w \in Seq(S) /\ Len(w) = Len(x) + 1 /\ w[Len(x) + 1] = y
      /\ \A i \in 1 .. Len(x) : w[i] = x[i]
  BY OneMore
<1> HIDE DEF w
<1>2. ASSUME NEW i \in 1 .. Len(z) PROVE z[i] = w[i]
  <2>1. i \in 1 .. Len(x) \/ i = Len(x) + 1
    OBVIOUS
  <2> QED BY <1>1, <2>1
<1>3. z = w
  BY <1>1, <1>2
<1> QED BY <1>3 DEF w

\* The first places of a sequence
LEMMA FirstOf ==
  ASSUME NEW S, NEW x \in Seq(S), NEW n \in 0 .. Len(x)
  PROVE  /\ SubSeq(x, 1, n) \in Seq(S) /\ Len(SubSeq(x, 1, n)) = n
         /\ \A i \in 1 .. n : SubSeq(x, 1, n)[i] = x[i]
         /\ SubSeq(x, 1, Len(x)) = x
<1>1. n \in Nat /\ n <= Len(x) /\ Len(x) \in Nat
  OBVIOUS
<1>2. \A i \in 1 .. n : x[i] \in S
  BY <1>1
<1>3. SubSeq(x, 1, n) \in Seq(S)
  BY <1>1, <1>2
<1>4. Len(SubSeq(x, 1, n)) = n
  BY <1>1
<1>5. ASSUME NEW i \in 1 .. n PROVE SubSeq(x, 1, n)[i] = x[i]
  BY <1>1
<1>6. SubSeq(x, 1, Len(x)) = x
  BY <1>1
<1> QED BY <1>3, <1>4, <1>5, <1>6

\* A piece of a sequence, and the two pieces it is made of
LEMMA PieceOf ==
  ASSUME NEW S, NEW x \in Seq(S), NEW n \in 0 .. Len(x), NEW m \in 0 .. n
  PROVE  /\ SubSeq(x, m + 1, n) \in Seq(S) /\ Len(SubSeq(x, m + 1, n)) = n - m
         /\ \A i \in 1 .. n - m : SubSeq(x, m + 1, n)[i] = x[m + i]
<1>1. Len(x) \in Nat /\ m \in Nat /\ n \in Nat /\ m <= n /\ n <= Len(x)
  OBVIOUS
<1>2. SubSeq(x, m + 1, n) \in Seq(S)
  BY <1>1
<1>3. Len(SubSeq(x, m + 1, n)) = n - m
  BY <1>1
<1>4. \A i \in 1 .. n - m : SubSeq(x, m + 1, n)[i] = x[m + i]
  BY <1>1
<1> QED BY <1>2, <1>3, <1>4

\* The first places of what is left of a sequence
LEMMA FirstOfRest ==
  ASSUME NEW S, NEW x \in Seq(S), NEW m \in 0 .. Len(x), NEW n \in 0 .. Len(x) - m
  PROVE  SubSeq(SubSeq(x, m + 1, Len(x)), 1, n) = SubSeq(x, m + 1, m + n)
<1> DEFINE y == SubSeq(x, m + 1, Len(x))
           u == SubSeq(y, 1, n)
           v == SubSeq(x, m + 1, m + n)
<1>1. Len(x) \in Nat /\ m \in Nat /\ n \in Nat /\ m + n <= Len(x)
  OBVIOUS
<1>2. y \in Seq(S)
  BY <1>1
<1>3. Len(y) = Len(x) - m
  BY <1>1
<1>4. \A i \in 1 .. Len(x) - m : y[i] = x[m + i]
  BY <1>1
<1>5. v \in Seq(S)
  BY <1>1
<1>6. Len(v) = n
  BY <1>1
<1>7. \A i \in 1 .. n : v[i] = x[m + i]
  BY <1>1
<1> HIDE DEF y, v
<1>8. u \in Seq(S) /\ Len(u) = n /\ \A i \in 1 .. n : u[i] = y[i]
  <2>1. n \in 0 .. Len(y)
    BY <1>1, <1>3
  <2> QED BY <1>2, <2>1, FirstOf
<1> HIDE DEF u
<1>9. \A i \in 1 .. n : u[i] = v[i]
  BY <1>1, <1>4, <1>7, <1>8
<1>10. u = v
  BY <1>5, <1>6, <1>8, <1>9
<1> QED BY <1>10 DEF u, v, y

\* A sequence that is x and then y, place by place, is their concatenation.
LEMMA IsConcat ==
  ASSUME NEW S, NEW x \in Seq(S), NEW y \in Seq(S), NEW z \in Seq(S),
         Len(z) = Len(x) + Len(y),
         \A k \in 1 .. Len(x) : z[k] = x[k],
         \A k \in 1 .. Len(y) : z[Len(x) + k] = y[k]
  PROVE  z = x \o y
<1> DEFINE w == x \o y
<1>1. /\ w \in Seq(S) /\ Len(w) = Len(z)
      /\ \A k \in 1 .. Len(x) : w[k] = x[k]
      /\ \A k \in 1 .. Len(y) : w[Len(x) + k] = y[k]
  BY ConcatPointwise
<1> HIDE DEF w
<1>2. ASSUME NEW i \in 1 .. Len(z) PROVE z[i] = w[i]
  <2>1. i \in 1 .. Len(x) \/ (i - Len(x) \in 1 .. Len(y) /\ i = Len(x) + (i - Len(x)))
    OBVIOUS
  <2> QED BY <1>1, <2>1
<1>3. z = w
  BY <1>1, <1>2
<1> QED BY <1>3 DEF w

\* Two pieces that meet are one.
LEMMA TwoPieces ==
  ASSUME NEW S, NEW x \in Seq(S), NEW n \in 0 .. Len(x), NEW m \in 0 .. n, NEW k \in n .. Len(x)
  PROVE  SubSeq(x, m + 1, n) \o SubSeq(x, n + 1, k) = SubSeq(x, m + 1, k)
<1> DEFINE u == SubSeq(x, m + 1, n)
           v == SubSeq(x, n + 1, k)
           w == SubSeq(x, m + 1, k)
<1>1. /\ Len(x) \in Nat /\ m \in Nat /\ n \in Nat /\ k \in Nat /\ m <= n /\ n <= k /\ k <= Len(x)
      /\ k \in 0 .. Len(x) /\ n \in 0 .. k /\ m \in 0 .. k
  OBVIOUS
<1>2. /\ u \in Seq(S) /\ Len(u) = n - m /\ \A i \in 1 .. n - m : u[i] = x[m + i]
      /\ v \in Seq(S) /\ Len(v) = k - n /\ \A i \in 1 .. k - n : v[i] = x[n + i]
      /\ w \in Seq(S) /\ Len(w) = k - m /\ \A i \in 1 .. k - m : w[i] = x[m + i]
  BY <1>1, PieceOf
<1> HIDE DEF u, v, w
<1>3. ASSUME NEW i \in 1 .. Len(u) PROVE w[i] = u[i]
  <2>1. i \in 1 .. n - m /\ i \in 1 .. k - m
    BY <1>1, <1>2
  <2> QED BY <1>2, <2>1
<1>4. ASSUME NEW i \in 1 .. Len(v) PROVE w[Len(u) + i] = v[i]
  <2>1. Len(u) + i \in 1 .. k - m /\ m + (Len(u) + i) = n + i
    BY <1>1, <1>2
  <2> QED BY <1>2, <2>1
<1>5. Len(w) = Len(u) + Len(v)
  BY <1>1, <1>2
<1>6. w = u \o v
  BY <1>2, <1>3, <1>4, <1>5, IsConcat
<1> QED BY <1>6 DEF u, v, w

-----------------------------------------------------------------------------
(* Newlines                                                                *)

Word == (Parents \cup {"note"}) \X Nat
Byte == [part : {"text", "lead", "trail", "nl"}, of : Word]

\* The table Newlines is computed from
NewlinesUpTo(b, f) ==
  [i \in 0 .. Len(b) |-> IF i = 0 THEN <<>>
                         ELSE IF b[i].part = "nl" THEN Append(f[i - 1], i) ELSE f[i - 1]]

\* Newlines is the last entry of a table.
LEMMA NewlinesTable ==
  ASSUME NEW b \in Seq(Byte)
  PROVE  \E f : /\ f[0] = <<>> /\ Newlines(b) = f[Len(b)]
                /\ \A i \in 0 .. Len(b) - 1 :
                     f[i + 1] = IF b[i + 1].part = "nl" THEN Append(f[i], i + 1) ELSE f[i]
<1> DEFINE Eqn(f) == f = NewlinesUpTo(b, f)
           F == CHOOSE f : Eqn(f)
           S == Seq(Nat)
           Until(n, f) == /\ f \in [0 .. Len(b) -> S]
                          /\ \A i \in 0 .. n : f[i] = NewlinesUpTo(b, f)[i]
           Y == {n \in Nat : n <= Len(b) => \E f : Until(n, f)}
<1>1. Newlines(b) = F[Len(b)]
  BY DEF Newlines, NewlinesUpTo
<1>2. 0 \in Y
  <2>1. <<>> \in S
    OBVIOUS
  <2>2. Until(0, [i \in 0 .. Len(b) |-> <<>>])
    BY <2>1 DEF NewlinesUpTo
  <2> QED BY <2>2
<1>3. ASSUME NEW n \in Nat, n \in Y PROVE n + 1 \in Y
  <2> SUFFICES ASSUME n + 1 <= Len(b) PROVE \E f : Until(n + 1, f)
    OBVIOUS
  <2>1. PICK f : Until(n, f)
    BY <1>3
  <2> DEFINE g == [f EXCEPT ![n + 1] = IF b[n + 1].part = "nl" THEN Append(f[n], n + 1) ELSE f[n]]
  <2>2. g \in [0 .. Len(b) -> S]
    BY <2>1
  <2>3. \A i \in 0 .. n : g[i] = f[i]
    BY <2>1
  <2>4. g[n + 1] = NewlinesUpTo(b, g)[n + 1]
    BY <2>1, <2>3 DEF NewlinesUpTo
  <2>5. ASSUME NEW i \in 0 .. n PROVE g[i] = NewlinesUpTo(b, g)[i]
    <3>1. f[i] = NewlinesUpTo(b, f)[i]
      BY <2>1
    <3>2. i \in 0 .. Len(b) /\ (i # 0 => i - 1 \in 0 .. n)
      OBVIOUS
    <3>3. NewlinesUpTo(b, f)[i] = NewlinesUpTo(b, g)[i]
      <4> HIDE DEF g
      <4> QED BY <2>3, <3>2 DEF NewlinesUpTo
    <3> QED BY <2>3, <3>1, <3>3
  <2>6. ASSUME NEW i \in 0 .. n + 1 PROVE g[i] = NewlinesUpTo(b, g)[i]
    <3>1. i \in 0 .. n \/ i = n + 1
      OBVIOUS
    <3> QED BY <2>4, <2>5, <3>1
  <2>7. Until(n + 1, g)
    <3> HIDE DEF g
    <3> QED BY <2>2, <2>6
  <2> QED BY <2>7
<1>4. PICK f : Until(Len(b), f)
  <2> HIDE DEF Until
  <2>1. Nat \subseteq Y
    <3> HIDE DEF Y
    <3> QED BY <1>2, <1>3, NaturalInduction
  <2> QED BY <2>1
<1>5. Eqn(f)
  BY <1>4 DEF NewlinesUpTo
<1>6. Eqn(F)
  <2> HIDE DEF Eqn
  <2> QED BY <1>5
<1>7. F[0] = <<>>
  <2> HIDE DEF F
  <2> QED BY <1>6 DEF NewlinesUpTo
<1>8. ASSUME NEW i \in 0 .. Len(b) - 1
      PROVE  F[i + 1] = IF b[i + 1].part = "nl" THEN Append(F[i], i + 1) ELSE F[i]
  <2>1. i + 1 \in 0 .. Len(b) /\ i + 1 # 0 /\ (i + 1) - 1 = i
    OBVIOUS
  <2> HIDE DEF F
  <2>2. F[i + 1] = NewlinesUpTo(b, F)[i + 1]
    BY <1>6
  <2> QED BY <2>1, <2>2 DEF NewlinesUpTo
<1> HIDE DEF F
<1> QED BY <1>1, <1>7, <1>8

\* No bytes have no newlines.
LEMMA NewlinesOfNone == Newlines(<<>>) = <<>>
<1>1. <<>> \in Seq(Byte)
  OBVIOUS
<1> QED BY <1>1, NewlinesTable

\* A newline more at the end, if the byte that is added is one
LEMMA NewlinesOfAppend ==
  ASSUME NEW b \in Seq(Byte), NEW x \in Byte
  PROVE  Newlines(Append(b, x)) =
           IF x.part = "nl" THEN Append(Newlines(b), Len(b) + 1) ELSE Newlines(b)
<1> DEFINE c == Append(b, x)
           n == Len(b)
<1>1. /\ c \in Seq(Byte) /\ Len(c) = n + 1 /\ c[n + 1] = x /\ \A i \in 1 .. n : c[i] = b[i]
      /\ Len(c) - 1 = n
  OBVIOUS
<1> HIDE DEF c
<1>2. PICK f : /\ f[0] = <<>> /\ Newlines(b) = f[n]
               /\ \A i \in 0 .. n - 1 :
                    f[i + 1] = IF b[i + 1].part = "nl" THEN Append(f[i], i + 1) ELSE f[i]
  BY NewlinesTable
<1>3. PICK g : /\ g[0] = <<>> /\ Newlines(c) = g[n + 1]
               /\ \A i \in 0 .. n :
                    g[i + 1] = IF c[i + 1].part = "nl" THEN Append(g[i], i + 1) ELSE g[i]
  <2>1. PICK g : /\ g[0] = <<>> /\ Newlines(c) = g[Len(c)]
                 /\ \A i \in 0 .. Len(c) - 1 :
                      g[i + 1] = IF c[i + 1].part = "nl" THEN Append(g[i], i + 1) ELSE g[i]
    BY <1>1, NewlinesTable
  <2> QED BY <1>1, <2>1
<1> DEFINE Y == {i \in Nat : i <= n => g[i] = f[i]}
<1>4. 0 \in Y
  BY <1>2, <1>3
<1>5. ASSUME NEW i \in Nat, i \in Y PROVE i + 1 \in Y
  <2> SUFFICES ASSUME i + 1 <= n PROVE g[i + 1] = f[i + 1]
    OBVIOUS
  <2>1. g[i] = f[i] /\ c[i + 1] = b[i + 1]
    BY <1>1, <1>5
  <2>2. f[i + 1] = IF b[i + 1].part = "nl" THEN Append(f[i], i + 1) ELSE f[i]
    BY <1>2
  <2>3. g[i + 1] = IF c[i + 1].part = "nl" THEN Append(g[i], i + 1) ELSE g[i]
    BY <1>3
  <2> QED BY <2>1, <2>2, <2>3
<1>6. n \in Y
  <2> HIDE DEF Y
  <2> QED BY <1>4, <1>5, NaturalInduction
<1>7. g[n + 1] = IF c[n + 1].part = "nl" THEN Append(g[n], n + 1) ELSE g[n]
  BY <1>3
<1> QED BY <1>1, <1>2, <1>3, <1>6, <1>7 DEF c

\* What holds of no bytes, and of bytes with one more whenever without it, holds
\* of all bytes.
LEMMA BytesInduction ==
  ASSUME NEW Y, <<>> \in Y,
         \A b \in Seq(Byte), x \in Byte : b \in Y => Append(b, x) \in Y
  PROVE  Seq(Byte) \subseteq Y
<1> DEFINE Z == {n \in Nat : \A b \in Seq(Byte) : Len(b) = n => b \in Y}
<1>1. 0 \in Z
  <2>1. \A b \in Seq(Byte) : Len(b) = 0 => b = <<>>
    OBVIOUS
  <2> QED BY <2>1
<1>2. ASSUME NEW n \in Nat, n \in Z PROVE n + 1 \in Z
  <2> SUFFICES ASSUME NEW b \in Seq(Byte), Len(b) = n + 1 PROVE b \in Y
    OBVIOUS
  <2> DEFINE a == SubSeq(b, 1, n)
  <2>1. a \in Seq(Byte) /\ Len(a) = n /\ b[n + 1] \in Byte
    OBVIOUS
  <2>2. b = Append(a, b[n + 1])
    OBVIOUS
  <2>3. a \in Y
    BY <1>2, <2>1
  <2> HIDE DEF a
  <2> QED BY <2>1, <2>2, <2>3
<1>3. Nat \subseteq Z
  <2> HIDE DEF Z
  <2> QED BY <1>1, <1>2, NaturalInduction
<1> QED BY <1>3

-----------------------------------------------------------------------------
(* What newlines and lines are                                             *)

\* The newlines of a sequence of bytes are its newlines, all of them, in order.
Enumerates(s, b) ==
  /\ s \in Seq(Nat)
  /\ \A k \in 1 .. Len(s) : s[k] \in 1 .. Len(b) /\ b[s[k]].part = "nl"
  /\ \A j, k \in 1 .. Len(s) : j < k => s[j] < s[k]
  /\ \A i \in 1 .. Len(b) : b[i].part = "nl" => \E k \in 1 .. Len(s) : s[k] = i

\* A byte more is a newline more, or none.
LEMMA EnumeratesMore ==
  ASSUME NEW b \in Seq(Byte), NEW x \in Byte, NEW s \in Seq(Nat), Enumerates(s, b)
  PROVE  Enumerates(IF x.part = "nl" THEN Append(s, Len(b) + 1) ELSE s, Append(b, x))
<1> DEFINE c == Append(b, x)
           n == Len(b)
           t == Append(s, n + 1)
           m == Len(s)
<1>1. /\ Len(c) = n + 1 /\ c[n + 1] = x /\ n \in Nat
      /\ \A i \in 1 .. n : c[i] = b[i]
  OBVIOUS
<1>2. /\ t \in Seq(Nat) /\ Len(t) = m + 1 /\ m \in Nat
      /\ t[m + 1] = n + 1 /\ \A k \in 1 .. m : t[k] = s[k]
  OBVIOUS
<1>3. /\ \A k \in 1 .. m : s[k] \in 1 .. n /\ b[s[k]].part = "nl"
      /\ \A j, k \in 1 .. m : j < k => s[j] < s[k]
      /\ \A i \in 1 .. n : b[i].part = "nl" => \E k \in 1 .. m : s[k] = i
  BY DEF Enumerates
<1> HIDE DEF c, n, t, m
<1>4. ASSUME x.part # "nl" PROVE Enumerates(s, c)
  <2>1. ASSUME NEW i \in 1 .. Len(c), c[i].part = "nl" PROVE \E k \in 1 .. Len(s) : s[k] = i
    <3>1. i \in 1 .. n
      BY <1>1, <1>4, <2>1
    <3> QED BY <1>1, <1>3, <2>1, <3>1 DEF m
  <2>2. \A k \in 1 .. Len(s) : s[k] \in 1 .. Len(c) /\ c[s[k]].part = "nl"
    BY <1>1, <1>3 DEF m
  <2> QED BY <1>3, <2>1, <2>2 DEF Enumerates, m
<1>5. ASSUME x.part = "nl" PROVE Enumerates(t, c)
  <2>1. ASSUME NEW k \in 1 .. Len(t) PROVE t[k] \in 1 .. Len(c) /\ c[t[k]].part = "nl"
    <3>1. CASE k = m + 1
      BY <1>1, <1>2, <1>5, <3>1
    <3>2. CASE k \in 1 .. m
      <4>1. t[k] = s[k] /\ s[k] \in 1 .. n /\ b[s[k]].part = "nl"
        BY <1>2, <1>3, <3>2
      <4> QED BY <1>1, <4>1
    <3> QED BY <1>2, <3>1, <3>2
  <2>2. ASSUME NEW j \in 1 .. Len(t), NEW k \in 1 .. Len(t), j < k PROVE t[j] < t[k]
    <3>1. j \in 1 .. m /\ t[j] = s[j] /\ s[j] \in 1 .. n
      BY <1>2, <1>3, <2>2
    <3>2. CASE k = m + 1
      BY <1>1, <1>2, <3>1, <3>2
    <3>3. CASE k \in 1 .. m
      BY <1>2, <1>3, <2>2, <3>1, <3>3
    <3> QED BY <1>2, <3>2, <3>3
  <2>3. ASSUME NEW i \in 1 .. Len(c), c[i].part = "nl" PROVE \E k \in 1 .. Len(t) : t[k] = i
    <3>1. CASE i = n + 1
      BY <1>2, <3>1
    <3>2. CASE i \in 1 .. n
      <4>1. PICK k \in 1 .. m : s[k] = i
        BY <1>1, <1>3, <2>3, <3>2
      <4>2. k \in 1 .. Len(t) /\ t[k] = i
        BY <1>2, <4>1
      <4> QED BY <4>2
    <3> QED BY <1>1, <3>1, <3>2
  <2> QED BY <1>2, <2>1, <2>2, <2>3 DEF Enumerates
<1> QED BY <1>4, <1>5 DEF c, t, n

\* Newlines finds every newline, in order.
LEMMA NewlinesEnumerate == \A b \in Seq(Byte) : Enumerates(Newlines(b), b)
<1> DEFINE Y == {b \in Seq(Byte) : Enumerates(Newlines(b), b)}
<1>1. <<>> \in Y
  <2>1. Enumerates(<<>>, <<>>)
    BY DEF Enumerates
  <2> QED BY <2>1, NewlinesOfNone
<1>2. ASSUME NEW b \in Seq(Byte), NEW x \in Byte, b \in Y PROVE Append(b, x) \in Y
  <2>1. Newlines(b) \in Seq(Nat) /\ Enumerates(Newlines(b), b)
    BY <1>2 DEF Enumerates
  <2>2. Enumerates(Newlines(Append(b, x)), Append(b, x))
    BY <2>1, EnumeratesMore, NewlinesOfAppend
  <2> QED BY <2>2
<1>3. Seq(Byte) \subseteq Y
  <2> HIDE DEF Y
  <2> QED BY <1>1, <1>2, BytesInduction
<1> QED BY <1>3

\* Places n bytes further on
Shifted(s, n) == [k \in 1 .. Len(s) |-> s[k] + n]

\* The newlines of two pieces are those of the first and then those of the second.
LEMMA NewlinesConcat ==
  ASSUME NEW a \in Seq(Byte)
  PROVE  \A b \in Seq(Byte) : Newlines(a \o b) = Newlines(a) \o Shifted(Newlines(b), Len(a))
<1> DEFINE n == Len(a)
           Y == {b \in Seq(Byte) : Newlines(a \o b) = Newlines(a) \o Shifted(Newlines(b), n)}
<1>0. n \in Nat /\ \A b \in Seq(Byte) : Newlines(b) \in Seq(Nat)
  BY NewlinesEnumerate DEF Enumerates
<1>1. <<>> \in Y
  <2>1. Shifted(<<>>, n) = <<>> /\ a \o <<>> = a
    BY DEF Shifted
  <2>2. Newlines(a) \o <<>> = Newlines(a)
    BY <1>0
  <2>3. <<>> \in Seq(Byte)
    OBVIOUS
  <2>4. Newlines(a \o <<>>) = Newlines(a) \o Shifted(Newlines(<<>>), n)
    <3> HIDE DEF n
    <3> QED BY <2>1, <2>2, NewlinesOfNone
  <2> QED BY <2>3, <2>4
<1>2. ASSUME NEW b \in Seq(Byte), NEW x \in Byte, b \in Y PROVE Append(b, x) \in Y
  <2>1. a \o Append(b, x) = Append(a \o b, x) /\ a \o b \in Seq(Byte) /\ Len(a \o b) = n + Len(b)
    OBVIOUS
  <2>2. Newlines(a \o Append(b, x)) =
          IF x.part = "nl" THEN Append(Newlines(a \o b), n + Len(b) + 1) ELSE Newlines(a \o b)
    BY <2>1, NewlinesOfAppend
  <2>3. Newlines(Append(b, x)) =
          IF x.part = "nl" THEN Append(Newlines(b), Len(b) + 1) ELSE Newlines(b)
    BY NewlinesOfAppend
  <2>4. ASSUME NEW s \in Seq(Nat), NEW t \in Seq(Nat), NEW m \in Nat
        PROVE  t \o Shifted(Append(s, m + 1), n) = Append(t \o Shifted(s, n), n + m + 1)
    <3>1. Shifted(s, n) \in Seq(Nat) /\ Len(Shifted(s, n)) = Len(s)
      BY <1>0 DEF Shifted
    <3>2. Shifted(Append(s, m + 1), n) = Append(Shifted(s, n), n + m + 1)
      BY <1>0, <3>1 DEF Shifted
    <3>3. n + m + 1 \in Nat
      BY <1>0
    <3> HIDE DEF n
    <3>4. \A r \in Seq(Nat), y \in Nat : t \o Append(r, y) = Append(t \o r, y)
      OBVIOUS
    <3> QED BY <3>1, <3>2, <3>3, <3>4
  <2>5. Newlines(a \o b) = Newlines(a) \o Shifted(Newlines(b), n)
    BY <1>2
  <2>6. Newlines(a) \o Shifted(Append(Newlines(b), Len(b) + 1), n) =
          Append(Newlines(a) \o Shifted(Newlines(b), n), n + Len(b) + 1)
    <3>1. Len(b) \in Nat
      OBVIOUS
    <3> HIDE DEF n
    <3> QED BY <1>0, <2>4, <3>1
  <2>7. Append(b, x) \in Seq(Byte)
    OBVIOUS
  <2> HIDE DEF n
  <2> QED BY <2>2, <2>3, <2>5, <2>6, <2>7
<1>3. Seq(Byte) \subseteq Y
  <2> HIDE DEF Y
  <2> QED BY <1>1, <1>2, BytesInduction
<1> QED BY <1>3

\* Bytes that a newline ends, if there are any
Whole(b) == b = <<>> \/ b[Len(b)].part = "nl"

\* The last newline of whole bytes is their end.
LEMMA WholeEndsThere ==
  ASSUME NEW b \in Seq(Byte), Whole(b)
  PROVE  LET s == Newlines(b)
         IN  IF Len(s) = 0 THEN b = <<>> ELSE Len(b) # 0 /\ s[Len(s)] = Len(b)
<1> DEFINE s == Newlines(b)
<1>1. Enumerates(s, b) /\ s \in Seq(Nat) /\ Len(s) \in Nat /\ Len(b) \in Nat
  BY NewlinesEnumerate DEF Enumerates
<1> HIDE DEF s
<1>2. CASE b = <<>>
  <2>1. Len(s) = 0
    <3> SUFFICES ASSUME Len(s) # 0 PROVE FALSE
      OBVIOUS
    <3>1. 1 \in 1 .. Len(s)
      BY <1>1
    <3>2. s[1] \in 1 .. 0
      BY <1>1, <1>2, <3>1 DEF Enumerates
    <3> QED BY <3>2
  <2> QED BY <1>2, <2>1 DEF s
<1>3. CASE b # <<>>
  <2>1. Len(b) \in 1 .. Len(b) /\ b[Len(b)].part = "nl"
    BY <1>3 DEF Whole
  <2>2. PICK k \in 1 .. Len(s) : s[k] = Len(b)
    BY <1>1, <2>1 DEF Enumerates
  <2>3. Len(s) \in 1 .. Len(s)
    BY <1>1
  <2>4. s[Len(s)] \in 1 .. Len(b)
    BY <1>1, <2>3 DEF Enumerates
  <2>5. k < Len(s) => s[k] < s[Len(s)]
    BY <1>1, <2>3 DEF Enumerates
  <2>6. k = Len(s)
    BY <1>1, <2>2, <2>4, <2>5
  <2> QED BY <1>3, <2>2, <2>3, <2>6 DEF s
<1> QED BY <1>2, <1>3

\* The pieces of a concatenation
LEMMA PiecesOfConcat ==
  ASSUME NEW a \in Seq(Byte), NEW b \in Seq(Byte), NEW i \in Nat \ {0}, NEW j \in Nat
  PROVE  /\ j <= Len(a) => SubSeq(a \o b, i, j) = SubSeq(a, i, j)
         /\ j <= Len(b) => SubSeq(a \o b, Len(a) + i, Len(a) + j) = SubSeq(b, i, j)
<1>1. ASSUME j <= Len(a) PROVE SubSeq(a \o b, i, j) = SubSeq(a, i, j)
  BY <1>1
<1>2. ASSUME j <= Len(b) PROVE SubSeq(a \o b, Len(a) + i, Len(a) + j) = SubSeq(b, i, j)
  BY <1>2
<1> QED BY <1>1, <1>2

\* Lines are bytes.
LEMMA LinesType ==
  ASSUME NEW b \in Seq(Byte)
  PROVE  Lines(b) \in Seq(Seq(Byte)) /\ Len(Lines(b)) = Len(Newlines(b))
<1> DEFINE s == Newlines(b)
<1>1. Enumerates(s, b) /\ s \in Seq(Nat) /\ Len(s) \in Nat
  BY NewlinesEnumerate DEF Enumerates
<1> HIDE DEF s
<1>2. ASSUME NEW k \in 1 .. Len(s)
      PROVE  SubSeq(b, IF k = 1 THEN 1 ELSE s[k - 1] + 1, s[k] - 1) \in Seq(Byte)
  <2> DEFINE i == IF k = 1 THEN 1 ELSE s[k - 1] + 1
             j == s[k] - 1
  <2>1. s[k] \in 1 .. Len(b) /\ (k # 1 => s[k - 1] \in 1 .. Len(b))
    <3>1. k # 1 => k - 1 \in 1 .. Len(s)
      OBVIOUS
    <3> QED BY <1>1, <3>1 DEF Enumerates
  <2>2. i \in Nat \ {0} /\ j \in Nat /\ j <= Len(b)
    BY <2>1
  <2> HIDE DEF i, j
  <2>3. SubSeq(b, i, j) \in Seq(Byte)
    BY <2>2
  <2> QED BY <2>3 DEF i, j
<1>3. Lines(b) = [k \in 1 .. Len(s) |-> SubSeq(b, IF k = 1 THEN 1 ELSE s[k - 1] + 1, s[k] - 1)]
  BY DEF Lines, s
<1>4. Lines(b) \in Seq(Seq(Byte)) /\ Len(Lines(b)) = Len(s)
  BY <1>1, <1>2, <1>3
<1> QED BY <1>4 DEF s

\* Behind whole bytes, lines start anew.
LEMMA LinesConcat ==
  ASSUME NEW a \in Seq(Byte), Whole(a), NEW b \in Seq(Byte)
  PROVE  Lines(a \o b) = Lines(a) \o Lines(b)
<1> DEFINE s == Newlines(a)
           t == Newlines(b)
           u == Newlines(a \o b)
           n == Len(a)
           p == Len(s)
           q == Len(t)
           From(r, k) == IF k = 1 THEN 1 ELSE r[k - 1] + 1
<1>1. /\ Enumerates(s, a) /\ s \in Seq(Nat) /\ p \in Nat
      /\ Enumerates(t, b) /\ t \in Seq(Nat) /\ q \in Nat
      /\ n \in Nat /\ a \o b \in Seq(Byte)
  BY NewlinesEnumerate DEF Enumerates
<1>2. u = s \o Shifted(t, n)
  BY NewlinesConcat
<1>3. IF p = 0 THEN n = 0 ELSE s[p] = n
  BY WholeEndsThere
<1>4. Lines(a) = [k \in 1 .. p |-> SubSeq(a, From(s, k), s[k] - 1)]
  BY DEF Lines
<1>5. Lines(b) = [k \in 1 .. q |-> SubSeq(b, From(t, k), t[k] - 1)]
  BY DEF Lines
<1>6. Lines(a \o b) = [k \in 1 .. Len(u) |-> SubSeq(a \o b, From(u, k), u[k] - 1)]
  BY DEF Lines
<1>7. /\ \A k \in 1 .. p : s[k] \in 1 .. n
      /\ \A k \in 1 .. q : t[k] \in 1 .. Len(b)
      /\ \A j, k \in 1 .. p : j < k => s[j] < s[k]
      /\ \A j, k \in 1 .. q : j < k => t[j] < t[k]
  BY <1>1 DEF Enumerates
<1> HIDE DEF s, t, n
<1>8. /\ Len(u) = p + q
      /\ \A k \in 1 .. p : u[k] = s[k]
      /\ \A k \in 1 .. q : u[p + k] = t[k] + n
  <2>1. Shifted(t, n) \in Seq(Nat) /\ Len(Shifted(t, n)) = q
    BY <1>1 DEF Shifted
  <2>2. \A k \in 1 .. q : Shifted(t, n)[k] = t[k] + n
    BY <1>1 DEF Shifted
  <2> HIDE DEF u, p, q
  <2>3. Len(s) = p /\ Len(t) = q
    BY DEF p, q
  <2>4. /\ Len(s \o Shifted(t, n)) = p + q
        /\ \A k \in 1 .. p : (s \o Shifted(t, n))[k] = s[k]
        /\ \A k \in 1 .. q : (s \o Shifted(t, n))[p + k] = Shifted(t, n)[k]
    <3> DEFINE v == Shifted(t, n)
    <3> HIDE DEF v
    <3>1. s \in Seq(Nat) /\ v \in Seq(Nat)
      BY <1>1, <2>1 DEF v
    <3>2. /\ Len(s \o v) = Len(s) + Len(v)
          /\ \A k \in 1 .. Len(s) : (s \o v)[k] = s[k]
          /\ \A k \in 1 .. Len(v) : (s \o v)[Len(s) + k] = v[k]
      BY <3>1, ConcatPointwise
    <3>3. Len(v) = q
      BY <2>1 DEF v
    <3> QED BY <2>3, <3>2, <3>3 DEF v
  <2> QED BY <1>2, <2>2, <2>4
<1> HIDE DEF u, p, q
<1>9. /\ Lines(a) \in Seq(Seq(Byte)) /\ Lines(b) \in Seq(Seq(Byte)) /\ Lines(a \o b) \in Seq(Seq(Byte))
      /\ Len(Lines(a)) = p /\ Len(Lines(b)) = q /\ Len(Lines(a \o b)) = p + q
  BY <1>1, <1>8, LinesType DEF s, t, u, p, q
<1>10. ASSUME NEW k \in 1 .. p PROVE Lines(a \o b)[k] = Lines(a)[k]
  <2>1. From(u, k) = From(s, k) /\ u[k] = s[k]
    BY <1>1, <1>8
  <2>2. k # 1 => k - 1 \in 1 .. p
    BY <1>1
  <2>3. From(s, k) \in Nat \ {0} /\ s[k] - 1 \in Nat /\ s[k] - 1 <= n
    BY <1>1, <1>7, <2>2
  <2> HIDE DEF From
  <2>4. SubSeq(a \o b, From(s, k), s[k] - 1) = SubSeq(a, From(s, k), s[k] - 1)
    BY <2>3, PiecesOfConcat DEF n
  <2>5. k \in 1 .. Len(u)
    BY <1>1, <1>8
  <2> QED BY <1>4, <1>6, <2>1, <2>4, <2>5
<1>11. ASSUME NEW k \in 1 .. q PROVE Lines(a \o b)[p + k] = Lines(b)[k]
  <2>1. k # 1 => k - 1 \in 1 .. q /\ p + k - 1 = p + (k - 1)
    BY <1>1
  <2>2. t[k] \in 1 .. Len(b) /\ (k # 1 => t[k - 1] \in 1 .. Len(b))
    BY <1>7, <2>1
  <2>3. From(u, p + k) = n + From(t, k)
    <3>1. CASE k # 1
      <4>1. u[p + k - 1] = t[k - 1] + n /\ p + k # 1
        BY <1>1, <1>8, <2>1, <3>1
      <4> QED BY <1>1, <2>2, <3>1, <4>1
    <3>2. CASE k = 1 /\ p = 0
      BY <1>1, <1>3, <3>2
    <3>3. CASE k = 1 /\ p # 0
      <4>1. p \in 1 .. p /\ p + k # 1 /\ p + k - 1 = p
        BY <1>1, <3>3
      <4>2. u[p] = n
        BY <1>3, <1>8, <3>3, <4>1
      <4> QED BY <1>1, <3>3, <4>1, <4>2
    <3> QED BY <3>1, <3>2, <3>3
  <2>4. u[p + k] - 1 = n + (t[k] - 1)
    BY <1>1, <1>8, <2>2
  <2>5. From(t, k) \in Nat \ {0} /\ t[k] - 1 \in Nat /\ t[k] - 1 <= Len(b)
    BY <2>2
  <2> HIDE DEF From
  <2>6. SubSeq(a \o b, n + From(t, k), n + (t[k] - 1)) = SubSeq(b, From(t, k), t[k] - 1)
    BY <2>5, PiecesOfConcat DEF n
  <2>7. p + k \in 1 .. Len(u)
    BY <1>1, <1>8
  <2> QED BY <1>5, <1>6, <2>3, <2>4, <2>6, <2>7
<1> DEFINE x == Lines(a)
           y == Lines(b)
           z == Lines(a \o b)
<1>12. x \in Seq(Seq(Byte)) /\ y \in Seq(Seq(Byte)) /\ z \in Seq(Seq(Byte))
  BY <1>9
<1>13. /\ Len(z) = Len(x) + Len(y)
       /\ \A k \in 1 .. Len(x) : z[k] = x[k]
       /\ \A k \in 1 .. Len(y) : z[Len(x) + k] = y[k]
  BY <1>9, <1>10, <1>11
<1> HIDE DEF x, y, z
<1>14. z = x \o y
  BY <1>12, <1>13, IsConcat
<1> QED BY <1>14 DEF x, y, z

\* Bytes without a newline are no line; a newline makes them one.
LEMMA LinesOfTail ==
  ASSUME NEW c \in Seq(Byte), \A i \in 1 .. Len(c) : c[i].part # "nl"
  PROVE  /\ Lines(c) = <<>>
         /\ \A x \in Byte : x.part = "nl" => Lines(Append(c, x)) = <<c>>
<1>1. Newlines(c) = <<>>
  <2>1. Enumerates(Newlines(c), c)
    BY NewlinesEnumerate
  <2>2. Newlines(c) \in Seq(Nat) /\ Len(Newlines(c)) = 0
    <3> SUFFICES ASSUME Newlines(c) \in Seq(Nat), Len(Newlines(c)) # 0 PROVE FALSE
      BY <2>1 DEF Enumerates
    <3>1. 1 \in 1 .. Len(Newlines(c))
      OBVIOUS
    <3> QED BY <2>1, <3>1 DEF Enumerates
  <2> QED BY <2>2
<1>2. Lines(c) = <<>>
  BY <1>1 DEF Lines
<1>3. ASSUME NEW x \in Byte, x.part = "nl" PROVE Lines(Append(c, x)) = <<c>>
  <2>1. Newlines(Append(c, x)) = <<Len(c) + 1>>
    <3>1. Newlines(Append(c, x)) = Append(Newlines(c), Len(c) + 1)
      BY <1>3, NewlinesOfAppend
    <3>2. Append(<<>>, Len(c) + 1) = <<Len(c) + 1>>
      OBVIOUS
    <3> QED BY <1>1, <3>1, <3>2
  <2>2. SubSeq(Append(c, x), 1, (Len(c) + 1) - 1) = c
    OBVIOUS
  <2> QED BY <2>1, <2>2 DEF Lines
<1> QED BY <1>2, <1>3

\* The bytes up to a newline are whole, and hold the lines up to it.
LEMMA LinesOfCut ==
  ASSUME NEW b \in Seq(Byte), NEW k \in 1 .. Len(Newlines(b))
  PROVE  LET r == SubSeq(b, 1, Newlines(b)[k])
         IN  /\ r \in Seq(Byte) /\ Whole(r) /\ r # <<>> /\ Len(r) = Newlines(b)[k]
             /\ Newlines(b)[k] \in 1 .. Len(b)
             /\ Lines(r) = SubSeq(Lines(b), 1, k)
<1> DEFINE u == Newlines(b)
           e == u[k]
           r == SubSeq(b, 1, e)
           rest == SubSeq(b, e + 1, Len(b))
           s == Newlines(r)
           p == Len(s)
<1>1. Enumerates(u, b) /\ u \in Seq(Nat) /\ Len(u) \in Nat
  BY NewlinesEnumerate DEF Enumerates
<1>2. e \in 1 .. Len(b) /\ b[e].part = "nl"
  BY <1>1 DEF Enumerates
<1> HIDE DEF u, e
<1>3. /\ r \in Seq(Byte) /\ Len(r) = e /\ r[Len(r)] = b[e] /\ r # <<>>
      /\ rest \in Seq(Byte) /\ b = r \o rest
  BY <1>2
<1>4. Whole(r)
  BY <1>2, <1>3 DEF Whole
<1> HIDE DEF r, rest
<1>5. Lines(b) = Lines(r) \o Lines(rest)
  BY <1>3, <1>4, LinesConcat
<1>6. u = s \o Shifted(Newlines(rest), Len(r))
  BY <1>3, NewlinesConcat DEF u
<1>7. p # 0 /\ s[p] = e /\ s \in Seq(Nat) /\ p \in Nat
  <2>1. s \in Seq(Nat)
    BY <1>3, NewlinesEnumerate DEF Enumerates
  <2> QED BY <1>3, <1>4, <2>1, WholeEndsThere
<1>8. p \in 1 .. Len(u) /\ u[p] = e
  <2>1. Newlines(rest) \in Seq(Nat)
    BY <1>3, NewlinesEnumerate DEF Enumerates
  <2>2. Shifted(Newlines(rest), Len(r)) \in Seq(Nat)
    BY <1>3, <2>1 DEF Shifted
  <2> HIDE DEF s, p
  <2> QED BY <1>6, <1>7, <2>2 DEF p
<1>9. p = k
  <2> HIDE DEF p
  <2>1. p < k => u[p] < u[k]
    BY <1>1, <1>8 DEF Enumerates, u
  <2>2. k < p => u[k] < u[p]
    BY <1>1, <1>8 DEF Enumerates, u
  <2>3. k \in Nat /\ e \in Nat
    BY <1>2
  <2> QED BY <1>8, <2>1, <2>2, <2>3 DEF e
<1>10. Lines(r) = SubSeq(Lines(b), 1, k)
  <2>1. Lines(r) \in Seq(Seq(Byte)) /\ Lines(rest) \in Seq(Seq(Byte)) /\ Len(Lines(r)) = k
    BY <1>3, <1>9, LinesType
  <2> QED BY <1>5, <2>1
<1> QED BY <1>2, <1>3, <1>4, <1>10 DEF r, e, u

-----------------------------------------------------------------------------
(* Events                                                                  *)

Told == Word \cup {Unparseable}

\* A line tells of one event, or does not parse.
LEMMA ParsedIsTold == \A line \in Seq(Byte) : Parsed(line) \in Told
<1> SUFFICES ASSUME NEW line \in Seq(Byte) PROVE Parsed(line) \in Told
  OBVIOUS
<1>1. ASSUME Len(line) = 3 PROVE line[1].of \in Word
  <2>1. line[1] \in Byte
    BY <1>1
  <2> QED BY <2>1 DEF Byte
<1> QED BY <1>1 DEF Parsed, Told

\* The events of lines are as many as the lines, each told by its own.
LEMMA EventsAre ==
  ASSUME NEW x \in Seq(Seq(Byte))
  PROVE  /\ EventsOf(x) \in Seq(Told) /\ Len(EventsOf(x)) = Len(x)
         /\ \A k \in 1 .. Len(x) : EventsOf(x)[k] = Parsed(x[k])
<1>1. \A k \in 1 .. Len(x) : Parsed(x[k]) \in Told
  BY ParsedIsTold
<1> QED BY <1>1 DEF EventsOf

\* The events of two pieces are those of the first and then those of the second.
LEMMA EventsConcat ==
  ASSUME NEW x \in Seq(Seq(Byte)), NEW y \in Seq(Seq(Byte))
  PROVE  EventsOf(x \o y) = EventsOf(x) \o EventsOf(y)
<1> DEFINE w == x \o y
           ex == EventsOf(x)
           ey == EventsOf(y)
           ew == EventsOf(w)
<1>1. /\ w \in Seq(Seq(Byte)) /\ Len(w) = Len(x) + Len(y)
      /\ \A k \in 1 .. Len(x) : w[k] = x[k]
      /\ \A k \in 1 .. Len(y) : w[Len(x) + k] = y[k]
  <2> DEFINE S == Seq(Byte)
  <2>1. x \in Seq(S) /\ y \in Seq(S)
    OBVIOUS
  <2> HIDE DEF S
  <2>2. /\ w \in Seq(S) /\ Len(w) = Len(x) + Len(y)
        /\ \A k \in 1 .. Len(x) : w[k] = x[k]
        /\ \A k \in 1 .. Len(y) : w[Len(x) + k] = y[k]
    BY <2>1, ConcatPointwise
  <2> QED BY <2>2 DEF S
<1> HIDE DEF w
<1>2. /\ ex \in Seq(Told) /\ Len(ex) = Len(x) /\ \A k \in 1 .. Len(x) : ex[k] = Parsed(x[k])
      /\ ey \in Seq(Told) /\ Len(ey) = Len(y) /\ \A k \in 1 .. Len(y) : ey[k] = Parsed(y[k])
      /\ ew \in Seq(Told) /\ Len(ew) = Len(w) /\ \A k \in 1 .. Len(w) : ew[k] = Parsed(w[k])
  BY <1>1, EventsAre
<1> HIDE DEF ex, ey, ew
<1>3. Len(x) \in Nat /\ Len(y) \in Nat
  OBVIOUS
<1>4. /\ Len(ew) = Len(ex) + Len(ey)
      /\ \A k \in 1 .. Len(ex) : ew[k] = ex[k]
      /\ \A k \in 1 .. Len(ey) : ew[Len(ex) + k] = ey[k]
  BY <1>1, <1>2, <1>3
<1>5. ew = ex \o ey
  BY <1>2, <1>4, IsConcat
<1> QED BY <1>5 DEF ew, ex, ey, w

\* The events of the first lines are the first events.
LEMMA EventsOfFirst ==
  ASSUME NEW x \in Seq(Seq(Byte)), NEW k \in 0 .. Len(x)
  PROVE  EventsOf(SubSeq(x, 1, k)) = SubSeq(EventsOf(x), 1, k)
<1> DEFINE y == SubSeq(x, 1, k)
<1>1. y \in Seq(Seq(Byte)) /\ Len(y) = k /\ \A i \in 1 .. k : y[i] = x[i]
  <2> DEFINE S == Seq(Byte)
  <2>1. x \in Seq(S)
    OBVIOUS
  <2> HIDE DEF S
  <2>2. y \in Seq(S) /\ Len(y) = k /\ \A i \in 1 .. k : y[i] = x[i]
    BY <2>1
  <2> QED BY <2>2 DEF S
<1> HIDE DEF y
<1>2. /\ EventsOf(y) \in Seq(Told) /\ Len(EventsOf(y)) = k
      /\ \A i \in 1 .. k : EventsOf(y)[i] = Parsed(y[i])
  BY <1>1, EventsAre
<1>3. /\ EventsOf(x) \in Seq(Told) /\ Len(EventsOf(x)) = Len(x)
      /\ \A i \in 1 .. Len(x) : EventsOf(x)[i] = Parsed(x[i])
  BY EventsAre
<1>4. \A i \in 1 .. k : EventsOf(y)[i] = EventsOf(x)[i]
  BY <1>1, <1>2, <1>3
<1>5. EventsOf(y) = SubSeq(EventsOf(x), 1, k)
  <2> DEFINE u == EventsOf(x)
             v == EventsOf(y)
  <2>1. u \in Seq(Told) /\ v \in Seq(Told) /\ Len(v) = k /\ k \in 0 .. Len(u)
        /\ \A i \in 1 .. k : v[i] = u[i]
    BY <1>2, <1>3, <1>4
  <2> HIDE DEF u, v
  <2>2. v = SubSeq(u, 1, k)
    BY <2>1
  <2> QED BY <2>2 DEF u, v
<1> QED BY <1>5 DEF y

-----------------------------------------------------------------------------
(* What is written                                                         *)

\* What the orchestrator leaves of a line when it writes n bytes of it
Piece(e, n) == SubSeq(Line(e), 1, n)

\* A piece of n bytes is the first n bytes of the line.
LEMMA PieceIs ==
  ASSUME NEW e \in Word, NEW n \in 0 .. 4
  PROVE  /\ Piece(e, n) \in Seq(Byte) /\ Len(Piece(e, n)) = n
         /\ \A i \in 1 .. n : Piece(e, n)[i] = [part |-> Parts[i], of |-> e]
         /\ Line(e) = Piece(e, 4)
<1>1. \A i \in 1 .. 4 : Parts[i] \in {"text", "lead", "trail", "nl"}
  BY DEF Parts
<1>2. Line(e) \in Seq(Byte) /\ Len(Line(e)) = 4
      /\ \A i \in 1 .. 4 : Line(e)[i] = [part |-> Parts[i], of |-> e]
  <2>1. \A i \in 1 .. 4 : [part |-> Parts[i], of |-> e] \in Byte
    BY <1>1 DEF Byte
  <2>2. Line(e) = [i \in 1 .. 4 |-> [part |-> Parts[i], of |-> e]]
    BY DEF Line
  <2> HIDE DEF Line, Byte
  <2> QED BY <2>1, <2>2
<1> DEFINE l == Line(e)
           w == SubSeq(l, 1, n)
<1>3. l \in Seq(Byte) /\ Len(l) = 4
  BY <1>2
<1> HIDE DEF l
<1>4. /\ w \in Seq(Byte) /\ Len(w) = n /\ (\A i \in 1 .. n : w[i] = l[i])
      /\ l = SubSeq(l, 1, 4)
  <2>1. n \in 0 .. Len(l)
    BY <1>3
  <2> QED BY <1>3, <2>1, FirstOf
<1>5. \A i \in 1 .. n : w[i] = [part |-> Parts[i], of |-> e]
  <2> HIDE DEF w
  <2>1. \A i \in 1 .. n : i \in 1 .. 4
    OBVIOUS
  <2> QED BY <1>2, <1>4, <2>1 DEF l
<1> HIDE DEF Parts
<1> QED BY <1>4, <1>5 DEF Piece, l

\* A step of the orchestrator leaves the log as it is, or adds a piece of a line.
Adds(e, n) == log' = log \o Piece(e, n)
Grows == log' = log \/ \E e \in Event, n \in Tears \cup {4} : Adds(e, n)

\* recordEvent adds a line.
LEMMA RecordAdds ==
  ASSUME LogTypeOK, NEW what \in Parents \cup {"note"}, NEW known, Record(what, known)
  PROVE  /\ written' \in 0 .. MaxEvents
         /\ \E e \in Event : e[1] = what /\ Adds(e, 4)
<1> DEFINE e == <<what, written + 1>>
<1>1. written + 1 \in 1 .. MaxEvents /\ written' = written + 1
  BY EventLogAssumption DEF Record, LogTypeOK
<1>2. e \in Event /\ e \in Word /\ e[1] = what
  BY <1>1 DEF Event, Word
<1>3. log' = log \o Line(e)
  BY DEF Record
<1> HIDE DEF e
<1>4. Line(e) = Piece(e, 4)
  <2>1. 4 \in 0 .. 4
    OBVIOUS
  <2> QED BY <1>2, <2>1, PieceIs
<1>5. Adds(e, 4)
  BY <1>3, <1>4 DEF Adds
<1>6. written' \in 0 .. MaxEvents
  BY <1>1, EventLogAssumption
<1> QED BY <1>2, <1>5, <1>6

\* Every step of the orchestrator does so (recordEvent appends, and so does the
\* write that a crash cuts short).
LEMMA LogGrows == LogTypeOK /\ LogNext => Grows
<1> SUFFICES ASSUME LogTypeOK, LogNext PROVE Grows
  OBVIOUS
<1>1. CASE Work
  BY <1>1, RecordAdds DEF Work, Grows
<1>2. CASE Save
  BY <1>2 DEF Save, Grows
<1>3. CASE Resume
  BY <1>3 DEF Resume, Grows
<1>4. CASE ResumeRequested
  BY <1>4, RecordAdds DEF ResumeRequested, Grows
<1>5. CASE Die
  <2>1. CASE UNCHANGED <<log, written>>
    BY <2>1 DEF Grows
  <2>2. CASE \E what \in Writing, bytes \in Tears :
               /\ log' = log \o SubSeq(Line(<<what, written + 1>>), 1, bytes)
               /\ written' = written + 1
    <3>1. PICK what \in Writing, bytes \in Tears :
            log' = log \o SubSeq(Line(<<what, written + 1>>), 1, bytes)
      BY <2>2
    <3>2. what \in Parents \cup {"note"} /\ written # MaxEvents
      BY <3>1 DEF Writing
    <3>3. written + 1 \in 1 .. MaxEvents
      BY <3>2, EventLogAssumption DEF LogTypeOK
    <3>4. <<what, written + 1>> \in Event
      BY <3>2, <3>3 DEF Event
    <3> QED BY <3>1, <3>4 DEF Grows, Adds, Piece
  <2> QED BY <1>5, <2>1, <2>2 DEF Die
<1>6. ASSUME NEW p \in Parents, Expand(p) PROVE Grows
  BY <1>6, RecordAdds DEF Expand, Grows
<1>7. ASSUME NEW p \in Parents, Replay(p) PROVE Grows
  BY <1>7, RecordAdds DEF Replay, Grows
<1> QED BY <1>1, <1>2, <1>3, <1>4, <1>5, <1>6, <1>7 DEF LogNext

\* What is recorded is what a byte may be of.
LEMMA EventsAreWords == Event \subseteq Word
BY EventLogAssumption DEF Event, Word

\* What is in the log stays there, and what comes behind it are parts of events.
LEMMA Grown ==
  ASSUME log \in Seq(Byte), Grows
  PROVE  /\ log' \in Seq(Byte) /\ Len(log) <= Len(log')
         /\ \A i \in 1 .. Len(log) : log'[i] = log[i]
         /\ \A i \in 1 .. Len(log') : i > Len(log) => log'[i].of \in Event
         /\ \A i \in Nat \ {0}, j \in 0 .. Len(log) : SubSeq(log', i, j) = SubSeq(log, i, j)
<1>1. CASE log' = log
  BY <1>1
<1>2. ASSUME NEW e \in Event, NEW n \in Tears \cup {4}, Adds(e, n)
      PROVE  /\ log' \in Seq(Byte) /\ Len(log) <= Len(log')
             /\ \A i \in 1 .. Len(log) : log'[i] = log[i]
             /\ \A i \in 1 .. Len(log') : i > Len(log) => log'[i].of \in Event
             /\ \A i \in Nat \ {0}, j \in 0 .. Len(log) : SubSeq(log', i, j) = SubSeq(log, i, j)
  <2> DEFINE w == Piece(e, n)
             m == Len(log)
             new == log \o w
  <2>1. /\ w \in Seq(Byte) /\ Len(w) = n /\ n \in 0 .. 4
        /\ \A i \in 1 .. n : w[i] = [part |-> Parts[i], of |-> e]
    <3>1. e \in Word /\ n \in 0 .. 4
      BY EventLogAssumption, EventsAreWords
    <3> QED BY <3>1, PieceIs
  <2>2. log' = new
    BY <1>2 DEF Adds
  <2>3. m \in Nat
    BY DEF m
  <2> HIDE DEF w
  <2>4. /\ new \in Seq(Byte) /\ Len(new) = m + n
        /\ \A i \in 1 .. m : new[i] = log[i]
        /\ \A i \in 1 .. n : new[m + i] = w[i]
    BY <2>1, ConcatPointwise
  <2>5. \A i \in Nat \ {0}, j \in 0 .. m : SubSeq(new, i, j) = SubSeq(log, i, j)
    BY <2>1, PiecesOfConcat
  <2> HIDE DEF new, m
  <2>6. ASSUME NEW i \in 1 .. Len(new), i > m PROVE new[i].of \in Event
    <3>1. i - m \in 1 .. n /\ i = m + (i - m)
      BY <2>1, <2>3, <2>4, <2>6
    <3>2. new[i] = w[i - m]
      BY <2>4, <3>1
    <3> QED BY <2>1, <3>1, <3>2
  <2> QED BY <2>1, <2>2, <2>3, <2>4, <2>5, <2>6 DEF m
<1> QED BY <1>1, <1>2 DEF Grows

-----------------------------------------------------------------------------
(* The log and run.json                                                    *)

EndsAt(n) == n = 0 \/ log[n].part = "nl"

\* What is saved beside the log is a place behind a whole line of it.
LogInv ==
  /\ log \in Seq(Byte)
  /\ LogTypeOK
  /\ EndsAt(disk.offset)
  /\ unsaved => EndsAt(Len(log))

\* A run begins with an empty log and nothing saved.
LEMMA LogInvInit == LogInit => LogInv
<1>1. ASSUME LogInit PROVE LogInv
  <2>1. log = <<>> /\ <<>> \in Seq(Byte) /\ Len(log) = 0
    BY <1>1 DEF LogInit
  <2>2. /\ mem = {} /\ phase = "working" /\ todo = {} /\ unsaved = FALSE /\ written = 0 /\ crashes = 0
        /\ disk = [expanded |-> {}, offset |-> 0] /\ disk.offset = 0
    BY <1>1 DEF LogInit
  <2>3. 0 \in 0 .. MaxEvents /\ 0 \in 0 .. MaxCrashes /\ 0 \in 0 .. Len(log)
    BY <2>1, EventLogAssumption
  <2>4. \A i \in 1 .. Len(log) :
          log[i].part \in {Parts[k] : k \in 1 .. 4} /\ log[i].of \in Event
    BY <2>1
  <2>5. disk \in [expanded : SUBSET Parents, offset : 0 .. Len(log)]
    BY <2>2, <2>3
  <2>6. LogTypeOK
    BY <2>2, <2>3, <2>4, <2>5 DEF LogTypeOK
  <2> QED BY <2>1, <2>2, <2>6 DEF LogInv, EndsAt
<1> QED BY <1>1

\* A line that is added ends the log.
LEMMA LineEndsLog ==
  ASSUME log \in Seq(Byte), NEW e \in Event, Adds(e, 4)
  PROVE  EndsAt(Len(log))'
<1> DEFINE w == Piece(e, 4)
           new == log \o w
<1>1. /\ w \in Seq(Byte) /\ Len(w) = 4 /\ w[4] = [part |-> Parts[4], of |-> e]
  <2>1. e \in Word /\ 4 \in 0 .. 4 /\ 4 \in 1 .. 4
    BY EventsAreWords
  <2> QED BY <2>1, PieceIs
<1> HIDE DEF w
<1>2. /\ Len(new) = Len(log) + 4 /\ new[Len(log) + 4] = w[4]
  <2>1. 4 \in 1 .. Len(w)
    BY <1>1
  <2>2. log \in Seq(Byte) /\ w \in Seq(Byte)
    BY <1>1
  <2>3. Len(new) = Len(log) + Len(w) /\ \A k \in 1 .. Len(w) : new[Len(log) + k] = w[k]
    BY <2>2, ConcatPointwise
  <2> QED BY <1>1, <2>1, <2>3
<1>3. new[Len(new)].part = "nl"
  BY <1>1, <1>2 DEF Parts
<1>4. log' = new
  BY DEF Adds, w
<1> HIDE DEF new
<1> QED BY <1>3, <1>4 DEF EndsAt

\* No step of the orchestrator saves another place.
LEMMA LogInvNext == LogInv /\ LogNext => LogInv'
<1> SUFFICES ASSUME LogInv, LogNext PROVE LogInv'
  OBVIOUS
<1>1. log \in Seq(Byte) /\ LogTypeOK /\ Grows /\ Len(log) \in Nat
  BY LogGrows DEF LogInv
<1>2. /\ log' \in Seq(Byte) /\ Len(log) <= Len(log') /\ Len(log') \in Nat
      /\ \A i \in 1 .. Len(log) : log'[i] = log[i]
      /\ \A i \in 1 .. Len(log') : i > Len(log) => log'[i].of \in Event
  BY <1>1, Grown
<1>3. \A i \in 1 .. Len(log') : log'[i].part \in {Parts[k] : k \in 1 .. 4} /\ log'[i].of \in Event
  <2> SUFFICES ASSUME NEW i \in 1 .. Len(log')
               PROVE  log'[i].part \in {Parts[k] : k \in 1 .. 4} /\ log'[i].of \in Event
    OBVIOUS
  <2>1. log'[i].part \in {"text", "lead", "trail", "nl"}
    <3>1. log'[i] \in Byte
      BY <1>2
    <3> QED BY <3>1 DEF Byte
  <2>2. {"text", "lead", "trail", "nl"} = {Parts[k] : k \in 1 .. 4}
    <3>1. 1 .. 4 = {1, 2, 3, 4}
      OBVIOUS
    <3>2. Parts[1] = "text" /\ Parts[2] = "lead" /\ Parts[3] = "trail" /\ Parts[4] = "nl"
      BY DEF Parts
    <3> QED BY <3>1, <3>2
  <2>3. i \in 1 .. Len(log) => log[i].of \in Event
    BY <1>1 DEF LogTypeOK
  <2>4. i \in 1 .. Len(log) \/ i > Len(log)
    BY <1>1
  <2> QED BY <1>2, <2>1, <2>2, <2>3, <2>4
\* What the log ended with stays where it was.
<1>4. ASSUME NEW n \in 0 .. Len(log), EndsAt(n), NEW m, m = n PROVE m \in 0 .. Len(log') /\ (m = 0 \/ log'[m].part = "nl")
  BY <1>1, <1>2, <1>4 DEF EndsAt
<1>5. disk \in [expanded : SUBSET Parents, offset : 0 .. Len(log)] /\ EndsAt(disk.offset)
  BY DEF LogInv, LogTypeOK
<1>6. ASSUME disk' = disk
      PROVE  disk' \in [expanded : SUBSET Parents, offset : 0 .. Len(log')] /\ EndsAt(disk.offset)'
  <2>1. disk.offset \in 0 .. Len(log)
    BY <1>5
  <2>2. disk.offset \in 0 .. Len(log') /\ (disk.offset = 0 \/ log'[disk.offset].part = "nl")
    BY <1>4, <1>5, <2>1
  <2> QED BY <1>5, <1>6, <2>2 DEF EndsAt
<1>7. CASE Save
  <2>1. /\ log' = log /\ disk' = [expanded |-> mem, offset |-> Len(log)] /\ unsaved' = FALSE
        /\ mem' = mem /\ phase' = phase /\ todo' = todo /\ written' = written /\ crashes' = crashes
        /\ EndsAt(Len(log)) /\ mem \subseteq Parents
    BY <1>7 DEF Save, LogInv, LogTypeOK
  <2>2. disk' \in [expanded : SUBSET Parents, offset : 0 .. Len(log')] /\ EndsAt(disk.offset)'
    BY <1>1, <2>1 DEF EndsAt
  <2> QED BY <1>1, <1>2, <1>3, <2>1, <2>2 DEF LogInv, LogTypeOK
\* Every other step leaves run.json alone.
<1>8. ASSUME disk' = disk,
             mem' \subseteq Parents, todo' \subseteq Parents, phase' \in {"working", "down", "resuming"},
             unsaved' \in BOOLEAN, written' \in 0 .. MaxEvents, crashes' \in 0 .. MaxCrashes,
             unsaved' => EndsAt(Len(log))'
      PROVE  LogInv'
  BY <1>2, <1>3, <1>6, <1>8 DEF LogInv, LogTypeOK
<1>9. ASSUME NEW what \in Parents \cup {"note"}, NEW known, known \subseteq Parents, Record(what, known),
             todo' \subseteq Parents, phase' \in {"working", "down", "resuming"}
      PROVE  LogInv'
  <2>1. written' \in 0 .. MaxEvents /\ \E e \in Event : Adds(e, 4)
    BY <1>1, <1>9, RecordAdds
  <2>2. EndsAt(Len(log))'
    BY <1>1, <2>1, LineEndsLog
  <2>3. disk' = disk /\ mem' = known /\ unsaved' = TRUE /\ crashes' = crashes /\ crashes \in 0 .. MaxCrashes
    BY <1>1, <1>9 DEF Record, LogTypeOK
  <2> QED BY <1>8, <1>9, <2>1, <2>2, <2>3
<1>10. mem \subseteq Parents /\ todo \subseteq Parents /\ phase \in {"working", "down", "resuming"}
       /\ written \in 0 .. MaxEvents /\ crashes \in 0 .. MaxCrashes /\ unsaved \in BOOLEAN
  BY <1>1 DEF LogTypeOK
<1>11. CASE Work
  BY <1>9, <1>10, <1>11 DEF Work
<1>12. CASE Resume
  <2>1. ExpandedIn(log) \subseteq Parents
    BY DEF ExpandedIn
  <2>2. disk.expanded \subseteq Parents
    BY <1>5
  <2>3. /\ mem' = disk.expanded /\ todo' = ExpandedIn(log) \ disk.expanded /\ phase' = "resuming"
        /\ log' = log /\ disk' = disk /\ unsaved' = unsaved /\ written' = written /\ crashes' = crashes
    BY <1>12 DEF Resume
  <2>4. unsaved' => EndsAt(Len(log))'
    BY <2>3 DEF LogInv, EndsAt
  <2> QED BY <1>8, <1>10, <2>1, <2>2, <2>3, <2>4
<1>13. CASE ResumeRequested
  BY <1>9, <1>10, <1>13 DEF ResumeRequested
<1>14. CASE Die
  <2>1. /\ crashes' = crashes + 1 /\ crashes < MaxCrashes /\ phase' = "down" /\ unsaved' = FALSE
        /\ todo' = {} /\ mem' = {} /\ disk' = disk
    BY <1>14 DEF Die
  <2>2. written' \in 0 .. MaxEvents
    <3>1. written' = written \/ (written' = written + 1 /\ written # MaxEvents)
      BY <1>14 DEF Die, Writing
    <3> QED BY <1>10, <3>1, EventLogAssumption
  <2>3. crashes' \in 0 .. MaxCrashes
    BY <1>10, <2>1, EventLogAssumption
  <2> QED BY <1>8, <2>1, <2>2, <2>3
<1>15. ASSUME NEW p \in Parents, Expand(p) PROVE LogInv'
  BY <1>9, <1>10, <1>15 DEF Expand
<1>16. ASSUME NEW p \in Parents, Replay(p) PROVE LogInv'
  BY <1>9, <1>10, <1>16 DEF Replay
<1> QED BY <1>7, <1>11, <1>12, <1>13, <1>14, <1>15, <1>16 DEF LogNext

\* The steps of a client change none of it.
LEMMA LogInvStutters == LogInv /\ UNCHANGED logVars => LogInv'
BY DEF LogInv, LogTypeOK, EndsAt, logVars

-----------------------------------------------------------------------------
(* The client                                                              *)

\* Neither half of a character is without the other.
WholeCharacters(b) ==
  \A i \in 1 .. Len(b) :
    /\ b[i].part = "lead" => i + 1 \in 1 .. Len(b) /\ b[i + 1].part = "trail"
    /\ b[i].part = "trail" => i - 1 \in 1 .. Len(b) /\ b[i - 1].part = "lead"

\* A piece that is not torn within the character keeps the log so.
LEMMA WholeCharactersStay ==
  ASSUME 2 \notin Tears, log \in Seq(Byte), WholeCharacters(log), Grows
  PROVE  WholeCharacters(log)'
<1>1. CASE log' = log
  BY <1>1 DEF WholeCharacters
<1>2. ASSUME NEW e \in Event, NEW n \in Tears \cup {4}, Adds(e, n) PROVE WholeCharacters(log)'
  <2> DEFINE w == Piece(e, n)
             m == Len(log)
             new == log \o w
  <2>1. n \in {0, 1, 3, 4}
    BY EventLogAssumption
  <2>2. /\ w \in Seq(Byte) /\ Len(w) = n
        /\ \A i \in 1 .. n : w[i].part = Parts[i]
    <3>1. e \in Word /\ n \in 0 .. 4
      BY <2>1, EventsAreWords
    <3> HIDE DEF Parts
    <3>2. /\ w \in Seq(Byte) /\ Len(w) = n
          /\ \A i \in 1 .. n : w[i] = [part |-> Parts[i], of |-> e]
      BY <3>1, PieceIs
    <3> HIDE DEF w
    <3> QED BY <3>2
  <2> HIDE DEF w
  <2>3. /\ new \in Seq(Byte) /\ Len(new) = m + n
        /\ \A i \in 1 .. m : new[i] = log[i]
        /\ \A i \in 1 .. n : new[m + i] = w[i]
    <3>1. /\ new \in Seq(Byte) /\ Len(new) = Len(log) + Len(w)
          /\ \A k \in 1 .. Len(log) : new[k] = log[k]
          /\ \A k \in 1 .. Len(w) : new[Len(log) + k] = w[k]
      <4>1. log \in Seq(Byte) /\ w \in Seq(Byte)
        BY <2>2
      <4> HIDE DEF m
      <4> QED BY <4>1, ConcatPointwise
    <3> HIDE DEF new
    <3> QED BY <2>2, <3>1
  <2>4. m \in Nat
    OBVIOUS
  <2>5. log' = new
    BY <1>2 DEF Adds, w
  <2> HIDE DEF new
  <2>6. ASSUME NEW i \in 1 .. m
        PROVE  /\ new[i].part = "lead" => i + 1 \in 1 .. Len(new) /\ new[i + 1].part = "trail"
               /\ new[i].part = "trail" => i - 1 \in 1 .. Len(new) /\ new[i - 1].part = "lead"
    <3>1. /\ log[i].part = "lead" => i + 1 \in 1 .. m /\ log[i + 1].part = "trail"
          /\ log[i].part = "trail" => i - 1 \in 1 .. m /\ log[i - 1].part = "lead"
      BY DEF WholeCharacters
    <3>2. 1 .. m \subseteq 1 .. Len(new)
      BY <2>1, <2>3, <2>4
    <3> HIDE DEF m
    <3> QED BY <2>3, <3>1, <3>2
  <2>7. ASSUME NEW j \in 1 .. n
        PROVE  /\ w[j].part = "lead" => j + 1 \in 1 .. n /\ w[j + 1].part = "trail"
               /\ w[j].part = "trail" => j - 1 \in 1 .. n /\ w[j - 1].part = "lead"
    <3>1. Parts[1] = "text" /\ Parts[2] = "lead" /\ Parts[3] = "trail" /\ Parts[4] = "nl"
      BY DEF Parts
    <3>2. j \in {1, 2, 3, 4} /\ (j \in {2, 3} => n \in {3, 4})
      BY <2>1
    <3>3. CASE j = 1
      BY <2>2, <3>1, <3>3
    <3>4. CASE j = 2
      <4>1. 3 \in 1 .. n
        BY <2>1, <3>2, <3>4
      <4> QED BY <2>2, <3>1, <3>4, <4>1
    <3>5. CASE j = 3
      <4>1. 2 \in 1 .. n
        BY <2>1, <3>2, <3>5
      <4> QED BY <2>2, <3>1, <3>5, <4>1
    <3>6. CASE j = 4
      BY <2>2, <3>1, <3>6
    <3> QED BY <3>2, <3>3, <3>4, <3>5, <3>6
  <2>8. ASSUME NEW i \in 1 .. Len(new), i > m
        PROVE  /\ new[i].part = "lead" => i + 1 \in 1 .. Len(new) /\ new[i + 1].part = "trail"
               /\ new[i].part = "trail" => i - 1 \in 1 .. Len(new) /\ new[i - 1].part = "lead"
    <3> DEFINE j == i - m
    <3>1. j \in 1 .. n /\ i = m + j /\ i + 1 = m + (j + 1) /\ i - 1 = m + (j - 1)
      BY <2>1, <2>3, <2>4, <2>8
    <3>2. \A k \in 1 .. n : m + k \in 1 .. Len(new) /\ new[m + k] = w[k]
      BY <2>1, <2>3, <2>4
    <3> HIDE DEF j, m
    <3> QED BY <2>7, <3>1, <3>2
  <2>9. WholeCharacters(new)
    <3>1. \A i \in 1 .. Len(new) : i \in 1 .. m \/ i > m
      BY <2>4
    <3> HIDE DEF m
    <3> QED BY <2>6, <2>8, <3>1 DEF WholeCharacters
  <2> QED BY <2>5, <2>9 DEF WholeCharacters
<1> QED BY <1>1, <1>2 DEF Grows

\* What a client that has come to n bytes is given by an answer of the command:
\* nothing, or whole lines behind them.
LEMMA AnswerIsWhole ==
  ASSUME log \in Seq(Byte), WholeCharacters(log), EndsAt(cursor), cursor \in 0 .. Len(log),
         NEW limit \in Nat
  PROVE  LET answer == ReadEvents(SubSeq(log, cursor + 1, Len(log)), cursor, limit)
         IN  \/ answer.events = <<>> /\ answer.next = cursor
             \/ /\ answer.next \in cursor .. Len(log) /\ EndsAt(answer.next)
                /\ SubSeq(log, cursor + 1, answer.next) \in Seq(Byte)
                /\ answer.events = EventsOf(Lines(SubSeq(log, cursor + 1, answer.next)))
<1> DEFINE c == SubSeq(log, cursor + 1, Len(log))
           ends == Newlines(c)
           last == IF limit < Len(ends) THEN limit ELSE Len(ends)
           consumed == IF last = 0 THEN 0 ELSE ends[last]
           answer == ReadEvents(c, cursor, limit)
<1>1. Len(log) \in Nat /\ cursor \in Nat
  OBVIOUS
<1>2. CASE cursor >= Len(log)
  <2>1. answer = [events |-> <<>>, next |-> Len(log)]
    BY <1>2 DEF ReadEvents
  <2>2. Len(log) = cursor
    BY <1>1, <1>2
  <2> QED BY <2>1, <2>2
<1>3. CASE ~ (cursor >= Len(log))
  <2>1. cursor < Len(log)
    BY <1>1, <1>3
  <2>2. /\ c \in Seq(Byte) /\ Len(c) = Len(log) - cursor
        /\ \A i \in 1 .. Len(c) : c[i] = log[cursor + i]
    BY <1>1, <2>1
  <2> HIDE DEF c
  <2>3. ends \in Seq(Nat) /\ Len(ends) \in Nat /\ last \in 0 .. Len(ends)
    BY <2>2, NewlinesEnumerate DEF Enumerates
  <2>4. answer = [events |-> SubSeq(EventsOf(Lines(c)), 1, last),
                  next |-> cursor + consumed + 2 * Cardinality(Halves(c) \cap 1 .. consumed)]
    BY <1>3 DEF ReadEvents
  <2>5. CASE last = 0
    <3>1. consumed = 0 /\ Halves(c) \cap 1 .. consumed = {}
      BY <2>5
    <3>2. answer.next = cursor
      <4>1. Cardinality(Halves(c) \cap 1 .. consumed) = 0
        BY <3>1, FS_EmptySet
      <4> HIDE DEF consumed, last
      <4>2. cursor + consumed + 2 * 0 = cursor
        BY <1>1, <3>1
      <4> QED BY <2>4, <4>1, <4>2
    <3>3. SubSeq(EventsOf(Lines(c)), 1, 0) = <<>>
      <4> DEFINE l == EventsOf(Lines(c))
      <4>1. l \in Seq(Told)
        BY <2>2, LinesType, EventsAre
      <4> HIDE DEF l
      <4>2. SubSeq(l, 1, 0) = <<>>
        BY <4>1
      <4> QED BY <4>2 DEF l
    <3> QED BY <2>4, <2>5, <3>2, <3>3 DEF c
  <2>6. CASE last # 0
    <3> DEFINE r == SubSeq(c, 1, consumed)
    <3>1. last \in 1 .. Len(ends) /\ consumed = ends[last]
      BY <2>3, <2>6
    <3> HIDE DEF last
    <3>2. /\ consumed \in 1 .. Len(c) /\ r \in Seq(Byte) /\ Whole(r) /\ r # <<>>
          /\ Len(r) = consumed /\ Lines(r) = SubSeq(Lines(c), 1, last)
      BY <2>2, <3>1, LinesOfCut
    <3> HIDE DEF ends, consumed
    <3>3. c[consumed].part = "nl"
      <4>1. r[consumed] = c[consumed]
        BY <2>2, <3>2
      <4> HIDE DEF r
      <4> QED BY <3>2, <4>1 DEF Whole
    <3>4. Halves(c) \cap 1 .. consumed = {}
      <4> SUFFICES ASSUME NEW i \in Halves(c), i \in 1 .. consumed PROVE FALSE
        OBVIOUS
      <4>1. i \in 1 .. Len(c) /\ i \in Nat
        BY DEF Halves
      <4>2. c[i] = log[cursor + i] /\ cursor + i \in 1 .. Len(log)
        BY <1>1, <2>2, <4>1
      <4>3. CASE c[i].part = "lead"
        <5>1. cursor + i + 1 \in 1 .. Len(log) /\ log[cursor + i + 1].part = "trail"
          BY <4>2, <4>3 DEF WholeCharacters
        <5>2. i + 1 \in 1 .. Len(c) /\ c[i + 1] = log[cursor + (i + 1)]
              /\ cursor + (i + 1) = cursor + i + 1
          BY <1>1, <2>2, <4>1, <5>1
        <5>3. c[i + 1].part = "trail" /\ i # Len(c)
          BY <2>2, <5>1, <5>2
        <5> QED BY <4>3, <5>3 DEF Halves
      <4>4. CASE c[i].part = "trail"
        <5>1. cursor + i - 1 \in 1 .. Len(log) /\ log[cursor + i - 1].part = "lead"
          BY <4>2, <4>4 DEF WholeCharacters
        <5>2. i # 1
          <6> SUFFICES ASSUME i = 1 PROVE FALSE
            OBVIOUS
          <6>1. cursor + i - 1 = cursor
            BY <1>1
          <6>2. cursor # 0 /\ log[cursor].part = "lead"
            BY <1>1, <5>1, <6>1
          <6> QED BY <6>2 DEF EndsAt
        <5>3. i - 1 \in 1 .. Len(c) /\ c[i - 1] = log[cursor + (i - 1)]
              /\ cursor + (i - 1) = cursor + i - 1
          BY <1>1, <2>2, <4>1, <5>2
        <5>4. c[i - 1].part = "lead"
          BY <5>1, <5>3
        <5> QED BY <4>4, <5>2, <5>4 DEF Halves
      <4>5. c[i].part = "lead" \/ c[i].part = "trail"
        BY DEF Halves
      <4> QED BY <4>3, <4>4, <4>5
    <3>5. answer.next = cursor + consumed
      <4>1. Cardinality(Halves(c) \cap 1 .. consumed) = 0
        BY <3>4, FS_EmptySet
      <4> QED BY <1>1, <2>4, <3>2, <4>1
    <3>6. answer.next \in cursor .. Len(log) /\ EndsAt(answer.next)
      <4>1. cursor + consumed \in cursor .. Len(log) /\ c[consumed] = log[cursor + consumed]
        BY <1>1, <2>2, <3>2
      <4> QED BY <3>3, <3>5, <4>1 DEF EndsAt
    <3>7. r = SubSeq(log, cursor + 1, cursor + consumed)
      <4>1. consumed \in 0 .. Len(log) - cursor
        BY <1>1, <2>2, <3>2
      <4> QED BY <4>1, FirstOfRest DEF c
    <3>8. answer.events = EventsOf(Lines(r))
      <4>1. Lines(c) \in Seq(Seq(Byte)) /\ Len(Lines(c)) = Len(Newlines(c))
        BY <2>2, LinesType
      <4>2. last \in 0 .. Len(Lines(c))
        BY <3>1, <4>1 DEF ends
      <4>3. EventsOf(SubSeq(Lines(c), 1, last)) = SubSeq(EventsOf(Lines(c)), 1, last)
        BY <4>1, <4>2, EventsOfFirst
      <4>4. answer.events = SubSeq(EventsOf(Lines(c)), 1, last)
        <5> HIDE DEF answer
        <5> QED BY <2>4
      <4> HIDE DEF r, answer
      <4> QED BY <3>2, <4>3, <4>4
    <3> HIDE DEF r, answer
    <3>9. \/ answer.events = <<>> /\ answer.next = cursor
          \/ /\ answer.next \in cursor .. Len(log) /\ EndsAt(answer.next)
             /\ SubSeq(log, cursor + 1, answer.next) \in Seq(Byte)
             /\ answer.events = EventsOf(Lines(SubSeq(log, cursor + 1, answer.next)))
      BY <3>2, <3>5, <3>6, <3>7, <3>8
    <3> QED BY <3>9 DEF answer, c
  <2> QED BY <2>5, <2>6
<1> QED BY <1>2, <1>3

\* The log as it is, and a client that is in step with it
FollowInv ==
  /\ LogInv
  /\ WholeCharacters(log)
  /\ start \in 0 .. Len(log) /\ cursor \in start .. Len(log)
  /\ InStep

\* Between two ends of lines there are whole lines, or nothing.
LEMMA BetweenEnds ==
  ASSUME log \in Seq(Byte), start \in 0 .. Len(log), cursor \in start .. Len(log), EndsAt(cursor)
  PROVE  SubSeq(log, start + 1, cursor) \in Seq(Byte) /\ Whole(SubSeq(log, start + 1, cursor))
<1> DEFINE a == SubSeq(log, start + 1, cursor)
<1>1. Len(log) \in Nat /\ start \in Nat /\ cursor \in Nat /\ start <= cursor /\ cursor <= Len(log)
  OBVIOUS
<1>2. a \in Seq(Byte) /\ Len(a) = cursor - start /\ \A i \in 1 .. cursor - start : a[i] = log[start + i]
  <2>1. a \in Seq(Byte)
    BY <1>1
  <2>2. Len(a) = cursor - start
    BY <1>1
  <2>3. \A i \in 1 .. cursor - start : a[i] = log[start + i]
    BY <1>1
  <2> QED BY <2>1, <2>2, <2>3
<1> HIDE DEF a
<1>3. CASE cursor = start
  <2>1. a = <<>>
    BY <1>1, <1>2, <1>3
  <2> QED BY <1>2, <2>1 DEF Whole, a
<1>4. CASE cursor # start
  <2>1. a[Len(a)] = log[cursor] /\ cursor # 0
    BY <1>1, <1>2, <1>4
  <2> QED BY <1>2, <2>1 DEF Whole, EndsAt, a
<1> QED BY <1>3, <1>4

\* A client begins with nothing read.
LEMMA FollowInvInit == Init => FollowInv
<1> SUFFICES ASSUME Init PROVE FollowInv
  OBVIOUS
<1>1. LogInv /\ log = <<>> /\ start = 0 /\ cursor = 0 /\ got = <<>>
  BY LogInvInit DEF Init, LogInit
<1>2. WholeCharacters(log)
  BY <1>1 DEF WholeCharacters
<1>3. SubSeq(log, start + 1, cursor) = <<>>
  BY <1>1
<1>4. EventsOf(Lines(<<>>)) = <<>>
  <2>1. Lines(<<>>) = <<>>
    BY NewlinesOfNone DEF Lines
  <2> QED BY <2>1 DEF EventsOf
<1>5. InStep
  BY <1>1, <1>3, <1>4 DEF InStep
<1>6. start \in 0 .. Len(log) /\ cursor \in start .. Len(log)
  BY <1>1
<1> QED BY <1>1, <1>2, <1>5, <1>6 DEF FollowInv

\* It stays in step, whatever the orchestrator does and whichever limit it asks with.
LEMMA FollowInvNext ==
  ASSUME 2 \notin Tears, FollowInv, [Next]_vars
  PROVE  FollowInv'
<1> USE DEF FollowInv
<1>1. /\ log \in Seq(Byte) /\ LogTypeOK /\ Len(log) \in Nat
      /\ start \in 0 .. Len(log) /\ cursor \in start .. Len(log)
      /\ EndsAt(start) /\ EndsAt(cursor)
      /\ got = EventsOf(Lines(SubSeq(log, start + 1, cursor)))
  <2>1. \A n \in {0} \cup Ends(log) : EndsAt(n)
    BY DEF Ends, EndsAt
  <2> QED BY <2>1 DEF LogInv, InStep
\* The orchestrator adds to the log behind what the client has read.
<1>2. CASE Run
  <2>1. LogNext /\ start' = start /\ cursor' = cursor /\ got' = got
    BY <1>2 DEF Run, clientVars
  <2>2. LogInv' /\ Grows
    BY <1>1, <2>1, LogInvNext, LogGrows
  <2>3. WholeCharacters(log)'
    BY <1>1, <2>2, WholeCharactersStay
  <2>4. /\ Len(log) <= Len(log') /\ \A i \in 1 .. Len(log) : log'[i] = log[i]
        /\ \A i \in Nat \ {0}, j \in 0 .. Len(log) : SubSeq(log', i, j) = SubSeq(log, i, j)
        /\ Len(log') \in Nat
    BY <1>1, <2>2, Grown
  <2>5. start \in 0 .. Len(log') /\ cursor \in start .. Len(log')
    BY <1>1, <2>4
  <2>6. \A n \in 0 .. Len(log) : EndsAt(n) => n \in {0} \cup Ends(log')
    <3>1. \A n \in 0 .. Len(log) : n = 0 \/ (n \in 1 .. Len(log) /\ n \in 1 .. Len(log'))
      BY <1>1, <2>4
    <3> QED BY <2>4, <3>1 DEF EndsAt, Ends
  <2>7. SubSeq(log', start + 1, cursor) = SubSeq(log, start + 1, cursor)
    BY <1>1, <2>4
  <2>8. {start', cursor'} \subseteq {0} \cup Ends(log')
    <3>1. start \in 0 .. Len(log) /\ cursor \in 0 .. Len(log)
      BY <1>1
    <3> QED BY <1>1, <2>1, <2>6, <3>1
  <2>9. InStep'
    BY <1>1, <2>1, <2>7, <2>8 DEF InStep
  <2> QED BY <2>1, <2>2, <2>3, <2>5, <2>9
\* A client that has read nothing begins where a status says.
<1>3. CASE StartHere
  <2>1. /\ cursor = 0 /\ start' = disk.offset /\ cursor' = disk.offset
        /\ got' = got /\ UNCHANGED logVars /\ log' = log
    BY <1>3 DEF StartHere, logVars
  <2>2. LogInv' /\ WholeCharacters(log)'
    BY <2>1, LogInvStutters
  <2>3. disk.offset \in 0 .. Len(log) /\ EndsAt(disk.offset)
    BY DEF LogInv, LogTypeOK
  <2>4. SubSeq(log, start + 1, cursor) = <<>>
    BY <1>1, <2>1
  <2>5. SubSeq(log, disk.offset + 1, disk.offset) = <<>>
    BY <1>1, <2>3
  <2>6. InStep'
    <3>1. got' = EventsOf(Lines(SubSeq(log', start' + 1, cursor')))
      BY <1>1, <2>1, <2>4, <2>5
    <3>2. disk.offset \in {0} \cup Ends(log)
      BY <1>1, <2>3 DEF EndsAt, Ends
    <3> QED BY <2>1, <3>1, <3>2 DEF InStep
  <2>7. start' \in 0 .. Len(log') /\ cursor' \in start' .. Len(log')
    BY <1>1, <2>1, <2>3
  <2> QED BY <2>2, <2>6, <2>7
\* What an answer tells is what comes next.
<1>4. ASSUME NEW limit \in Limits, Poll(limit) PROVE FollowInv'
  <2> DEFINE answer == ReadEvents(SubSeq(log, cursor + 1, Len(log)), cursor, limit)
             a == SubSeq(log, start + 1, cursor)
             r == SubSeq(log, cursor + 1, answer.next)
  <2>1. /\ got' = got \o answer.events /\ cursor' = answer.next
        /\ start' = start /\ UNCHANGED logVars /\ log' = log
    BY <1>4 DEF Poll, logVars
  <2>2. LogInv' /\ WholeCharacters(log)'
    BY <2>1, LogInvStutters
  <2>3. cursor \in 0 .. Len(log) /\ limit \in Nat
    BY <1>1, FollowingAssumption
  <2>4. \/ answer.events = <<>> /\ answer.next = cursor
        \/ /\ answer.next \in cursor .. Len(log) /\ EndsAt(answer.next)
           /\ r \in Seq(Byte)
           /\ answer.events = EventsOf(Lines(r))
    BY <1>1, <2>3, AnswerIsWhole
  <2>5. a \in Seq(Byte) /\ Whole(a)
    BY <1>1, BetweenEnds
  <2>6. Lines(a) \in Seq(Seq(Byte)) /\ got = EventsOf(Lines(a)) /\ got \in Seq(Told)
    <3>1. Lines(a) \in Seq(Seq(Byte))
      BY <2>5, LinesType
    <3>2. EventsOf(Lines(a)) \in Seq(Told)
      BY <3>1, EventsAre
    <3> QED BY <1>1, <3>1, <3>2
  <2> HIDE DEF answer, a
  <2>7. CASE answer.events = <<>> /\ answer.next = cursor
    <3>1. got' = got /\ cursor' = cursor
      BY <2>1, <2>6, <2>7
    <3> QED BY <1>1, <2>1, <2>2, <3>1 DEF InStep
  <2>8. CASE /\ answer.next \in cursor .. Len(log) /\ EndsAt(answer.next)
             /\ r \in Seq(Byte)
             /\ answer.events = EventsOf(Lines(r))
    <3>1. a \o r = SubSeq(log, start + 1, cursor')
      <4>1. start \in 0 .. cursor /\ cursor \in 0 .. Len(log) /\ answer.next \in cursor .. Len(log)
        BY <1>1, <2>8
      <4> QED BY <1>1, <2>1, <4>1, TwoPieces DEF a
    <3> HIDE DEF r
    <3>2. Lines(a \o r) = Lines(a) \o Lines(r)
      BY <2>5, <2>8, LinesConcat
    <3>3. EventsOf(Lines(a) \o Lines(r)) = EventsOf(Lines(a)) \o EventsOf(Lines(r))
      <4>1. Lines(r) \in Seq(Seq(Byte))
        BY <2>8, LinesType
      <4> QED BY <2>6, <4>1, EventsConcat
    <3>4. got' = EventsOf(Lines(SubSeq(log, start + 1, cursor')))
      BY <2>1, <2>6, <2>8, <3>1, <3>2, <3>3
    <3>5. InStep'
      <4>1. cursor' \in {0} \cup Ends(log)
        <5>1. answer.next \in 0 .. Len(log)
          BY <1>1, <2>8
        <5> QED BY <2>1, <2>8, <5>1 DEF EndsAt, Ends
      <4>2. start' \in {0} \cup Ends(log)
        BY <2>1 DEF InStep
      <4> QED BY <2>1, <3>4, <4>1, <4>2 DEF InStep
    <3>6. start' \in 0 .. Len(log') /\ cursor' \in start' .. Len(log')
      BY <1>1, <2>1, <2>8
    <3> QED BY <2>2, <3>5, <3>6
  <2> QED BY <2>4, <2>7, <2>8
<1>5. CASE UNCHANGED vars
  <2>1. LogInv'
    BY <1>5, LogInvStutters DEF vars
  <2> QED BY <1>5, <2>1 DEF vars, logVars, clientVars, WholeCharacters, InStep
<1> QED BY <1>2, <1>3, <1>4, <1>5 DEF Next

\* A client that passes the previous next_offset gets every event after the
\* place where it began exactly once and in order, for every number of events,
\* crashes and answers, if no line is torn within a character of several bytes
\* (readWorkflowEvents counts such a line after it is decoded).
THEOREM FollowedInStep ==
  ASSUME 2 \notin Tears
  PROVE  Spec => []InStep
<1>1. FollowInv /\ [Next]_vars => FollowInv'
  BY FollowInvNext
<1>2. FollowInv => InStep
  BY DEF FollowInv
<1> QED BY FollowInvInit, <1>1, <1>2, PTL DEF Spec

\* The log, run.json and the orchestrator have their types, however lines are torn.
THEOREM LogTypeCorrect == Spec => []LogTypeOK
<1>1. LogInv /\ [Next]_vars => LogInv'
  <2>1. LogInv /\ LogNext => LogInv'
    BY LogInvNext
  <2>2. LogInv /\ UNCHANGED logVars => LogInv'
    BY LogInvStutters
  <2> QED BY <2>1, <2>2 DEF Next, Run, StartHere, Poll, vars
<1>2. Init => LogInv
  BY LogInvInit DEF Init
<1>3. LogInv => LogTypeOK
  BY DEF LogInv
<1> QED BY <1>1, <1>2, <1>3, PTL DEF Spec

\* Every value of the variables has its type, and the client is never behind the
\* place where it began or beyond the end of the log.
THEOREM TypeCorrect ==
  ASSUME 2 \notin Tears
  PROVE  Spec => []TypeOK
<1>1. FollowInv /\ [Next]_vars => FollowInv'
  BY FollowInvNext
<1>2. FollowInv => TypeOK
  BY DEF FollowInv, LogInv, TypeOK
<1> QED BY FollowInvInit, <1>1, <1>2, PTL DEF Spec

-----------------------------------------------------------------------------
(* What a resume reads                                                     *)

\* To a resume the end of the file ends a line.
EndOfFile == SubSeq(Line(<<"note", 0>>), 4, 4)
ReadBack(b) == EventsOf(Lines(b \o EndOfFile))

NoNewline(b) == \A i \in 1 .. Len(b) : b[i].part # "nl"

\* That end is one newline.
LEMMA EndOfFileIs ==
  \E x \in Byte : x.part = "nl" /\ \A b \in Seq(Byte) : b \o EndOfFile = Append(b, x)
<1> DEFINE e == <<"note", 0>>
           l == Line(e)
           w == SubSeq(l, 4, 4)
           x == l[4]
<1>1. l \in Seq(Byte) /\ Len(l) = 4 /\ x \in Byte /\ x.part = "nl"
  <2>1. e \in Word /\ 4 \in 0 .. 4 /\ 4 \in 1 .. 4
    BY DEF Word
  <2>2. l \in Seq(Byte) /\ Len(l) = 4 /\ l[4] = [part |-> Parts[4], of |-> e]
    <3> HIDE DEF e, l
    <3>1. /\ Piece(e, 4) \in Seq(Byte) /\ Len(Piece(e, 4)) = 4
          /\ \A i \in 1 .. 4 : Piece(e, 4)[i] = [part |-> Parts[i], of |-> e]
          /\ Line(e) = Piece(e, 4)
      BY <2>1, PieceIs
    <3> QED BY <2>1, <3>1 DEF l
  <2>3. Parts[4] = "nl"
    BY DEF Parts
  <2> HIDE DEF l
  <2>4. l[4] \in Byte
    BY <2>2
  <2> QED BY <2>2, <2>3, <2>4
<1> HIDE DEF l
<1>2. w = <<x>>
  <2>1. Len(w) = 1
    BY <1>1
  <2>2. w[1] = x
    BY <1>1
  <2>3. w \in Seq(Byte)
    BY <1>1
  <2> HIDE DEF w, x
  <2>4. \A s \in Seq(Byte) : Len(s) = 1 => s = <<s[1]>>
    OBVIOUS
  <2> QED BY <2>1, <2>2, <2>3, <2>4
<1> HIDE DEF x
<1>3. ASSUME NEW b \in Seq(Byte) PROVE b \o <<x>> = Append(b, x)
  BY <1>1
<1>4. EndOfFile = <<x>>
  BY <1>2 DEF EndOfFile, w, l
<1> QED BY <1>1, <1>3, <1>4

\* Bytes are whole lines and a tail without a newline.
LEMMA TailOf ==
  \A b \in Seq(Byte) : \E a, c \in Seq(Byte) : b = a \o c /\ Whole(a) /\ NoNewline(c)
<1> DEFINE Parted(b) == \E a, c \in Seq(Byte) : b = a \o c /\ Whole(a) /\ NoNewline(c)
           Y == {b \in Seq(Byte) : Parted(b)}
<1>1. <<>> \in Y
  <2>1. <<>> \in Seq(Byte) /\ <<>> \o <<>> = <<>> /\ Whole(<<>>) /\ NoNewline(<<>>)
    BY DEF Whole, NoNewline
  <2> QED BY <2>1
<1>2. ASSUME NEW b \in Seq(Byte), NEW x \in Byte, b \in Y PROVE Append(b, x) \in Y
  <2>1. PICK a \in Seq(Byte), c \in Seq(Byte) : b = a \o c /\ Whole(a) /\ NoNewline(c)
    BY <1>2
  <2>2. Append(b, x) \in Seq(Byte)
    OBVIOUS
  <2>3. CASE x.part = "nl"
    <3> DEFINE d == Append(b, x)
    <3>1. d[Len(d)] = x /\ d \o <<>> = d /\ <<>> \in Seq(Byte)
      OBVIOUS
    <3>2. Whole(d) /\ NoNewline(<<>>)
      BY <2>3, <3>1 DEF Whole, NoNewline
    <3> HIDE DEF d
    <3>3. Parted(d)
      BY <2>2, <3>1, <3>2 DEF d
    <3> QED BY <2>2, <3>3 DEF d
  <2>4. CASE x.part # "nl"
    <3> DEFINE d == Append(c, x)
    <3>1. d \in Seq(Byte) /\ Len(d) = Len(c) + 1 /\ d[Len(c) + 1] = x /\ \A i \in 1 .. Len(c) : d[i] = c[i]
      OBVIOUS
    <3>2. a \o d = Append(a \o c, x)
      OBVIOUS
    <3> HIDE DEF d
    <3>3. NoNewline(d)
      <4> SUFFICES ASSUME NEW i \in 1 .. Len(d) PROVE d[i].part # "nl"
        BY DEF NoNewline
      <4>1. i \in 1 .. Len(c) \/ i = Len(c) + 1
        BY <3>1
      <4> QED BY <2>1, <2>4, <3>1, <4>1 DEF NoNewline
    <3>4. Parted(Append(b, x))
      BY <2>1, <3>1, <3>2, <3>3
    <3> QED BY <2>2, <3>4
  <2> QED BY <2>3, <2>4
<1>3. Seq(Byte) \subseteq Y
  <2> HIDE DEF Y
  <2> QED BY <1>1, <1>2, BytesInduction
<1> HIDE DEF Parted
<1>4. \A b \in Seq(Byte) : Parted(b)
  BY <1>3
<1> QED BY <1>4 DEF Parted

\* Concatenation is associative, and nothing is added by nothing.
LEMMA ConcatAssociates ==
  \A a, b, c \in Seq(Byte) : (a \o b) \o c = a \o (b \o c) /\ a \o <<>> = a /\ <<>> \o a = a
OBVIOUS

\* A byte behind two pieces is a byte behind the second.
LEMMA ConcatAppends ==
  \A a, b \in Seq(Byte), x \in Byte :
    a \o b \in Seq(Byte) /\ Append(a \o b, x) = a \o Append(b, x)
OBVIOUS

\* The events of whole lines and then one that a newline ends
LEMMA EventsOfOneMore ==
  ASSUME NEW a \in Seq(Byte), Whole(a), NEW c \in Seq(Byte), NoNewline(c),
         NEW x \in Byte, x.part = "nl"
  PROVE  /\ EventsOf(Lines(a \o Append(c, x))) = Append(EventsOf(Lines(a)), Parsed(c))
         /\ EventsOf(Lines(a \o c)) = EventsOf(Lines(a))
         /\ EventsOf(Lines(a)) \in Seq(Told)
<1> DEFINE la == Lines(a)
           ea == EventsOf(la)
<1>1. la \in Seq(Seq(Byte)) /\ ea \in Seq(Told)
  <2>1. la \in Seq(Seq(Byte))
    BY LinesType
  <2> QED BY <2>1, EventsAre
<1>2. Lines(a \o Append(c, x)) = la \o <<c>>
  <2>1. Append(c, x) \in Seq(Byte) /\ Lines(Append(c, x)) = <<c>>
    BY LinesOfTail DEF NoNewline
  <2> QED BY <2>1, LinesConcat
<1>3. Lines(a \o c) = la
  <2>1. Lines(c) = <<>>
    BY LinesOfTail DEF NoNewline
  <2>2. Lines(a \o c) = la \o <<>>
    BY <2>1, LinesConcat
  <2> HIDE DEF la
  <2>3. la \o <<>> = la
    BY <1>1
  <2> QED BY <2>2, <2>3
<1>4. EventsOf(<<c>>) = <<Parsed(c)>>
  <2>1. Len(<<c>>) = 1 /\ <<c>>[1] = c /\ 1 .. 1 = {1}
    OBVIOUS
  <2>2. EventsOf(<<c>>) = [k \in 1 .. 1 |-> Parsed(c)]
    BY <2>1 DEF EventsOf
  <2> QED BY <2>2
<1>5. EventsOf(la \o <<c>>) = ea \o <<Parsed(c)>>
  <2>1. <<c>> \in Seq(Seq(Byte))
    OBVIOUS
  <2> HIDE DEF la
  <2> QED BY <1>1, <1>4, <2>1, EventsConcat
<1>6. ea \o <<Parsed(c)>> = Append(ea, Parsed(c))
  <2>1. Parsed(c) \in Told
    BY ParsedIsTold
  <2> HIDE DEF ea
  <2> QED BY <1>1, <2>1
<1> QED BY <1>1, <1>2, <1>3, <1>5, <1>6

\* What a resume reads: the events of the whole lines, and what the tail parses to
LEMMA ReadBackIs ==
  ASSUME NEW a \in Seq(Byte), Whole(a), NEW c \in Seq(Byte), NoNewline(c)
  PROVE  /\ ReadBack(a \o c) = Append(EventsOf(Lines(a)), Parsed(c))
         /\ EventsOf(Lines(a \o c)) = EventsOf(Lines(a))
         /\ EventsOf(Lines(a)) \in Seq(Told)
<1>1. PICK x \in Byte : x.part = "nl" /\ \A b \in Seq(Byte) : b \o EndOfFile = Append(b, x)
  BY EndOfFileIs
<1>2. a \o c \in Seq(Byte) /\ Append(a \o c, x) = a \o Append(c, x)
  OBVIOUS
<1>3. (a \o c) \o EndOfFile = a \o Append(c, x)
  BY <1>1, <1>2
<1> QED BY <1>1, <1>3, EventsOfOneMore DEF ReadBack

\* A piece of a line behind a tail parses to the event, or not at all.
LEMMA ParsedGlued ==
  ASSUME NEW c \in Seq(Byte), NEW e \in Word, NEW n \in 1 .. 3
  PROVE  Parsed(c \o Piece(e, n)) \in {e, Unparseable}
<1> DEFINE w == Piece(e, n)
           l == c \o w
           m == Len(c)
<1>1. /\ w \in Seq(Byte) /\ Len(w) = n
      /\ w[1] = [part |-> Parts[1], of |-> e]
  <2>1. n \in 0 .. 4 /\ 1 \in 1 .. n
    OBVIOUS
  <2> QED BY <2>1, PieceIs
<1> HIDE DEF w
<1>2. l \in Seq(Byte) /\ Len(l) = m + n /\ l[m + 1] = w[1]
  <2>1. /\ l \in Seq(Byte) /\ Len(l) = Len(c) + Len(w)
        /\ \A k \in 1 .. Len(w) : l[Len(c) + k] = w[k]
    BY <1>1, ConcatPointwise
  <2>2. 1 \in 1 .. Len(w)
    BY <1>1
  <2> HIDE DEF l
  <2> QED BY <1>1, <2>1, <2>2
<1> HIDE DEF l
<1>3. m \in Nat
  OBVIOUS
<1> HIDE DEF m
<1> SUFFICES ASSUME Parsed(l) # Unparseable PROVE Parsed(l) = e
  BY DEF l, w
<1>4. Len(l) = 3 /\ l = SubSeq(Line(l[1].of), 1, 3) /\ Parsed(l) = l[1].of
  BY DEF Parsed
<1>5. l[1] \in Byte /\ l[1].of \in Word
  <2>1. l[1] \in Byte
    BY <1>2, <1>4
  <2> QED BY <2>1 DEF Byte
<1>6. \A i \in 1 .. 3 : l[i] = [part |-> Parts[i], of |-> l[1].of]
  <2> DEFINE f == l[1].of
  <2>1. f \in Word /\ 3 \in 0 .. 4
    BY <1>5
  <2> HIDE DEF f
  <2>2. \A i \in 1 .. 3 : Piece(f, 3)[i] = [part |-> Parts[i], of |-> f]
    BY <2>1, PieceIs
  <2>3. l = Piece(f, 3)
    BY <1>4 DEF Piece, f
  <2> QED BY <2>2, <2>3 DEF f
<1>7. m + 1 \in 1 .. 3
  <2>1. m + n = 3
    BY <1>2, <1>4
  <2> QED BY <1>3, <2>1
<1>8. Parts[m + 1] = "text"
  <2>1. l[m + 1].part = Parts[m + 1] /\ w[1].part = Parts[1]
    BY <1>1, <1>6, <1>7
  <2> QED BY <1>2, <2>1 DEF Parts
<1>9. m = 0
  <2>1. m = 0 \/ m = 1 \/ m = 2
    BY <1>3, <1>7
  <2> QED BY <1>8, <2>1 DEF Parts
<1>10. l[1].of = e
  BY <1>1, <1>2, <1>9
<1> QED BY <1>4, <1>10

\* Later a resume reads what it would have read before, but for the last, which
\* becomes e or stays without meaning, and perhaps an empty tail behind it.
Follows(r, s, e) ==
  /\ Len(s) \in {Len(r), Len(r) + 1}
  /\ \A k \in 1 .. Len(r) - 1 : s[k] = r[k]
  /\ s[Len(r)] \in {e, Unparseable}
  /\ Len(s) = Len(r) + 1 => s[Len(s)] = Unparseable

\* A piece is three bytes without a newline, or those and a newline.
LEMMA PieceParts ==
  ASSUME NEW e \in Word
  PROVE  /\ \A n \in 1 .. 3 : Piece(e, n) \in Seq(Byte) /\ NoNewline(Piece(e, n))
         /\ \E x \in Byte : x.part = "nl" /\ Piece(e, 4) = Append(Piece(e, 3), x)
<1>0. Parts[1] = "text" /\ Parts[2] = "lead" /\ Parts[3] = "trail" /\ Parts[4] = "nl"
  BY DEF Parts
<1>1. ASSUME NEW n \in 1 .. 3 PROVE Piece(e, n) \in Seq(Byte) /\ NoNewline(Piece(e, n))
  <2>1. n \in 0 .. 4
    OBVIOUS
  <2>2. /\ Piece(e, n) \in Seq(Byte) /\ Len(Piece(e, n)) = n
        /\ \A i \in 1 .. n : Piece(e, n)[i] = [part |-> Parts[i], of |-> e]
    BY <2>1, PieceIs
  <2>3. \A i \in 1 .. n : Parts[i] # "nl"
    <3>1. \A i \in 1 .. n : i = 1 \/ i = 2 \/ i = 3
      OBVIOUS
    <3> QED BY <1>0, <3>1
  <2> QED BY <2>2, <2>3 DEF NoNewline
<1>2. \E x \in Byte : x.part = "nl" /\ Piece(e, 4) = Append(Piece(e, 3), x)
  <2> DEFINE v == Piece(e, 3)
             w == Piece(e, 4)
  <2>1. 3 \in 0 .. 4 /\ 4 \in 0 .. 4
    OBVIOUS
  <2>2. /\ v \in Seq(Byte) /\ Len(v) = 3 /\ \A i \in 1 .. 3 : v[i] = [part |-> Parts[i], of |-> e]
        /\ w \in Seq(Byte) /\ Len(w) = 4 /\ \A i \in 1 .. 4 : w[i] = [part |-> Parts[i], of |-> e]
    BY <2>1, PieceIs
  <2> HIDE DEF v, w
  <2>3. w[4] \in Byte /\ w[4].part = "nl"
    <3>1. 4 \in 1 .. 4
      OBVIOUS
    <3>2. w[4] = [part |-> Parts[4], of |-> e]
      BY <2>2, <3>1
    <3>3. w \in Seq(Byte) /\ 4 \in 1 .. Len(w)
      BY <2>2
    <3>4. w[4] \in Byte
      BY <3>3
    <3> QED BY <1>0, <3>2, <3>4
  <2>4. \A i \in 1 .. 3 : w[i] = v[i]
    BY <2>2
  <2>5. w = Append(v, w[4])
    <3>1. v \in Seq(Byte) /\ w \in Seq(Byte) /\ w[4] \in Byte
      BY <2>2, <2>3
    <3>2. Len(w) = Len(v) + 1 /\ w[Len(v) + 1] = w[4] /\ \A i \in 1 .. Len(v) : w[i] = v[i]
      BY <2>2, <2>4
    <3> QED BY <3>1, <3>2, IsAppend
  <2> QED BY <2>3, <2>5 DEF v, w
<1> QED BY <1>1, <1>2

\* Nothing parses to nothing.
LEMMA ParsedNothing == Parsed(<<>>) = Unparseable
BY DEF Parsed

\* What a step adds to the log is what a resume reads in addition.
LEMMA ReadBackFollows ==
  ASSUME log \in Seq(Byte), NEW e \in Event, NEW n \in Tears \cup {4}, Adds(e, n), n # 0
  PROVE  /\ ReadBack(log) \in Seq(Told) /\ ReadBack(log') \in Seq(Told) /\ Len(ReadBack(log)) \in Nat \ {0}
         /\ Follows(ReadBack(log), ReadBack(log'), e)
<1> DEFINE r == ReadBack(log)
           s == ReadBack(log')
<1>1. PICK a \in Seq(Byte), c \in Seq(Byte) : log = a \o c /\ Whole(a) /\ NoNewline(c)
  BY TailOf
<1> DEFINE ea == EventsOf(Lines(a))
<1>2. r = Append(ea, Parsed(c)) /\ ea \in Seq(Told) /\ Parsed(c) \in Told
  BY <1>1, ReadBackIs, ParsedIsTold
<1>3. e \in Word /\ n \in 1 .. 4
  BY EventLogAssumption, EventsAreWords
<1> DEFINE m == IF n = 4 THEN 3 ELSE n
           d == c \o Piece(e, m)
<1>4. m \in 1 .. 3
  BY <1>3
<1> HIDE DEF m
<1>5. Piece(e, m) \in Seq(Byte) /\ NoNewline(Piece(e, m))
  BY <1>3, <1>4, PieceParts
<1>6. d \in Seq(Byte) /\ NoNewline(d) /\ a \o d = log \o Piece(e, m)
  <2> DEFINE w == Piece(e, m)
  <2>1. w \in Seq(Byte) /\ NoNewline(w)
    BY <1>5
  <2> HIDE DEF w
  <2>2. /\ c \o w \in Seq(Byte) /\ Len(c \o w) = Len(c) + Len(w)
        /\ \A k \in 1 .. Len(c) : (c \o w)[k] = c[k]
        /\ \A k \in 1 .. Len(w) : (c \o w)[Len(c) + k] = w[k]
    BY <2>1, ConcatPointwise
  <2>3. NoNewline(c \o w)
    <3> SUFFICES ASSUME NEW i \in 1 .. Len(c \o w) PROVE (c \o w)[i].part # "nl"
      BY DEF NoNewline
    <3>1. Len(c) \in Nat /\ Len(w) \in Nat
      BY <2>1
    <3>2. i \in 1 .. Len(c) \/ (i - Len(c) \in 1 .. Len(w) /\ i = Len(c) + (i - Len(c)))
      BY <2>2, <3>1
    <3> QED BY <1>1, <2>1, <2>2, <3>2 DEF NoNewline
  <2>4. a \o (c \o w) = (a \o c) \o w
    BY <2>1, ConcatAssociates
  <2> QED BY <1>1, <2>2, <2>3, <2>4 DEF w
<1>7. Parsed(d) \in {e, Unparseable} /\ Parsed(d) \in Told
  BY <1>3, <1>4, <1>6, ParsedGlued, ParsedIsTold
<1> HIDE DEF d, ea
<1>8. s = Append(ea, Parsed(d)) \/ s = Append(Append(ea, Parsed(d)), Unparseable)
  <2>1. CASE n # 4
    <3>1. log' = a \o d
      BY <1>6, <2>1 DEF Adds, m
    <3> QED BY <1>1, <1>6, <3>1, ReadBackIs DEF ea
  <2>2. CASE n = 4
    <3>1. PICK x \in Byte : x.part = "nl" /\ Piece(e, 4) = Append(Piece(e, 3), x)
      BY <1>3, PieceParts
    <3> DEFINE b == a \o Append(d, x)
    <3>2. log' = b
      <4> DEFINE w == Piece(e, 3)
      <4>1. w \in Seq(Byte) /\ a \o d = log \o w
        BY <1>5, <1>6, <2>2 DEF m
      <4>2. log' = log \o Append(w, x)
        BY <2>2, <3>1 DEF Adds
      <4> HIDE DEF w
      <4>3. log \o Append(w, x) = Append(log \o w, x)
        BY <4>1
      <4>4. Append(a \o d, x) = a \o Append(d, x)
        <5>1. d \in Seq(Byte)
          BY <1>6
        <5> QED BY <5>1, ConcatAppends
      <4> QED BY <4>1, <4>2, <4>3, <4>4
    <3>3. b \in Seq(Byte) /\ Whole(b)
      <4>1. b = Append(a \o d, x) /\ a \o d \in Seq(Byte)
        <5>1. d \in Seq(Byte)
          BY <1>6
        <5> QED BY <5>1, ConcatAppends
      <4>2. \A g \in Seq(Byte) : Append(g, x) \in Seq(Byte) /\ Append(g, x)[Len(Append(g, x))] = x
        OBVIOUS
      <4> HIDE DEF b
      <4> QED BY <3>1, <4>1, <4>2 DEF Whole
    <3>4. EventsOf(Lines(b)) = Append(ea, Parsed(d))
      BY <1>1, <1>6, <3>1, EventsOfOneMore DEF ea
    <3> HIDE DEF b
    <3>5. b = b \o <<>> /\ <<>> \in Seq(Byte) /\ NoNewline(<<>>)
      BY <3>3 DEF NoNewline
    <3>6. ReadBack(b \o <<>>) = Append(EventsOf(Lines(b)), Parsed(<<>>))
      BY <3>3, <3>5, ReadBackIs
    <3> QED BY <3>2, <3>4, <3>5, <3>6, ParsedNothing
  <2> QED BY <2>1, <2>2
<1>9. Unparseable \in Told
  BY DEF Told
<1> DEFINE u == Parsed(c)
           v == Parsed(d)
<1> HIDE DEF r, s, u, v
<1>10. r \in Seq(Told) /\ s \in Seq(Told) /\ Len(r) \in Nat \ {0} /\ Follows(r, s, e)
  <2>1. /\ r = Append(ea, u) /\ ea \in Seq(Told) /\ u \in Told
        /\ v \in {e, Unparseable} /\ v \in Told
        /\ s = Append(ea, v) \/ s = Append(Append(ea, v), Unparseable)
    BY <1>2, <1>7, <1>8 DEF r, u, v
  <2>2. /\ r \in Seq(Told) /\ Len(r) = Len(ea) + 1 /\ Len(ea) \in Nat
        /\ \A k \in 1 .. Len(ea) : r[k] = ea[k]
    BY <2>1
  <2>3. CASE s = Append(ea, v)
    <3>1. /\ s \in Seq(Told) /\ Len(s) = Len(ea) + 1 /\ s[Len(ea) + 1] = v
          /\ \A k \in 1 .. Len(ea) : s[k] = ea[k]
      BY <2>1, <2>3
    <3> QED BY <2>1, <2>2, <3>1 DEF Follows
  <2>4. CASE s = Append(Append(ea, v), Unparseable)
    <3>1. /\ s \in Seq(Told) /\ Len(s) = Len(ea) + 2 /\ s[Len(ea) + 1] = v /\ s[Len(ea) + 2] = Unparseable
          /\ \A k \in 1 .. Len(ea) : s[k] = ea[k]
      BY <1>9, <2>1, <2>4
    <3> QED BY <2>1, <2>2, <3>1 DEF Follows
  <2> QED BY <2>1, <2>3, <2>4
<1> QED BY <1>10 DEF r, s

-----------------------------------------------------------------------------
(* Expanded once                                                           *)

\* The parents whose expansion is among the events, and that none is there twice
Heads(r) == {p \in Parents : \E k \in 1 .. Len(r) : r[k][1] = p}
Once(r) == \A p \in Parents, j, k \in 1 .. Len(r) : r[j][1] = p /\ r[k][1] = p => j = k

\* The parents a resume replays are those it reads an expansion of.
LEMMA ExpandedInIs ==
  ASSUME NEW b \in Seq(Byte)
  PROVE  ReadBack(b) \in Seq(Told) /\ ExpandedIn(b) = Heads(ReadBack(b))
<1> DEFINE l == Lines(b \o EndOfFile)
<1>1. b \o EndOfFile \in Seq(Byte)
  <2>1. PICK x \in Byte : b \o EndOfFile = Append(b, x)
    BY EndOfFileIs
  <2> QED BY <2>1
<1>2. l \in Seq(Seq(Byte))
  BY <1>1, LinesType
<1> HIDE DEF l
<1>3. /\ EventsOf(l) \in Seq(Told) /\ Len(EventsOf(l)) = Len(l)
      /\ \A k \in 1 .. Len(l) : EventsOf(l)[k] = Parsed(l[k])
  BY <1>2, EventsAre
<1>4. ExpandedIn(b) = {p \in Parents : \E k \in 1 .. Len(l) : Parsed(l[k])[1] = p}
  BY DEF ExpandedIn, l, EndOfFile
<1>5. ReadBack(b) = EventsOf(l)
  BY DEF ReadBack, l
<1> QED BY <1>3, <1>4, <1>5 DEF Heads

\* An event that is not there yet is there once when it is added.
LEMMA FollowsOnce ==
  ASSUME NEW r \in Seq(Told), NEW s \in Seq(Told), Len(r) \in Nat \ {0}, NEW e \in Word,
         Follows(r, s, e)
  PROVE  /\ Heads(s) \subseteq Heads(r) \cup {e[1]}
         /\ Once(r) /\ e[1] \notin Heads(r) => Once(s)
<1> DEFINE m == Len(r)
<1>1. m \in Nat /\ m # 0 /\ Len(s) \in {m, m + 1}
  BY DEF Follows
<1>2. ASSUME NEW k \in 1 .. Len(s), NEW p \in Parents, s[k][1] = p
      PROVE  \/ k \in 1 .. m - 1 /\ s[k] = r[k] /\ p \in Heads(r)
             \/ k = m /\ e[1] = p
  <2>0. Unparseable[1] \notin Parents
    BY EventLogAssumption DEF Unparseable
  <2>1. k \in 1 .. m - 1 \/ k = m \/ (k = m + 1 /\ Len(s) = m + 1)
    BY <1>1
  <2>2. CASE k \in 1 .. m - 1
    <3>1. s[k] = r[k] /\ k \in 1 .. m
      BY <1>1, <2>2 DEF Follows
    <3> QED BY <1>2, <2>2, <3>1 DEF Heads
  <2>3. CASE k = m
    <3>1. s[k] \in {e, Unparseable}
      BY <2>3 DEF Follows
    <3> QED BY <1>2, <2>0, <2>3, <3>1
  <2>4. CASE k = m + 1 /\ Len(s) = m + 1
    <3>1. s[k] = Unparseable
      BY <2>4 DEF Follows
    <3> QED BY <1>2, <2>0, <3>1
  <2> QED BY <2>1, <2>2, <2>3, <2>4
<1> HIDE DEF m
<1>3. Heads(s) \subseteq Heads(r) \cup {e[1]}
  <2> SUFFICES ASSUME NEW p \in Heads(s) PROVE p \in Heads(r) \cup {e[1]}
    OBVIOUS
  <2>1. p \in Parents /\ \E k \in 1 .. Len(s) : s[k][1] = p
    BY DEF Heads
  <2> QED BY <1>2, <2>1
<1>4. ASSUME Once(r), e[1] \notin Heads(r),
             NEW p \in Parents, NEW j \in 1 .. Len(s), NEW k \in 1 .. Len(s),
             s[j][1] = p, s[k][1] = p
      PROVE  j = k
  <2>1. \/ j \in 1 .. m - 1 /\ s[j] = r[j] /\ p \in Heads(r)
        \/ j = m /\ e[1] = p
    BY <1>2, <1>4
  <2>2. \/ k \in 1 .. m - 1 /\ s[k] = r[k] /\ p \in Heads(r)
        \/ k = m /\ e[1] = p
    BY <1>2, <1>4
  <2>3. CASE e[1] = p
    BY <1>4, <2>1, <2>2, <2>3
  <2>4. CASE e[1] # p
    <3>1. j \in 1 .. m /\ k \in 1 .. m /\ r[j][1] = p /\ r[k][1] = p
      BY <1>1, <1>4, <2>1, <2>2, <2>4
    <3> QED BY <1>4, <3>1 DEF Once, m
  <2> QED BY <2>3, <2>4
<1> QED BY <1>3, <1>4 DEF Once

\* What the log says is expanded is what the orchestrator knows, or has yet to
\* replay; and a resume would find it once.
OnceInv ==
  /\ LogInv
  /\ Once(ReadBack(log))
  /\ phase = "working" => ExpandedIn(log) \subseteq mem
  /\ phase = "resuming" => ExpandedIn(log) \subseteq mem \cup todo

\* Nothing is expanded in an empty log.
LEMMA OnceInvInit == Init => OnceInv
<1> SUFFICES ASSUME Init PROVE OnceInv
  OBVIOUS
<1>1. LogInv /\ log = <<>> /\ log \in Seq(Byte) /\ phase = "working"
  BY LogInvInit DEF Init, LogInit, LogInv
<1>2. ReadBack(log) = <<Unparseable>>
  <2>1. <<>> \in Seq(Byte) /\ Whole(<<>>) /\ NoNewline(<<>>) /\ <<>> \o <<>> = <<>>
    BY DEF Whole, NoNewline
  <2>2. Lines(<<>>) = <<>>
    BY NewlinesOfNone DEF Lines
  <2>3. EventsOf(<<>>) = <<>>
    BY DEF EventsOf
  <2>4. ReadBack(<<>>) = Append(<<>>, Unparseable)
    BY <2>1, <2>2, <2>3, ReadBackIs, ParsedNothing
  <2> QED BY <1>1, <2>4
<1>3. Unparseable[1] \notin Parents
  BY EventLogAssumption DEF Unparseable
<1> DEFINE r == <<Unparseable>>
<1>4. Heads(r) = {} /\ Once(r)
  <2>1. Len(r) = 1 /\ r[1] = Unparseable /\ 1 .. 1 = {1}
    OBVIOUS
  <2>2. \A k \in 1 .. Len(r) : k = 1 /\ r[k] = Unparseable
    BY <2>1
  <2> HIDE DEF r
  <2> QED BY <1>3, <2>2 DEF Heads, Once
<1>5. ExpandedIn(log) = Heads(ReadBack(log))
  BY <1>1, ExpandedInIs
<1>6. ExpandedIn(log) = {} /\ Once(ReadBack(log))
  BY <1>2, <1>4, <1>5
<1> QED BY <1>1, <1>6 DEF OnceInv

\* A piece of an event that is not there yet leaves every expansion there once.
LEMMA OnceStays ==
  ASSUME log \in Seq(Byte), Once(ReadBack(log)),
         NEW e \in Event, NEW n \in Tears \cup {4}, Adds(e, n), e[1] \notin ExpandedIn(log)
  PROVE  /\ Once(ReadBack(log'))
         /\ ExpandedIn(log') \subseteq ExpandedIn(log) \cup {e[1]}
<1>1. CASE n = 0
  <2>1. e \in Word /\ 0 \in 0 .. 4
    BY EventsAreWords
  <2>2. Piece(e, 0) \in Seq(Byte) /\ Len(Piece(e, 0)) = 0
    BY <2>1, PieceIs
  <2>3. \A w \in Seq(Byte) : Len(w) = 0 => log \o w = log
    OBVIOUS
  <2>4. log' = log
    BY <1>1, <2>2, <2>3 DEF Adds
  <2> QED BY <2>4
<1>2. CASE n # 0
  <2> DEFINE r == ReadBack(log)
             s == ReadBack(log')
  <2>1. r \in Seq(Told) /\ s \in Seq(Told) /\ Len(r) \in Nat \ {0} /\ Follows(r, s, e)
    BY <1>2, ReadBackFollows
  <2>2. e \in Word
    BY EventsAreWords
  <2>3. log' \in Seq(Byte)
    <3>1. Grows
      BY DEF Grows
    <3> QED BY <3>1, Grown
  <2>4. ExpandedIn(log) = Heads(r) /\ ExpandedIn(log') = Heads(s)
    BY <2>3, ExpandedInIs
  <2> HIDE DEF r, s
  <2>5. Heads(s) \subseteq Heads(r) \cup {e[1]} /\ (Once(r) /\ e[1] \notin Heads(r) => Once(s))
    BY <2>1, <2>2, FollowsOnce
  <2> QED BY <2>4, <2>5 DEF r, s
<1> QED BY <1>1, <1>2

\* No step lets the log tell what neither the orchestrator nor its resume knows.
LEMMA OnceInvNext == OnceInv /\ [Next]_vars => OnceInv'
<1> SUFFICES ASSUME OnceInv, [Next]_vars PROVE OnceInv'
  OBVIOUS
<1>1. log \in Seq(Byte) /\ LogTypeOK /\ LogInv /\ Once(ReadBack(log))
  BY DEF OnceInv, LogInv
<1>2. "note" \notin ExpandedIn(log) /\ ExpandedIn(log) \subseteq Parents
  BY EventLogAssumption DEF ExpandedIn
\* A note tells of no expansion.
<1>3. ASSUME NEW known, Record("note", known)
      PROVE  Once(ReadBack(log')) /\ ExpandedIn(log') \subseteq ExpandedIn(log) /\ mem' = known
  <2>1. PICK e \in Event : e[1] = "note" /\ Adds(e, 4)
    BY <1>1, <1>3, RecordAdds
  <2>2. Once(ReadBack(log')) /\ ExpandedIn(log') \subseteq ExpandedIn(log) \cup {"note"}
    BY <1>1, <1>2, <2>1, OnceStays
  <2>3. "note" \notin ExpandedIn(log')
    BY EventLogAssumption DEF ExpandedIn
  <2> QED BY <1>3, <2>2, <2>3 DEF Record
<1>4. ASSUME LogNext PROVE OnceInv'
  <2>0. LogInv'
    BY <1>1, <1>4, LogInvNext
  <2>1. CASE Work
    BY <1>3, <2>0, <2>1 DEF Work, OnceInv
  <2>2. CASE Save
    BY <1>1, <2>0, <2>2 DEF Save, OnceInv
  <2>3. CASE Resume
    BY <1>1, <2>0, <2>3 DEF Resume, OnceInv
  <2>4. CASE ResumeRequested
    BY <1>3, <2>0, <2>4 DEF ResumeRequested, OnceInv
  <2>5. CASE Die
    <3>1. phase' = "down"
      BY <2>5 DEF Die
    <3>2. CASE UNCHANGED <<log, written>>
      BY <1>1, <2>0, <3>1, <3>2 DEF OnceInv
    <3>3. CASE \E what \in Writing, bytes \in Tears :
                 /\ log' = log \o SubSeq(Line(<<what, written + 1>>), 1, bytes)
                 /\ written' = written + 1
      <4>1. PICK what \in Writing, bytes \in Tears :
              log' = log \o SubSeq(Line(<<what, written + 1>>), 1, bytes)
        BY <3>3
      <4>2. what = "note" \/ (what \in Parents \ mem /\ phase = "working")
        BY <4>1 DEF Writing
      <4>3. what \notin ExpandedIn(log)
        BY <1>2, <4>2 DEF OnceInv
      <4> DEFINE e == <<what, written + 1>>
      <4>4. e \in Event /\ e[1] = what
        <5>1. written # MaxEvents /\ written \in 0 .. MaxEvents
          BY <1>1, <4>1 DEF Writing, LogTypeOK
        <5>2. written + 1 \in 1 .. MaxEvents
          BY <5>1, EventLogAssumption
        <5> QED BY <4>2, <5>2 DEF Event
      <4>5. Adds(e, bytes)
        BY <4>1 DEF Adds, Piece
      <4> HIDE DEF e
      <4>6. Once(ReadBack(log'))
        BY <1>1, <4>3, <4>4, <4>5, OnceStays
      <4> QED BY <2>0, <3>1, <4>6 DEF OnceInv
    <3> QED BY <2>5, <3>2, <3>3 DEF Die
  <2>6. ASSUME NEW p \in Parents, Expand(p) PROVE OnceInv'
    <3>1. phase = "working" /\ p \notin mem /\ Record(p, mem \cup {p}) /\ phase' = "working"
          /\ mem' = mem \cup {p}
      BY <2>6 DEF Expand, Record
    <3>2. ExpandedIn(log) \subseteq mem
      BY <3>1 DEF OnceInv
    <3>3. PICK e \in Event : e[1] = p /\ Adds(e, 4)
      BY <1>1, <3>1, RecordAdds
    <3>4. Once(ReadBack(log')) /\ ExpandedIn(log') \subseteq ExpandedIn(log) \cup {p}
      BY <1>1, <3>1, <3>2, <3>3, OnceStays
    <3> QED BY <2>0, <3>1, <3>2, <3>4 DEF OnceInv
  <2>7. ASSUME NEW p \in Parents, Replay(p) PROVE OnceInv'
    BY <1>3, <2>0, <2>7 DEF Replay, OnceInv
  <2> QED BY <1>4, <2>1, <2>2, <2>3, <2>4, <2>5, <2>6, <2>7 DEF LogNext
\* The client reads.
<1>5. ASSUME UNCHANGED logVars PROVE OnceInv'
  <2>1. LogInv'
    BY <1>1, <1>5, LogInvStutters
  <2> QED BY <1>5, <2>1 DEF OnceInv, logVars
<1> QED BY <1>4, <1>5 DEF Next, Run, StartHere, Poll, vars

\* What a resume would find once, a reader of the log finds at most once.
LEMMA OnceInvExpandedOnce == OnceInv => ExpandedOnce
<1> SUFFICES ASSUME OnceInv, NEW p \in Parents
             PROVE  LET events == EventsOf(Lines(log))
                    IN  Cardinality({k \in 1 .. Len(events) : events[k][1] = p}) <= 1
  BY DEF ExpandedOnce
<1> DEFINE events == EventsOf(Lines(log))
           r == ReadBack(log)
           ks == {k \in 1 .. Len(events) : events[k][1] = p}
<1>1. log \in Seq(Byte) /\ Once(r)
  BY DEF OnceInv, LogInv
<1>2. PICK a \in Seq(Byte), c \in Seq(Byte) : log = a \o c /\ Whole(a) /\ NoNewline(c)
  BY <1>1, TailOf
<1>3. events \in Seq(Told) /\ r = Append(events, Parsed(c)) /\ Parsed(c) \in Told
  BY <1>2, ReadBackIs, ParsedIsTold
<1> HIDE DEF events, r
<1>4. /\ Len(r) = Len(events) + 1 /\ Len(events) \in Nat
      /\ \A k \in 1 .. Len(events) : r[k] = events[k] /\ k \in 1 .. Len(r)
  BY <1>3
<1>5. \A j, k \in ks : j = k
  BY <1>1, <1>4 DEF Once
<1>6. ks = {} \/ \E k : ks = {k}
  BY <1>5
<1>7. Cardinality(ks) <= 1
  <2> HIDE DEF ks
  <2>1. CASE ks = {}
    <3>1. Cardinality(ks) = 0
      BY <2>1, FS_EmptySet
    <3> QED BY <3>1
  <2>2. ASSUME NEW k, ks = {k} PROVE Cardinality(ks) <= 1
    <3>1. Cardinality({k}) = 1
      BY FS_Singleton
    <3> QED BY <2>2, <3>1
  <2> QED BY <1>6, <2>1, <2>2
<1> QED BY <1>7 DEF ks, events

\* A foreach task is expanded once: no two expansions of it can be read in the
\* log, whatever died between the log and run.json, or within a line, and however
\* often.
THEOREM ExpandedAtMostOnce == Spec => []ExpandedOnce
<1> QED BY OnceInvInit, OnceInvNext, OnceInvExpandedOnce, PTL DEF Spec

=============================================================================
