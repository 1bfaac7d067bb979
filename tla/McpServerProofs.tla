---------------------------- MODULE McpServerProofs ----------------------------
(***************************************************************************)
(* The MCP server answers what it is asked, once and as it was framed,     *)
(* however many messages come and however their bytes are cut.             *)
(***************************************************************************)
EXTENDS McpServer, Integers, FiniteSetTheorems, TLAPS

-----------------------------------------------------------------------------
(* The invariant                                                           *)

\* The length of a message, and where it and the blank lines after it lie in a
\* stream: behind the first a bytes
FrameLen(n) == IF sent[n].framing = "jsonl" THEN 3 ELSE 5
LiesAt(s, n, a) ==
  /\ IF sent[n].framing = "jsonl"
       THEN /\ s[a + 1] = Byte("{", n) /\ s[a + 2] = Byte("}", n) /\ s[a + 3] = Byte("nl", n)
       ELSE /\ s[a + 1] = Byte("header", n)
            /\ s[a + 2] = Byte("nl", n) /\ s[a + 3] = Byte("nl", n)
            /\ s[a + 4] = Byte("{", n) /\ s[a + 5] = Byte("}", n)
  /\ \A i \in 1 .. sent[n].blanks : s[a + FrameLen(n) + i].sort = "nl"

\* The blank lines in front of the next message: not two before a header.
Gap(k, b) ==
  IF k < Len(sent) THEN sent[k + 1].framing = "headers" => b < 2
  ELSE b <= IF k = 0 THEN 0 ELSE sent[k].blanks

\* The stream s is b blank lines, then the messages behind the k-th; message n
\* lies behind its first p[n] bytes.
Reads(s, k, b, p) ==
  /\ k <= Len(sent) /\ p[k + 1] = b /\ Len(s) = p[Len(sent) + 1]
  /\ \A i \in 1 .. b : s[i].sort = "nl"
  /\ \A n \in k + 1 .. Len(sent) :
       LiesAt(s, n, p[n]) /\ p[n + 1] = p[n] + FrameLen(n) + sent[n].blanks
  /\ \A m, n \in k + 1 .. Len(sent) + 1 : m <= n => p[m] <= p[n]
  /\ Gap(k, b)

\* A header comes behind fewer than two blank lines.
Polite == \A n \in 2 .. Len(sent) : sent[n].framing = "headers" => sent[n - 1].blanks < 2

Errors(framing) == {i \in AnswersTo(0) : answers[i].framing = framing}
GarbageUpTo(k, framing) == {n \in Garbage(framing) : n <= k}

\* What is owed and what was answered is what the first k messages ask for.
Told(k) ==
  /\ \A call \in calls : /\ call.of \in Requests /\ call.of <= k
                         /\ call.framing = sent[call.of].framing
                         /\ AnswersTo(call.of) = {}
  /\ \A i \in 1 .. Len(answers) :
       answers[i].id # 0 => /\ answers[i].id \in Requests /\ answers[i].id <= k
                            /\ answers[i].framing = sent[answers[i].id].framing
  /\ \A i, j \in 1 .. Len(answers) : answers[i].id = answers[j].id /\ answers[i].id # 0 => i = j
  /\ \A framing \in Framings :
       Cardinality(Errors(framing)) <= Cardinality(GarbageUpTo(k, framing))

Stream == buffer \o wire
Offsets == [Nat -> Int]

McpInv ==
  /\ TypeOK /\ Polite
  /\ \E k, b \in Nat, p \in Offsets : Reads(Stream, k, b, p) /\ Told(k)

-----------------------------------------------------------------------------
(* Sequences                                                               *)

\* Two sequences in a row
LEMMA ConcatPointwise ==
  ASSUME NEW S, NEW x \in Seq(S), NEW y \in Seq(S)
  PROVE  /\ x \o y \in Seq(S) /\ Len(x \o y) = Len(x) + Len(y)
         /\ \A k \in 1 .. Len(x) : (x \o y)[k] = x[k]
         /\ \A k \in 1 .. Len(y) : (x \o y)[Len(x) + k] = y[k]
OBVIOUS

\* A sequence with one more place
LEMMA OneMore ==
  ASSUME NEW S, NEW x \in Seq(S), NEW y \in S
  PROVE  /\ Append(x, y) \in Seq(S) /\ Len(Append(x, y)) = Len(x) + 1
         /\ Append(x, y)[Len(x) + 1] = y
         /\ \A i \in 1 .. Len(x) : Append(x, y)[i] = x[i]
OBVIOUS

\* A piece of a sequence
LEMMA PieceOf ==
  ASSUME NEW S, NEW x \in Seq(S), NEW n \in 0 .. Len(x), NEW m \in 0 .. n
  PROVE  /\ SubSeq(x, m + 1, n) \in Seq(S) /\ Len(SubSeq(x, m + 1, n)) = n - m
         /\ \A i \in 1 .. n - m : SubSeq(x, m + 1, n)[i] = x[m + i]
<1>1. Len(x) \in Nat /\ m \in Nat /\ n \in Nat /\ m <= n /\ n <= Len(x)
  OBVIOUS
<1>2. SubSeq(x, m + 1, n) \in Seq(S)
  BY <1>1
<1>3. Len(SubSeq(x, m + 1, n)) = n - m
  BY <1>1
<1>4. \A i \in 1 .. n - m : SubSeq(x, m + 1, n)[i] = x[m + i]
  BY <1>1
<1> QED BY <1>2, <1>3, <1>4

\* Two sequences with the same places are the same.
LEMMA SamePlaces ==
  ASSUME NEW S, NEW x \in Seq(S), NEW y \in Seq(S), Len(x) = Len(y),
         \A i \in 1 .. Len(x) : x[i] = y[i]
  PROVE  x = y
OBVIOUS

\* The first c places of y moved to the end of x, in front of y
Shifts(S, x, y, c) ==
  /\ x \o SubSeq(y, 1, c) \in Seq(S) /\ SubSeq(y, c + 1, Len(y)) \in Seq(S)
  /\ (x \o SubSeq(y, 1, c)) \o SubSeq(y, c + 1, Len(y)) = x \o y

\* That changes nothing of the two in a row.
LEMMA Moved ==
  ASSUME NEW S, NEW x \in Seq(S), NEW y \in Seq(S), NEW c \in 0 .. Len(y)
  PROVE  Shifts(S, x, y, c)
<1> DEFINE u == SubSeq(y, 1, c)
           v == SubSeq(y, c + 1, Len(y))
           xu == x \o u
<1>1. /\ u \in Seq(S) /\ Len(u) = c /\ \A i \in 1 .. c : u[i] = y[i]
      /\ v \in Seq(S) /\ Len(v) = Len(y) - c /\ \A i \in 1 .. Len(y) - c : v[i] = y[c + i]
  <2>1. c \in 0 .. Len(y) /\ 0 \in 0 .. c /\ Len(y) \in 0 .. Len(y) /\ c \in 0 .. Len(y) /\ c \in Nat
    OBVIOUS
  <2>2. /\ SubSeq(y, 0 + 1, c) \in Seq(S) /\ Len(SubSeq(y, 0 + 1, c)) = c - 0
        /\ \A i \in 1 .. c - 0 : SubSeq(y, 0 + 1, c)[i] = y[0 + i]
    BY <2>1, PieceOf
  <2>3. /\ v \in Seq(S) /\ Len(v) = Len(y) - c /\ \A i \in 1 .. Len(y) - c : v[i] = y[c + i]
    BY <2>1, PieceOf
  <2>4. u = SubSeq(y, 0 + 1, c) /\ c - 0 = c /\ \A i \in 1 .. c : 0 + i = i
    BY <2>1
  <2> QED BY <2>2, <2>3, <2>4
<1> HIDE DEF u, v
<1>t. x \in Seq(S) /\ u \in Seq(S) /\ v \in Seq(S)
  BY <1>1
<1>2. /\ xu \in Seq(S) /\ Len(xu) = Len(x) + Len(u)
      /\ \A k \in 1 .. Len(x) : xu[k] = x[k]
      /\ \A k \in 1 .. Len(u) : xu[Len(x) + k] = u[k]
  BY <1>t, ConcatPointwise
<1> HIDE DEF xu
<1>w. xu \in Seq(S)
  BY <1>2
<1> DEFINE s == xu \o v
           t == x \o y
<1>3. /\ s \in Seq(S) /\ Len(s) = Len(xu) + Len(v)
      /\ \A k \in 1 .. Len(xu) : s[k] = xu[k]
      /\ \A k \in 1 .. Len(v) : s[Len(xu) + k] = v[k]
  BY <1>t, <1>w, ConcatPointwise
<1>4. /\ t \in Seq(S) /\ Len(t) = Len(x) + Len(y)
      /\ \A k \in 1 .. Len(x) : t[k] = x[k]
      /\ \A k \in 1 .. Len(y) : t[Len(x) + k] = y[k]
  BY ConcatPointwise
<1> HIDE DEF s, t
<1>5. Len(s) = Len(t) /\ Len(x) \in Nat /\ Len(y) \in Nat
  BY <1>1, <1>2, <1>3, <1>4
<1>6. ASSUME NEW i \in 1 .. Len(s) PROVE s[i] = t[i]
  <2>1. CASE i <= Len(x)
    BY <1>1, <1>2, <1>3, <1>4, <1>5, <2>1
  <2>2. CASE i > Len(x) /\ i <= Len(x) + c
    <3>1. i - Len(x) \in 1 .. c /\ i - Len(x) \in 1 .. Len(y) /\ i = Len(x) + (i - Len(x))
      BY <1>5, <2>2
    <3>2. i \in 1 .. Len(xu)
      BY <1>1, <1>2, <1>5, <2>2
    <3>3. s[i] = xu[i]
      BY <1>3, <3>2
    <3>4. xu[i] = u[i - Len(x)]
      BY <1>1, <1>2, <3>1
    <3>5. u[i - Len(x)] = y[i - Len(x)] /\ t[i] = y[i - Len(x)]
      BY <1>1, <1>4, <3>1
    <3> QED BY <3>3, <3>4, <3>5
  <2>3. CASE i > Len(x) + c
    <3>1. /\ i - Len(xu) \in 1 .. Len(v) /\ i = Len(xu) + (i - Len(xu))
          /\ c + (i - Len(xu)) \in 1 .. Len(y) /\ Len(x) + (c + (i - Len(xu))) = i
      BY <1>1, <1>2, <1>3, <1>5, <2>3
    <3>2. s[i] = v[i - Len(xu)]
      BY <1>3, <3>1
    <3>3. v[i - Len(xu)] = y[c + (i - Len(xu))]
      BY <1>1, <3>1
    <3>4. t[i] = y[c + (i - Len(xu))]
      BY <1>4, <3>1
    <3> QED BY <3>2, <3>3, <3>4
  <2> QED BY <1>5, <2>1, <2>2, <2>3
<1>7. s = t
  BY <1>3, <1>4, <1>5, <1>6, SamePlaces
<1> QED BY <1>1, <1>2, <1>7 DEF Shifts, s, t, xu, u, v

\* x without its first c places, in front of y
CutFront(S, x, y, c) ==
  /\ SubSeq(x, c + 1, Len(x)) \in Seq(S)
  /\ Len(SubSeq(x, c + 1, Len(x)) \o y) = Len(x \o y) - c
  /\ \A i \in 1 .. Len(x \o y) - c :
       (SubSeq(x, c + 1, Len(x)) \o y)[i] = (x \o y)[c + i]

\* Cutting the first of two sequences in a row cuts the two.
LEMMA CutInFront ==
  ASSUME NEW S, NEW x \in Seq(S), NEW y \in Seq(S), NEW c \in 0 .. Len(x)
  PROVE  CutFront(S, x, y, c)
<1> DEFINE u == SubSeq(x, c + 1, Len(x))
           s == u \o y
           t == x \o y
<1>1. u \in Seq(S) /\ Len(u) = Len(x) - c /\ \A i \in 1 .. Len(x) - c : u[i] = x[c + i]
  <2>1. Len(x) \in 0 .. Len(x) /\ c \in 0 .. Len(x)
    OBVIOUS
  <2> QED BY <2>1, PieceOf
<1> HIDE DEF u
<1>t. u \in Seq(S) /\ y \in Seq(S)
  BY <1>1
<1>2. /\ s \in Seq(S) /\ Len(s) = Len(u) + Len(y)
      /\ \A k \in 1 .. Len(u) : s[k] = u[k]
      /\ \A k \in 1 .. Len(y) : s[Len(u) + k] = y[k]
  BY <1>t, ConcatPointwise
<1>3. /\ t \in Seq(S) /\ Len(t) = Len(x) + Len(y)
      /\ \A k \in 1 .. Len(x) : t[k] = x[k]
      /\ \A k \in 1 .. Len(y) : t[Len(x) + k] = y[k]
  BY ConcatPointwise
<1> HIDE DEF s, t
<1>4. Len(x) \in Nat /\ Len(y) \in Nat /\ c \in Nat /\ Len(s) = Len(t) - c
  BY <1>1, <1>2, <1>3
<1>5. ASSUME NEW i \in 1 .. Len(t) - c PROVE s[i] = t[c + i]
  <2>1. CASE i <= Len(u)
    <3>1. i \in 1 .. Len(u) /\ i \in 1 .. Len(x) - c /\ c + i \in 1 .. Len(x)
      BY <1>1, <1>4, <2>1
    <3> QED BY <1>1, <1>2, <1>3, <3>1
  <2>2. CASE i > Len(u)
    <3>1. /\ i - Len(u) \in 1 .. Len(y) /\ i = Len(u) + (i - Len(u))
          /\ c + i = Len(x) + (i - Len(u))
      BY <1>1, <1>3, <1>4, <2>2
    <3> QED BY <1>2, <1>3, <3>1
  <2> QED BY <1>1, <1>4, <2>1, <2>2
<1> QED BY <1>1, <1>4, <1>5 DEF CutFront, s, t, u

\* f and then g behind x and y in a row
Behind(S, x, y, f, g) ==
  /\ (y \o f) \o g \in Seq(S)
  /\ Len(x \o ((y \o f) \o g)) = Len(x \o y) + Len(f) + Len(g)
  /\ \A i \in 1 .. Len(x \o y) : (x \o ((y \o f) \o g))[i] = (x \o y)[i]
  /\ \A i \in 1 .. Len(f) : (x \o ((y \o f) \o g))[Len(x \o y) + i] = f[i]
  /\ \A i \in 1 .. Len(g) : (x \o ((y \o f) \o g))[Len(x \o y) + Len(f) + i] = g[i]

\* They leave what is in front of them where it is.
LEMMA TwoBehind ==
  ASSUME NEW S, NEW x \in Seq(S), NEW y \in Seq(S), NEW f \in Seq(S), NEW g \in Seq(S)
  PROVE  Behind(S, x, y, f, g)
<1> DEFINE s == x \o y
           w == y \o f
           v == w \o g
           z == x \o v
<1>1. /\ s \in Seq(S) /\ Len(s) = Len(x) + Len(y)
      /\ \A i \in 1 .. Len(x) : s[i] = x[i]
      /\ \A i \in 1 .. Len(y) : s[Len(x) + i] = y[i]
  BY ConcatPointwise
<1>2. /\ w \in Seq(S) /\ Len(w) = Len(y) + Len(f)
      /\ \A i \in 1 .. Len(y) : w[i] = y[i]
      /\ \A i \in 1 .. Len(f) : w[Len(y) + i] = f[i]
  BY ConcatPointwise
<1> HIDE DEF s, w
<1>w. w \in Seq(S)
  BY <1>2
<1>3. /\ v \in Seq(S) /\ Len(v) = Len(w) + Len(g)
      /\ \A i \in 1 .. Len(w) : v[i] = w[i]
      /\ \A i \in 1 .. Len(g) : v[Len(w) + i] = g[i]
  BY <1>w, ConcatPointwise
<1> HIDE DEF v
<1>v. v \in Seq(S)
  BY <1>3
<1>4. /\ z \in Seq(S) /\ Len(z) = Len(x) + Len(v)
      /\ \A i \in 1 .. Len(x) : z[i] = x[i]
      /\ \A i \in 1 .. Len(v) : z[Len(x) + i] = v[i]
  BY <1>v, ConcatPointwise
<1> HIDE DEF z
<1>5. Len(x) \in Nat /\ Len(y) \in Nat /\ Len(f) \in Nat /\ Len(g) \in Nat
  OBVIOUS
<1>6. Len(z) = Len(s) + Len(f) + Len(g)
  BY <1>1, <1>2, <1>3, <1>4, <1>5
<1>7. ASSUME NEW i \in 1 .. Len(s) PROVE z[i] = s[i]
  <2>1. CASE i <= Len(x)
    BY <1>1, <1>4, <1>5, <2>1
  <2>2. CASE ~ (i <= Len(x))
    <3>1. PICK j \in Nat : i = Len(x) + j
      BY <1>5, <2>2
    <3>2. j \in 1 .. Len(y)
      BY <1>1, <1>5, <2>2, <3>1
    <3>3. j \in 1 .. Len(w)
      BY <1>2, <1>5, <3>2
    <3>4. j \in 1 .. Len(v)
      BY <1>2, <1>3, <1>5, <3>2
    <3>5. s[i] = y[j]
      BY <1>1, <3>1, <3>2
    <3>6. z[i] = v[j] /\ v[j] = w[j] /\ w[j] = y[j]
      BY <1>2, <1>3, <1>4, <3>1, <3>2, <3>3, <3>4
    <3> QED BY <3>5, <3>6
  <2> QED BY <2>1, <2>2
<1>8. ASSUME NEW i \in 1 .. Len(f) PROVE z[Len(s) + i] = f[i]
  <2>1. PICK j \in Nat : j = Len(y) + i
    BY <1>5
  <2>2. j \in 1 .. Len(w)
    BY <1>2, <1>5, <2>1
  <2>3. j \in 1 .. Len(v)
    BY <1>2, <1>3, <1>5, <2>2
  <2>4. Len(s) + i = Len(x) + j
    BY <1>1, <1>5, <2>1
  <2>5. z[Len(x) + j] = v[j] /\ v[j] = w[j] /\ w[j] = f[i]
    BY <1>2, <1>3, <1>4, <2>1, <2>2, <2>3
  <2> QED BY <2>4, <2>5
<1>9. ASSUME NEW i \in 1 .. Len(g) PROVE z[Len(s) + Len(f) + i] = g[i]
  <2>1. PICK j \in Nat : j = Len(w) + i
    BY <1>2, <1>5
  <2>2. j \in 1 .. Len(v)
    BY <1>2, <1>3, <1>5, <2>1
  <2>3. Len(s) + Len(f) + i = Len(x) + j
    BY <1>1, <1>2, <1>5, <2>1
  <2>4. z[Len(x) + j] = v[j] /\ v[j] = g[i]
    BY <1>3, <1>4, <2>1, <2>2
  <2> QED BY <2>3, <2>4
<1> QED BY <1>3, <1>6, <1>7, <1>8, <1>9 DEF Behind, s, w, v, z

\* What Min is
LEMMA MinIs ==
  ASSUME NEW T \in SUBSET Nat, NEW x \in T, \A y \in T : x <= y
  PROVE  Min(T) = x
<1>1. \A z \in T : (\A y \in T : z <= y) => z = x
  OBVIOUS
<1> QED BY <1>1 DEF Min

-----------------------------------------------------------------------------
(* Bytes                                                                   *)

\* A sequence of two
LEMMA PairIs ==
  ASSUME NEW S, NEW x \in S, NEW y \in S
  PROVE  <<x, y>> \in Seq(S) /\ Len(<<x, y>>) = 2 /\ <<x, y>>[1] = x /\ <<x, y>>[2] = y
OBVIOUS

\* What the bytes of a message are
LEMMA TextIs ==
  ASSUME NEW n \in 1 .. MaxMessages
  PROVE  /\ Text(n) \in Seq(Bytes) /\ Len(Text(n)) = 2
         /\ Text(n)[1] = Byte("{", n) /\ Text(n)[2] = Byte("}", n)
<1>1. Byte("{", n) \in Bytes /\ Byte("}", n) \in Bytes
  BY DEF Byte, Bytes
<1> QED BY <1>1, PairIs DEF Text

LEMMA FramedIs ==
  ASSUME NEW f \in Framings, NEW n \in 1 .. MaxMessages
  PROVE  /\ Framed(f, n) \in Seq(Bytes)
         /\ f = "jsonl" => /\ Len(Framed(f, n)) = 3
                           /\ Framed(f, n)[1] = Byte("{", n) /\ Framed(f, n)[2] = Byte("}", n)
                           /\ Framed(f, n)[3] = Byte("nl", n)
         /\ f # "jsonl" => /\ Len(Framed(f, n)) = 5
                           /\ Framed(f, n)[1] = Byte("header", n)
                           /\ Framed(f, n)[2] = Byte("nl", n) /\ Framed(f, n)[3] = Byte("nl", n)
                           /\ Framed(f, n)[4] = Byte("{", n) /\ Framed(f, n)[5] = Byte("}", n)
<1> DEFINE h == <<Byte("header", n)>>
           x == Blank(n)
           t == Text(n)
<1>1. /\ h \in Seq(Bytes) /\ Len(h) = 1 /\ h[1] = Byte("header", n)
      /\ x \in Seq(Bytes) /\ Len(x) = 1 /\ x[1] = Byte("nl", n)
  <2>1. Byte("header", n) \in Bytes /\ Byte("nl", n) \in Bytes
    BY DEF Byte, Bytes
  <2> QED BY <2>1 DEF Blank
<1>2. /\ t \in Seq(Bytes) /\ Len(t) = 2 /\ t[1] = Byte("{", n) /\ t[2] = Byte("}", n)
  BY TextIs
<1> HIDE DEF h, x, t
<1>s. h \in Seq(Bytes) /\ x \in Seq(Bytes) /\ t \in Seq(Bytes)
  BY <1>1, <1>2
<1>3. CASE f = "jsonl"
  <2>1. Framed(f, n) = t \o x
    BY <1>3 DEF Framed, t, x
  <2>2. /\ t \o x \in Seq(Bytes) /\ Len(t \o x) = Len(t) + Len(x)
        /\ \A k \in 1 .. Len(t) : (t \o x)[k] = t[k]
        /\ \A k \in 1 .. Len(x) : (t \o x)[Len(t) + k] = x[k]
    BY <1>s, ConcatPointwise
  <2> DEFINE tx == t \o x
  <2>3. tx \in Seq(Bytes) /\ Len(tx) = 3 /\ tx[1] = t[1] /\ tx[2] = t[2] /\ tx[3] = x[1]
    <3> HIDE DEF tx
    <3>1. /\ tx \in Seq(Bytes) /\ Len(tx) = Len(t) + Len(x)
          /\ \A k \in 1 .. Len(t) : tx[k] = t[k]
          /\ \A k \in 1 .. Len(x) : tx[Len(t) + k] = x[k]
      BY <2>2 DEF tx
    <3>2. Len(t) = 2 /\ Len(x) = 1
      BY <1>1, <1>2
    <3> QED BY <3>1, <3>2
  <2> HIDE DEF tx
  <2>4. Framed(f, n) = tx
    BY <2>1 DEF tx
  <2> QED BY <1>1, <1>2, <1>3, <2>3, <2>4
<1>4. CASE f # "jsonl"
  <2> DEFINE hx == h \o x
             hxx == hx \o x
             hxxt == hxx \o t
  <2>1. Framed(f, n) = hxxt
    BY <1>4 DEF Framed, h, x, t
  <2>2. hx \in Seq(Bytes) /\ Len(hx) = 2 /\ hx[1] = h[1] /\ hx[2] = x[1]
    <3>1. /\ hx \in Seq(Bytes) /\ Len(hx) = Len(h) + Len(x)
          /\ \A k \in 1 .. Len(h) : hx[k] = h[k]
          /\ \A k \in 1 .. Len(x) : hx[Len(h) + k] = x[k]
      BY <1>s, ConcatPointwise
    <3> QED BY <1>1, <3>1
  <2> HIDE DEF hx
  <2>3. hxx \in Seq(Bytes) /\ Len(hxx) = 3 /\ hxx[1] = h[1] /\ hxx[2] = x[1] /\ hxx[3] = x[1]
    <3>1. /\ hxx \in Seq(Bytes) /\ Len(hxx) = Len(hx) + Len(x)
          /\ \A k \in 1 .. Len(hx) : hxx[k] = hx[k]
          /\ \A k \in 1 .. Len(x) : hxx[Len(hx) + k] = x[k]
      <4>1. hx \in Seq(Bytes)
        BY <2>2
      <4> QED BY <1>s, <4>1, ConcatPointwise
    <3> QED BY <1>1, <2>2, <3>1
  <2> HIDE DEF hxx
  <2>4. /\ hxxt \in Seq(Bytes) /\ Len(hxxt) = 5 /\ hxxt[1] = h[1] /\ hxxt[2] = x[1]
        /\ hxxt[3] = x[1] /\ hxxt[4] = t[1] /\ hxxt[5] = t[2]
    <3>1. /\ hxxt \in Seq(Bytes) /\ Len(hxxt) = Len(hxx) + Len(t)
          /\ \A k \in 1 .. Len(hxx) : hxxt[k] = hxx[k]
          /\ \A k \in 1 .. Len(t) : hxxt[Len(hxx) + k] = t[k]
      <4>1. hxx \in Seq(Bytes)
        BY <2>3
      <4> QED BY <1>s, <4>1, ConcatPointwise
    <3> HIDE DEF hxxt
    <3>2. Len(hxx) = 3 /\ Len(t) = 2
      BY <1>2, <2>3
    <3>3. /\ hxxt[1] = hxx[1] /\ hxxt[2] = hxx[2] /\ hxxt[3] = hxx[3]
          /\ hxxt[4] = t[1] /\ hxxt[5] = t[2] /\ Len(hxxt) = 5
      BY <3>1, <3>2
    <3> QED BY <2>3, <3>1, <3>3
  <2> HIDE DEF hxxt
  <2> QED BY <1>1, <1>2, <1>4, <2>1, <2>4
<1> QED BY <1>3, <1>4

\* Blank lines are blank.
LEMMA BlanksAre ==
  ASSUME NEW n \in 1 .. MaxMessages, NEW c \in Nat
  PROVE  /\ Blanks(n, c) \in Seq(Bytes) /\ Len(Blanks(n, c)) = c
         /\ \A i \in 1 .. c : Blanks(n, c)[i] = Byte("nl", n)
<1>1. Byte("nl", n) \in Bytes
  BY DEF Byte, Bytes
<1> QED BY <1>1 DEF Blanks

-----------------------------------------------------------------------------
(* What a stream reads                                                     *)

\* What the client sent is of the menu.
LEMMA SentIs ==
  ASSUME TypeOK, NEW n \in 1 .. Len(sent)
  PROVE  /\ Len(sent) \in Nat /\ n \in 1 .. MaxMessages
         /\ sent[n].framing \in Framings /\ sent[n].blanks \in Nat /\ sent[n].kind \in Kinds
<1>1. sent \in Seq(Menu) /\ Len(sent) <= MaxMessages
  BY DEF TypeOK
<1>2. sent[n] \in Menu /\ Len(sent) \in Nat
  BY <1>1
<1>3. sent[n] \in [kind : Kinds, framing : Framings, blanks : Nat]
  BY <1>2, McpAssumption
<1> QED BY <1>1, <1>2, <1>3, McpAssumption

\* The stream t is s without its first c bytes.
CutOf(t, s, c) == Len(t) = Len(s) - c /\ \A i \in 1 .. Len(t) : t[i] = s[c + i]
BlankAt(s, c, b) == \A i \in 1 .. b : s[c + i].sort = "nl"

\* A message with its blank lines that lies in one stream lies in every stream
\* that has these bytes.
LEMMA LiesElsewhere ==
  ASSUME TypeOK, NEW s, NEW t, NEW n \in 1 .. Len(sent), NEW a \in Int, NEW e \in Int, LiesAt(s, n, a)
  PROVE  (\A i \in 1 .. FrameLen(n) + sent[n].blanks : t[e + i] = s[a + i]) => LiesAt(t, n, e)
<1> DEFINE l == FrameLen(n)
           c == sent[n].blanks
<1> SUFFICES ASSUME \A i \in 1 .. l + c : t[e + i] = s[a + i] PROVE LiesAt(t, n, e)
  OBVIOUS
<1>1. c \in Nat /\ l \in {3, 5}
  BY SentIs DEF FrameLen
<1>2. l \in Nat /\ l >= 3
  BY <1>1
<1>3. ASSUME NEW i \in 1 .. c PROVE t[e + l + i].sort = "nl"
  <2>1. s[a + l + i].sort = "nl"
    BY DEF LiesAt
  <2> HIDE DEF c, l
  <2>2. l + i \in 1 .. l + c
    BY <1>1, <1>2
  <2>3. e + (l + i) = e + l + i
    BY <1>1, <1>2
  <2>4. a + (l + i) = a + l + i
    BY <1>1, <1>2
  <2>5. t[e + (l + i)] = s[a + (l + i)]
    BY <2>2
  <2> QED BY <2>1, <2>3, <2>4, <2>5
<1>4. t[e + 1] = s[a + 1] /\ t[e + 2] = s[a + 2] /\ t[e + 3] = s[a + 3]
  <2> HIDE DEF c, l
  <2>1. 1 \in 1 .. l + c /\ 2 \in 1 .. l + c /\ 3 \in 1 .. l + c
    BY <1>1, <1>2
  <2> QED BY <2>1
<1>5. CASE sent[n].framing = "jsonl"
  BY <1>3, <1>4, <1>5 DEF LiesAt
<1>6. CASE sent[n].framing # "jsonl"
  <2>1. l = 5
    BY <1>6 DEF FrameLen
  <2>2. t[e + 4] = s[a + 4] /\ t[e + 5] = s[a + 5]
    <3> HIDE DEF c, l
    <3>1. 4 \in 1 .. l + c /\ 5 \in 1 .. l + c
      BY <1>1, <2>1
    <3> QED BY <3>1
  <2> QED BY <1>3, <1>4, <1>6, <2>2 DEF LiesAt
<1> QED BY <1>5, <1>6

\* A message that lies in a stream still does when the bytes before it are cut.
LEMMA LiesCut ==
  ASSUME TypeOK, NEW s \in Seq(Bytes), NEW t \in Seq(Bytes), NEW n \in 1 .. Len(sent),
         NEW a \in Int, NEW c \in Nat, c <= a, LiesAt(s, n, a),
         a + FrameLen(n) + sent[n].blanks <= Len(s), CutOf(t, s, c)
  PROVE  LiesAt(t, n, a - c)
<1> DEFINE e == a - c
           l == FrameLen(n) + sent[n].blanks
<1>1. sent[n].blanks \in Nat /\ FrameLen(n) \in {3, 5}
  BY SentIs DEF FrameLen
<1>2. l \in Nat
  BY <1>1
<1>3. a + l <= Len(s)
  BY <1>1
<1>4. e \in Nat /\ c + e = a
  OBVIOUS
<1>5. Len(t) = Len(s) - c /\ Len(s) \in Nat
  BY DEF CutOf
<1>6. ASSUME NEW i \in 1 .. l PROVE t[e + i] = s[a + i]
  <2> HIDE DEF e, l
  <2>1. e + i \in 1 .. Len(t)
    BY <1>2, <1>3, <1>4, <1>5
  <2>2. c + (e + i) = a + i
    BY <1>2, <1>4
  <2>3. t[e + i] = s[c + (e + i)]
    BY <2>1 DEF CutOf
  <2> QED BY <2>2, <2>3
<1>7. LiesAt(t, n, e)
  <2> HIDE DEF e
  <2> QED BY <1>4, <1>6, LiesElsewhere
<1> QED BY <1>7

\* Where the next message lies, and that all of it is there
LEMMA NextLies ==
  ASSUME TypeOK, NEW s \in Seq(Bytes), NEW k \in Nat, NEW b \in Nat, NEW p \in Offsets,
         Reads(s, k, b, p)
  PROVE  /\ k \in 0 .. Len(sent) /\ b <= Len(s)
         /\ k = Len(sent) => Len(s) = b
         /\ k < Len(sent) => /\ k + 1 \in 1 .. Len(sent)
                             /\ LiesAt(s, k + 1, b)
                             /\ p[k + 2] = b + FrameLen(k + 1) + sent[k + 1].blanks
                             /\ p[k + 2] <= Len(s)
<1>1. Len(sent) \in Nat
  BY DEF TypeOK
<1>2. /\ k <= Len(sent) /\ p[k + 1] = b /\ Len(s) = p[Len(sent) + 1]
      /\ \A m, n \in k + 1 .. Len(sent) + 1 : m <= n => p[m] <= p[n]
  BY DEF Reads
<1>3. b <= Len(s)
  BY <1>1, <1>2
<1>4. ASSUME k < Len(sent)
      PROVE  /\ k + 1 \in 1 .. Len(sent) /\ LiesAt(s, k + 1, b)
             /\ p[k + 2] = b + FrameLen(k + 1) + sent[k + 1].blanks
             /\ p[k + 2] <= Len(s)
  <2>1. /\ k + 1 \in 1 .. Len(sent) /\ k + 1 \in k + 1 .. Len(sent) /\ (k + 1) + 1 = k + 2
        /\ k + 2 \in k + 1 .. Len(sent) + 1 /\ Len(sent) + 1 \in k + 1 .. Len(sent) + 1
        /\ k + 2 <= Len(sent) + 1
    BY <1>1, <1>4
  <2>2. /\ LiesAt(s, k + 1, p[k + 1])
        /\ p[(k + 1) + 1] = p[k + 1] + FrameLen(k + 1) + sent[k + 1].blanks
    BY <2>1 DEF Reads
  <2>3. p[k + 2] <= p[Len(sent) + 1]
    BY <1>2, <2>1
  <2> QED BY <1>2, <2>1, <2>2, <2>3
<1> QED BY <1>1, <1>2, <1>3, <1>4

\* A stream that is cut before message k2 + 1, or within the blank lines in
\* front of it, reads on from there.
LEMMA CutReads ==
  ASSUME TypeOK, NEW s \in Seq(Bytes), NEW t \in Seq(Bytes), NEW k \in Nat, NEW b \in Nat,
         NEW p \in Offsets, Reads(s, k, b, p),
         NEW k2 \in k .. Len(sent), NEW c \in Nat, NEW b2 \in Nat, p[k2 + 1] = c + b2,
         CutOf(t, s, c), BlankAt(s, c, b2), Gap(k2, b2)
  PROVE  Reads(t, k2, b2, [n \in Nat |-> p[n] - c])
<1> DEFINE q == [n \in Nat |-> p[n] - c]
           l == Len(sent)
<1>1. l \in Nat /\ k2 \in Nat /\ k <= k2 /\ k2 <= l
  BY DEF TypeOK
<1>2. \A n \in Nat : q[n] = p[n] - c /\ p[n] \in Int
  BY DEF Offsets
<1> HIDE DEF q
<1>3. /\ p[k + 1] = b /\ Len(s) = p[l + 1]
      /\ \A m, n \in k + 1 .. l + 1 : m <= n => p[m] <= p[n]
      /\ \A n \in k + 1 .. l : LiesAt(s, n, p[n]) /\ p[n + 1] = p[n] + FrameLen(n) + sent[n].blanks
  BY DEF Reads
<1>4. Len(t) = Len(s) - c /\ Len(s) \in Nat
  BY DEF CutOf
<1> HIDE DEF l
<1>5. q[k2 + 1] = b2
  <2>1. k2 + 1 \in Nat
    BY <1>1
  <2>2. q[k2 + 1] = p[k2 + 1] - c
    BY <1>2, <2>1
  <2> QED BY <2>2
<1>6. Len(t) = q[l + 1]
  <2>1. l + 1 \in Nat
    BY <1>1
  <2>2. q[l + 1] = p[l + 1] - c
    BY <1>2, <2>1
  <2> QED BY <1>3, <1>4, <2>2
<1>7. \A n \in k2 + 1 .. l + 1 : n \in k + 1 .. l + 1 /\ n \in Nat
  BY <1>1
<1>8. k2 + 1 \in k2 + 1 .. l + 1 /\ l + 1 \in k2 + 1 .. l + 1
  BY <1>1
<1>9. b2 <= Len(t)
  <2>1. k2 + 1 <= l + 1
    BY <1>1
  <2>2. p[k2 + 1] <= p[l + 1]
    BY <1>3, <1>7, <1>8, <2>1
  <2>3. c + b2 <= Len(s)
    BY <1>3, <2>2
  <2> QED BY <1>4, <2>3
<1>10. \A i \in 1 .. b2 : t[i].sort = "nl"
  <2> SUFFICES ASSUME NEW i \in 1 .. b2 PROVE t[i].sort = "nl"
    OBVIOUS
  <2>1. i \in 1 .. Len(t)
    BY <1>4, <1>9
  <2> QED BY <2>1 DEF CutOf, BlankAt
<1>11. ASSUME NEW n \in k2 + 1 .. l
       PROVE  LiesAt(t, n, q[n]) /\ q[n + 1] = q[n] + FrameLen(n) + sent[n].blanks
  <2>1. n \in k2 + 1 .. l + 1 /\ n + 1 \in k2 + 1 .. l + 1
    BY <1>1
  <2>2. n \in k + 1 .. l /\ n \in 1 .. l
    BY <1>1
  <2>3. k2 + 1 <= n /\ n + 1 <= l + 1
    BY <1>1
  <2>4. LiesAt(s, n, p[n]) /\ p[n + 1] = p[n] + FrameLen(n) + sent[n].blanks
    BY <1>3, <2>2
  <2>5. p[k2 + 1] <= p[n] /\ p[n + 1] <= Len(s)
    BY <1>3, <1>7, <1>8, <2>1, <2>3
  <2>6. n \in Nat /\ n + 1 \in Nat
    BY <1>7, <2>1
  <2>7. p[n] \in Int /\ p[n + 1] \in Int
    BY <1>2, <2>6
  <2>8. c <= p[n]
    <3> DEFINE x == p[n]
    <3>1. c + b2 <= x
      BY <2>5
    <3>2. x \in Int
      BY <2>7
    <3> HIDE DEF x
    <3>3. c <= x
      BY <3>1, <3>2
    <3> QED BY <3>3 DEF x
  <2>9. sent[n].blanks \in Nat /\ FrameLen(n) \in {3, 5}
    BY <2>2, SentIs DEF FrameLen, l
  <2>10. p[n] + FrameLen(n) + sent[n].blanks <= Len(s)
    BY <2>4, <2>5
  <2>11. LiesAt(t, n, p[n] - c)
    BY <2>2, <2>4, <2>7, <2>8, <2>10, LiesCut DEF l
  <2>12. q[n] = p[n] - c /\ q[n + 1] = p[n + 1] - c
    BY <1>2, <2>6
  <2>13. q[n + 1] = q[n] + FrameLen(n) + sent[n].blanks
    <3> DEFINE x == p[n]
               y == FrameLen(n)
               w == sent[n].blanks
    <3>1. p[n + 1] = x + y + w
      BY <2>4
    <3>2. x \in Int /\ y \in Int /\ w \in Int /\ c \in Int
      BY <2>7, <2>9
    <3> HIDE DEF x, y, w
    <3>3. (x + y + w) - c = (x - c) + y + w
      BY <3>2
    <3>4. q[n + 1] = (x + y + w) - c /\ q[n] = x - c
      BY <2>12, <3>1 DEF x
    <3> QED BY <3>3, <3>4 DEF y, w
  <2> QED BY <2>11, <2>12, <2>13
<1>12. ASSUME NEW m \in k2 + 1 .. l + 1, NEW n \in k2 + 1 .. l + 1, m <= n
       PROVE  q[m] <= q[n]
  <2>1. /\ m \in k + 1 .. l + 1 /\ n \in k + 1 .. l + 1 /\ m \in Nat /\ n \in Nat
    BY <1>7
  <2>2. p[m] <= p[n]
    BY <1>3, <1>12, <2>1
  <2>3. q[m] = p[m] - c /\ q[n] = p[n] - c /\ p[m] \in Int /\ p[n] \in Int
    BY <1>2, <2>1
  <2> HIDE DEF q
  <2>4. p[m] \in Int /\ p[n] \in Int /\ c \in Int
    BY <2>3
  <2>5. p[m] - c <= p[n] - c
    BY <2>2, <2>4
  <2> QED BY <2>3, <2>5
<1>13. Reads(t, k2, b2, q)
  BY <1>1, <1>5, <1>6, <1>10, <1>11, <1>12 DEF Reads, l
<1> QED BY <1>13 DEF q

\* What the client has sent stays, and it sends no header behind two blank lines.
LEMMA AskSends ==
  ASSUME TypeOK, Polite, NEW message \in Menu, Ask(message)
  PROVE  /\ sent' \in Seq(Menu) /\ Len(sent') = Len(sent) + 1 /\ Len(sent') <= MaxMessages
         /\ sent'[Len(sent) + 1] = message
         /\ \A n \in 1 .. Len(sent) : sent'[n] = sent[n]
         /\ message.framing = "headers" /\ Len(sent) # 0 => sent[Len(sent)].blanks < 2
         /\ Polite'
<1> DEFINE l == Len(sent)
<1>1. sent \in Seq(Menu) /\ MaxMessages \in Nat
  BY McpAssumption DEF TypeOK
<1>2. l \in Nat
  BY <1>1
<1>3. sent' = Append(sent, message) /\ l + 1 <= MaxMessages
  BY DEF Ask
<1>4. message.framing = "headers" /\ l + 1 > 1 => sent[(l + 1) - 1].blanks < 2
  BY DEF Ask
<1>5. (l + 1) - 1 = l /\ (l # 0 => l + 1 > 1)
  BY <1>2
<1>6. message.framing = "headers" /\ l # 0 => sent[l].blanks < 2
  BY <1>4, <1>5
<1>7. /\ sent' \in Seq(Menu) /\ Len(sent') = l + 1 /\ sent'[l + 1] = message
      /\ \A n \in 1 .. l : sent'[n] = sent[n]
  BY <1>1, <1>3, OneMore
<1>8. ASSUME NEW n \in 2 .. l + 1, sent'[n].framing = "headers"
      PROVE  sent'[n - 1].blanks < 2
  <2> HIDE DEF l
  <2>1. n - 1 \in 1 .. l
    BY <1>2
  <2>2. sent'[n - 1] = sent[n - 1]
    BY <1>7, <2>1
  <2>3. CASE n \in 2 .. l
    <3>1. sent'[n] = sent[n]
      BY <1>2, <1>7, <2>3
    <3> QED BY <1>8, <2>2, <2>3, <3>1 DEF Polite, l
  <2>4. CASE n = l + 1
    <3>1. n - 1 = l /\ l # 0
      BY <1>2, <2>4
    <3> QED BY <1>6, <1>7, <1>8, <2>2, <2>4, <3>1
  <2> QED BY <1>2, <2>3, <2>4
<1>9. Polite'
  BY <1>7, <1>8 DEF Polite
<1> QED BY <1>3, <1>6, <1>7, <1>9

\* Behind a stream, the next message of the client
LEMMA AskReads ==
  ASSUME TypeOK, Polite, NEW message \in Menu, Ask(message),
         NEW k \in Nat, NEW b \in Nat, NEW p \in Offsets, Reads(Stream, k, b, p)
  PROVE  /\ \E q \in Offsets : Reads(Stream, k, b, q)'
         /\ wire' \in Seq(Bytes)
<1>l. PICK l : l = Len(sent)
  OBVIOUS
<1> DEFINE f == message.framing
           F == Framed(f, l + 1)
           B == Blanks(l + 1, message.blanks)
<1>1. message.framing \in Framings /\ message.blanks \in Nat
  BY McpAssumption
<1>2. /\ sent' \in Seq(Menu) /\ Len(sent') = l + 1 /\ Len(sent') <= MaxMessages
      /\ sent'[l + 1] = message
      /\ \A n \in 1 .. l : sent'[n] = sent[n]
      /\ f = "headers" /\ l # 0 => sent[l].blanks < 2
  BY <1>l, AskSends
<1>3. wire \in Seq(Bytes) /\ buffer \in Seq(Bytes) /\ l \in Nat
  BY <1>l DEF TypeOK
<1>4. l + 1 \in 1 .. MaxMessages
  BY <1>2, <1>3, McpAssumption
<1>5. buffer' = buffer /\ wire' = (wire \o F) \o B
  BY <1>l DEF Ask
<1>6. /\ F \in Seq(Bytes)
      /\ f = "jsonl" => /\ Len(F) = 3
                        /\ F[1] = Byte("{", l + 1) /\ F[2] = Byte("}", l + 1)
                        /\ F[3] = Byte("nl", l + 1)
      /\ f # "jsonl" => /\ Len(F) = 5
                        /\ F[1] = Byte("header", l + 1)
                        /\ F[2] = Byte("nl", l + 1) /\ F[3] = Byte("nl", l + 1)
                        /\ F[4] = Byte("{", l + 1) /\ F[5] = Byte("}", l + 1)
  BY <1>1, <1>4, FramedIs
<1>7. /\ B \in Seq(Bytes) /\ Len(B) = message.blanks
      /\ \A i \in 1 .. message.blanks : B[i] = Byte("nl", l + 1)
  BY <1>1, <1>4, BlanksAre
<1> HIDE DEF F, B
<1>8. wire \in Seq(Bytes) /\ buffer \in Seq(Bytes) /\ F \in Seq(Bytes) /\ B \in Seq(Bytes)
  BY <1>3, <1>6, <1>7
<1>9. PICK s : s = buffer \o wire
  OBVIOUS
<1>10. PICK z : z = buffer \o ((wire \o F) \o B)
  OBVIOUS
<1>11. /\ (wire \o F) \o B \in Seq(Bytes)
       /\ Len(z) = Len(s) + Len(F) + Len(B)
       /\ \A i \in 1 .. Len(s) : z[i] = s[i]
       /\ \A i \in 1 .. Len(F) : z[Len(s) + i] = F[i]
       /\ \A i \in 1 .. Len(B) : z[Len(s) + Len(F) + i] = B[i]
  <2>1. /\ (wire \o F) \o B \in Seq(Bytes)
        /\ Len(buffer \o ((wire \o F) \o B)) = Len(buffer \o wire) + Len(F) + Len(B)
        /\ \A i \in 1 .. Len(buffer \o wire) :
             (buffer \o ((wire \o F) \o B))[i] = (buffer \o wire)[i]
        /\ \A i \in 1 .. Len(F) :
             (buffer \o ((wire \o F) \o B))[Len(buffer \o wire) + i] = F[i]
        /\ \A i \in 1 .. Len(B) :
             (buffer \o ((wire \o F) \o B))[Len(buffer \o wire) + Len(F) + i] = B[i]
    <3>1. Behind(Bytes, buffer, wire, F, B)
      BY <1>8, TwoBehind
    <3> QED BY <3>1 DEF Behind
  <2> QED BY <1>9, <1>10, <2>1
<1>s. Stream = s /\ Stream' = z
  BY <1>5, <1>9, <1>10 DEF Stream
<1>12. Len(s) \in Nat
  <2>1. s \in Seq(Bytes)
    BY <1>8, <1>9, ConcatPointwise
  <2> QED BY <2>1
<1>13. Len(F) \in {3, 5} /\ Len(B) \in Nat
  BY <1>1, <1>6, <1>7
<1>14. Len(z) \in Nat /\ Len(s) <= Len(z)
  BY <1>11, <1>12, <1>13
<1>15. /\ k <= l /\ p[k + 1] = b /\ Len(s) = p[l + 1]
       /\ \A i \in 1 .. b : s[i].sort = "nl"
       /\ \A n \in k + 1 .. l :
            LiesAt(s, n, p[n]) /\ p[n + 1] = p[n] + FrameLen(n) + sent[n].blanks
       /\ \A m, n \in k + 1 .. l + 1 : m <= n => p[m] <= p[n]
       /\ Gap(k, b)
  BY <1>l, <1>s DEF Reads
<1>16. k + 1 \in k + 1 .. l + 1 /\ l + 1 \in k + 1 .. l + 1 /\ k + 1 <= l + 1
  BY <1>3, <1>15
<1>17. b <= Len(s)
  BY <1>15, <1>16
<1>18. l + 2 \in Nat /\ Len(z) \in Int
  BY <1>3, <1>14
<1>19. PICK q \in Offsets : q[l + 2] = Len(z) /\ \A n \in Nat : n # l + 2 => q[n] = p[n]
  <2> DEFINE r == [p EXCEPT ![l + 2] = Len(z)]
  <2>1. r \in Offsets
    BY <1>18 DEF Offsets
  <2>2. r[l + 2] = Len(z) /\ \A n \in Nat : n # l + 2 => r[n] = p[n]
    BY <1>18 DEF Offsets
  <2> HIDE DEF r
  <2> QED BY <2>1, <2>2
<1>20. \A n \in k + 1 .. l + 1 : q[n] = p[n] /\ n \in Nat /\ p[n] \in Int
  <2> SUFFICES ASSUME NEW n \in k + 1 .. l + 1 PROVE q[n] = p[n] /\ n \in Nat /\ p[n] \in Int
    OBVIOUS
  <2>1. n \in Nat /\ n # l + 2
    BY <1>3
  <2> QED BY <1>19, <2>1 DEF Offsets
<1>21. ASSUME NEW n \in k + 1 .. l
       PROVE  /\ LiesAt(z, n, q[n])'
              /\ q[n + 1] = q[n] + FrameLen(n)' + sent'[n].blanks
  <2>1. n \in 1 .. l /\ n \in k + 1 .. l + 1 /\ n + 1 \in k + 1 .. l + 1
    BY <1>3
  <2>2. k + 1 <= n /\ n + 1 <= l + 1
    BY <1>3
  <2>3. LiesAt(s, n, p[n]) /\ p[n + 1] = p[n] + FrameLen(n) + sent[n].blanks
    BY <1>15
  <2>4. p[k + 1] <= p[n] /\ p[n + 1] <= p[l + 1]
    BY <1>15, <1>16, <2>1, <2>2
  <2>5. sent'[n] = sent[n]
    BY <1>2, <2>1
  <2>6. sent[n].blanks \in Nat /\ FrameLen(n) \in {3, 5}
    BY <2>1, SentIs, <1>l DEF FrameLen
  <2>7. FrameLen(n)' = FrameLen(n)
    BY <2>5 DEF FrameLen
  <2> DEFINE a == p[n]
             m == FrameLen(n) + sent[n].blanks
  <2>8. a \in Int /\ m \in Nat
    BY <1>20, <2>1, <2>6
  <2>9. 0 <= a /\ a + m <= Len(s)
    <3>1. p[n + 1] = a + m
      BY <2>3, <2>6, <2>8
    <3> HIDE DEF a, m
    <3>2. a + m <= Len(s)
      BY <1>15, <2>4, <3>1
    <3>3. b <= a
      BY <1>15, <2>4 DEF a
    <3> QED BY <2>8, <3>2, <3>3
  <2>10. \A i \in 1 .. m : z[a + i] = s[a + i]
    <3> SUFFICES ASSUME NEW i \in 1 .. m PROVE z[a + i] = s[a + i]
      OBVIOUS
    <3> HIDE DEF a, m
    <3>1. a + i \in 1 .. Len(s)
      BY <1>12, <2>8, <2>9
    <3> QED BY <1>11, <3>1
  <2>11. LiesAt(z, n, a)
    <3>1. n \in 1 .. Len(sent) /\ LiesAt(s, n, a)
      BY <1>l, <2>1, <2>3
    <3> HIDE DEF a
    <3> QED BY <2>8, <2>10, <3>1, LiesElsewhere
  <2>12. LiesAt(z, n, a)'
    <3> HIDE DEF a
    <3> QED BY <2>5, <2>7, <2>11 DEF LiesAt
  <2>13. q[n] = a /\ q[n + 1] = p[n + 1]
    BY <1>20, <2>1
  <2> HIDE DEF a
  <2>14. LiesAt(z, n, q[n])'
    BY <2>12, <2>13
  <2>15. q[n + 1] = q[n] + FrameLen(n)' + sent'[n].blanks
    BY <2>3, <2>5, <2>7, <2>13 DEF a
  <2> QED BY <2>14, <2>15
<1>22. /\ LiesAt(z, l + 1, q[l + 1])'
       /\ q[(l + 1) + 1] = q[l + 1] + FrameLen(l + 1)' + sent'[l + 1].blanks
  <2>1. (l + 1) + 1 = l + 2
    BY <1>3
  <2>2. q[l + 1] = Len(s)
    BY <1>15, <1>16, <1>20
  <2>3. FrameLen(l + 1)' = Len(F)
    BY <1>2, <1>6 DEF FrameLen
  <2>4. \A i \in 1 .. message.blanks : z[Len(s) + Len(F) + i].sort = "nl"
    <3> SUFFICES ASSUME NEW i \in 1 .. message.blanks PROVE z[Len(s) + Len(F) + i].sort = "nl"
      OBVIOUS
    <3>1. z[Len(s) + Len(F) + i] = B[i] /\ B[i] = Byte("nl", l + 1)
      BY <1>7, <1>11
    <3> QED BY <3>1 DEF Byte
  <2>a. PICK a : a = Len(s)
    OBVIOUS
  <2>5. LiesAt(z, l + 1, a)'
    <3>1. CASE f = "jsonl"
      <4>1. 1 \in 1 .. Len(F) /\ 2 \in 1 .. Len(F) /\ 3 \in 1 .. Len(F)
        <5>1. Len(F) = 3
          BY <1>6, <3>1
        <5> QED BY <5>1
      <4>2. z[a + 1] = F[1] /\ z[a + 2] = F[2] /\ z[a + 3] = F[3]
        BY <1>11, <2>a, <4>1
      <4>3. z[a + 1] = Byte("{", l + 1) /\ z[a + 2] = Byte("}", l + 1) /\ z[a + 3] = Byte("nl", l + 1)
        BY <1>6, <3>1, <4>2
      <4> QED BY <1>2, <2>3, <2>4, <3>1, <4>3, <2>a DEF LiesAt
    <3>2. CASE f # "jsonl"
      <4>1. /\ 1 \in 1 .. Len(F) /\ 2 \in 1 .. Len(F) /\ 3 \in 1 .. Len(F)
            /\ 4 \in 1 .. Len(F) /\ 5 \in 1 .. Len(F)
        <5>1. Len(F) = 5
          BY <1>6, <3>2
        <5> QED BY <5>1
      <4>2. /\ z[a + 1] = F[1] /\ z[a + 2] = F[2] /\ z[a + 3] = F[3]
            /\ z[a + 4] = F[4] /\ z[a + 5] = F[5]
        BY <1>11, <2>a, <4>1
      <4>3. /\ z[a + 1] = Byte("header", l + 1)
            /\ z[a + 2] = Byte("nl", l + 1) /\ z[a + 3] = Byte("nl", l + 1)
            /\ z[a + 4] = Byte("{", l + 1) /\ z[a + 5] = Byte("}", l + 1)
        BY <1>6, <3>2, <4>2
      <4> QED BY <1>2, <2>3, <2>4, <3>2, <4>3, <2>a DEF LiesAt
    <3> QED BY <3>1, <3>2
  <2>6. LiesAt(z, l + 1, q[l + 1])'
    BY <2>2, <2>5, <2>a
  <2>7. q[l + 2] = Len(s) + Len(F) + message.blanks
    BY <1>7, <1>11, <1>19
  <2>8. q[(l + 1) + 1] = q[l + 1] + FrameLen(l + 1)' + sent'[l + 1].blanks
    BY <1>2, <2>1, <2>2, <2>3, <2>7
  <2> QED BY <2>6, <2>8
<1>23. ASSUME NEW n \in k + 1 .. l + 1
       PROVE  /\ LiesAt(z, n, q[n])'
              /\ q[n + 1] = q[n] + FrameLen(n)' + sent'[n].blanks
  <2>1. n \in k + 1 .. l \/ n = l + 1
    BY <1>3
  <2> QED BY <1>21, <1>22, <2>1
<1>24. ASSUME NEW m \in k + 1 .. l + 2, NEW n \in k + 1 .. l + 2, m <= n PROVE q[m] <= q[n]
  <2>1. ASSUME NEW i \in k + 1 .. l + 1 PROVE q[i] <= Len(s) /\ q[i] \in Int
    <3>1. i <= l + 1
      BY <1>3
    <3>2. p[i] <= p[l + 1]
      BY <1>15, <1>16, <3>1
    <3> QED BY <1>15, <1>20, <3>2
  <2>2. CASE n = l + 2 /\ m # l + 2
    <3>1. m \in k + 1 .. l + 1
      BY <1>3, <2>2
    <3>2. q[m] <= Len(s) /\ q[m] \in Int
      BY <2>1, <3>1
    <3>3. q[n] = Len(z)
      BY <1>19, <2>2
    <3> QED BY <1>12, <1>14, <3>2, <3>3
  <2>3. CASE n # l + 2
    <3>1. n \in k + 1 .. l + 1
      BY <1>3, <2>3
    <3>2. m \in k + 1 .. l + 1
      BY <1>3, <1>24, <3>1
    <3>3. p[m] <= p[n]
      BY <1>15, <1>24, <3>1, <3>2
    <3>4. q[m] = p[m] /\ q[n] = p[n]
      BY <1>20, <3>1, <3>2
    <3> QED BY <3>3, <3>4
  <2>4. CASE n = l + 2 /\ m = l + 2
    BY <1>14, <1>19, <2>4
  <2> QED BY <2>2, <2>3, <2>4
<1>25. Gap(k, b)'
  <2>1. CASE k < l
    <3>1. k + 1 \in 1 .. l /\ k < l + 1
      BY <1>3, <2>1
    <3>2. sent'[k + 1] = sent[k + 1]
      BY <1>2, <3>1
    <3>3. sent[k + 1].framing = "headers" => b < 2
      BY <1>l, <1>15, <2>1 DEF Gap
    <3> QED BY <1>2, <3>1, <3>2, <3>3 DEF Gap
  <2>2. CASE k = l
    <3>1. b <= IF k = 0 THEN 0 ELSE sent[k].blanks
      BY <1>l, <1>15, <2>2 DEF Gap
    <3>2. f = "headers" => b < 2
      <4>1. CASE k = 0
        BY <3>1, <4>1
      <4>2. CASE k # 0
        <5>1. k \in 1 .. Len(sent)
          BY <1>l, <1>3, <2>2, <4>2
        <5>2. sent[k].blanks \in Nat
          BY <5>1, SentIs
        <5>3. f = "headers" => sent[k].blanks < 2
          BY <1>2, <2>2, <4>2
        <5>4. b <= sent[k].blanks
          BY <3>1, <4>2
        <5> QED BY <5>2, <5>3, <5>4
      <4> QED BY <4>1, <4>2
    <3>3. k < l + 1
      BY <1>3, <2>2
    <3>4. sent'[k + 1] = message
      BY <1>2, <2>2
    <3> QED BY <1>2, <3>2, <3>3, <3>4 DEF Gap
  <2>3. k < l \/ k = l
    BY <1>3, <1>15
  <2> QED BY <2>1, <2>2, <2>3
<1>26. Reads(z, k, b, q)'
  <2>1. Len(sent') + 1 = l + 2 /\ k <= Len(sent')
    BY <1>2, <1>3, <1>15
  <2>2. q[k + 1] = b /\ Len(z) = q[Len(sent') + 1]
    BY <1>15, <1>16, <1>19, <1>20, <2>1
  <2>3. \A i \in 1 .. b : z[i].sort = "nl"
    <3> SUFFICES ASSUME NEW i \in 1 .. b PROVE z[i].sort = "nl"
      OBVIOUS
    <3>1. i \in 1 .. Len(s)
      BY <1>12, <1>17
    <3> QED BY <1>11, <1>15, <3>1
  <2>4. \A n \in k + 1 .. Len(sent') :
          LiesAt(z, n, q[n])' /\ q[n + 1] = q[n] + FrameLen(n)' + sent'[n].blanks
    BY <1>2, <1>23
  <2>5. \A m, n \in k + 1 .. Len(sent') + 1 : m <= n => q[m] <= q[n]
    BY <1>24, <2>1
  <2>6. Reads(z, k, b, q)' <=>
          /\ k <= Len(sent') /\ q[k + 1] = b /\ Len(z) = q[Len(sent') + 1]
          /\ \A i \in 1 .. b : z[i].sort = "nl"
          /\ \A n \in k + 1 .. Len(sent') :
               LiesAt(z, n, q[n])' /\ q[n + 1] = q[n] + FrameLen(n)' + sent'[n].blanks
          /\ \A m, n \in k + 1 .. Len(sent') + 1 : m <= n => q[m] <= q[n]
          /\ Gap(k, b)'
    BY DEF Reads
  <2> QED BY <1>25, <2>1, <2>2, <2>3, <2>4, <2>5, <2>6
<1>27. Reads(Stream, k, b, q)'
  BY <1>s, <1>26 DEF Reads
<1> QED BY <1>5, <1>11, <1>27

-----------------------------------------------------------------------------
(* What the server sees in its buffer                                      *)

\* The buffer is the front of the stream.
LEMMA BufferIs ==
  ASSUME TypeOK
  PROVE  /\ Stream \in Seq(Bytes) /\ Len(buffer) \in Nat /\ Len(buffer) <= Len(Stream)
         /\ Len(Stream) \in Nat
         /\ \A i \in 1 .. Len(buffer) : buffer[i] = Stream[i]
<1>1. buffer \in Seq(Bytes) /\ wire \in Seq(Bytes)
  BY DEF TypeOK
<1>2. /\ buffer \o wire \in Seq(Bytes) /\ Len(buffer \o wire) = Len(buffer) + Len(wire)
      /\ \A k \in 1 .. Len(buffer) : (buffer \o wire)[k] = buffer[k]
  BY <1>1, ConcatPointwise
<1>3. Len(buffer) \in Nat /\ Len(wire) \in Nat
  BY <1>1
<1>4. Len(buffer \o wire) \in Nat
  BY <1>2, <1>3
<1> QED BY <1>2, <1>3, <1>4 DEF Stream

\* Which sorts the bytes of the next message are
LEMMA SortsAre ==
  ASSUME TypeOK, NEW s, NEW n, NEW a, LiesAt(s, n, a)
  PROVE  /\ sent[n].framing = "jsonl" =>
              /\ s[a + 1].sort = "{" /\ s[a + 2].sort = "}" /\ s[a + 3].sort = "nl"
              /\ s[a + 1] = Byte("{", n) /\ s[a + 2] = Byte("}", n)
         /\ sent[n].framing # "jsonl" =>
              /\ s[a + 1].sort = "header" /\ s[a + 2].sort = "nl" /\ s[a + 3].sort = "nl"
              /\ s[a + 4] = Byte("{", n) /\ s[a + 5] = Byte("}", n)
<1>1. \A sort : Byte(sort, n).sort = sort
  BY DEF Byte
<1>2. CASE sent[n].framing = "jsonl"
  <2>1. s[a + 1] = Byte("{", n) /\ s[a + 2] = Byte("}", n) /\ s[a + 3] = Byte("nl", n)
    BY <1>2 DEF LiesAt
  <2> QED BY <1>1, <1>2, <2>1
<1>3. CASE sent[n].framing # "jsonl"
  <2>1. /\ s[a + 1] = Byte("header", n) /\ s[a + 2] = Byte("nl", n) /\ s[a + 3] = Byte("nl", n)
        /\ s[a + 4] = Byte("{", n) /\ s[a + 5] = Byte("}", n)
    BY <1>3 DEF LiesAt
  <2> QED BY <1>1, <1>3, <2>1
<1> QED BY <1>2, <1>3

\* The first byte that is not a newline is the next message's.
LEMMA FrontIs ==
  ASSUME TypeOK, NEW k \in Nat, NEW b \in Nat, NEW p \in Offsets, Reads(Stream, k, b, p)
  PROVE  /\ \A i \in 1 .. Len(buffer) : i <= b => buffer[i].sort = "nl"
         /\ Len(buffer) <= b => Solid = {}
         /\ Len(buffer) > b =>
              /\ k < Len(sent) /\ Solid # {} /\ b + 1 \in 1 .. Len(buffer)
              /\ LooksLikeJsonLine <=> sent[k + 1].framing = "jsonl"
<1>1. /\ Stream \in Seq(Bytes) /\ Len(buffer) \in Nat /\ Len(buffer) <= Len(Stream)
      /\ \A i \in 1 .. Len(buffer) : buffer[i] = Stream[i]
  BY BufferIs
<1>2. /\ k \in 0 .. Len(sent) /\ b <= Len(Stream)
      /\ k = Len(sent) => Len(Stream) = b
      /\ k < Len(sent) => k + 1 \in 1 .. Len(sent) /\ LiesAt(Stream, k + 1, b)
  BY <1>1, NextLies
<1>3. \A i \in 1 .. b : Stream[i].sort = "nl"
  BY DEF Reads
<1>4. \A i \in 1 .. Len(buffer) : i <= b => buffer[i].sort = "nl"
  <2> SUFFICES ASSUME NEW i \in 1 .. Len(buffer), i <= b PROVE buffer[i].sort = "nl"
    OBVIOUS
  <2>1. i \in 1 .. b
    BY <1>1
  <2> QED BY <1>1, <1>3, <2>1
<1>5. Len(buffer) <= b => Solid = {}
  <2> SUFFICES ASSUME Len(buffer) <= b, NEW i \in Solid PROVE FALSE
    OBVIOUS
  <2>1. i \in 1 .. Len(buffer) /\ buffer[i].sort # "nl"
    BY DEF Solid
  <2>2. i <= b
    BY <1>1, <2>1
  <2> QED BY <1>4, <2>1, <2>2
<1>6. ASSUME Len(buffer) > b
      PROVE  /\ k < Len(sent) /\ Solid # {} /\ b + 1 \in 1 .. Len(buffer)
             /\ LooksLikeJsonLine <=> sent[k + 1].framing = "jsonl"
  <2>1. Len(Stream) # b
    BY <1>1, <1>6
  <2>2. k < Len(sent)
    BY <1>2, <2>1
  <2>3. b + 1 \in 1 .. Len(buffer)
    BY <1>1, <1>6
  <2>4. buffer[b + 1] = Stream[b + 1]
    BY <1>1, <2>3
  <2>5. LiesAt(Stream, k + 1, b)
    BY <1>2, <2>2
  <2>6. /\ sent[k + 1].framing = "jsonl" => buffer[b + 1].sort = "{"
        /\ sent[k + 1].framing # "jsonl" => buffer[b + 1].sort = "header"
    <3>1. /\ sent[k + 1].framing = "jsonl" => Stream[b + 1].sort = "{"
          /\ sent[k + 1].framing # "jsonl" => Stream[b + 1].sort = "header"
      BY <2>5, SortsAre
    <3> QED BY <2>4, <3>1
  <2>7. buffer[b + 1].sort # "nl"
    BY <2>6
  <2>8. b + 1 \in Solid
    BY <2>3, <2>7 DEF Solid
  <2>9. Min(Solid) = b + 1
    <3>1. Solid \in SUBSET Nat
      BY <1>1 DEF Solid
    <3>2. \A i \in Solid : b + 1 <= i
      <4> SUFFICES ASSUME NEW i \in Solid, ~ (b + 1 <= i) PROVE FALSE
        OBVIOUS
      <4>1. i \in 1 .. Len(buffer) /\ buffer[i].sort # "nl"
        BY DEF Solid
      <4>2. i <= b
        BY <1>1, <4>1
      <4> QED BY <1>4, <4>1, <4>2
    <3> QED BY <2>8, <3>1, <3>2, MinIs
  <2>10. LooksLikeJsonLine <=> buffer[b + 1].sort = "{"
    BY <2>8, <2>9 DEF LooksLikeJsonLine
  <2>11. LooksLikeJsonLine <=> sent[k + 1].framing = "jsonl"
    BY <2>6, <2>10
  <2> QED BY <2>2, <2>3, <2>8, <2>11
<1> QED BY <1>4, <1>5, <1>6

\* A sequence of two is what its places are.
LEMMA TwoPlaces ==
  ASSUME NEW S, NEW x \in Seq(S), Len(x) = 2
  PROVE  x = <<x[1], x[2]>>
OBVIOUS

\* A sequence of two bytes that are those of a text
LEMMA IsText ==
  ASSUME NEW n \in 1 .. MaxMessages, NEW x \in Seq(Bytes), Len(x) = 2,
         x[1] = Byte("{", n), x[2] = Byte("}", n)
  PROVE  x = Text(n)
<1>1. x = <<x[1], x[2]>>
  BY TwoPlaces
<1> QED BY <1>1 DEF Text

\* A line that can be taken is a blank one, or all of the next message.
LEMMA LineIs ==
  ASSUME TypeOK, NEW k \in Nat, NEW b \in Nat, NEW p \in Offsets, Reads(Stream, k, b, p),
         LooksLikeJsonLine, Sorted("nl") # {}
  PROVE  /\ k < Len(sent) /\ sent[k + 1].framing = "jsonl"
         /\ b # 0 => Min(Sorted("nl")) = 1 /\ Len(buffer) >= 1
         /\ b = 0 => Min(Sorted("nl")) = 3 /\ Len(buffer) >= 3 /\ SubSeq(buffer, 1, 2) = Text(k + 1)
<1>1. /\ Stream \in Seq(Bytes) /\ Len(buffer) \in Nat
      /\ \A i \in 1 .. Len(buffer) : buffer[i] = Stream[i]
  BY BufferIs
<1>2. /\ \A i \in 1 .. Len(buffer) : i <= b => buffer[i].sort = "nl"
      /\ Len(buffer) <= b => Solid = {}
      /\ Len(buffer) > b =>
           /\ k < Len(sent) /\ b + 1 \in 1 .. Len(buffer)
           /\ LooksLikeJsonLine <=> sent[k + 1].framing = "jsonl"
  BY FrontIs
<1>3. Solid # {}
  BY DEF LooksLikeJsonLine
<1>4. Len(buffer) > b
  BY <1>1, <1>2, <1>3
<1>5. k < Len(sent) /\ sent[k + 1].framing = "jsonl"
  BY <1>2, <1>4
<1>6. Sorted("nl") \in SUBSET Nat /\ \A i \in Sorted("nl") : i \in 1 .. Len(buffer) /\ buffer[i].sort = "nl"
  BY <1>1 DEF Sorted
<1>7. ASSUME b # 0 PROVE Min(Sorted("nl")) = 1 /\ Len(buffer) >= 1
  <2>1. 1 \in 1 .. Len(buffer) /\ 1 <= b
    BY <1>1, <1>4, <1>7
  <2>2. 1 \in Sorted("nl")
    BY <1>2, <2>1 DEF Sorted
  <2>3. \A i \in Sorted("nl") : 1 <= i
    BY <1>6
  <2>4. Min(Sorted("nl")) = 1
    BY <1>6, <2>2, <2>3, MinIs
  <2> QED BY <1>1, <2>1, <2>4
<1>8. ASSUME b = 0
      PROVE  Min(Sorted("nl")) = 3 /\ Len(buffer) >= 3 /\ SubSeq(buffer, 1, 2) = Text(k + 1)
  <2>1. LiesAt(Stream, k + 1, 0) /\ k + 1 \in 1 .. Len(sent)
    BY <1>1, <1>5, <1>8, NextLies
  <2>2. /\ Stream[0 + 1].sort = "{" /\ Stream[0 + 2].sort = "}" /\ Stream[0 + 3].sort = "nl"
        /\ Stream[0 + 1] = Byte("{", k + 1) /\ Stream[0 + 2] = Byte("}", k + 1)
    BY <1>5, <2>1, SortsAre
  <2>3. /\ Stream[1].sort = "{" /\ Stream[2].sort = "}" /\ Stream[3].sort = "nl"
        /\ Stream[1] = Byte("{", k + 1) /\ Stream[2] = Byte("}", k + 1)
    <3>1. 0 + 1 = 1 /\ 0 + 2 = 2 /\ 0 + 3 = 3
      OBVIOUS
    <3> HIDE DEF Stream
    <3> QED BY <2>2, <3>1
  <2>4. \A i \in Sorted("nl") : 3 <= i
    <3> SUFFICES ASSUME NEW i \in Sorted("nl"), ~ (3 <= i) PROVE FALSE
      OBVIOUS
    <3>1. i \in 1 .. Len(buffer) /\ buffer[i].sort = "nl"
      BY <1>6
    <3>2. i = 1 \/ i = 2
      BY <1>1, <3>1
    <3>3. Stream[i].sort = "nl"
      BY <1>1, <3>1
    <3> QED BY <2>3, <3>2, <3>3
  <2>5. PICK i \in Sorted("nl") : 3 <= i
    BY <2>4
  <2>6. i \in 1 .. Len(buffer)
    BY <1>6
  <2>7. Len(buffer) >= 3
    BY <1>1, <2>5, <2>6
  <2>8. 1 \in 1 .. Len(buffer) /\ 2 \in 1 .. Len(buffer) /\ 3 \in 1 .. Len(buffer)
    BY <1>1, <2>7
  <2>9. buffer[1] = Stream[1] /\ buffer[2] = Stream[2] /\ buffer[3] = Stream[3]
    BY <1>1, <2>8
  <2>10. 3 \in Sorted("nl")
    BY <2>3, <2>8, <2>9 DEF Sorted
  <2>11. Min(Sorted("nl")) = 3
    BY <1>6, <2>4, <2>10, MinIs
  <2> DEFINE x == SubSeq(buffer, 1, 2)
  <2>12. x \in Seq(Bytes) /\ Len(x) = 2 /\ x[1] = buffer[1] /\ x[2] = buffer[2]
    <3>1. buffer \in Seq(Bytes) /\ 2 \in 0 .. Len(buffer) /\ 0 \in 0 .. 2
      BY <1>1, <2>7 DEF TypeOK
    <3>2. /\ SubSeq(buffer, 0 + 1, 2) \in Seq(Bytes) /\ Len(SubSeq(buffer, 0 + 1, 2)) = 2 - 0
          /\ \A j \in 1 .. 2 - 0 : SubSeq(buffer, 0 + 1, 2)[j] = buffer[0 + j]
      BY <3>1, PieceOf
    <3>3. x = SubSeq(buffer, 0 + 1, 2)
      OBVIOUS
    <3> HIDE DEF x
    <3>4. 1 \in 1 .. 2 - 0 /\ 2 \in 1 .. 2 - 0 /\ 0 + 1 = 1 /\ 0 + 2 = 2 /\ 2 - 0 = 2
      OBVIOUS
    <3> QED BY <3>2, <3>3, <3>4
  <2> HIDE DEF x
  <2>13. k + 1 \in 1 .. MaxMessages
    BY <2>1, SentIs
  <2>14. x = Text(k + 1)
    BY <2>3, <2>9, <2>12, <2>13, IsText
  <2> QED BY <2>7, <2>11, <2>14 DEF x
<1> QED BY <1>5, <1>7, <1>8

\* A blank line in front of anything is no header's; otherwise the boundary is
\* that of the next message.
LEMMA FrameIs ==
  ASSUME TypeOK, NEW k \in Nat, NEW b \in Nat, NEW p \in Offsets, Reads(Stream, k, b, p),
         ~ LooksLikeJsonLine, Boundaries # {}
  PROVE  /\ Len(buffer) <= b => ~ HasHeader
         /\ Len(buffer) > b => /\ k < Len(sent) /\ sent[k + 1].framing = "headers"
                               /\ HasHeader /\ Boundary = b + 2
         /\ Len(buffer) > b /\ Len(buffer) >= b + 5 => SubSeq(buffer, b + 4, b + 5) = Text(k + 1)
<1>1. /\ Stream \in Seq(Bytes) /\ Len(buffer) \in Nat
      /\ \A i \in 1 .. Len(buffer) : buffer[i] = Stream[i]
  BY BufferIs
<1>2. /\ \A i \in 1 .. Len(buffer) : i <= b => buffer[i].sort = "nl"
      /\ Len(buffer) <= b => Solid = {}
      /\ Len(buffer) > b =>
           /\ k < Len(sent) /\ b + 1 \in 1 .. Len(buffer)
           /\ LooksLikeJsonLine <=> sent[k + 1].framing = "jsonl"
  BY FrontIs
<1>3. ASSUME Len(buffer) <= b PROVE ~ HasHeader
  <2> SUFFICES ASSUME NEW i \in Sorted("header") PROVE FALSE
    BY DEF HasHeader
  <2>1. i \in 1 .. Len(buffer) /\ buffer[i].sort = "header"
    BY DEF Sorted
  <2>2. i <= b
    BY <1>1, <1>3, <2>1
  <2>3. buffer[i].sort = "nl"
    BY <1>2, <2>1, <2>2
  <2> QED BY <2>1, <2>3
<1>4. ASSUME Len(buffer) > b
      PROVE  /\ k < Len(sent) /\ sent[k + 1].framing = "headers" /\ HasHeader /\ Boundary = b + 2
             /\ Len(buffer) >= b + 5 => SubSeq(buffer, b + 4, b + 5) = Text(k + 1)
  <2>1. k < Len(sent) /\ sent[k + 1].framing # "jsonl" /\ b + 1 \in 1 .. Len(buffer)
    BY <1>2, <1>4
  <2>2. LiesAt(Stream, k + 1, b) /\ k + 1 \in 1 .. Len(sent)
    BY <1>1, <2>1, NextLies
  <2>3. sent[k + 1].framing = "headers"
    BY <2>1, <2>2, SentIs DEF Framings
  <2>4. b < 2
    BY <2>1, <2>3 DEF Reads, Gap
  <2>5. /\ Stream[b + 1].sort = "header" /\ Stream[b + 2].sort = "nl" /\ Stream[b + 3].sort = "nl"
        /\ Stream[b + 4] = Byte("{", k + 1) /\ Stream[b + 5] = Byte("}", k + 1)
    BY <2>1, <2>2, SortsAre
  <2>6. buffer[b + 1].sort = "header"
    BY <1>1, <2>1, <2>5
  <2>7. ASSUME NEW i \in Boundaries
        PROVE  i \in 1 .. Len(buffer) /\ i + 1 \in 1 .. Len(buffer) /\ b + 2 <= i
    <3>1. /\ i \in 1 .. Len(buffer) /\ buffer[i].sort = "nl"
          /\ i + 1 \in 1 .. Len(buffer) /\ buffer[i + 1].sort = "nl"
      BY DEF Boundaries, Sorted
    <3>2. i # b + 1 /\ i + 1 # b + 1
      BY <2>6, <3>1
    <3>3. i # b
      BY <3>2
    <3>4. i # 0 /\ i \in Nat
      BY <1>1, <3>1
    <3> QED BY <2>4, <3>1, <3>2, <3>3, <3>4
  <2>8. PICK i \in Boundaries : TRUE
    OBVIOUS
  <2>9. Len(buffer) >= b + 3
    <3>1. i \in 1 .. Len(buffer) /\ i + 1 \in 1 .. Len(buffer) /\ b + 2 <= i
      BY <2>7
    <3> QED BY <1>1, <3>1
  <2>10. b + 2 \in 1 .. Len(buffer) /\ b + 3 \in 1 .. Len(buffer) /\ (b + 2) + 1 = b + 3
    BY <1>1, <2>9
  <2>11. buffer[b + 2] = Stream[b + 2] /\ buffer[b + 3] = Stream[b + 3]
    BY <1>1, <2>10
  <2>12. b + 2 \in Boundaries
    BY <2>5, <2>10, <2>11 DEF Boundaries, Sorted
  <2>13. Boundary = b + 2
    <3>1. Boundaries \in SUBSET Nat
      BY <1>1 DEF Boundaries, Sorted
    <3> QED BY <2>7, <2>12, <3>1, MinIs DEF Boundary
  <2>14. HasHeader
    <3>1. b + 1 \in Sorted("header") /\ b + 1 < b + 2
      BY <2>1, <2>6 DEF Sorted
    <3> QED BY <2>13, <3>1 DEF HasHeader
  <2>15. ASSUME Len(buffer) >= b + 5 PROVE SubSeq(buffer, b + 4, b + 5) = Text(k + 1)
    <3>1. b + 4 \in 1 .. Len(buffer) /\ b + 5 \in 1 .. Len(buffer)
      BY <1>1, <2>15
    <3>2. buffer[b + 4] = Byte("{", k + 1) /\ buffer[b + 5] = Byte("}", k + 1)
      BY <1>1, <2>5, <3>1
    <3> DEFINE x == SubSeq(buffer, b + 4, b + 5)
               m == b + 3
               n == b + 5
    <3>3. x \in Seq(Bytes) /\ Len(x) = 2 /\ x[1] = buffer[b + 4] /\ x[2] = buffer[b + 5]
      <4>1. buffer \in Seq(Bytes) /\ n \in 0 .. Len(buffer) /\ m \in 0 .. n
        BY <1>1, <2>15 DEF TypeOK
      <4>2. m + 1 = b + 4 /\ n - m = 2 /\ m + 2 = b + 5
        OBVIOUS
      <4>3. x = SubSeq(buffer, m + 1, n)
        BY <4>2
      <4> HIDE DEF x, m, n
      <4>4. /\ SubSeq(buffer, m + 1, n) \in Seq(Bytes) /\ Len(SubSeq(buffer, m + 1, n)) = n - m
            /\ \A j \in 1 .. n - m : SubSeq(buffer, m + 1, n)[j] = buffer[m + j]
        BY <4>1, PieceOf
      <4>5. 1 \in 1 .. n - m /\ 2 \in 1 .. n - m
        BY <4>2
      <4>6. x[1] = buffer[m + 1] /\ x[2] = buffer[m + 2]
        BY <4>3, <4>4, <4>5
      <4> QED BY <4>2, <4>3, <4>4, <4>6
    <3> HIDE DEF x
    <3>4. k + 1 \in 1 .. MaxMessages
      BY <2>2, SentIs
    <3>5. x = Text(k + 1)
      BY <3>2, <3>3, <3>4, IsText
    <3> QED BY <3>5 DEF x
  <2> QED BY <2>1, <2>3, <2>13, <2>14, <2>15
<1> QED BY <1>3, <1>4

-----------------------------------------------------------------------------
(* What was answered                                                       *)

\* The types of what is owed and what was answered
LEMMA TalkIs ==
  ASSUME TypeOK
  PROVE  /\ Len(sent) \in Nat /\ Len(answers) \in Nat
         /\ \A n \in Requests : n \in 1 .. Len(sent) /\ n # 0
         /\ \A call \in calls : call.of \in Requests /\ call.framing \in Framings
         /\ \A i \in 1 .. Len(answers) :
              answers[i].id \in {0} \cup Requests /\ answers[i].framing \in Framings
<1> DEFINE Talk == [id : {0} \cup Requests, framing : Framings]
           Calls == [of : Requests, framing : Framings]
<1>1. answers \in Seq(Talk) /\ calls \subseteq Calls /\ sent \in Seq(Menu)
  BY DEF TypeOK
<1>2. Len(sent) \in Nat
  BY <1>1
<1>3. Len(answers) \in Nat /\ \A i \in 1 .. Len(answers) : answers[i] \in Talk
  <2> HIDE DEF Talk
  <2> QED BY <1>1
<1>4. \A n \in Requests : n \in 1 .. Len(sent) /\ n # 0
  BY <1>2 DEF Requests
<1>5. \A call \in calls : call.of \in Requests /\ call.framing \in Framings
  BY <1>1
<1>6. \A i \in 1 .. Len(answers) : answers[i].id \in {0} \cup Requests /\ answers[i].framing \in Framings
  BY <1>3
<1> QED BY <1>2, <1>3, <1>4, <1>5, <1>6

\* Errors and messages that do not parse can be counted.
LEMMA Counted ==
  ASSUME TypeOK, NEW k \in Nat, NEW f
  PROVE  /\ IsFiniteSet(Errors(f)) /\ IsFiniteSet(GarbageUpTo(k, f))
         /\ Cardinality(Errors(f)) \in Nat /\ Cardinality(GarbageUpTo(k, f)) \in Nat
<1>1. Len(sent) \in Nat /\ Len(answers) \in Nat
  BY TalkIs
<1>2. IsFiniteSet(1 .. Len(sent)) /\ IsFiniteSet(1 .. Len(answers))
  BY <1>1, FS_Interval
<1>3. Errors(f) \subseteq 1 .. Len(answers) /\ GarbageUpTo(k, f) \subseteq 1 .. Len(sent)
  BY DEF Errors, AnswersTo, GarbageUpTo, Garbage
<1>4. IsFiniteSet(Errors(f)) /\ IsFiniteSet(GarbageUpTo(k, f))
  BY <1>2, <1>3, FS_Subset
<1> QED BY <1>4, FS_CardinalityType

\* What was told of the first messages can be told of more.
LEMMA ToldMore ==
  ASSUME TypeOK, NEW k \in Nat, NEW k2 \in Nat, k <= k2, Told(k)
  PROVE  Told(k2)
<1>1. Len(sent) \in Nat
  BY TalkIs
<1>2. \A n \in Requests : n \in Nat
  BY TalkIs
<1>3. \A call \in calls : call.of <= k2
  BY <1>2 DEF Told
<1>4. \A i \in 1 .. Len(answers) : answers[i].id # 0 => answers[i].id <= k2
  BY <1>2 DEF Told
<1>5. ASSUME NEW f \in Framings
      PROVE  Cardinality(Errors(f)) <= Cardinality(GarbageUpTo(k2, f))
  <2>1. GarbageUpTo(k, f) \subseteq GarbageUpTo(k2, f)
    BY <1>1 DEF GarbageUpTo, Garbage
  <2>2. Cardinality(GarbageUpTo(k, f)) <= Cardinality(GarbageUpTo(k2, f))
    BY <2>1, Counted, FS_Subset
  <2>3. Cardinality(Errors(f)) <= Cardinality(GarbageUpTo(k, f))
    BY DEF Told
  <2> QED BY <2>2, <2>3, Counted
<1> QED BY <1>3, <1>4, <1>5 DEF Told

\* With one more answer
LEMMA AnswersGrow ==
  ASSUME TypeOK, NEW id \in {0} \cup Requests, NEW f \in Framings,
         answers' = Append(answers, Answer(id, f))
  PROVE  /\ answers' \in Seq([id : {0} \cup Requests, framing : Framings])
         /\ Len(answers') = Len(answers) + 1
         /\ answers'[Len(answers) + 1].id = id /\ answers'[Len(answers) + 1].framing = f
         /\ \A i \in 1 .. Len(answers) : answers'[i] = answers[i]
         /\ \A n : n # id => AnswersTo(n)' = AnswersTo(n)
<1> DEFINE Talk == [id : {0} \cup Requests, framing : Framings]
           a == Answer(id, f)
<1>1. a \in Talk /\ a.id = id /\ a.framing = f
  BY DEF Answer
<1>2. answers \in Seq(Talk)
  BY DEF TypeOK
<1>3. answers' = Append(answers, a)
  OBVIOUS
<1> HIDE DEF Talk, a
<1>4. /\ answers' \in Seq(Talk) /\ Len(answers') = Len(answers) + 1
      /\ answers'[Len(answers) + 1] = a
      /\ \A i \in 1 .. Len(answers) : answers'[i] = answers[i]
  BY <1>1, <1>2, <1>3, OneMore
<1>5. Len(answers) \in Nat
  BY TalkIs
<1>6. ASSUME NEW n, n # id PROVE AnswersTo(n)' = AnswersTo(n)
  <2>1. \A i \in 1 .. Len(answers) + 1 : i \in 1 .. Len(answers) \/ i = Len(answers) + 1
    BY <1>5
  <2>2. \A i \in 1 .. Len(answers) : i \in 1 .. Len(answers) + 1
    BY <1>5
  <2>3. answers'[Len(answers) + 1].id # n
    BY <1>1, <1>4, <1>6
  <2> QED BY <1>4, <2>1, <2>2, <2>3 DEF AnswersTo
<1> QED BY <1>1, <1>4, <1>6 DEF Talk

\* An answer to a request that has none, or an error for a message that does
\* not parse, keeps to what is asked for.
LEMMA AnswerTells ==
  ASSUME TypeOK, NEW k \in Nat, NEW k2 \in Nat, k <= k2, Told(k),
         NEW id \in {0} \cup Requests, NEW f \in Framings,
         answers' = Append(answers, Answer(id, f)), sent' = sent, calls' \subseteq calls,
         id # 0 => /\ id <= k2 /\ f = sent[id].framing /\ AnswersTo(id) = {}
                   /\ \A call \in calls' : call.of # id,
         id = 0 => k2 = k + 1 /\ k2 \in Garbage(f)
  PROVE  Told(k2)'
<1> DEFINE l == Len(answers)
<1>1. /\ Len(answers') = l + 1
      /\ answers'[l + 1].id = id /\ answers'[l + 1].framing = f
      /\ \A i \in 1 .. l : answers'[i] = answers[i]
      /\ \A n : n # id => AnswersTo(n)' = AnswersTo(n)
  BY AnswersGrow
<1>2. /\ l \in Nat /\ \A n \in Requests : n \in 1 .. Len(sent) /\ n # 0
      /\ \A call \in calls : call.of \in Requests
  BY TalkIs
<1>3. Told(k2)
  BY ToldMore
<1>4. Requests' = Requests /\ \A framing : Garbage(framing)' = Garbage(framing)
  BY DEF Requests, Garbage
<1>5. \A i \in 1 .. l + 1 : i \in 1 .. l \/ i = l + 1
  BY <1>2
<1>6. ASSUME NEW call \in calls'
      PROVE  /\ call.of \in Requests' /\ call.of <= k2
             /\ call.framing = sent'[call.of].framing
             /\ AnswersTo(call.of)' = {}
  <2>1. call \in calls
    OBVIOUS
  <2>2. /\ call.of \in Requests /\ call.of <= k2
        /\ call.framing = sent[call.of].framing
        /\ AnswersTo(call.of) = {}
    BY <1>3, <2>1 DEF Told
  <2>3. call.of # id
    BY <1>2, <2>1
  <2> QED BY <1>1, <1>4, <2>2, <2>3
<1>7. ASSUME NEW i \in 1 .. l + 1, answers'[i].id # 0
      PROVE  /\ answers'[i].id \in Requests' /\ answers'[i].id <= k2
             /\ answers'[i].framing = sent'[answers'[i].id].framing
  <2>1. CASE i \in 1 .. l
    <3>1. answers'[i] = answers[i]
      BY <1>1, <2>1
    <3> QED BY <1>3, <1>4, <1>7, <2>1, <3>1 DEF Told
  <2>2. CASE i = l + 1
    BY <1>1, <1>4, <1>7, <2>2
  <2> QED BY <1>5, <2>1, <2>2
<1>8. ASSUME NEW i \in 1 .. l + 1, NEW j \in 1 .. l + 1, answers'[i].id = answers'[j].id, answers'[i].id # 0
      PROVE  i = j
  <2>1. ASSUME NEW m \in 1 .. l, NEW n \in 1 .. l + 1, n = l + 1, answers'[m].id = answers'[n].id,
               answers'[m].id # 0
        PROVE  FALSE
    <3>1. answers[m].id = id /\ id # 0
      BY <1>1, <2>1
    <3>2. m \in AnswersTo(id)
      BY <3>1 DEF AnswersTo
    <3> QED BY <3>1, <3>2
  <2>2. CASE i \in 1 .. l /\ j \in 1 .. l
    <3>1. answers'[i] = answers[i] /\ answers'[j] = answers[j]
      BY <1>1, <2>2
    <3>2. answers[i].id = answers[j].id /\ answers[i].id # 0
      BY <1>8, <3>1
    <3> QED BY <1>3, <2>2, <3>2 DEF Told
  <2>3. CASE i \in 1 .. l /\ j = l + 1
    BY <1>8, <2>1, <2>3
  <2>4. CASE j \in 1 .. l /\ i = l + 1
    BY <1>8, <2>1, <2>4
  <2>5. CASE i = l + 1 /\ j = l + 1
    BY <2>5
  <2> QED BY <1>5, <2>2, <2>3, <2>4, <2>5
<1>9. ASSUME NEW framing \in Framings
      PROVE  Cardinality(Errors(framing)') <= Cardinality(GarbageUpTo(k2, framing)')
  <2>1. GarbageUpTo(k2, framing)' = GarbageUpTo(k2, framing)
    BY <1>4 DEF GarbageUpTo
  <2>2. Cardinality(Errors(framing)) <= Cardinality(GarbageUpTo(k2, framing))
    BY <1>3 DEF Told
  <2>3. ASSUME NEW i \in 1 .. l + 1
        PROVE  i \in Errors(framing)' <=>
                 i \in Errors(framing) \/ (i = l + 1 /\ id = 0 /\ framing = f)
    <3>1. CASE i \in 1 .. l
      <4>1. answers'[i] = answers[i] /\ i # l + 1
        BY <1>1, <1>2, <3>1
      <4> QED BY <1>1, <3>1, <4>1 DEF Errors, AnswersTo
    <3>2. CASE i = l + 1
      <4>1. i \notin 1 .. l
        BY <1>2, <3>2
      <4> QED BY <1>1, <3>2, <4>1 DEF Errors, AnswersTo
    <3> QED BY <1>5, <3>1, <3>2
  <2>4. Errors(framing) \subseteq 1 .. l + 1 /\ Errors(framing)' \subseteq 1 .. l + 1
    BY <1>1, <1>2 DEF Errors, AnswersTo
  <2>5. CASE id = 0 /\ framing = f
    <3>1. Errors(framing)' = Errors(framing) \cup {l + 1}
      <4>1. l + 1 \in 1 .. l + 1
        BY <1>2
      <4> QED BY <2>3, <2>4, <2>5, <4>1
    <3>2. l + 1 \notin Errors(framing)
      BY <1>2 DEF Errors, AnswersTo
    <3>3. Cardinality(Errors(framing)') = Cardinality(Errors(framing)) + 1
      BY <3>1, <3>2, Counted, FS_AddElement
    <3>4. GarbageUpTo(k2, framing) = GarbageUpTo(k, framing) \cup {k2}
      <4>1. \A n \in Garbage(framing) : n \in Nat
        BY <1>2, TalkIs DEF Garbage
      <4>2. \A n \in Nat : n <= k2 <=> n <= k \/ n = k2
        BY <2>5
      <4>3. k2 \in Garbage(framing)
        BY <2>5
      <4> QED BY <4>1, <4>2, <4>3 DEF GarbageUpTo
    <3>5. k2 \notin GarbageUpTo(k, framing)
      <4>1. ~ (k2 <= k)
        BY <2>5
      <4> QED BY <4>1 DEF GarbageUpTo
    <3>6. Cardinality(GarbageUpTo(k2, framing)) = Cardinality(GarbageUpTo(k, framing)) + 1
      BY <3>4, <3>5, Counted, FS_AddElement
    <3>7. Cardinality(Errors(framing)) <= Cardinality(GarbageUpTo(k, framing))
      BY DEF Told
    <3>8. Cardinality(Errors(framing)) \in Nat /\ Cardinality(GarbageUpTo(k, framing)) \in Nat
      BY Counted
    <3> QED BY <2>1, <3>3, <3>6, <3>7, <3>8
  <2>6. CASE ~ (id = 0 /\ framing = f)
    <3>1. Errors(framing)' = Errors(framing)
      BY <2>3, <2>4, <2>6
    <3> QED BY <2>1, <2>2, <3>1
  <2> QED BY <2>5, <2>6
<1>10. 1 .. Len(answers') = 1 .. l + 1
  BY <1>1
<1> HIDE DEF l
<1> QED BY <1>6, <1>7, <1>8, <1>9, <1>10 DEF Told

\* A tool call that is waited for keeps to what is asked for.
LEMMA CallTells ==
  ASSUME TypeOK, NEW k \in Nat, Told(k), NEW f, k + 1 \in Requests, f = sent[k + 1].framing,
         calls' = calls \cup {[of |-> k + 1, framing |-> f]}, answers' = answers, sent' = sent
  PROVE  Told(k + 1)'
<1> DEFINE n == k + 1
<1>1. n \in Nat /\ k <= n /\ ~ (n <= k) /\ n <= n /\ n # 0
  OBVIOUS
<1>2. Told(n)
  BY <1>1, ToldMore
<1>3. Requests' = Requests /\ \A m : AnswersTo(m)' = AnswersTo(m)
  BY DEF Requests, AnswersTo
<1>4. AnswersTo(n) = {}
  <2> SUFFICES ASSUME NEW i \in 1 .. Len(answers), answers[i].id = n PROVE FALSE
    BY DEF AnswersTo
  <2>1. n <= k
    BY <1>1 DEF Told
  <2> QED BY <1>1, <2>1
<1> HIDE DEF n
<1>5. ASSUME NEW call \in calls'
      PROVE  /\ call.of \in Requests' /\ call.of <= n
             /\ call.framing = sent'[call.of].framing
             /\ AnswersTo(call.of)' = {}
  <2>1. CASE call \in calls
    BY <1>2, <1>3, <2>1 DEF Told
  <2>2. CASE call = [of |-> n, framing |-> f]
    BY <1>1, <1>3, <1>4, <2>2 DEF n
  <2> QED BY <2>1, <2>2 DEF n
<1>6. /\ \A i \in 1 .. Len(answers') :
           answers'[i].id # 0 => /\ answers'[i].id \in Requests' /\ answers'[i].id <= n
                                 /\ answers'[i].framing = sent'[answers'[i].id].framing
      /\ \A i, j \in 1 .. Len(answers') :
           answers'[i].id = answers'[j].id /\ answers'[i].id # 0 => i = j
  BY <1>2, <1>3 DEF Told
<1>7. ASSUME NEW framing \in Framings
      PROVE  Cardinality(Errors(framing)') <= Cardinality(GarbageUpTo(n, framing)')
  <2>1. Errors(framing)' = Errors(framing) /\ GarbageUpTo(n, framing)' = GarbageUpTo(n, framing)
    BY <1>3 DEF Errors, AnswersTo, GarbageUpTo, Garbage
  <2> QED BY <1>2, <2>1 DEF Told
<1>8. Told(n)'
  BY <1>5, <1>6, <1>7 DEF Told
<1> QED BY <1>8 DEF n

\* The message after the first k, as it was framed: what the server makes of it
LEMMA HandleTells ==
  ASSUME TypeOK, NEW k \in Nat, Told(k), k + 1 \in 1 .. Len(sent), NEW f, f = sent[k + 1].framing,
         Handle(Text(k + 1), f), sent' = sent
  PROVE  /\ Told(k + 1)'
         /\ calls' \subseteq [of : Requests, framing : Framings]
         /\ answers' \in Seq([id : {0} \cup Requests, framing : Framings])
<1> DEFINE n == k + 1
<1>1. n \in 1 .. MaxMessages /\ f \in Framings /\ n \in Nat /\ k <= n
  BY SentIs
<1>2. Text(n)[1] = Byte("{", n)
  BY <1>1, TextIs
<1>3. Text(n)[1].of = n
  <2>1. Byte("{", n).of = n
    BY DEF Byte
  <2> QED BY <1>2, <2>1
<1>4. /\ calls \subseteq [of : Requests, framing : Framings]
      /\ answers \in Seq([id : {0} \cup Requests, framing : Framings])
  BY DEF TypeOK
<1> HIDE DEF n
<1>5. IF sent[n].kind = "garbage"
        THEN answers' = Append(answers, Answer(0, f)) /\ UNCHANGED calls
        ELSE CASE sent[n].kind = "notification" -> NoAnswer
               [] sent[n].kind = "list" ->
                    answers' = Append(answers, Answer(n, f)) /\ UNCHANGED calls
               [] OTHER ->
                    /\ calls' = calls \cup {[of |-> n, framing |-> f]}
                    /\ UNCHANGED answers
  BY <1>3 DEF Handle, n
<1>6. n \in 1 .. Len(sent) /\ f = sent[n].framing
  BY DEF n
<1>7. CASE sent[n].kind = "garbage"
  <2>1. answers' = Append(answers, Answer(0, f)) /\ calls' = calls
    BY <1>5, <1>7
  <2>2. n \in Garbage(f)
    BY <1>6, <1>7 DEF Garbage
  <2>3. Told(n)'
    BY <1>1, <2>1, <2>2, AnswerTells DEF n
  <2>4. answers' \in Seq([id : {0} \cup Requests, framing : Framings])
    BY <1>1, <2>1, AnswersGrow
  <2> QED BY <1>4, <2>1, <2>3, <2>4 DEF n
<1>8. CASE sent[n].kind = "notification"
  <2>1. calls' = calls /\ answers' = answers
    BY <1>5, <1>8 DEF NoAnswer
  <2>2. Told(n)
    BY <1>1, ToldMore
  <2>3. Told(n)'
    BY <2>1, <2>2 DEF Told, Requests, Errors, AnswersTo, GarbageUpTo, Garbage
  <2> QED BY <1>4, <2>1, <2>3 DEF n
<1>9. CASE sent[n].kind = "list"
  <2>1. answers' = Append(answers, Answer(n, f)) /\ calls' = calls
    BY <1>5, <1>9
  <2>2. n \in Requests
    BY <1>6, <1>9 DEF Requests
  <2>3. ~ (n <= k) /\ n # 0
    BY DEF n
  <2>4. AnswersTo(n) = {}
    BY <2>3 DEF AnswersTo, Told
  <2>5. \A call \in calls' : call.of # n
    BY <2>1, <2>3 DEF Told
  <2>6. n <= n
    BY <1>1
  <2>7. Told(n)'
    BY <1>1, <1>6, <2>1, <2>2, <2>3, <2>4, <2>5, <2>6, AnswerTells
  <2>8. answers' \in Seq([id : {0} \cup Requests, framing : Framings])
    BY <1>1, <2>1, <2>2, AnswersGrow
  <2> QED BY <1>4, <2>1, <2>7, <2>8 DEF n
<1>10. CASE sent[n].kind \notin {"garbage", "notification", "list"}
  <2>1. calls' = calls \cup {[of |-> n, framing |-> f]} /\ answers' = answers
    BY <1>5, <1>10
  <2>2. n \in Requests
    BY <1>6, <1>10 DEF Requests
  <2>3. Told(n)'
    BY <1>6, <2>1, <2>2, CallTells DEF n
  <2>4. calls' \subseteq [of : Requests, framing : Framings]
    BY <1>1, <1>4, <2>1, <2>2
  <2> QED BY <1>4, <2>1, <2>3, <2>4 DEF n
<1> QED BY <1>7, <1>8, <1>9, <1>10

-----------------------------------------------------------------------------
(* The steps                                                               *)

\* What does not touch the stream leaves what it reads.
LEMMA StreamKept ==
  ASSUME NEW k, NEW b, NEW p, Reads(Stream, k, b, p), sent' = sent, Stream' = Stream
  PROVE  Reads(Stream, k, b, p)'
BY DEF Reads, Gap, LiesAt, FrameLen

\* What does not touch the client's messages, what is owed and what was answered
\* leaves what was told.
LEMMA TalkKept ==
  ASSUME NEW k, Told(k), sent' = sent, calls' = calls, answers' = answers
  PROVE  Told(k)'
BY DEF Told, Requests, Errors, AnswersTo, GarbageUpTo, Garbage

\* Bytes that are cut from the buffer are cut from the stream.
LEMMA CutStep ==
  ASSUME TypeOK, NEW k \in Nat, NEW b \in Nat, NEW p \in Offsets, Reads(Stream, k, b, p),
         NEW k2 \in k .. Len(sent), NEW c \in Nat, NEW b2 \in Nat, p[k2 + 1] = c + b2,
         c <= Len(buffer), BlankAt(Stream, c, b2), Gap(k2, b2),
         buffer' = SubSeq(buffer, c + 1, Len(buffer)), wire' = wire, sent' = sent
  PROVE  buffer' \in Seq(Bytes) /\ \E q \in Offsets : Reads(Stream, k2, b2, q)'
<1>1. buffer \in Seq(Bytes) /\ wire \in Seq(Bytes)
  BY DEF TypeOK
<1>2. Len(buffer) \in Nat
  BY <1>1
<1>3. c \in 0 .. Len(buffer)
  BY <1>2
<1> DEFINE u == SubSeq(buffer, c + 1, Len(buffer))
<1>4. /\ u \in Seq(Bytes)
      /\ Len(u \o wire) = Len(buffer \o wire) - c
      /\ \A i \in 1 .. Len(buffer \o wire) - c : (u \o wire)[i] = (buffer \o wire)[c + i]
  <2>1. CutFront(Bytes, buffer, wire, c)
    BY <1>1, <1>3, CutInFront
  <2> QED BY <2>1 DEF CutFront
<1> HIDE DEF u
<1>5. PICK s : s = buffer \o wire
  OBVIOUS
<1>6. PICK t : t = u \o wire
  OBVIOUS
<1>7. Stream = s /\ Stream' = t
  BY <1>5, <1>6 DEF Stream, u
<1>8. s \in Seq(Bytes)
  BY <1>1, <1>5, ConcatPointwise
<1>9. t \in Seq(Bytes)
  <2>1. u \in Seq(Bytes)
    BY <1>4
  <2> QED BY <1>1, <1>6, <2>1, ConcatPointwise
<1>10. CutOf(t, s, c)
  BY <1>4, <1>5, <1>6 DEF CutOf
<1>11. BlankAt(s, c, b2) /\ Reads(s, k, b, p)
  BY <1>7
<1>12. PICK q \in Offsets : Reads(t, k2, b2, q)
  <2>1. Reads(t, k2, b2, [n \in Nat |-> p[n] - c])
    BY <1>8, <1>9, <1>10, <1>11, CutReads
  <2>2. [n \in Nat |-> p[n] - c] \in Offsets
    BY DEF Offsets
  <2> QED BY <2>1, <2>2
<1>13. Reads(t, k2, b2, q)'
  BY <1>12 DEF Reads, Gap, LiesAt, FrameLen
<1>14. Reads(Stream, k2, b2, q)'
  BY <1>7, <1>13 DEF Reads
<1> QED BY <1>4, <1>14 DEF u

\* A line
LEMMA TakeLineKeeps ==
  ASSUME McpInv, TakeLine
  PROVE  McpInv'
<1>1. TypeOK /\ Polite /\ sent' = sent /\ wire' = wire /\ closed' = closed /\ server' = server
  BY DEF McpInv, TakeLine
<1>2. PICK k \in Nat, b \in Nat, p \in Offsets : Reads(Stream, k, b, p) /\ Told(k)
  BY DEF McpInv
<1>3. PICK c : c = Min(Sorted("nl"))
  OBVIOUS
<1>4. /\ LooksLikeJsonLine /\ Sorted("nl") # {}
      /\ buffer' = SubSeq(buffer, c + 1, Len(buffer)) /\ draining' = TRUE
      /\ IF c = 1 THEN NoAnswer ELSE Handle(SubSeq(buffer, 1, c - 1), "jsonl")
  BY <1>3 DEF TakeLine, Cut
<1>5. /\ k < Len(sent) /\ sent[k + 1].framing = "jsonl"
      /\ b # 0 => c = 1 /\ Len(buffer) >= 1
      /\ b = 0 => c = 3 /\ Len(buffer) >= 3 /\ SubSeq(buffer, 1, 2) = Text(k + 1)
  BY <1>1, <1>2, <1>3, <1>4, LineIs
<1>6. Stream \in Seq(Bytes) /\ Len(sent) \in Nat
  BY <1>1, BufferIs, TalkIs
<1>7. /\ k + 1 \in 1 .. Len(sent) /\ LiesAt(Stream, k + 1, b)
      /\ p[k + 2] = b + FrameLen(k + 1) + sent[k + 1].blanks
  BY <1>1, <1>2, <1>5, <1>6, NextLies
<1>8. ASSUME NEW m \in Nat, Told(m)', buffer' \in Seq(Bytes),
             calls' \subseteq [of : Requests, framing : Framings],
             answers' \in Seq([id : {0} \cup Requests, framing : Framings]),
             NEW d \in Nat, \E q \in Offsets : Reads(Stream, m, d, q)'
      PROVE  McpInv'
  <2>1. Requests' = Requests
    BY <1>1 DEF Requests
  <2>2. TypeOK'
    BY <1>1, <1>4, <1>8, <2>1 DEF TypeOK
  <2>3. Polite'
    BY <1>1 DEF Polite
  <2> QED BY <1>8, <2>2, <2>3 DEF McpInv
<1>9. CASE b # 0
  <2>1. c = 1 /\ Len(buffer) >= 1 /\ calls' = calls /\ answers' = answers
    BY <1>4, <1>5, <1>9 DEF NoAnswer
  <2>2. PICK d \in Nat : b = 1 + d
    <3>1. b - 1 \in Nat /\ b = 1 + (b - 1)
      BY <1>9
    <3> QED BY <3>1
  <2>3. p[k + 1] = 1 + d /\ k \in k .. Len(sent)
    BY <1>2, <1>5, <1>6, <2>2 DEF Reads
  <2>4. BlankAt(Stream, 1, d)
    <3> SUFFICES ASSUME NEW i \in 1 .. d PROVE Stream[1 + i].sort = "nl"
      BY DEF BlankAt
    <3>1. 1 + i \in 1 .. b
      BY <2>2
    <3> QED BY <1>2, <3>1 DEF Reads
  <2>5. Gap(k, d)
    <3>1. sent[k + 1].framing # "headers"
      BY <1>5
    <3> QED BY <1>5, <3>1 DEF Gap
  <2>6. buffer' \in Seq(Bytes) /\ \E q \in Offsets : Reads(Stream, k, d, q)'
    BY <1>1, <1>2, <1>4, <2>1, <2>3, <2>4, <2>5, CutStep
  <2>7. Told(k)'
    BY <1>1, <1>2, <2>1, TalkKept
  <2>8. /\ calls' \subseteq [of : Requests, framing : Framings]
        /\ answers' \in Seq([id : {0} \cup Requests, framing : Framings])
    BY <1>1, <2>1 DEF TypeOK
  <2> QED BY <1>8, <2>6, <2>7, <2>8
<1>10. CASE b = 0
  <2>1. c = 3 /\ Len(buffer) >= 3 /\ SubSeq(buffer, 1, 2) = Text(k + 1)
    BY <1>5, <1>10
  <2>2. Handle(Text(k + 1), "jsonl")
    <3>1. c # 1 /\ c - 1 = 2
      BY <2>1
    <3> QED BY <1>4, <2>1, <3>1
  <2>3. /\ Told(k + 1)'
        /\ calls' \subseteq [of : Requests, framing : Framings]
        /\ answers' \in Seq([id : {0} \cup Requests, framing : Framings])
    BY <1>1, <1>2, <1>5, <1>7, <2>2, HandleTells
  <2>4. PICK d \in Nat : d = sent[k + 1].blanks
    BY <1>1, <1>7, SentIs
  <2>5. FrameLen(k + 1) = 3
    BY <1>5 DEF FrameLen
  <2>6. p[k + 2] = 3 + d
    BY <1>7, <1>10, <2>4, <2>5
  <2>7. k + 1 \in k .. Len(sent) /\ (k + 1) + 1 = k + 2 /\ 3 \in Nat
    BY <1>5, <1>6
  <2>8. BlankAt(Stream, 3, d)
    <3>1. \A i \in 1 .. sent[k + 1].blanks : Stream[b + FrameLen(k + 1) + i].sort = "nl"
      BY <1>7 DEF LiesAt
    <3>2. b + FrameLen(k + 1) = 3
      BY <1>10, <2>5
    <3> QED BY <2>4, <3>1, <3>2 DEF BlankAt
  <2>9. Gap(k + 1, d)
    <3>1. CASE k + 1 < Len(sent)
      <4>1. k + 2 \in 2 .. Len(sent) /\ (k + 2) - 1 = k + 1
        BY <1>6, <3>1
      <4>2. sent[k + 2].framing = "headers" => sent[k + 1].blanks < 2
        BY <1>1, <4>1 DEF Polite
      <4> QED BY <2>4, <2>7, <3>1, <4>2 DEF Gap
    <3>2. CASE ~ (k + 1 < Len(sent))
      <4>1. k + 1 # 0 /\ d <= sent[k + 1].blanks
        BY <2>4
      <4> QED BY <3>2, <4>1 DEF Gap
    <3> QED BY <3>1, <3>2
  <2>10. buffer' \in Seq(Bytes) /\ \E q \in Offsets : Reads(Stream, k + 1, d, q)'
    <3>1. buffer' = SubSeq(buffer, 3 + 1, Len(buffer)) /\ 3 <= Len(buffer)
      <4>1. Len(buffer) \in Nat
        BY <1>1, BufferIs
      <4> QED BY <1>4, <2>1, <4>1
    <3>2. p[(k + 1) + 1] = 3 + d
      BY <2>6, <2>7
    <3> QED BY <1>1, <1>2, <2>7, <2>8, <2>9, <3>1, <3>2, CutStep
  <2> QED BY <1>8, <2>3, <2>10
<1> QED BY <1>9, <1>10

\* A message behind a header
LEMMA TakeFramedKeeps ==
  ASSUME McpInv, TakeFramed
  PROVE  McpInv'
<1>1. TypeOK /\ Polite /\ sent' = sent /\ wire' = wire /\ closed' = closed /\ server' = server
  BY DEF McpInv, TakeFramed
<1>2. PICK k \in Nat, b \in Nat, p \in Offsets : Reads(Stream, k, b, p) /\ Told(k)
  BY DEF McpInv
<1>3. Stream \in Seq(Bytes) /\ Len(sent) \in Nat /\ Len(buffer) \in Nat
  BY <1>1, BufferIs, TalkIs
<1>4. PICK e : e = Boundary
  OBVIOUS
<1>5. /\ ~ LooksLikeJsonLine /\ Boundaries # {} /\ HasHeader
      /\ Len(buffer) >= e + 1 + 2
      /\ buffer' = SubSeq(buffer, (e + 1 + 2) + 1, Len(buffer)) /\ draining' = TRUE
      /\ Handle(SubSeq(buffer, e + 2, e + 1 + 2), "headers")
  BY <1>4 DEF TakeFramed, Cut, Announced
<1>6. Len(buffer) > b
  <2>1. ~ (Len(buffer) <= b)
    BY <1>1, <1>2, <1>5, FrameIs
  <2> QED BY <1>3, <2>1
<1>7. k < Len(sent) /\ sent[k + 1].framing = "headers" /\ e = b + 2
  BY <1>1, <1>2, <1>4, <1>5, <1>6, FrameIs
<1>8. e + 1 + 2 = b + 5 /\ e + 2 = b + 4 /\ b + 5 \in Nat
  BY <1>7
<1>9. Len(buffer) >= b + 5
  BY <1>5, <1>8
<1>10. SubSeq(buffer, b + 4, b + 5) = Text(k + 1)
  BY <1>1, <1>2, <1>5, <1>6, <1>9, FrameIs
<1>11. Handle(Text(k + 1), "headers")
  BY <1>5, <1>8, <1>10
<1>12. /\ k + 1 \in 1 .. Len(sent) /\ LiesAt(Stream, k + 1, b)
       /\ p[k + 2] = b + FrameLen(k + 1) + sent[k + 1].blanks
  BY <1>1, <1>2, <1>3, <1>7, NextLies
<1>13. /\ Told(k + 1)'
       /\ calls' \subseteq [of : Requests, framing : Framings]
       /\ answers' \in Seq([id : {0} \cup Requests, framing : Framings])
  BY <1>1, <1>2, <1>7, <1>11, <1>12, HandleTells
<1>14. PICK d \in Nat : d = sent[k + 1].blanks
  BY <1>1, <1>12, SentIs
<1>15. FrameLen(k + 1) = 5
  BY <1>7 DEF FrameLen
<1>16. PICK c \in Nat : c = b + 5
  BY <1>8
<1>17. p[k + 2] = c + d /\ b + FrameLen(k + 1) = c
  BY <1>12, <1>14, <1>15, <1>16
<1>18. k + 1 \in k .. Len(sent) /\ (k + 1) + 1 = k + 2
  BY <1>3, <1>7
<1>19. BlankAt(Stream, c, d)
  <2>1. \A i \in 1 .. sent[k + 1].blanks : Stream[b + FrameLen(k + 1) + i].sort = "nl"
    BY <1>12 DEF LiesAt
  <2> QED BY <1>14, <1>17, <2>1 DEF BlankAt
<1>20. Gap(k + 1, d)
  <2>1. CASE k + 1 < Len(sent)
    <3>1. k + 2 \in 2 .. Len(sent) /\ (k + 2) - 1 = k + 1
      BY <1>3, <2>1
    <3>2. sent[k + 2].framing = "headers" => sent[k + 1].blanks < 2
      BY <1>1, <3>1 DEF Polite
    <3> QED BY <1>14, <1>18, <2>1, <3>2 DEF Gap
  <2>2. CASE ~ (k + 1 < Len(sent))
    <3>1. k + 1 # 0 /\ d <= sent[k + 1].blanks
      BY <1>14
    <3> QED BY <2>2, <3>1 DEF Gap
  <2> QED BY <2>1, <2>2
<1>21. buffer' \in Seq(Bytes) /\ \E q \in Offsets : Reads(Stream, k + 1, d, q)'
  <2>1. buffer' = SubSeq(buffer, c + 1, Len(buffer))
    BY <1>5, <1>8, <1>16
  <2>2. c <= Len(buffer)
    BY <1>3, <1>9, <1>16
  <2>3. p[(k + 1) + 1] = c + d
    BY <1>17, <1>18
  <2> QED BY <1>1, <1>2, <1>18, <1>19, <1>20, <2>1, <2>2, <2>3, CutStep
<1>22. TypeOK'
  <2>1. Requests' = Requests
    BY <1>1 DEF Requests
  <2> QED BY <1>1, <1>5, <1>13, <1>21, <2>1 DEF TypeOK
<1>23. Polite'
  BY <1>1 DEF Polite
<1> QED BY <1>13, <1>21, <1>22, <1>23 DEF McpInv

\* Blank lines that are dropped
LEMMA DropHeaderKeeps ==
  ASSUME McpInv, DropHeader
  PROVE  McpInv'
<1>1. /\ TypeOK /\ Polite /\ sent' = sent /\ wire' = wire /\ closed' = closed /\ server' = server
      /\ calls' = calls /\ answers' = answers /\ draining' = FALSE /\ buffer' = <<>>
      /\ ~ LooksLikeJsonLine /\ Boundaries # {} /\ ~ HasHeader
  BY DEF McpInv, DropHeader, NoAnswer
<1>2. PICK k \in Nat, b \in Nat, p \in Offsets : Reads(Stream, k, b, p) /\ Told(k)
  BY DEF McpInv
<1>3. Stream \in Seq(Bytes) /\ Len(sent) \in Nat /\ Len(buffer) \in Nat
  BY <1>1, BufferIs, TalkIs
<1>4. Len(buffer) <= b
  <2>1. ~ (Len(buffer) > b)
    BY <1>1, <1>2, FrameIs
  <2> QED BY <1>3, <2>1
<1>5. PICK c \in Nat : c = Len(buffer)
  BY <1>3
<1>6. PICK d \in Nat : b = c + d
  <2>1. b - c \in Nat /\ b = c + (b - c)
    BY <1>4, <1>5
  <2> QED BY <2>1
<1>7. k \in k .. Len(sent) /\ p[k + 1] = c + d /\ c <= Len(buffer)
  BY <1>2, <1>3, <1>5, <1>6 DEF Reads
<1>8. BlankAt(Stream, c, d)
  <2> SUFFICES ASSUME NEW i \in 1 .. d PROVE Stream[c + i].sort = "nl"
    BY DEF BlankAt
  <2>1. c + i \in 1 .. b
    BY <1>6
  <2> QED BY <1>2, <2>1 DEF Reads
<1>9. Gap(k, d)
  <2>1. Gap(k, b) /\ d <= b
    BY <1>2, <1>6 DEF Reads
  <2>2. CASE k < Len(sent)
    <3>1. sent[k + 1].framing = "headers" => b < 2
      BY <2>1, <2>2 DEF Gap
    <3>2. b < 2 => d < 2
      BY <2>1
    <3> QED BY <2>2, <3>1, <3>2 DEF Gap
  <2>3. CASE ~ (k < Len(sent)) /\ k = 0
    <3>1. b <= 0
      BY <2>1, <2>3 DEF Gap
    <3>2. d <= 0
      BY <2>1, <3>1
    <3> QED BY <2>3, <3>2 DEF Gap
  <2>4. CASE ~ (k < Len(sent)) /\ k # 0
    <3>1. b <= sent[k].blanks
      BY <2>1, <2>4 DEF Gap
    <3>2. k \in 1 .. Len(sent)
      BY <1>2, <1>3, <2>4 DEF Reads
    <3>3. sent[k].blanks \in Nat
      BY <1>1, <3>2, SentIs
    <3>4. d <= sent[k].blanks
      BY <2>1, <3>1, <3>3
    <3> QED BY <2>4, <3>4 DEF Gap
  <2> QED BY <2>2, <2>3, <2>4
<1>10. buffer' = SubSeq(buffer, c + 1, Len(buffer))
  <2>1. buffer \in Seq(Bytes)
    BY <1>1 DEF TypeOK
  <2>2. SubSeq(buffer, Len(buffer) + 1, Len(buffer)) = <<>>
    BY <1>3, <2>1
  <2> QED BY <1>1, <1>5, <2>2
<1>11. buffer' \in Seq(Bytes) /\ \E q \in Offsets : Reads(Stream, k, d, q)'
  BY <1>1, <1>2, <1>7, <1>8, <1>9, <1>10, CutStep
<1>12. Told(k)'
  BY <1>1, <1>2, TalkKept
<1>13. TypeOK'
  <2>1. Requests' = Requests
    BY <1>1 DEF Requests
  <2> QED BY <1>1, <1>11, <2>1 DEF TypeOK
<1>14. Polite'
  BY <1>1 DEF Polite
<1> QED BY <1>11, <1>12, <1>13, <1>14 DEF McpInv

\* Bytes that arrive move from the wire to the buffer.
LEMMA ArriveKeeps ==
  ASSUME McpInv, NEW count \in 1 .. Len(wire), Arrive(count)
  PROVE  McpInv'
<1>1. /\ TypeOK /\ Polite /\ sent' = sent /\ closed' = closed /\ server' = server
      /\ calls' = calls /\ answers' = answers /\ draining' = TRUE
      /\ buffer' = buffer \o SubSeq(wire, 1, count)
      /\ wire' = SubSeq(wire, count + 1, Len(wire))
  BY DEF McpInv, Arrive
<1>2. PICK k \in Nat, b \in Nat, p \in Offsets : Reads(Stream, k, b, p) /\ Told(k)
  BY DEF McpInv
<1>3. buffer \in Seq(Bytes) /\ wire \in Seq(Bytes) /\ count \in 0 .. Len(wire)
  BY <1>1 DEF TypeOK
<1>4. Shifts(Bytes, buffer, wire, count)
  BY <1>3, Moved
<1>5. buffer' \in Seq(Bytes) /\ wire' \in Seq(Bytes) /\ Stream' = Stream
  BY <1>1, <1>4 DEF Shifts, Stream
<1>6. Reads(Stream, k, b, p)' /\ Told(k)'
  BY <1>1, <1>2, <1>5, StreamKept, TalkKept
<1>7. TypeOK'
  <2>1. Requests' = Requests
    BY <1>1 DEF Requests
  <2> QED BY <1>1, <1>5, <2>1 DEF TypeOK
<1>8. Polite'
  BY <1>1 DEF Polite
<1> QED BY <1>6, <1>7, <1>8 DEF McpInv

\* One more message asks for no less.
LEMMA AskTells ==
  ASSUME TypeOK, Polite, NEW message \in Menu, Ask(message), NEW k \in Nat, k <= Len(sent), Told(k)
  PROVE  /\ Told(k)' /\ Requests \subseteq Requests'
         /\ calls' = calls /\ answers' = answers
<1>1. calls' = calls /\ answers' = answers
  BY DEF Ask
<1>2. /\ Len(sent') = Len(sent) + 1 /\ \A n \in 1 .. Len(sent) : sent'[n] = sent[n]
  BY AskSends
<1>3. Len(sent) \in Nat /\ \A n \in Requests : n \in 1 .. Len(sent)
  BY TalkIs
<1>4. \A n \in 1 .. Len(sent) : n \in 1 .. Len(sent')
  BY <1>2, <1>3
<1>5. Requests \subseteq Requests'
  BY <1>2, <1>4 DEF Requests
<1>6. ASSUME NEW f PROVE GarbageUpTo(k, f)' = GarbageUpTo(k, f)
  <2>1. \A n \in 1 .. Len(sent') : n <= k => n \in 1 .. Len(sent)
    BY <1>2, <1>3
  <2> QED BY <1>2, <1>4, <2>1 DEF GarbageUpTo, Garbage
<1>7. \A n : AnswersTo(n)' = AnswersTo(n)
  BY <1>1 DEF AnswersTo
<1>8. \A f : Errors(f)' = Errors(f)
  BY <1>1 DEF Errors, AnswersTo
<1>9. ASSUME NEW call \in calls'
      PROVE  /\ call.of \in Requests' /\ call.of <= k
             /\ call.framing = sent'[call.of].framing
             /\ AnswersTo(call.of)' = {}
  BY <1>1, <1>2, <1>3, <1>5, <1>7 DEF Told
<1>10. ASSUME NEW i \in 1 .. Len(answers'), answers'[i].id # 0
       PROVE  /\ answers'[i].id \in Requests' /\ answers'[i].id <= k
              /\ answers'[i].framing = sent'[answers'[i].id].framing
  BY <1>1, <1>2, <1>3, <1>5, <1>10 DEF Told
<1>11. \A i, j \in 1 .. Len(answers') :
         answers'[i].id = answers'[j].id /\ answers'[i].id # 0 => i = j
  BY <1>1 DEF Told
<1>12. \A f \in Framings : Cardinality(Errors(f)') <= Cardinality(GarbageUpTo(k, f)')
  BY <1>6, <1>8 DEF Told
<1>13. Told(k)'
  BY <1>9, <1>10, <1>11, <1>12 DEF Told
<1> QED BY <1>1, <1>5, <1>13

\* A message of the client
LEMMA AskKeeps ==
  ASSUME McpInv, NEW message \in Menu, Ask(message)
  PROVE  McpInv'
<1>1. TypeOK /\ Polite
  BY DEF McpInv
<1>2. PICK k \in Nat, b \in Nat, p \in Offsets : Reads(Stream, k, b, p) /\ Told(k)
  BY DEF McpInv
<1>3. (\E q \in Offsets : Reads(Stream, k, b, q)') /\ wire' \in Seq(Bytes)
  BY <1>1, <1>2, AskReads
<1>4. k <= Len(sent)
  BY <1>2 DEF Reads
<1>5. Told(k)' /\ Requests \subseteq Requests' /\ calls' = calls /\ answers' = answers
  BY <1>1, <1>2, <1>4, AskTells
<1>6. sent' \in Seq(Menu) /\ Len(sent') <= MaxMessages /\ Polite'
  BY <1>1, AskSends
<1>7. calls' \subseteq [of : Requests', framing : Framings]
  BY <1>1, <1>5 DEF TypeOK
<1>8. answers' \in Seq([id : {0} \cup Requests', framing : Framings])
  <2> DEFINE Talk == [id : {0} \cup Requests, framing : Framings]
             Talk2 == [id : {0} \cup Requests', framing : Framings]
  <2>1. Talk \subseteq Talk2
    BY <1>5
  <2>2. answers \in Seq(Talk)
    BY <1>1 DEF TypeOK
  <2> HIDE DEF Talk, Talk2
  <2>3. answers \in Seq(Talk2)
    BY <2>1, <2>2
  <2> QED BY <1>5, <2>3 DEF Talk2
<1>9. TypeOK'
  BY <1>1, <1>3, <1>6, <1>7, <1>8 DEF TypeOK, Ask
<1> QED BY <1>3, <1>5, <1>6, <1>9 DEF McpInv

\* The answer of a tool call
LEMMA ReplyKeeps ==
  ASSUME McpInv, NEW call \in calls, Reply(call)
  PROVE  McpInv'
<1>1. /\ TypeOK /\ Polite /\ sent' = sent /\ wire' = wire /\ closed' = closed
      /\ buffer' = buffer /\ draining' = draining /\ server' = server
      /\ calls' = calls \ {call} /\ answers' = Append(answers, Answer(call.of, call.framing))
  BY DEF McpInv, Reply
<1>2. PICK k \in Nat, b \in Nat, p \in Offsets : Reads(Stream, k, b, p) /\ Told(k)
  BY DEF McpInv
<1>3. /\ call.of \in Requests /\ call.of <= k /\ call.framing = sent[call.of].framing
      /\ AnswersTo(call.of) = {} /\ call.of # 0 /\ call.framing \in Framings
  BY <1>1, <1>2, TalkIs DEF Told
<1>4. ASSUME NEW other \in calls' PROVE other.of # call.of
  <2>1. other \in calls /\ other # call
    BY <1>1
  <2>2. other.framing = sent[other.of].framing
    BY <1>2, <2>1 DEF Told
  <2>3. /\ other \in [of : Requests, framing : Framings]
        /\ call \in [of : Requests, framing : Framings]
    BY <1>1, <2>1 DEF TypeOK
  <2> QED BY <1>3, <2>1, <2>2, <2>3
<1>5. k <= k /\ calls' \subseteq calls
  BY <1>1
<1>6. Told(k)'
  BY <1>1, <1>2, <1>3, <1>4, <1>5, AnswerTells
<1>7. answers' \in Seq([id : {0} \cup Requests, framing : Framings])
  BY <1>1, <1>3, AnswersGrow
<1>8. Reads(Stream, k, b, p)'
  BY <1>1, <1>2, StreamKept DEF Stream
<1>9. TypeOK'
  <2>1. Requests' = Requests
    BY <1>1 DEF Requests
  <2>2. calls' \subseteq [of : Requests, framing : Framings]
    BY <1>1, <1>5 DEF TypeOK
  <2> QED BY <1>1, <1>7, <2>1, <2>2 DEF TypeOK
<1>10. Polite'
  BY <1>1 DEF Polite
<1> QED BY <1>6, <1>8, <1>9, <1>10 DEF McpInv

\* Waiting, exiting, hanging up, and steps of others
LEMMA QuietKeeps ==
  ASSUME McpInv, Wait \/ Exit \/ Close \/ UNCHANGED vars
  PROVE  McpInv'
<1>1. /\ TypeOK /\ Polite /\ sent' = sent /\ wire' = wire /\ buffer' = buffer
      /\ calls' = calls /\ answers' = answers
  BY DEF McpInv, Wait, NoAnswer, Exit, Close, vars
<1>2. PICK k \in Nat, b \in Nat, p \in Offsets : Reads(Stream, k, b, p) /\ Told(k)
  BY DEF McpInv
<1>3. Reads(Stream, k, b, p)' /\ Told(k)'
  <2>1. Stream' = Stream
    BY <1>1 DEF Stream
  <2> QED BY <1>1, <1>2, <2>1, StreamKept, TalkKept
<1>4. closed' \in BOOLEAN /\ draining' \in BOOLEAN /\ server' \in {"up", "gone"}
  BY <1>1 DEF TypeOK, Wait, Exit, Close, vars
<1>5. TypeOK'
  <2>1. Requests' = Requests
    BY <1>1 DEF Requests
  <2> QED BY <1>1, <1>4, <2>1 DEF TypeOK
<1>6. Polite'
  BY <1>1 DEF Polite
<1> QED BY <1>3, <1>5, <1>6 DEF McpInv

-----------------------------------------------------------------------------
(* The theorems                                                            *)

\* Nothing was sent, and nothing is read.
LEMMA InitMcp ==
  ASSUME Init
  PROVE  McpInv
<1>1. /\ sent = <<>> /\ wire = <<>> /\ closed = FALSE /\ buffer = <<>> /\ draining = FALSE
      /\ calls = {} /\ answers = <<>> /\ server = "up"
  BY DEF Init
<1>2. Len(sent) = 0 /\ Len(answers) = 0 /\ Len(sent) <= MaxMessages
  BY <1>1, McpAssumption
<1>3. TypeOK
  <2>1. sent \in Seq(Menu) /\ wire \in Seq(Bytes) /\ buffer \in Seq(Bytes)
    BY <1>1
  <2>2. answers \in Seq([id : {0} \cup Requests, framing : Framings])
    BY <1>1
  <2>3. calls \subseteq [of : Requests, framing : Framings]
    BY <1>1
  <2> QED BY <1>1, <1>2, <2>1, <2>2, <2>3 DEF TypeOK
<1>4. Polite
  BY <1>2 DEF Polite
<1> DEFINE p == [n \in Nat |-> 0]
<1>5. p \in Offsets /\ p[1] = 0
  BY DEF Offsets
<1>6. Stream = <<>>
  BY <1>1 DEF Stream
<1>7. Len(Stream) = 0
  BY <1>6
<1>8. Gap(0, 0)
  BY <1>2 DEF Gap
<1>9. Reads(Stream, 0, 0, p)
  BY <1>2, <1>5, <1>7, <1>8 DEF Reads
<1>10. ASSUME NEW f \in Framings PROVE Cardinality(Errors(f)) <= Cardinality(GarbageUpTo(0, f))
  <2>1. Errors(f) = {} /\ GarbageUpTo(0, f) = {}
    BY <1>2 DEF Errors, AnswersTo, GarbageUpTo, Garbage
  <2> QED BY <2>1, FS_EmptySet
<1>11. Told(0)
  BY <1>1, <1>2, <1>10 DEF Told
<1> QED BY <1>3, <1>4, <1>5, <1>9, <1>11 DEF McpInv

\* Every step
LEMMA NextMcp ==
  ASSUME McpInv, [Next]_vars
  PROVE  McpInv'
<1>1. CASE TakeLine
  BY <1>1, TakeLineKeeps
<1>2. CASE TakeFramed
  BY <1>2, TakeFramedKeeps
<1>3. CASE DropHeader
  BY <1>3, DropHeaderKeeps
<1>4. CASE Wait \/ Exit \/ Close \/ UNCHANGED vars
  BY <1>4, QuietKeeps
<1>5. CASE \E count \in 1 .. Len(wire) : Arrive(count)
  BY <1>5, ArriveKeeps
<1>6. CASE \E call \in calls : Reply(call)
  BY <1>6, ReplyKeeps
<1>7. CASE \E message \in Menu : Ask(message)
  BY <1>7, AskKeeps
<1> QED BY <1>1, <1>2, <1>3, <1>4, <1>5, <1>6, <1>7 DEF Next, Serve

\* What the first messages ask for is what the client asked for.
LEMMA AsAsked ==
  ASSUME McpInv
  PROVE  AnsweredAsAsked
<1>1. TypeOK
  BY DEF McpInv
<1>2. PICK k \in Nat : Told(k)
  BY DEF McpInv
<1>3. /\ Len(sent) \in Nat /\ Len(answers) \in Nat
      /\ \A n \in Requests : n \in 1 .. Len(sent) /\ n # 0
  BY <1>1, TalkIs
<1>4. ASSUME NEW n \in 1 .. Len(sent)
      PROVE  Cardinality(AnswersTo(n)) <= IF n \in Requests THEN 1 ELSE 0
  <2>1. n # 0
    BY <1>3
  <2>2. CASE AnswersTo(n) = {}
    <3>1. Cardinality(AnswersTo(n)) = 0
      BY <2>2, FS_EmptySet
    <3> QED BY <3>1
  <2>3. CASE AnswersTo(n) # {}
    <3>1. PICK i \in AnswersTo(n) : TRUE
      BY <2>3
    <3>2. i \in 1 .. Len(answers) /\ answers[i].id = n
      BY <3>1 DEF AnswersTo
    <3>3. n \in Requests
      BY <1>2, <2>1, <3>2 DEF Told
    <3>4. \A j \in AnswersTo(n) : j = i
      <4> SUFFICES ASSUME NEW j \in AnswersTo(n) PROVE j = i
        OBVIOUS
      <4>1. j \in 1 .. Len(answers) /\ answers[j].id = n
        BY DEF AnswersTo
      <4> QED BY <1>2, <2>1, <3>2, <4>1 DEF Told
    <3>5. AnswersTo(n) = {i}
      BY <3>1, <3>4
    <3>6. Cardinality(AnswersTo(n)) = 1
      BY <3>5, FS_Singleton
    <3> QED BY <3>3, <3>6
  <2> QED BY <2>2, <2>3
<1>5. ASSUME NEW n \in Requests, NEW i \in AnswersTo(n)
      PROVE  answers[i].framing = sent[n].framing
  <2>1. i \in 1 .. Len(answers) /\ answers[i].id = n /\ n # 0
    BY <1>3 DEF AnswersTo
  <2> QED BY <1>2, <2>1 DEF Told
<1>6. ASSUME NEW f \in Framings
      PROVE  Cardinality({i \in AnswersTo(0) : answers[i].framing = f}) <= Cardinality(Garbage(f))
  <2>1. Cardinality(Errors(f)) <= Cardinality(GarbageUpTo(k, f))
    BY <1>2 DEF Told
  <2>2. IsFiniteSet(Garbage(f))
    <3>1. IsFiniteSet(1 .. Len(sent))
      BY <1>3, FS_Interval
    <3>2. Garbage(f) \subseteq 1 .. Len(sent)
      BY DEF Garbage
    <3> QED BY <3>1, <3>2, FS_Subset
  <2>3. GarbageUpTo(k, f) \subseteq Garbage(f)
    BY DEF GarbageUpTo
  <2>4. Cardinality(GarbageUpTo(k, f)) <= Cardinality(Garbage(f))
    BY <2>2, <2>3, FS_Subset
  <2>5. Cardinality(Garbage(f)) \in Nat
    BY <2>2, FS_CardinalityType
  <2>6. Cardinality(Errors(f)) \in Nat /\ Cardinality(GarbageUpTo(k, f)) \in Nat
    BY <1>1, Counted
  <2>7. Cardinality(Errors(f)) <= Cardinality(Garbage(f))
    BY <2>1, <2>4, <2>5, <2>6
  <2> QED BY <2>7 DEF Errors
<1> QED BY <1>4, <1>5, <1>6 DEF AnsweredAsAsked

\* The stream reads as the messages still to be taken, and what is owed and what
\* was answered is what those taken asked for: an inductive invariant of the
\* server, for any menu of well-formed messages and any number of them.
THEOREM StreamReadsRight == Spec => []McpInv
<1>1. Init => McpInv
  BY InitMcp
<1>2. McpInv /\ [Next]_vars => McpInv'
  BY NextMcp
<1> QED BY <1>1, <1>2, PTL DEF Spec

\* The server's state has its type (dynamic-workflows-mcp.js:157).
THEOREM TypeCorrect == Spec => []TypeOK
<1>1. McpInv => TypeOK
  BY DEF McpInv
<1> QED BY <1>1, StreamReadsRight, PTL

\* No request is answered twice or in the other framing than its own, what is
\* not a request is not answered, and there are no more errors with no id than
\* messages that did not parse, however the stream was cut into pieces and
\* whenever the tools are done (dynamic-workflows-mcp.js:171).
THEOREM AnsweredRight == Spec => []AnsweredAsAsked
<1>1. McpInv => AnsweredAsAsked
  BY AsAsked
<1> QED BY <1>1, StreamReadsRight, PTL
=============================================================================
